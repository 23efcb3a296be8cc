----------------------------- MODULE MCChatGateways -----------------------------
(* Constants of the model-checking run of ChatGateways.                    *)
EXTENDS ChatGateways

CONSTANT friend
=============================================================================
