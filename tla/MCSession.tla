------------------------------ MODULE MCSession ------------------------------
(* Constants of the model-checking runs of Session.                        *)
EXTENDS Session

CONSTANTS a1, a2, l1, l2
=============================================================================
