------------------------------- MODULE MCRealtime -------------------------------
(* Constants of the model-checking run of Realtime.                        *)
EXTENDS Realtime

CONSTANTS phone, tablet
=============================================================================
