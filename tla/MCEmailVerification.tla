------------------------- MODULE MCEmailVerification -------------------------
(* Constants of the model-checking run of EmailVerification.              *)
EXTENDS EmailVerification, TLC

CONSTANTS k1, k2, c1, c2

Interchangeable == Permutations({k1, k2}) \cup Permutations({c1, c2})
=============================================================================
