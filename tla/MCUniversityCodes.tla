-------------------------- MODULE MCUniversityCodes --------------------------
(* Constants of the model-checking run of UniversityCodes.                 *)
EXTENDS UniversityCodes, TLC

CONSTANTS e1, e2, k1, k2, c1, c2

Interchangeable == Permutations({k1, k2}) \cup Permutations({c1, c2})
=============================================================================
