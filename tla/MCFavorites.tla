------------------------------ MODULE MCFavorites ------------------------------
(* Constants of the model-checking run of Favorites.                      *)
EXTENDS Favorites, TLC

CONSTANTS p1, c1, c2, l1, l2

Interchangeable == Permutations(Calls) \cup Permutations(Loads)
=============================================================================
