------------------------------ MODULE MCProducts ------------------------------
(* Constants of the model-checking run of Products.                        *)
EXTENDS Products, TLC

CONSTANTS c1, c2

NewestOrTitle == {<<"at", "DESC">>, <<"title", "ASC">>}

Interchangeable == Permutations({c1, c2})
=============================================================================
