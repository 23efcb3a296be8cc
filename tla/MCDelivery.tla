------------------------------ MODULE MCDelivery ------------------------------
(* Constants of the model-checking run of Accounts and Delivery.           *)
EXTENDS Delivery, TLC

CONSTANTS acc, p1, p2, c1, c2

Interchangeable == Permutations({p1, p2}) \cup Permutations({c1, c2})
=============================================================================
