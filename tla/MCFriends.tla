------------------------------ MODULE MCFriends ------------------------------
(* Constants of the model-checking runs of Friends.                         *)
EXTENDS FriendsAlone, TLC

CONSTANTS u1, u2, u3, c1, c2

(* The userBlocks rows a run may start with: this one or none.              *)
OneBlock == {<<u1, u2>>}
=============================================================================
