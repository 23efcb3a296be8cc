------------------------------ MODULE MCFriendChat ------------------------------
(* Constants of the model-checking run of FriendChat.                     *)
EXTENDS FriendChat

CONSTANTS me, friend
=============================================================================
