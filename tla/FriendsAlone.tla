----------------------------- MODULE FriendsAlone -----------------------------
(***************************************************************************)
(* Friends with one history variable more, which says for how long the     *)
(* strict promise of FriendRelation is kept: until two calls overlap, or   *)
(* someone is asked by e-mail.                                             *)
(***************************************************************************)
EXTENDS Friends

VARIABLE alone  \* has no call overlapped another, and none asked by e-mail?

Running == {c \in Calls : call[c].pc # "idle"}

(* The request by e-mail looks at neither blocks nor the opposite request. *)
Watched ==
  alone' = (alone /\ Cardinality(Running') <= 1 /\ \A c \in Calls : call'[c].op # "email")

WatchedInit == Init /\ alone = TRUE
WatchedNext == Next /\ Watched
WatchedSpec ==
  WatchedInit /\ [][WatchedNext]_<<vars, alone>> /\ \A c \in Calls : SF_vars(Step(c))

(* As long as the handlers run one after the other, failing or not, they   *)
(* implement the whole promise, and whoever listFriends shows is backed by *)
(* the request the friendship came from.                                   *)
StrictWhileAlone ==
  /\ Relation!Init
  /\ [][alone' => Relation!Next]_(Relation!vars)
  /\ [](alone => FriendsWereAccepted)
=============================================================================
