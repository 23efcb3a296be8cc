--------------------------- MODULE FriendRelation ---------------------------
(***************************************************************************)
(* What the friends feature promises its users, with no handlers, rows or  *)
(* locks: two users are strangers, one of them has asked the other, or     *)
(* they are friends.  Friends.tla is shown to implement it.                *)
(*                                                                         *)
(* A direction <<u, v>> reads "u asks v"; a pair {u, v} is a friendship.   *)
(***************************************************************************)
CONSTANT Users

VARIABLES asked,    \* directions whose request awaits an answer
          friends   \* pairs that are friends

vars == <<asked, friends>>

Dirs == {d \in Users \X Users : d[1] # d[2]}
Rev(d) == <<d[2], d[1]>>
Pair(d) == {d[1], d[2]}

Init == asked = {} /\ friends = {}

(* A request is made, or is already there: strangers only, one at a time.  *)
Ask(d) ==
  /\ Pair(d) \notin friends
  /\ Rev(d) \notin asked
  /\ asked' = asked \cup {d}
  /\ UNCHANGED friends

(* The request is rejected by the one asked or cancelled by the asker.     *)
Settle(d) ==
  /\ d \in asked
  /\ asked' = asked \ {d}
  /\ UNCHANGED friends

(* The one asked accepts: the request becomes the friendship.              *)
Accept(d) ==
  /\ d \in asked
  /\ asked' = asked \ {d}
  /\ friends' = friends \cup {Pair(d)}

(* One of the two ends the friendship.                                     *)
Part(d) ==
  /\ friends' = friends \ {Pair(d)}
  /\ UNCHANGED asked

Next == \E d \in Dirs : Ask(d) \/ Settle(d) \/ Accept(d) \/ Part(d)

Spec == Init /\ [][Next]_vars

(***************************************************************************)
(* The weaker promise that survives overlapping calls: a request may cross *)
(* the opposite one, or reach someone who has just become a friend, but a  *)
(* friendship still comes only out of a request that is being accepted.    *)
(***************************************************************************)
AskAnyway(d) ==
  /\ asked' = asked \cup {d}
  /\ UNCHANGED friends

LooseNext == \E d \in Dirs : AskAnyway(d) \/ Settle(d) \/ Accept(d) \/ Part(d)

LooseSpec == Init /\ [][LooseNext]_vars
=============================================================================
