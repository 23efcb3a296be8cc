---------------------------- MODULE FriendsProofs ----------------------------
(***************************************************************************)
(* Proofs about Friends, for any number of users and of concurrent calls.  *)
(* The inductive invariant IInv adds to the checked invariants what a call *)
(* knows between its statements: one that passed a block check is still    *)
(* not blocked (nothing adds a block), and an accept about to commit has   *)
(* its room.                                                               *)
(* That calls which never overlap implement the strict FriendRelation      *)
(* needs one thing more, AloneInv: what the one call under way has read    *)
(* still stands.                                                           *)
(***************************************************************************)
EXTENDS FriendsAlone, FiniteSetTheorems, TLAPS

(* What the two ways a handler moves on do to the call's record.           *)
LEMMA GotoType ==
  ASSUME TypeOK, NEW c \in Calls, NEW label \in Labels,
         Goto(c, label), call[c].pc # "idle"
  PROVE  /\ call' \in [Calls -> CallRecord]
         /\ \A e \in Calls : call'[e].pc # "idle" => call'[e].d \in Dirs
         /\ \A e \in Calls \ {c} : call'[e] = call[e]
         /\ call'[c].pc = label
         /\ call'[c].op = call[c].op
         /\ call'[c].me = call[c].me
         /\ call'[c].d = call[c].d
<1>1. call' = [call EXCEPT ![c] = [call[c] EXCEPT !.pc = label]]
  BY DEF Goto, TypeOK
<1>2. [call[c] EXCEPT !.pc = label] \in CallRecord
  BY DEF TypeOK, CallRecord
<1> QED BY <1>1, <1>2 DEF Goto, TypeOK, CallRecord

LEMMA AnswerType ==
  ASSUME TypeOK, NEW c \in Calls, Answer(c)
  PROVE  /\ call' \in [Calls -> CallRecord]
         /\ \A e \in Calls : call'[e].pc # "idle" => call'[e].d \in Dirs
         /\ \A e \in Calls \ {c} : call'[e] = call[e]
         /\ call'[c].pc = "idle"
         /\ call'[c].op = "none"
<1>1. IdleCall \in CallRecord
  BY DEF IdleCall, CallRecord, Labels, Status
<1> QED BY <1>1 DEF Answer, TypeOK, IdleCall

LEMMA FirstLabelType ==
  ASSUME NEW op \in AllOps
  PROVE  FirstLabel(op) \in Labels \ (HoldsRequest \cup {"idle"})
BY DEF FirstLabel, AllOps, Labels, HoldsRequest, HoldsConn, NeedsConn

LEMMA AwaitsType ==
  ASSUME NEW label \in NeedsConn
  PROVE  /\ Awaits(label) \in Labels \ HoldsRequest
         /\ label # "idle"
         /\ Awaits(label) = "accept.lock" => label = "accept.begin"
         /\ Awaits(label) # "accept.begin"
BY DEF NeedsConn, Awaits, Labels, HoldsConn, HoldsRequest

LEMMA InitType == Init => TypeOK
<1> SUFFICES ASSUME Init PROVE TypeOK OBVIOUS
<1>1. IdleCall \in CallRecord
  BY DEF IdleCall, CallRecord, Labels, Status
<1> QED BY <1>1, FriendsAssumption
  DEF Init, TypeOK, Status, IdleCall
(* A call of the running handler c, at the label where it is.              *)
LEMMA RunningType ==
  ASSUME TypeOK, NEW c \in Calls, call[c].pc # "idle"
  PROVE  /\ call[c].d \in Dirs
         /\ Rev(call[c].d) \in Dirs
         /\ Pair(call[c].d) \in Pairs
         /\ call[c].op \in AllOps \cup {"none"}
         /\ call[c].me \in Users \cup {NoUser}
         /\ call[c].seen \in Status
BY DEF TypeOK, CallRecord, Dirs, Rev, Pairs

LEMMA NextType == TypeOK /\ [Next]_vars => TypeOK'
<1> SUFFICES ASSUME TypeOK, [Next]_vars PROVE TypeOK'
  OBVIOUS
<1>1. CASE UNCHANGED vars
  BY <1>1 DEF vars, TypeOK
<1>2. ASSUME NEW c \in Calls, NEW op \in Ops, NEW me \in Users, NEW d \in Dirs,
             Begin(c, op, me, d)
      PROVE  TypeOK'
  <2>1. op \in AllOps
    BY FriendsAssumption
  <2>2. FirstLabel(op) \in Labels
    BY <2>1, FirstLabelType
  <2>3. [pc |-> FirstLabel(op), op |-> op, me |-> me, d |-> d, seen |-> "NONE"]
          \in CallRecord
    BY <2>1, <2>2 DEF CallRecord, Status
  <2> QED BY <1>2, <2>3 DEF Begin, db, TypeOK
<1>3. ASSUME NEW c \in Calls, Step(c)
      PROVE  TypeOK'
  <2>0. call[c].pc # "idle"
    BY <1>3, AwaitsType DEF Step, At, Statement, TakeConn, SendBlockCheck, SendFriendCheck, SendReverseCheck,
         SendInsert, SendFindSame, SendReopen, SendFindNow, EmailFriendCheck,
         EmailInsert, EmailFind, AcceptLock, AcceptBlockCheck, AcceptUpsertFriend,
         AcceptEnsureRoom, AcceptCommit, DecideRead, DecideLoad, DecideWrite,
         Unfriend, Block, Unblock, LockWaitTimesOut, WaitsForLock
  <2> USE RunningType, <2>0
  <2>1. CASE UNCHANGED db /\ \E label \in Labels : Goto(c, label)
    BY <2>1, GotoType DEF db, TypeOK
  <2>2. CASE UNCHANGED db /\ Answer(c)
    BY <2>2, AnswerType DEF db, TypeOK
  <2>3. ASSUME NEW next \in Labels, InsertRequest(c, next),
               UNCHANGED <<friends, blocks, rooms>>
        PROVE  TypeOK'
    <3>1. CASE req[call[c].d] = "NONE"
      BY <2>3, <3>1, AnswerType DEF InsertRequest, TypeOK, Status
    <3>2. CASE req[call[c].d] # "NONE"
      BY <2>3, <3>2, GotoType DEF InsertRequest, TypeOK
    <3> QED BY <3>1, <3>2
  <2>4. CASE SendInsert(c)
    BY <2>3, <2>4 DEF SendInsert, Labels
  <2>5. CASE EmailInsert(c)
    BY <2>3, <2>5 DEF EmailInsert, Labels
  <2>6. CASE SendReopen(c)
    <3>1. "send.find" \in Labels BY DEF Labels
    <3>2. req' \in [Dirs -> Status]
      BY <2>6 DEF SendReopen, TypeOK, Status
    <3> QED BY <2>6, <3>1, <3>2, GotoType DEF SendReopen, TypeOK
  <2>7. CASE AcceptEnsureRoom(c)
    <3>1. "accept.commit" \in Labels BY DEF Labels, HoldsConn, HoldsRequest
    <3>2. rooms' \subseteq Pairs
      BY <2>7 DEF AcceptEnsureRoom, TypeOK
    <3> QED BY <2>7, <3>1, <3>2, GotoType DEF AcceptEnsureRoom, TypeOK
  <2>8. CASE AcceptCommit(c)
    <3>1. req' \in [Dirs -> Status] /\ friends' \subseteq Pairs
      BY <2>8 DEF AcceptCommit, TypeOK, Status
    <3> QED BY <2>8, <3>1, AnswerType DEF AcceptCommit, TypeOK
  <2>9. CASE DecideLoad(c)
    <3>1. req[call[c].d] \in Status BY DEF TypeOK
    <3>2. "decide.write" \in Labels BY DEF Labels, NeedsConn
    <3>3. call' = [call EXCEPT ![c] = [call[c] EXCEPT !.pc = "decide.write",
                                                      !.seen = req[call[c].d]]]
      BY <2>9 DEF DecideLoad, TypeOK
    <3>4. [call[c] EXCEPT !.pc = "decide.write", !.seen = req[call[c].d]] \in CallRecord
      BY <3>1, <3>2 DEF TypeOK, CallRecord
    <3> QED BY <2>9, <3>3, <3>4 DEF DecideLoad, db, TypeOK, CallRecord
  <2>10. CASE DecideWrite(c)
    <3>1. req' \in [Dirs -> Status]
      BY <2>10 DEF DecideWrite, Verdict, TypeOK, Status
    <3> QED BY <2>10, <3>1, AnswerType DEF DecideWrite, TypeOK
  <2>11. CASE Unfriend(c)
    BY <2>11, AnswerType DEF Unfriend, TypeOK
  <2>12. CASE Unblock(c)
    BY <2>12, AnswerType DEF Unblock, TypeOK
  <2>13. CASE \/ SendBlockCheck(c) \/ SendFriendCheck(c) \/ SendReverseCheck(c)
              \/ SendFindSame(c) \/ SendFindNow(c) \/ EmailFriendCheck(c)
              \/ EmailFind(c) \/ AcceptLock(c) \/ AcceptBlockCheck(c)
              \/ AcceptUpsertFriend(c) \/ DecideRead(c) \/ Block(c)
    <3>1. {"send.friend", "send.reverse", "send.insert", "send.reopen",
           "email.insert", "accept.block", "accept.friend", "accept.room",
           "decide.load"} \subseteq Labels
      BY DEF Labels, HoldsRequest, HoldsConn, NeedsConn
    <3> QED BY <2>1, <2>2, <2>13, <3>1
      DEF SendBlockCheck, SendFriendCheck, SendReverseCheck, SendFindSame,
          SendFindNow, EmailFriendCheck, EmailFind, AcceptLock, AcceptBlockCheck,
          AcceptUpsertFriend, DecideRead, Block
  <2>14. CASE TakeConn(c)
    BY <2>1, <2>14, AwaitsType DEF TakeConn
  <2>15. CASE LockWaitTimesOut(c)
    BY <2>2, <2>15 DEF LockWaitTimesOut
  <2> QED BY <1>3, <2>15, <2>14, <2>4, <2>5, <2>6, <2>7, <2>8, <2>9, <2>10, <2>11, <2>12, <2>13
    DEF Step
<1>4. ASSUME NEW c \in Calls, HandlerFails(c)
      PROVE  TypeOK'
  BY <1>4, AnswerType DEF HandlerFails, db, TypeOK
<1> QED BY <1>1, <1>2, <1>3, <1>4 DEF Next

(* Every table and every call's locals stay in their types (TypeOK).       *)
THEOREM TypeCorrect == Spec => []TypeOK
BY InitType, NextType, PTL DEF Spec
-----------------------------------------------------------------------------
(* What a call knows at each of its statements.                            *)
CallInv(c) ==
  /\ call[c].pc \in {"accept.begin", "accept.lock"} => call[c].op = "accept"
  /\ call[c].op = "send" /\ call[c].pc # "send.block" => ~BlockedEither(call[c].d)
  /\ call[c].pc \in HoldsRequest =>
       /\ req[call[c].d] = "PENDING"
       /\ call[c].me = call[c].d[2]
       /\ call[c].op = "accept"
  /\ call[c].pc \in HoldsRequest \ {"accept.block"} => ~BlockedEither(call[c].d)
  /\ call[c].pc = "accept.commit" => Pair(call[c].d) \in rooms

OneHolder ==
  \A c, e \in Calls :
    /\ call[c].pc \in HoldsRequest
    /\ call[e].pc \in HoldsRequest
    /\ call[c].d = call[e].d
    => c = e

IInv ==
  /\ TypeOK
  /\ \A c \in Calls : CallInv(c)
  /\ OneHolder
  /\ OneUpsertPerPair
  /\ FriendsHaveRoom

(* A step of c that leaves alone what the other accepts rely on preserves  *)
(* IInv when it establishes c's own part of it.                            *)
LEMMA Frame ==
  ASSUME IInv, TypeOK', NEW c \in Calls,
         \A e \in Calls \ {c} : call'[e] = call[e],
         \A d \in Dirs : req'[d] # req[d] =>
            \A e \in Calls \ {c} : ~(call[e].pc \in HoldsRequest /\ call[e].d = d),
         blocks' \subseteq blocks,
         rooms \subseteq rooms',
         friends' \subseteq rooms',
         CallInv(c)',
         call'[c].pc \in HoldsRequest =>
            \A e \in Calls \ {c} :
               ~(call[e].pc \in HoldsRequest /\ call[e].d = call'[c].d),
         call'[c].pc \in HoldsFriend =>
            \A e \in Calls \ {c} :
               ~(call[e].pc \in HoldsFriend /\ Pair(call[e].d) = Pair(call'[c].d))
  PROVE  IInv'
<1>1. ASSUME NEW e \in Calls PROVE CallInv(e)'
  <2>1. CASE e = c BY <2>1
  <2>2. CASE e # c
    <3>1. call'[e] = call[e] /\ CallInv(e) BY <2>2 DEF IInv
    <3>2. CASE call[e].pc \in HoldsRequest
      <4>1. call[e].d \in Dirs BY <3>2 DEF IInv, TypeOK, HoldsRequest
      <4>2. req'[call[e].d] = req[call[e].d] BY <2>2, <3>2, <4>1
      <4> QED BY <3>1, <4>2 DEF CallInv, BlockedEither
    <3>3. CASE call[e].pc \notin HoldsRequest
      BY <3>1, <3>3 DEF CallInv, HoldsRequest, BlockedEither
    <3> QED BY <3>2, <3>3
  <2> QED BY <2>1, <2>2
<1>2. OneHolder'
  BY DEF OneHolder, IInv
<1>3. OneUpsertPerPair'
  BY DEF OneUpsertPerPair, IInv, Pair
<1>4. FriendsHaveRoom'
  BY DEF FriendsHaveRoom
<1> QED BY <1>1, <1>2, <1>3, <1>4 DEF IInv

LEMMA InitInv == Init => IInv
<1> SUFFICES ASSUME Init PROVE IInv OBVIOUS
<1>1. \A c \in Calls : call[c].pc = "idle" /\ call[c].op = "none"
  BY DEF Init, IdleCall
<1> QED BY <1>1, InitType
  DEF Init, IInv, CallInv, OneHolder, OneUpsertPerPair, FriendsHaveRoom,
      HoldsRequest, HoldsFriend

(* A call that answers leaves IInv true when the tables it wrote allow it. *)
LEMMA AnswerInv ==
  ASSUME IInv, TypeOK', NEW c \in Calls, Answer(c),
         \A d \in Dirs : req'[d] # req[d] =>
            \A e \in Calls \ {c} : ~(call[e].pc \in HoldsRequest /\ call[e].d = d),
         blocks' \subseteq blocks,
         rooms' = rooms,
         friends' \subseteq rooms
  PROVE  IInv'
<1>1. /\ \A e \in Calls \ {c} : call'[e] = call[e]
      /\ call'[c].pc = "idle"
  BY AnswerType DEF IInv
<1>2. CallInv(c)'
  BY <1>1, AnswerType DEF CallInv, HoldsRequest, IInv
<1> QED BY <1>1, <1>2, Frame DEF HoldsRequest, HoldsFriend

(* A call that only moves on to a label without locks leaves IInv true.    *)
LEMMA GotoInv ==
  ASSUME IInv, TypeOK', NEW c \in Calls, NEW label \in Labels,
         Goto(c, label), call[c].pc # "idle", UNCHANGED <<friends, blocks, rooms>>,
         label \notin HoldsRequest,
         label \in {"accept.begin", "accept.lock"} => call[c].op = "accept",
         call[c].pc = "send.block" => ~BlockedEither(call[c].d),
         \A d \in Dirs : req'[d] # req[d] =>
            \A e \in Calls \ {c} : ~(call[e].pc \in HoldsRequest /\ call[e].d = d)
  PROVE  IInv'
<1>1. /\ \A e \in Calls \ {c} : call'[e] = call[e]
      /\ call'[c].pc = label /\ call'[c].op = call[c].op /\ call'[c].d = call[c].d
      /\ CallInv(c)
  BY GotoType DEF IInv
<1>2. CallInv(c)' /\ label \notin HoldsFriend
  BY <1>1 DEF CallInv, HoldsRequest, HoldsFriend, BlockedEither
<1> QED BY <1>1, <1>2, Frame DEF IInv, FriendsHaveRoom
(* The handlers outside accept's transaction that write a request's row    *)
(* write it only when no accept holds it.                                  *)
LEMMA InsertInv ==
  ASSUME IInv, TypeOK', NEW c \in Calls,
         call[c].pc \notin {"idle", "send.block"},
         NEW next \in Labels \ (HoldsRequest \cup {"accept.begin", "accept.lock"}),
         InsertRequest(c, next), UNCHANGED <<friends, blocks, rooms>>
  PROVE  IInv'
<1>1. call[c].d \in Dirs /\ friends \subseteq rooms
  BY RunningType DEF IInv, FriendsHaveRoom
<1>2. CASE req[call[c].d] = "NONE"
  <2>1. \A e \in Calls : call[e].pc \in HoldsRequest => call[e].d # call[c].d
    BY <1>2 DEF IInv, CallInv
  <2>2. \A d \in Dirs : req'[d] # req[d] => d = call[c].d
    BY <1>1, <1>2 DEF InsertRequest, IInv, TypeOK
  <2> QED BY <1>1, <1>2, <2>1, <2>2, AnswerInv DEF InsertRequest
<1>3. CASE req[call[c].d] # "NONE"
  BY <1>3, GotoInv DEF InsertRequest
<1> QED BY <1>2, <1>3

LEMMA SendEmailInv ==
  ASSUME IInv, TypeOK', NEW c \in Calls,
         \/ SendBlockCheck(c) \/ SendFriendCheck(c) \/ SendReverseCheck(c)
         \/ SendInsert(c) \/ SendFindSame(c) \/ SendReopen(c) \/ SendFindNow(c)
         \/ EmailFriendCheck(c) \/ EmailInsert(c) \/ EmailFind(c)
  PROVE  IInv'
<1>0. /\ call[c].pc # "idle"
      /\ friends \subseteq rooms
      /\ {"send.friend", "send.reverse", "send.insert", "send.same", "send.reopen",
          "send.find", "email.insert", "email.find"}
           \subseteq Labels \ (HoldsRequest \cup {"accept.begin", "accept.lock"})
  BY DEF At, Statement, HoldsConn, NeedsConn, SendBlockCheck, SendFriendCheck, SendReverseCheck, SendInsert,
     SendFindSame, SendReopen, SendFindNow, EmailFriendCheck, EmailInsert, EmailFind,
     IInv, FriendsHaveRoom, Labels, HoldsRequest
<1>1. CASE SendInsert(c)
  BY <1>0, <1>1, InsertInv DEF SendInsert, Statement, At
<1>2. CASE EmailInsert(c)
  BY <1>0, <1>2, InsertInv DEF EmailInsert, Statement, At
<1>3. CASE SendReopen(c)
  <2>1. \A e \in Calls : ~(call[e].pc \in HoldsRequest /\ call[e].d = call[c].d)
    BY <1>3 DEF SendReopen, RequestLocked
  <2>2. \A d \in Dirs : req'[d] # req[d] => d = call[c].d
    BY <1>3 DEF SendReopen, IInv, TypeOK
  <2> QED BY <1>0, <1>3, <2>1, <2>2, GotoInv DEF SendReopen, At
<1>4. CASE UNCHANGED db /\ Answer(c)
  BY <1>0, <1>4, AnswerInv DEF db
<1>5. CASE /\ UNCHANGED db
           /\ call[c].pc = "send.block" => ~BlockedEither(call[c].d)
           /\ \E label \in Labels \ (HoldsRequest \cup {"accept.begin", "accept.lock"}) :
                Goto(c, label)
  BY <1>0, <1>5, GotoInv DEF db
<1> QED BY <1>0, <1>1, <1>2, <1>3, <1>4, <1>5
  DEF SendBlockCheck, SendFriendCheck, SendReverseCheck, SendFindSame, SendFindNow,
      EmailFriendCheck, EmailFind, Statement, At

LEMMA DecideInv ==
  ASSUME IInv, TypeOK', NEW c \in Calls,
         DecideRead(c) \/ DecideLoad(c) \/ DecideWrite(c)
  PROVE  IInv'
<1>0. /\ call[c].pc # "idle"
      /\ friends \subseteq rooms
      /\ "decide.load" \in Labels \ HoldsRequest
  BY DEF At, Statement, DecideRead, DecideLoad, DecideWrite, IInv, FriendsHaveRoom,
     Labels, HoldsRequest
<1>1. CASE DecideRead(c)
  BY <1>0, <1>1, AnswerInv, GotoInv DEF DecideRead, Statement, At, db
<1>2. CASE DecideLoad(c)
  <2>1. /\ \A e \in Calls \ {c} : call'[e] = call[e]
        /\ call'[c].pc = "decide.write"
        /\ call'[c].op = call[c].op /\ call'[c].d = call[c].d
        /\ call[c].pc = "decide.load"
        /\ CallInv(c)
    BY <1>2 DEF DecideLoad, Statement, At, IInv, TypeOK, CallRecord
  <2>2. CallInv(c)'
    BY <1>2, <2>1 DEF CallInv, HoldsRequest, DecideLoad, db, BlockedEither
  <2> QED BY <1>0, <1>2, <2>1, <2>2, Frame DEF DecideLoad, db, HoldsRequest, HoldsFriend
<1>3. CASE DecideWrite(c)
  <2>1. \A e \in Calls : ~(call[e].pc \in HoldsRequest /\ call[e].d = call[c].d)
    BY <1>3 DEF DecideWrite, RequestLocked
  <2>2. \A d \in Dirs : req'[d] # req[d] => d = call[c].d
    BY <1>3 DEF DecideWrite, IInv, TypeOK
  <2> QED BY <1>0, <1>3, <2>1, <2>2, AnswerInv DEF DecideWrite
<1> QED BY <1>1, <1>2, <1>3

LEMMA AcceptStepInv ==
  ASSUME IInv, TypeOK', NEW c \in Calls,
         \/ AcceptLock(c) \/ AcceptBlockCheck(c) \/ AcceptUpsertFriend(c)
         \/ AcceptEnsureRoom(c) \/ AcceptCommit(c)
  PROVE  IInv'
<1>0. /\ call[c].pc # "idle"
      /\ friends \subseteq rooms
      /\ HoldsRequest \subseteq Labels
      /\ CallInv(c)
      /\ call[c].pc # "send.block"
  BY DEF At, Statement, HoldsConn, AcceptLock, AcceptBlockCheck, AcceptUpsertFriend, AcceptEnsureRoom,
     AcceptCommit, IInv, FriendsHaveRoom, Labels
<1>1. CASE UNCHANGED db /\ Answer(c)
  BY <1>0, <1>1, AnswerInv DEF db
<1>2. CASE /\ At(c, "accept.lock") /\ ~RequestLocked(call[c].d) /\ UNCHANGED db
           /\ req[call[c].d] = "PENDING" /\ call[c].me = call[c].d[2]
           /\ Goto(c, "accept.block")
  <2>1. /\ \A e \in Calls \ {c} : call'[e] = call[e]
        /\ call'[c].pc = "accept.block"
        /\ call'[c].d = call[c].d /\ call'[c].me = call[c].me /\ call'[c].op = "accept"
    BY <1>0, <1>2, GotoType DEF IInv, HoldsRequest, At, CallInv
  <2>2. CallInv(c)'
    BY <1>2, <2>1 DEF CallInv, HoldsRequest, db
  <2> QED BY <1>0, <1>2, <2>1, <2>2, Frame DEF RequestLocked, db, HoldsFriend
<1>3. CASE /\ At(c, "accept.block") /\ ~BlockedEither(call[c].d) /\ UNCHANGED db
           /\ Goto(c, "accept.friend")
  <2>1. /\ \A e \in Calls \ {c} : call'[e] = call[e]
        /\ call'[c].pc = "accept.friend"
        /\ call'[c].d = call[c].d /\ call'[c].me = call[c].me /\ call'[c].op = call[c].op
    BY <1>0, <1>3, GotoType DEF IInv, HoldsRequest
  <2>2. CallInv(c)'
    BY <1>0, <1>3, <2>1 DEF CallInv, HoldsRequest, db, BlockedEither, At
  <2> QED BY <1>0, <1>3, <2>1, <2>2, Frame DEF IInv, OneHolder, db, At, HoldsRequest, HoldsFriend
<1>4. CASE AcceptUpsertFriend(c)
  <2>1. /\ \A e \in Calls \ {c} : call'[e] = call[e]
        /\ call'[c].pc = "accept.room"
        /\ call'[c].d = call[c].d /\ call'[c].me = call[c].me /\ call'[c].op = call[c].op
    BY <1>0, <1>4, GotoType DEF IInv, HoldsRequest, AcceptUpsertFriend
  <2>2. CallInv(c)'
    BY <1>0, <1>4, <2>1
    DEF CallInv, HoldsRequest, db, BlockedEither, At, AcceptUpsertFriend
  <2> QED BY <1>0, <1>4, <2>1, <2>2, Frame
    DEF IInv, OneHolder, db, At, HoldsRequest, AcceptUpsertFriend, FriendLocked
<1>5. CASE AcceptEnsureRoom(c)
  <2>1. /\ \A e \in Calls \ {c} : call'[e] = call[e]
        /\ call'[c].pc = "accept.commit"
        /\ call'[c].d = call[c].d /\ call'[c].me = call[c].me /\ call'[c].op = call[c].op
    BY <1>0, <1>5, GotoType DEF IInv, HoldsRequest, AcceptEnsureRoom
  <2>2. CallInv(c)'
    BY <1>0, <1>5, <2>1 DEF CallInv, HoldsRequest, BlockedEither, At, Statement, AcceptEnsureRoom
  <2> QED BY <1>0, <1>5, <2>1, <2>2, Frame
    DEF IInv, OneHolder, OneUpsertPerPair, At, Statement, HoldsRequest, HoldsFriend, AcceptEnsureRoom
<1>6. CASE AcceptCommit(c)
  <2>1. \A e \in Calls \ {c} : ~(call[e].pc \in HoldsRequest /\ call[e].d = call[c].d)
    BY <1>6 DEF AcceptCommit, At, IInv, OneHolder, HoldsRequest
  <2>2. \A d \in Dirs : req'[d] # req[d] => d = call[c].d
    BY <1>6 DEF AcceptCommit, IInv, TypeOK
  <2>3. friends' \subseteq rooms
    BY <1>0, <1>6 DEF AcceptCommit, At, CallInv
  <2> QED BY <1>0, <1>6, <2>1, <2>2, <2>3, AnswerInv DEF AcceptCommit
<1> QED BY <1>1, <1>2, <1>3, <1>4, <1>5, <1>6
  DEF AcceptLock, AcceptBlockCheck

LEMMA NextInv == IInv /\ [Next]_vars => IInv'
<1> SUFFICES ASSUME IInv, [Next]_vars PROVE IInv'
  OBVIOUS
<1>0. TypeOK' /\ friends \subseteq rooms
  BY NextType DEF IInv, FriendsHaveRoom
<1>1. CASE UNCHANGED vars
  BY <1>0, <1>1 DEF vars, IInv, CallInv, OneHolder, OneUpsertPerPair,
     FriendsHaveRoom, BlockedEither
<1>2. ASSUME NEW c \in Calls, NEW op \in Ops, NEW me \in Users, NEW d \in Dirs,
             Begin(c, op, me, d)
      PROVE  IInv'
  <2>1. op \in AllOps
    BY FriendsAssumption
  <2>2. /\ \A e \in Calls \ {c} : call'[e] = call[e]
        /\ call'[c].pc = FirstLabel(op) /\ call'[c].op = op
    BY <1>2 DEF Begin, IInv, TypeOK
  <2>3. /\ FirstLabel(op) \notin HoldsRequest
        /\ FirstLabel(op) \in {"accept.begin", "accept.lock"} => op = "accept"
        /\ op = "send" => FirstLabel(op) = "send.block"
    BY <2>1, FirstLabelType DEF FirstLabel, AllOps
  <2>4. CallInv(c)'
    BY <2>2, <2>3 DEF CallInv, HoldsRequest
  <2> QED BY <1>0, <1>2, <2>2, <2>3, <2>4, Frame DEF Begin, db, HoldsFriend, HoldsRequest
<1>3. ASSUME NEW c \in Calls, Step(c)
      PROVE  IInv'
  <2>1. CASE Unfriend(c)
    BY <1>0, <2>1, AnswerInv DEF Unfriend
  <2>2. CASE Block(c)
    BY <1>0, <2>2, AnswerInv DEF Block, db
  <2>3. CASE Unblock(c)
    BY <1>0, <2>3, AnswerInv DEF Unblock
  <2>4. CASE TakeConn(c)
    <3>1. Awaits(call[c].pc) \in {"accept.begin", "accept.lock"} => call[c].op = "accept"
      BY <2>4, AwaitsType DEF TakeConn, IInv, CallInv
    <3>2. call[c].pc # "send.block"
      BY <2>4 DEF TakeConn, NeedsConn
    <3> QED BY <1>0, <2>4, <3>1, <3>2, AwaitsType, GotoInv DEF TakeConn, db
  <2>5. CASE LockWaitTimesOut(c)
    BY <1>0, <2>5, AnswerInv DEF LockWaitTimesOut, db
  <2> QED BY <1>0, <1>3, <2>1, <2>2, <2>3, <2>4, <2>5, SendEmailInv, AcceptStepInv, DecideInv DEF Step
<1>4. ASSUME NEW c \in Calls, HandlerFails(c)
      PROVE  IInv'
  BY <1>0, <1>4, AnswerInv DEF HandlerFails, db
<1> QED BY <1>1, <1>2, <1>3, <1>4 DEF Next

LEMMA SpecInv == Spec => []IInv
BY InitInv, NextInv, PTL DEF Spec

(* While an accept decides, its request stays PENDING, its caller is the   *)
(* one asked, and no other accept holds the request (AcceptsHoldPending).  *)
THEOREM AcceptSafety == Spec => []AcceptsHoldPending
<1>1. IInv => AcceptsHoldPending
  BY DEF IInv, CallInv, OneHolder, AcceptsHoldPending
<1> QED BY <1>1, SpecInv, PTL

(* One accept at a time writes the friendship of a pair.                   *)
THEOREM UpsertSafety == Spec => []OneUpsertPerPair
<1>1. IInv => OneUpsertPerPair
  BY DEF IInv
<1> QED BY <1>1, SpecInv, PTL

(* Friends always have a room to chat in (FriendsHaveRoom).                *)
THEOREM RoomSafety == Spec => []FriendsHaveRoom
<1>1. IInv => FriendsHaveRoom
  BY DEF IInv
<1> QED BY <1>1, SpecInv, PTL
-----------------------------------------------------------------------------
(* Which steps can create a friendship, and which can change a request.    *)
LEMMA Writers ==
  ASSUME [Next]_vars
  PROVE  \/ UNCHANGED <<req, friends>>
         \/ \E c \in Calls : \/ SendInsert(c) \/ EmailInsert(c) \/ SendReopen(c)
                             \/ DecideWrite(c) \/ AcceptCommit(c) \/ Unfriend(c)
<1>1. CASE UNCHANGED vars
  BY <1>1 DEF vars, db
<1>2. ASSUME NEW c \in Calls, NEW op \in Ops, NEW me \in Users, NEW d \in Dirs,
             Begin(c, op, me, d)
      PROVE  UNCHANGED <<req, friends>>
  BY <1>2 DEF Begin, db
<1>3. ASSUME NEW c \in Calls, Step(c)
      PROVE  \/ UNCHANGED <<req, friends>>
             \/ \/ SendInsert(c) \/ EmailInsert(c) \/ SendReopen(c)
                \/ DecideWrite(c) \/ AcceptCommit(c) \/ Unfriend(c)
  BY <1>3 DEF Step, db, TakeConn, SendBlockCheck, SendFriendCheck, SendReverseCheck, SendFindSame,
     SendFindNow, EmailFriendCheck, EmailFind, AcceptLock, AcceptBlockCheck,
     AcceptUpsertFriend, AcceptEnsureRoom, DecideRead, DecideLoad, Block, Unblock,
     LockWaitTimesOut
<1>4. ASSUME NEW c \in Calls, HandlerFails(c)
      PROVE  UNCHANGED <<req, friends>>
  BY <1>4 DEF HandlerFails, db
<1> QED BY <1>1, <1>2, <1>3, <1>4 DEF Next

(* A friendship appears only by the consent of the one who was asked, of a *)
(* request PENDING at that step, between users of whom none has blocked    *)
(* the other (FriendshipIsConsented).                                      *)
THEOREM Consent == Spec => FriendshipIsConsented
<1>1. ASSUME IInv, [Next]_vars, NEW p \in friends' \ friends
      PROVE  Consented(p)
  <2>1. PICK c \in Calls : AcceptCommit(c)
    BY <1>1, Writers DEF SendInsert, EmailInsert, SendReopen, DecideWrite, Unfriend
  <2>2. call[c].pc = "accept.commit" /\ CallInv(c) /\ call[c].d \in Dirs
    BY <2>1, <1>1 DEF AcceptCommit, At, IInv, TypeOK
  <2>3. Pair(call[c].d) = p /\ req'[call[c].d] = "ACCEPTED"
    BY <1>1, <2>1, <2>2 DEF AcceptCommit, IInv, TypeOK
  <2> QED BY <2>2, <2>3 DEF CallInv, HoldsRequest, Consented
<1>2. IInv /\ [Next]_vars => [\A p \in friends' \ friends : Consented(p)]_vars
  BY <1>1
<1> QED BY <1>2, SpecInv, PTL DEF Spec, FriendshipIsConsented

(* sendRequest makes no request PENDING across a block, even one that was  *)
(* slow to get from its check to its write (NoRequestAcrossBlock).         *)
THEOREM BlockHonoured == Spec => NoRequestAcrossBlock
<1>1. ASSUME IInv, [Next]_vars, NEW c \in Calls, call[c].op = "send",
             call'[c] # call[c], req' # req
      PROVE  ~BlockedEither(call[c].d)
  <2>1. PICK e \in Calls : \/ SendInsert(e) \/ EmailInsert(e) \/ SendReopen(e)
                           \/ DecideWrite(e) \/ AcceptCommit(e)
    BY <1>1, Writers DEF Unfriend
  <2>2. call[e].pc # "send.block" /\ \A a \in Calls \ {e} : call'[a] = call[a]
    BY <1>1, <2>1, AnswerType, GotoType
    DEF SendInsert, EmailInsert, InsertRequest, SendReopen, DecideWrite, AcceptCommit,
        Statement, At, Answer, Goto, IInv, TypeOK
  <2> QED BY <1>1, <2>2 DEF IInv, CallInv
<1>2. IInv /\ [Next]_vars =>
        [\A c \in Calls : (call[c].op = "send" /\ call'[c] # call[c] /\ req' # req)
                           => ~BlockedEither(call[c].d)]_vars
  BY <1>1
<1> QED BY <1>2, SpecInv, PTL DEF Spec, NoRequestAcrossBlock

-----------------------------------------------------------------------------
(* The handlers implement the weak promise of FriendRelation.              *)
Asked == {d \in Dirs : req[d] = "PENDING"}

LEMMA RelationDirs == Relation!Dirs = Dirs /\ \A d : Relation!Pair(d) = Pair(d)
BY DEF Relation!Dirs, Dirs, Relation!Pair, Pair

(* A step that makes one request PENDING asks; one that ends it settles.   *)
LEMMA AskOrSettle ==
  ASSUME TypeOK, NEW d \in Dirs, NEW s \in Status,
         req' = [req EXCEPT ![d] = s] \/ UNCHANGED req, UNCHANGED friends
  PROVE  [Relation!LooseNext]_(Relation!vars)
<1>1. CASE UNCHANGED req \/ s = req[d]
  <2>1. UNCHANGED req BY <1>1 DEF TypeOK
  <2> QED BY <2>1 DEF Relation!vars
<1>2. CASE req' = [req EXCEPT ![d] = s] /\ s = "PENDING"
  <2>1. Asked' = Asked \cup {d} BY <1>2 DEF Asked, TypeOK
  <2>2. Relation!AskAnyway(d) BY <2>1 DEF Relation!AskAnyway, Asked
  <2> QED BY <2>2, RelationDirs DEF Relation!LooseNext
<1>3. CASE req' = [req EXCEPT ![d] = s] /\ s # "PENDING" /\ req[d] # "PENDING"
  <2>1. Asked' = Asked BY <1>3 DEF Asked, TypeOK
  <2> QED BY <2>1 DEF Relation!vars, Asked
<1>4. CASE req' = [req EXCEPT ![d] = s] /\ s # "PENDING" /\ req[d] = "PENDING"
  <2>1. Asked' = Asked \ {d} /\ d \in Asked BY <1>4 DEF Asked, TypeOK
  <2>2. Relation!Settle(d) BY <2>1 DEF Relation!Settle, Asked
  <2> QED BY <2>2, RelationDirs DEF Relation!LooseNext
<1> QED BY <1>1, <1>2, <1>3, <1>4

(* Under any interleaving of any number of calls, with failures, a         *)
(* friendship comes only out of a request that is pending and consumed at  *)
(* that step (ImplementsLooseRelation).                                    *)
THEOREM LooseRefinement == Spec => ImplementsLooseRelation
<1>1. Init => Relation!Init
  BY DEF Init, Relation!Init
<1>2. IInv /\ [Next]_vars => [Relation!LooseNext]_(Relation!vars)
  <2> SUFFICES ASSUME IInv, [Next]_vars PROVE [Relation!LooseNext]_(Relation!vars)
    OBVIOUS
  <2>0. TypeOK BY DEF IInv
  <2>1. CASE UNCHANGED <<req, friends>>
    BY <2>1 DEF Relation!vars
  <2>2. ASSUME NEW c \in Calls, SendInsert(c) \/ EmailInsert(c)
        PROVE  [Relation!LooseNext]_(Relation!vars)
    <3>1. call[c].d \in Dirs BY <2>0, <2>2, RunningType DEF SendInsert, EmailInsert, Statement, At
    <3> QED BY <2>0, <2>2, <3>1, AskOrSettle
      DEF SendInsert, EmailInsert, InsertRequest, Status
  <2>3. ASSUME NEW c \in Calls, SendReopen(c)
        PROVE  [Relation!LooseNext]_(Relation!vars)
    <3>1. call[c].d \in Dirs BY <2>0, <2>3, RunningType DEF SendReopen, At
    <3> QED BY <2>0, <2>3, <3>1, AskOrSettle DEF SendReopen, Status
  <2>4. ASSUME NEW c \in Calls, DecideWrite(c)
        PROVE  [Relation!LooseNext]_(Relation!vars)
    <3>1. call[c].d \in Dirs BY <2>0, <2>4, RunningType DEF DecideWrite, At
    <3> QED BY <2>0, <2>4, <3>1, AskOrSettle DEF DecideWrite, Verdict, Status
  <2>5. ASSUME NEW c \in Calls, AcceptCommit(c)
        PROVE  [Relation!LooseNext]_(Relation!vars)
    <3>1. call[c].d \in Dirs /\ req[call[c].d] = "PENDING"
      BY <2>0, <2>5, RunningType DEF AcceptCommit, At, IInv, CallInv, HoldsRequest
    <3>2. PICK d \in Dirs : d = call[c].d
      BY <3>1
    <3>3. d \in Asked /\ Asked' = Asked \ {d}
      BY <2>0, <2>5, <3>1, <3>2 DEF AcceptCommit, Asked, TypeOK
    <3>4. Relation!Accept(d)
      BY <2>5, <3>2, <3>3, RelationDirs DEF AcceptCommit, Relation!Accept, Asked
    <3> QED BY <3>4, RelationDirs DEF Relation!LooseNext
  <2>6. ASSUME NEW c \in Calls, Unfriend(c)
        PROVE  [Relation!LooseNext]_(Relation!vars)
    <3>1. call[c].d \in Dirs BY <2>0, <2>6, RunningType DEF Unfriend, At
    <3>2. Relation!Part(call[c].d)
      BY <2>6, RelationDirs DEF Unfriend, Relation!Part
    <3> QED BY <3>1, <3>2, RelationDirs DEF Relation!LooseNext
  <2> QED BY <2>1, <2>2, <2>3, <2>4, <2>5, <2>6, Writers
<1> QED BY <1>1, <1>2, SpecInv, PTL DEF Spec, ImplementsLooseRelation, Relation!LooseSpec

-----------------------------------------------------------------------------
(* While the calls run one after the other, what a call has checked stays  *)
(* so until its own write.                                                 *)
Knows(c) ==
  LET d == call[c].d IN
  /\ call[c].pc \in {"send.reverse", "send.insert", "send.same", "send.reopen", "send.update"} =>
       Pair(d) \notin friends
  /\ call[c].pc \in {"send.insert", "send.same", "send.reopen", "send.update"} =>
       req[Rev(d)] # "PENDING"
  /\ call[c].pc \in {"decide.load", "decide.write", "decide.update"} => req[d] = "PENDING"
  /\ call[c].pc \in {"email.friend", "email.insert", "email.find"} => call[c].op = "email"

(* FriendsWereAccepted, by the directions of a pair.                       *)
Backed == \A d \in Dirs : Pair(d) \in friends => "ACCEPTED" \in {req[d], req[Rev(d)]}

Orderly ==
  /\ \A c, e \in Running : c = e
  /\ \A c \in Calls : call[c].op # "email"
  /\ \A c \in Calls : Knows(c)
  /\ Backed

AloneInv == IInv /\ IsFiniteSet(Running) /\ (alone => Orderly)

LEMMA PairDirs ==
  ASSUME NEW d \in Dirs
  PROVE  /\ Rev(d) \in Dirs /\ Rev(Rev(d)) = d /\ Rev(d) # d
         /\ \A e \in Dirs : Pair(e) = Pair(d) <=> e \in {d, Rev(d)}
<1>1. Rev(d) \in Dirs /\ Rev(Rev(d)) = d /\ Rev(d) # d
  BY DEF Dirs, Rev
<1>2. ASSUME NEW e \in Dirs, Pair(e) = Pair(d) PROVE e \in {d, Rev(d)}
  <2>1. /\ e = <<e[1], e[2]>> /\ d = <<d[1], d[2]>> /\ e[1] # e[2]
        /\ e[1] \in {d[1], d[2]} /\ e[2] \in {d[1], d[2]}
    BY <1>2 DEF Dirs, Pair
  <2> QED BY <2>1 DEF Rev
<1>3. Pair(Rev(d)) = Pair(d)
  BY DEF Rev, Pair, Dirs
<1> QED BY <1>1, <1>2, <1>3

LEMMA BackedIsAccepted ==
  ASSUME TypeOK, Backed
  PROVE  FriendsWereAccepted
<1> SUFFICES ASSUME NEW u \in Users, NEW v \in Users \ {u}, {u, v} \in friends
             PROVE  "ACCEPTED" \in {req[<<u, v>>], req[<<v, u>>]}
  BY DEF FriendsWereAccepted, ListFriends
<1>1. <<u, v>> \in Dirs /\ Pair(<<u, v>>) = {u, v} /\ Rev(<<u, v>>) = <<v, u>>
  BY DEF Dirs, Pair, Rev
<1> QED BY <1>1 DEF Backed

(* One call moves at a time.                                               *)
LEMMA OneMoves ==
  ASSUME TypeOK, Next
  PROVE  \E c \in Calls : /\ \A e \in Calls \ {c} : call'[e] = call[e]
                          /\ \/ Step(c) \/ HandlerFails(c)
                             \/ \E op \in Ops, me \in Users, d \in Dirs : Begin(c, op, me, d)
<1>1. PICK c \in Calls : \/ Step(c) \/ HandlerFails(c)
                         \/ \E op \in Ops, me \in Users, d \in Dirs : Begin(c, op, me, d)
  BY DEF Next
<1>2. \A e \in Calls \ {c} : call'[e] = call[e]
  BY <1>1 DEF TypeOK, Step, Begin, TakeConn, SendBlockCheck, SendFriendCheck, SendReverseCheck,
     SendInsert, SendFindSame, SendReopen, SendFindNow, EmailFriendCheck, EmailInsert,
     EmailFind, InsertRequest, AcceptLock, AcceptBlockCheck, AcceptUpsertFriend,
     AcceptEnsureRoom, AcceptCommit, DecideRead, DecideLoad, DecideWrite, Unfriend, Block,
     Unblock, LockWaitTimesOut, HandlerFails, Goto, Answer
<1> QED BY <1>1, <1>2

LEMMA AtMostOne ==
  ASSUME NEW S, IsFiniteSet(S), Cardinality(S) <= 1, NEW a \in S, NEW b \in S
  PROVE  a = b
<1> SUFFICES ASSUME a # b PROVE FALSE
  OBVIOUS
<1>1. IsFiniteSet({a}) /\ Cardinality({a}) = 1
  BY FS_Singleton
<1>2. IsFiniteSet({a} \cup {b}) /\ Cardinality({a} \cup {b}) = 2
  <2>1. b \notin {a}
    OBVIOUS
  <2>2. /\ IsFiniteSet({a} \cup {b})
        /\ Cardinality({a} \cup {b}) = IF b \in {a} THEN Cardinality({a}) ELSE Cardinality({a}) + 1
    BY <1>1, FS_AddElement
  <2> QED BY <1>1, <2>1, <2>2
<1>3. Cardinality({a} \cup {b}) <= Cardinality(S) /\ Cardinality(S) \in Nat
  BY FS_Subset, FS_CardinalityType, {a} \cup {b} \in SUBSET S
<1> QED BY <1>2, <1>3

LEMMA AloneInit == WatchedInit => AloneInv
<1> SUFFICES ASSUME WatchedInit PROVE AloneInv
  OBVIOUS
<1>1. \A c \in Calls : call[c].pc = "idle" /\ call[c].op = "none"
  BY DEF WatchedInit, Init, IdleCall
<1>2. Running = {}
  BY <1>1 DEF Running
<1>3. Orderly
  BY <1>1, <1>2 DEF Orderly, Knows, Backed, WatchedInit, Init
<1> QED BY <1>2, <1>3, InitInv, FS_EmptySet DEF WatchedInit, AloneInv

LEMMA RunningFinite ==
  ASSUME TypeOK, Next, IsFiniteSet(Running)
  PROVE  IsFiniteSet(Running')
<1>1. PICK c \in Calls : \A e \in Calls \ {c} : call'[e] = call[e]
  BY OneMoves
<1>2. Running' \in SUBSET (Running \cup {c})
  BY <1>1 DEF Running
<1>3. IsFiniteSet(Running \cup {c})
  BY FS_AddElement
<1> QED BY <1>2, <1>3, FS_Subset

(* While alone, whoever moves is the only one that runs.                   *)
LEMMA MovesAlone ==
  ASSUME AloneInv, Next, Watched, alone'
  PROVE  /\ alone /\ Orderly
         /\ \A c, e \in Running' : c = e
         /\ \A c \in Calls : call'[c].op # "email"
         /\ \E c \in Calls :
              /\ \A e \in Calls \ {c} : call'[e] = call[e] /\ call[e].pc = "idle"
              /\ \/ Step(c) \/ HandlerFails(c)
                 \/ \E op \in Ops, me \in Users, d \in Dirs : Begin(c, op, me, d)
<1>1. TypeOK
  BY DEF AloneInv, IInv
<1>2. alone /\ Cardinality(Running') <= 1 /\ \A c \in Calls : call'[c].op # "email"
  BY Zenon DEF Watched
<1>3. Orderly
  BY <1>2 DEF AloneInv
<1>4. \A c, e \in Running' : c = e
  BY <1>1, <1>2, RunningFinite, AtMostOne DEF AloneInv
<1>5. PICK c \in Calls : /\ \A e \in Calls \ {c} : call'[e] = call[e]
                         /\ \/ Step(c) \/ HandlerFails(c)
                            \/ \E op \in Ops, me \in Users, d \in Dirs : Begin(c, op, me, d)
  BY <1>1, OneMoves
<1>6. ASSUME NEW e \in Calls \ {c} PROVE call[e].pc = "idle"
  <2>1. CASE Step(c) \/ HandlerFails(c)
    <3>1. call[c].pc # "idle"
      BY <2>1, AwaitsType
      DEF Step, At, Statement, TakeConn, SendBlockCheck, SendFriendCheck, SendReverseCheck,
          SendInsert, SendFindSame, SendReopen, SendFindNow, EmailFriendCheck, EmailInsert,
          EmailFind, AcceptLock, AcceptBlockCheck, AcceptUpsertFriend, AcceptEnsureRoom,
          AcceptCommit, DecideRead, DecideLoad, DecideWrite, Unfriend, Block, Unblock,
          LockWaitTimesOut, WaitsForLock, HandlerFails
    <3> QED BY <1>3, <3>1 DEF Orderly, Running
  <2>2. CASE \E op \in Ops, me \in Users, d \in Dirs : Begin(c, op, me, d)
    <3>1. PICK op \in AllOps, me \in Users, d \in Dirs : Begin(c, op, me, d)
      BY <2>2, FriendsAssumption
    <3>2. call'[c].pc = FirstLabel(op) /\ FirstLabel(op) # "idle"
      BY <1>1, <3>1, FirstLabelType DEF Begin, TypeOK
    <3> QED BY <1>4, <1>5, <3>2 DEF Running
  <2> QED BY <1>5, <2>1, <2>2
<1> QED BY <1>2, <1>3, <1>4, <1>5, <1>6

(* What the mover knows afterwards.                                        *)
LEMMA MoverKnows ==
  ASSUME IInv, Orderly, NEW c \in Calls, \A e \in Calls : call'[e].op # "email",
         \/ Step(c) \/ HandlerFails(c)
         \/ \E op \in Ops, me \in Users, d \in Dirs : Begin(c, op, me, d)
  PROVE  Knows(c)'
<1>0. TypeOK /\ Knows(c)
  BY DEF IInv, Orderly
<1>1. CASE Answer(c)
  BY <1>0, <1>1, AnswerType DEF Knows
<1>2. ASSUME NEW label \in Labels, Goto(c, label), call[c].pc # "idle", UNCHANGED <<req, friends>>,
             label \notin {"email.friend"},
             label \in {"send.reverse", "send.insert", "send.same", "send.reopen", "send.update"} =>
               Pair(call[c].d) \notin friends,
             label \in {"send.insert", "send.same", "send.reopen", "send.update"} =>
               req[Rev(call[c].d)] # "PENDING",
             label \in {"decide.load", "decide.write", "decide.update"} => req[call[c].d] = "PENDING",
             label \in {"email.insert", "email.find"} => call[c].op = "email"
      PROVE  Knows(c)'
  <2>1. call'[c].pc = label /\ call'[c].op = call[c].op /\ call'[c].d = call[c].d
    BY <1>0, <1>2, GotoType
  <2> QED BY <1>2, <2>1 DEF Knows
<1>3. {"send.friend", "send.reverse", "send.insert", "send.same", "send.reopen", "send.update",
       "send.find", "email.insert", "email.find", "accept.lock", "accept.block", "accept.friend",
       "accept.room", "accept.commit", "decide.load", "decide.update", "unfriend.delete"}
        \subseteq Labels
  BY DEF Labels, HoldsRequest, HoldsConn, NeedsConn
<1>4. CASE HandlerFails(c) \/ LockWaitTimesOut(c)
  BY <1>1, <1>4 DEF HandlerFails, LockWaitTimesOut
<1>5. ASSUME NEW op \in Ops, NEW me \in Users, NEW d \in Dirs, Begin(c, op, me, d)
      PROVE  Knows(c)'
  <2>1. /\ call'[c].pc = FirstLabel(op) /\ call'[c].op = op /\ op \in AllOps
    BY <1>0, <1>5, FriendsAssumption DEF Begin, TypeOK
  <2>2. FirstLabel(op) \in {"send.block", "email.friend", "accept.begin", "decide.read",
                            "unfriend", "block", "unblock"}
        /\ (FirstLabel(op) = "email.friend" => op = "email")
    BY <2>1 DEF FirstLabel, AllOps
  <2> QED BY <2>1, <2>2 DEF Knows
<1>6. CASE SendBlockCheck(c) \/ SendFriendCheck(c) \/ SendReverseCheck(c) \/ SendFindSame(c)
            \/ SendFindNow(c)
  BY <1>0, <1>1, <1>2, <1>3, <1>6
  DEF SendBlockCheck, SendFriendCheck, SendReverseCheck, SendFindSame, SendFindNow, Statement, At,
      Knows, PendingEither, db
<1>7. CASE SendInsert(c) \/ EmailInsert(c)
  BY <1>0, <1>1, <1>2, <1>3, <1>7
  DEF SendInsert, EmailInsert, InsertRequest, Statement, At, Knows
<1>8. CASE SendReopen(c)
  <2>1. call'[c].pc = "send.find"
    BY <1>0, <1>3, <1>8, GotoType DEF SendReopen, At
  <2> QED BY <2>1 DEF Knows
<1>9. CASE EmailFriendCheck(c) \/ EmailFind(c)
  BY <1>0, <1>1, <1>2, <1>3, <1>9 DEF EmailFriendCheck, EmailFind, Statement, At, Knows, db
<1>10. CASE AcceptLock(c) \/ AcceptBlockCheck(c) \/ AcceptUpsertFriend(c)
  BY <1>1, <1>2, <1>3, <1>10 DEF AcceptLock, AcceptBlockCheck, AcceptUpsertFriend, At, db
<1>11. CASE AcceptEnsureRoom(c)
  BY <1>2, <1>3, <1>11 DEF AcceptEnsureRoom, Statement, At
<1>12. CASE DecideRead(c)
  BY <1>1, <1>2, <1>3, <1>12 DEF DecideRead, Statement, At, db
<1>13. CASE DecideLoad(c)
  <2>1. call'[c].pc = "decide.write" /\ call'[c].d = call[c].d /\ call[c].pc = "decide.load"
    BY <1>0, <1>13 DEF DecideLoad, Statement, At, TypeOK, CallRecord
  <2> QED BY <1>0, <1>13, <2>1 DEF Knows, DecideLoad, db
<1>14. CASE AcceptCommit(c) \/ DecideWrite(c) \/ Unfriend(c) \/ Block(c) \/ Unblock(c)
  BY <1>1, <1>14 DEF AcceptCommit, DecideWrite, Unfriend, Block, Unblock
<1>15. CASE TakeConn(c)
  <2>1. PICK label \in Labels : label = Awaits(call[c].pc)
    BY <1>15, AwaitsType DEF TakeConn
  <2>2. /\ label \in {"send.update", "accept.lock", "decide.update", "unfriend.delete"}
        /\ label = "send.update" => call[c].pc = "send.reopen"
        /\ label = "decide.update" => call[c].pc = "decide.write"
        /\ call[c].pc # "idle"
    BY <1>15, <2>1 DEF TakeConn, NeedsConn, Awaits
  <2>3. Goto(c, label) /\ UNCHANGED <<req, friends>>
    BY <1>15, <2>1 DEF TakeConn, db
  <2> QED BY <1>0, <1>2, <2>2, <2>3 DEF Knows
<1> QED BY <1>4, <1>5, <1>6, <1>7, <1>8, <1>9, <1>10, <1>11, <1>12, <1>13, <1>14, <1>15 DEF Step

(* A request that becomes PENDING, or ends, while calls do not overlap.    *)
LEMMA StrictAskOrSettle ==
  ASSUME TypeOK, Backed, NEW d \in Dirs, NEW s \in Status,
         req' = [req EXCEPT ![d] = s] \/ UNCHANGED req, UNCHANGED friends,
         s = "PENDING" => Pair(d) \notin friends /\ req[Rev(d)] # "PENDING",
         s # "PENDING" => req[d] = "PENDING"
  PROVE  [Relation!Next]_(Relation!vars) /\ Backed'
<1>1. CASE UNCHANGED req \/ s = req[d]
  <2>1. UNCHANGED req BY <1>1 DEF TypeOK
  <2> QED BY <2>1 DEF Relation!vars, Backed
<1>2. CASE req' = [req EXCEPT ![d] = s] /\ s = "PENDING"
  <2>1. Asked' = Asked \cup {d} BY <1>2 DEF Asked, TypeOK
  <2>2. Pair(d) \notin friends /\ Rev(d) \notin Asked
    BY <1>2 DEF Asked
  <2>3. Relation!Ask(d)
    BY <2>1, <2>2, RelationDirs DEF Relation!Ask, Relation!Rev, Rev, Asked
  <2>4. Backed'
    <3> SUFFICES ASSUME NEW e \in Dirs, Pair(e) \in friends
                 PROVE  "ACCEPTED" \in {req'[e], req'[Rev(e)]}
      BY DEF Backed
    <3>1. e # d /\ Rev(e) # d /\ Rev(e) \in Dirs
      BY <2>2, PairDirs
    <3> QED BY <1>2, <3>1 DEF Backed, TypeOK
  <2> QED BY <2>3, <2>4, RelationDirs DEF Relation!Next
<1>3. CASE req' = [req EXCEPT ![d] = s] /\ s # "PENDING"
  <2>1. Asked' = Asked \ {d} /\ d \in Asked BY <1>3 DEF Asked, TypeOK
  <2>2. Relation!Settle(d) BY <2>1 DEF Relation!Settle, Asked
  <2>3. Backed'
    <3> SUFFICES ASSUME NEW e \in Dirs, Pair(e) \in friends
                 PROVE  "ACCEPTED" \in {req'[e], req'[Rev(e)]}
      BY DEF Backed
    <3>1. "ACCEPTED" \in {req[e], req[Rev(e)]} /\ Rev(e) \in Dirs /\ req[d] = "PENDING"
      BY <1>3, PairDirs DEF Backed
    <3> QED BY <1>3, <3>1 DEF TypeOK
  <2> QED BY <2>2, <2>3, RelationDirs DEF Relation!Next
<1> QED BY <1>1, <1>2, <1>3

LEMMA StrictStep ==
  ASSUME IInv, Orderly, [Next]_vars
  PROVE  [Relation!Next]_(Relation!vars) /\ Backed'
<1>0. TypeOK /\ Backed
  BY DEF IInv, Orderly
<1>1. CASE UNCHANGED <<req, friends>>
  BY <1>0, <1>1 DEF Relation!vars, Backed
<1>2. ASSUME NEW c \in Calls, SendInsert(c) PROVE [Relation!Next]_(Relation!vars) /\ Backed'
  <2>1. PICK d \in Dirs : d = call[c].d
    BY <1>0, <1>2, RunningType DEF SendInsert, Statement, At
  <2>2. Pair(d) \notin friends /\ req[Rev(d)] # "PENDING"
    BY <1>2, <2>1 DEF SendInsert, Statement, At, Orderly, Knows
  <2>3. req' = [req EXCEPT ![d] = "PENDING"] \/ UNCHANGED req
    BY <1>2, <2>1 DEF SendInsert, InsertRequest
  <2> QED BY <1>0, <1>2, <2>2, <2>3, StrictAskOrSettle DEF SendInsert, Status
<1>3. ASSUME NEW c \in Calls, EmailInsert(c) PROVE FALSE
  BY <1>3 DEF EmailInsert, Statement, At, Orderly, Knows
<1>4. ASSUME NEW c \in Calls, SendReopen(c) PROVE [Relation!Next]_(Relation!vars) /\ Backed'
  <2>1. PICK d \in Dirs : d = call[c].d
    BY <1>0, <1>4, RunningType DEF SendReopen, At
  <2>2. Pair(d) \notin friends /\ req[Rev(d)] # "PENDING"
    BY <1>4, <2>1 DEF SendReopen, At, Orderly, Knows
  <2> QED BY <1>0, <1>4, <2>1, <2>2, StrictAskOrSettle DEF SendReopen, Status
<1>5. ASSUME NEW c \in Calls, DecideWrite(c) PROVE [Relation!Next]_(Relation!vars) /\ Backed'
  <2>1. PICK d \in Dirs : d = call[c].d
    BY <1>0, <1>5, RunningType DEF DecideWrite, At
  <2>2. PICK s \in Status \ {"PENDING"} : s = Verdict(call[c].op)
    BY DEF Verdict, Status
  <2>3. req[d] = "PENDING"
    BY <1>5, <2>1 DEF DecideWrite, At, Orderly, Knows
  <2>4. req' = [req EXCEPT ![d] = s] \/ UNCHANGED req
    BY <1>5, <2>1, <2>2 DEF DecideWrite
  <2> QED BY <1>0, <1>5, <2>2, <2>3, <2>4, StrictAskOrSettle DEF DecideWrite
<1>6. ASSUME NEW c \in Calls, AcceptCommit(c) PROVE [Relation!Next]_(Relation!vars) /\ Backed'
  <2>1. PICK d \in Dirs : d = call[c].d
    BY <1>0, <1>6, RunningType DEF AcceptCommit, At
  <2>2. req[d] = "PENDING"
    BY <1>6, <2>1 DEF AcceptCommit, At, IInv, CallInv, HoldsRequest
  <2>3. d \in Asked /\ Asked' = Asked \ {d}
    BY <1>0, <1>6, <2>1, <2>2 DEF AcceptCommit, Asked, TypeOK
  <2>4. Relation!Accept(d)
    BY <1>6, <2>1, <2>3, RelationDirs DEF AcceptCommit, Relation!Accept, Asked
  <2>5. Backed'
    <3> SUFFICES ASSUME NEW e \in Dirs, Pair(e) \in friends'
                 PROVE  "ACCEPTED" \in {req'[e], req'[Rev(e)]}
      BY DEF Backed
    <3>1. req'[d] = "ACCEPTED" /\ \A f \in Dirs : req'[f] \in {req[f], "ACCEPTED"}
      BY <1>0, <1>6, <2>1 DEF AcceptCommit, TypeOK
    <3>2. CASE Pair(e) = Pair(d)
      BY <3>1, <3>2, PairDirs
    <3>3. CASE Pair(e) \in friends
      BY <1>0, <3>1, <3>3, PairDirs DEF Backed
    <3> QED BY <1>6, <2>1, <3>2, <3>3 DEF AcceptCommit
  <2> QED BY <2>4, <2>5, RelationDirs DEF Relation!Next
<1>7. ASSUME NEW c \in Calls, Unfriend(c) PROVE [Relation!Next]_(Relation!vars) /\ Backed'
  <2>1. call[c].d \in Dirs
    BY <1>0, <1>7, RunningType DEF Unfriend, At
  <2>2. Relation!Part(call[c].d)
    BY <1>7, RelationDirs DEF Unfriend, Relation!Part
  <2>3. Backed'
    BY <1>0, <1>7 DEF Unfriend, Backed
  <2> QED BY <2>1, <2>2, <2>3, RelationDirs DEF Relation!Next
<1> QED BY <1>1, <1>2, <1>3, <1>4, <1>5, <1>6, <1>7, Writers

LEMMA AloneNext == AloneInv /\ [WatchedNext]_<<vars, alone>> => AloneInv'
<1> SUFFICES ASSUME AloneInv, [WatchedNext]_<<vars, alone>> PROVE AloneInv'
  OBVIOUS
<1>1. CASE UNCHANGED <<vars, alone>>
  <2>1. IInv'
    BY <1>1, NextInv DEF AloneInv
  <2>2. Running' = Running /\ (Orderly => Orderly')
    BY <1>1 DEF vars, Running, Orderly, Knows, Backed
  <2>3. alone' = alone
    BY <1>1
  <2> QED BY <2>1, <2>2, <2>3 DEF AloneInv
<1>2. CASE Next /\ Watched
  <2>1. IInv' /\ IsFiniteSet(Running')
    BY <1>2, NextInv, RunningFinite DEF AloneInv, IInv
  <2>2. ASSUME alone' PROVE Orderly'
    <3>1. /\ Orderly /\ \A c, e \in Running' : c = e
          /\ \A c \in Calls : call'[c].op # "email"
      BY <1>2, <2>2, MovesAlone
    <3>2. PICK c \in Calls :
            /\ \A e \in Calls \ {c} : call'[e] = call[e] /\ call[e].pc = "idle"
            /\ \/ Step(c) \/ HandlerFails(c)
               \/ \E op \in Ops, me \in Users, d \in Dirs : Begin(c, op, me, d)
      BY <1>2, <2>2, MovesAlone
    <3>3. Knows(c)'
      BY <3>1, <3>2, MoverKnows DEF AloneInv
    <3>4. \A e \in Calls : Knows(e)'
      BY <3>2, <3>3 DEF Knows
    <3>5. Backed'
      BY <1>2, <3>1, StrictStep DEF AloneInv
    <3> QED BY <3>1, <3>4, <3>5 DEF Orderly
  <2> QED BY <2>1, <2>2 DEF AloneInv
<1> QED BY <1>1, <1>2 DEF WatchedNext

(* As long as calls do not overlap and nobody is asked by e-mail, failing  *)
(* or not, the handlers implement the strict promise: strangers only, one  *)
(* open request of a pair, and a friendship keeps its ACCEPTED request     *)
(* (StrictWhileAlone).                                                     *)
THEOREM StrictRefinement == WatchedSpec => StrictWhileAlone
<1>1. WatchedInit => Relation!Init
  BY DEF WatchedInit, Init, Relation!Init
<1>2. AloneInv /\ [WatchedNext]_<<vars, alone>> => [alone' => Relation!Next]_(Relation!vars)
  <2> SUFFICES ASSUME AloneInv, [WatchedNext]_<<vars, alone>>
               PROVE  [alone' => Relation!Next]_(Relation!vars)
    OBVIOUS
  <2>1. CASE UNCHANGED <<vars, alone>>
    BY <2>1 DEF vars, Relation!vars
  <2>2. CASE Next /\ Watched /\ alone'
    <3>1. Orderly /\ IInv
      BY <2>2, MovesAlone DEF AloneInv
    <3> QED BY <2>2, <3>1, StrictStep
  <2>3. CASE ~alone'
    BY <2>3
  <2> QED BY <2>1, <2>2, <2>3 DEF WatchedNext
<1>3. AloneInv => (alone => FriendsWereAccepted)
  BY BackedIsAccepted DEF AloneInv, IInv, Orderly
<1>4. WatchedSpec => []AloneInv
  BY AloneInit, AloneNext, PTL DEF WatchedSpec
<1> QED BY <1>1, <1>2, <1>3, <1>4, PTL DEF WatchedSpec, StrictWhileAlone
=============================================================================
