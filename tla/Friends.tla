------------------------------- MODULE Friends -------------------------------
(***************************************************************************)
(* The friends feature of the API (features/friends/friends.service.ts):   *)
(* every handler as the sequence of database statements it awaits, so that *)
(* the statements of concurrent HTTP calls interleave as they do in the    *)
(* running server.  One action is one statement (or one transaction's last *)
(* statements with its COMMIT) with the code up to the next await.         *)
(*                                                                         *)
(* Database, MySQL 8 / InnoDB at its default isolation level, as these     *)
(* statements see it:                                                      *)
(*  - a statement outside a transaction commits by itself;                 *)
(*  - accept's transaction locks the request row it reads FOR UPDATE and   *)
(*    the friends row it upserts until it commits or rolls back, and the   *)
(*    others see its writes only once it commits;                          *)
(*  - UPDATE and DELETE of a locked row wait, plain reads do not; a wait   *)
(*    ends with an error after innodb_lock_wait_timeout.                   *)
(* The DataSource sets no pool limit, so TypeORM's MySQL driver has its    *)
(* default pool: every statement needs a connection, a transaction keeps   *)
(* its own, and a request for a connection waits without a time limit.     *)
(* friendRequests is unique on (fromUserId, toUserId) and its rows are     *)
(* never deleted, so a row is named by its direction <<from, to>>.         *)
(***************************************************************************)
EXTENDS Integers, FiniteSets

CONSTANTS Users,       \* user ids, normalised
          Calls,       \* slots of concurrently served HTTP calls
          Ops,         \* the operations the clients call
          SeedBlocks,  \* userBlocks rows there may be when the API starts
          PoolSize,    \* connections of the DataSource's pool
          Faults,      \* may an awaited statement fail?
          NoUser       \* filler of an idle call's record

AllOps == {"send", "email", "accept", "reject", "cancel",
           "unfriend", "block", "unblock"}

Dirs == {d \in Users \X Users : d[1] # d[2]}
Rev(d) == <<d[2], d[1]>>
Pair(d) == {d[1], d[2]}
Pairs == {Pair(d) : d \in Dirs}

ASSUME FriendsAssumption ==
  /\ Ops \subseteq AllOps
  /\ SeedBlocks \subseteq Dirs
  /\ PoolSize \in Nat \ {0}
  /\ Faults \in BOOLEAN
  /\ NoUser \notin Users

VARIABLES req,      \* friendRequests: the status of each direction's row
          friends,  \* friends: the pairs that have a row
          blocks,   \* userBlocks: <<blocker, blocked>>
          rooms,    \* pairs that have a FRIEND room in chatRooms
          call      \* the handler each slot is running, and its locals

db == <<req, friends, blocks, rooms>>
vars == <<req, friends, blocks, rooms, call>>

Status == {"NONE", "PENDING", "ACCEPTED", "REJECTED", "CANCELED"}

(* Where accept's transaction holds the request row, and the friends row.  *)
HoldsRequest == {"accept.block", "accept.friend", "accept.room", "accept.commit"}
HoldsFriend == {"accept.room", "accept.commit"}

(* A statement that may wait for a row lock is two labels: before it has a *)
(* connection, and while it has one.                                       *)
NeedsConn == {"send.reopen", "accept.begin", "decide.write", "unfriend"}
Awaits(label) ==
  CASE label = "send.reopen" -> "send.update"
    [] label = "accept.begin" -> "accept.lock"
    [] label = "decide.write" -> "decide.update"
    [] label = "unfriend" -> "unfriend.delete"
HoldsConn == HoldsRequest \cup
  {"send.update", "accept.lock", "decide.update", "unfriend.delete"}

Labels == HoldsConn \cup NeedsConn \cup
  {"idle", "send.block", "send.friend", "send.reverse", "send.insert",
   "send.same", "send.find", "email.friend", "email.insert", "email.find",
   "decide.read", "decide.load", "block", "unblock"}

IdleCall == [pc |-> "idle", op |-> "none", me |-> NoUser,
             d |-> <<NoUser, NoUser>>, seen |-> "NONE"]

Init ==
  /\ req = [d \in Dirs |-> "NONE"]
  /\ friends = {}
  /\ blocks \in SUBSET SeedBlocks
  /\ rooms = {}
  /\ call = [c \in Calls |-> IdleCall]

At(c, label) == call[c].pc = label

FreeConn == Cardinality({c \in Calls : call[c].pc \in HoldsConn}) < PoolSize

(* c runs a statement of its own, on a connection it gives back at once.   *)
Statement(c, label) == At(c, label) /\ FreeConn

Goto(c, label) == call' = [call EXCEPT ![c].pc = label]

(* The call is answered, with a result or an error; its locals go.         *)
Answer(c) == call' = [call EXCEPT ![c] = IdleCall]

BlockedEither(d) == d \in blocks \/ Rev(d) \in blocks
PendingEither(d) == req[d] = "PENDING" \/ req[Rev(d)] = "PENDING"

(* Bug: accept reads the request without FOR UPDATE.                       *)
RequestLockedNever(d) == FALSE

RequestLocked(d) == \E c \in Calls : call[c].pc \in HoldsRequest /\ call[c].d = d
FriendLocked(p) == \E c \in Calls : call[c].pc \in HoldsFriend /\ Pair(call[c].d) = p

-----------------------------------------------------------------------------
(* A call arrives.  Requests are decided by id, by anyone who holds one;   *)
(* the other operations are the caller's own, towards d[2].                *)
FirstLabel(op) ==
  CASE op = "send" -> "send.block"
    [] op = "email" -> "email.friend"
    [] op = "accept" -> "accept.begin"
    [] op \in {"reject", "cancel"} -> "decide.read"
    [] op \in {"unfriend", "block", "unblock"} -> op

Begin(c, op, me, d) ==
  /\ At(c, "idle")
  /\ op \in {"accept", "reject", "cancel"} \/ me = d[1]
  /\ call' = [call EXCEPT ![c] = [pc |-> FirstLabel(op), op |-> op, me |-> me,
                                  d |-> d, seen |-> "NONE"]]
  /\ UNCHANGED db

(* The pool hands c a connection for a transaction, or for a statement     *)
(* that may wait while it has it.                                          *)
TakeConn(c) ==
  /\ call[c].pc \in NeedsConn
  /\ FreeConn
  /\ Goto(c, Awaits(call[c].pc))
  /\ UNCHANGED db

-----------------------------------------------------------------------------
(* sendRequest: seven statements, each committed by itself.                *)
SendBlockCheck(c) ==
  /\ Statement(c, "send.block")
  /\ IF BlockedEither(call[c].d) THEN Answer(c) ELSE Goto(c, "send.friend")
  /\ UNCHANGED db

SendFriendCheck(c) ==
  /\ Statement(c, "send.friend")
  /\ IF Pair(call[c].d) \in friends THEN Answer(c) ELSE Goto(c, "send.reverse")
  /\ UNCHANGED db

(* Bug: a pending request of the other side is not looked for.             *)
SendReverseCheckSkipped(c) ==
  Statement(c, "send.reverse") /\ Goto(c, "send.insert") /\ UNCHANGED db

SendReverseCheck(c) ==
  /\ Statement(c, "send.reverse")
  /\ IF req[Rev(call[c].d)] = "PENDING"
       THEN Answer(c) ELSE Goto(c, "send.insert")
  /\ UNCHANGED db

(* INSERT IGNORE of a PENDING row: it changes nothing when the row exists. *)
InsertRequest(c, next) ==
  LET d == call[c].d IN
  IF req[d] = "NONE"
    THEN req' = [req EXCEPT ![d] = "PENDING"] /\ Answer(c)
    ELSE UNCHANGED req /\ Goto(c, next)

SendInsert(c) ==
  /\ Statement(c, "send.insert")
  /\ InsertRequest(c, "send.same")
  /\ UNCHANGED <<friends, blocks, rooms>>

SendFindSame(c) ==
  /\ Statement(c, "send.same")
  /\ IF PendingEither(call[c].d) THEN Answer(c) ELSE Goto(c, "send.reopen")
  /\ UNCHANGED db

(* UPDATE ... SET status = 'PENDING' ... WHERE status <> 'PENDING'         *)
SendReopen(c) ==
  /\ At(c, "send.update")
  /\ ~RequestLocked(call[c].d)
  /\ req' = [req EXCEPT ![call[c].d] = "PENDING"]
  /\ Goto(c, "send.find")
  /\ UNCHANGED <<friends, blocks, rooms>>

SendFindNow(c) ==
  /\ Statement(c, "send.find")
  /\ Answer(c)
  /\ UNCHANGED db

-----------------------------------------------------------------------------
(* sendRequestByEmail, once the e-mail is resolved to d[2]: no block check, *)
(* no look at the opposite request, no reopening.                          *)
EmailFriendCheck(c) ==
  /\ Statement(c, "email.friend")
  /\ IF Pair(call[c].d) \in friends THEN Answer(c) ELSE Goto(c, "email.insert")
  /\ UNCHANGED db

EmailInsert(c) ==
  /\ Statement(c, "email.insert")
  /\ InsertRequest(c, "email.find")
  /\ UNCHANGED <<friends, blocks, rooms>>

EmailFind(c) ==
  /\ Statement(c, "email.find")
  /\ Answer(c)
  /\ UNCHANGED db

-----------------------------------------------------------------------------
(* accept: one transaction.  SELECT ... FOR UPDATE waits for the row lock, *)
(* then the caller and the status are checked; an error rolls back.        *)
(* Bug: the caller is not compared with the one who was asked.             *)
AcceptLockAnyCaller(c) ==
  LET d == call[c].d IN
  /\ At(c, "accept.lock")
  /\ ~RequestLocked(d)
  /\ IF req[d] = "PENDING" THEN Goto(c, "accept.block") ELSE Answer(c)
  /\ UNCHANGED db

(* Bug: a request that was rejected or cancelled can still be accepted.    *)
AcceptLockAnyStatus(c) ==
  LET d == call[c].d IN
  /\ At(c, "accept.lock")
  /\ ~RequestLocked(d)
  /\ IF req[d] # "NONE" /\ call[c].me = d[2]
       THEN Goto(c, "accept.block") ELSE Answer(c)
  /\ UNCHANGED db

AcceptLock(c) ==
  LET d == call[c].d IN
  /\ At(c, "accept.lock")
  /\ ~RequestLocked(d)
  /\ IF req[d] = "PENDING" /\ call[c].me = d[2]
       THEN Goto(c, "accept.block") ELSE Answer(c)
  /\ UNCHANGED db

(* Bug: the blocks are read through this.blockRepo, on a connection beside *)
(* that of the transaction.                                                *)
AcceptBlockCheckOtherConnection(c) ==
  /\ Statement(c, "accept.block")
  /\ IF BlockedEither(call[c].d) THEN Answer(c) ELSE Goto(c, "accept.friend")
  /\ UNCHANGED db

AcceptBlockCheck(c) ==
  /\ At(c, "accept.block")
  /\ IF BlockedEither(call[c].d) THEN Answer(c) ELSE Goto(c, "accept.friend")
  /\ UNCHANGED db

(* INSERT INTO friends ... ON DUPLICATE KEY: takes the row's lock; the row *)
(* becomes visible with the commit.                                        *)
AcceptUpsertFriend(c) ==
  /\ At(c, "accept.friend")
  /\ ~FriendLocked(Pair(call[c].d))
  /\ Goto(c, "accept.room")
  /\ UNCHANGED db

(* Bug: the room is selected but not inserted.                             *)
AcceptEnsureRoomSelectOnly(c) ==
  Statement(c, "accept.room") /\ Goto(c, "accept.commit") /\ UNCHANGED db

(* ensureFriendRoom runs a transaction of its own, on a second connection: *)
(* the room is committed whatever becomes of accept's transaction.         *)
AcceptEnsureRoom(c) ==
  /\ Statement(c, "accept.room")
  /\ rooms' = rooms \cup {Pair(call[c].d)}
  /\ Goto(c, "accept.commit")
  /\ UNCHANGED <<req, friends, blocks>>

(* The two UPDATEs (both reach the one row of the direction) and COMMIT.   *)
AcceptCommit(c) ==
  LET d == call[c].d IN
  /\ At(c, "accept.commit")
  /\ req' = [req EXCEPT ![d] = "ACCEPTED"]
  /\ friends' = friends \cup {Pair(d)}
  /\ Answer(c)
  /\ UNCHANGED <<blocks, rooms>>

-----------------------------------------------------------------------------
(* rejectRequest and cancelRequest: read the row and check it, set the     *)
(* entity's status, then Repository.save, which loads the row again and    *)
(* writes the columns in which the entity differs from what it loaded.     *)
Decider(op, d) == IF op = "reject" THEN d[2] ELSE d[1]

(* Bug: a status the column does not have.                                 *)
VerdictCancelled(op) == IF op = "reject" THEN "REJECTED" ELSE "CANCELLED"

Verdict(op) == IF op = "reject" THEN "REJECTED" ELSE "CANCELED"

DecideRead(c) ==
  LET d == call[c].d IN
  /\ Statement(c, "decide.read")
  /\ IF req[d] = "PENDING" /\ call[c].me = Decider(call[c].op, d)
       THEN Goto(c, "decide.load") ELSE Answer(c)
  /\ UNCHANGED db

DecideLoad(c) ==
  /\ Statement(c, "decide.load")
  /\ call' = [call EXCEPT ![c].pc = "decide.write", ![c].seen = req[call[c].d]]
  /\ UNCHANGED db

DecideWrite(c) ==
  LET d == call[c].d
      verdict == Verdict(call[c].op) IN
  /\ At(c, "decide.update")
  /\ ~RequestLocked(d)
  /\ req' = IF call[c].seen = verdict THEN req ELSE [req EXCEPT ![d] = verdict]
  /\ Answer(c)
  /\ UNCHANGED <<friends, blocks, rooms>>

-----------------------------------------------------------------------------
(* unfriend: one DELETE, an error when it deletes nothing.                 *)
Unfriend(c) ==
  LET p == Pair(call[c].d) IN
  /\ At(c, "unfriend.delete")
  /\ ~FriendLocked(p)
  /\ friends' = friends \ {p}
  /\ Answer(c)
  /\ UNCHANGED <<req, blocks, rooms>>

(* block: its transaction opens with a soft delete of the friends row, and *)
(* FriendEntity declares no delete-date column, so TypeORM throws before   *)
(* any statement is sent and the transaction rolls back.                   *)
Block(c) ==
  /\ Statement(c, "block")
  /\ Answer(c)
  /\ UNCHANGED db

Unblock(c) ==
  /\ Statement(c, "unblock")
  /\ blocks' = blocks \ {call[c].d}
  /\ Answer(c)
  /\ UNCHANGED <<req, friends, rooms>>

(* c has a connection and waits for a row that another call has locked.    *)
WaitsForLock(c) ==
  \/ call[c].pc \in {"accept.lock", "send.update", "decide.update"} /\ RequestLocked(call[c].d)
  \/ call[c].pc \in {"accept.friend", "unfriend.delete"} /\ FriendLocked(Pair(call[c].d))

(* InnoDB ends the wait after innodb_lock_wait_timeout: an error, which    *)
(* rolls back and gives the connection back.  The wait for a connection    *)
(* has no such end.                                                        *)
LockWaitTimesOut(c) ==
  /\ WaitsForLock(c)
  /\ Answer(c)
  /\ UNCHANGED db

(* The statement a call awaits fails (lost connection, the process dies):  *)
(* an open transaction rolls back, its locks go.                           *)
HandlerFails(c) ==
  /\ Faults
  /\ call[c].pc # "idle"
  /\ Answer(c)
  /\ UNCHANGED db

-----------------------------------------------------------------------------
Step(c) ==
  \/ TakeConn(c)
  \/ SendBlockCheck(c) \/ SendFriendCheck(c) \/ SendReverseCheck(c)
  \/ SendInsert(c) \/ SendFindSame(c) \/ SendReopen(c) \/ SendFindNow(c)
  \/ EmailFriendCheck(c) \/ EmailInsert(c) \/ EmailFind(c)
  \/ AcceptLock(c) \/ AcceptBlockCheck(c) \/ AcceptUpsertFriend(c)
  \/ AcceptEnsureRoom(c) \/ AcceptCommit(c)
  \/ DecideRead(c) \/ DecideLoad(c) \/ DecideWrite(c)
  \/ Unfriend(c) \/ Block(c) \/ Unblock(c)
  \/ LockWaitTimesOut(c)

Next == \E c \in Calls :
  \/ \E op \in Ops, me \in Users, d \in Dirs : Begin(c, op, me, d)
  \/ Step(c)
  \/ HandlerFails(c)

Spec == Init /\ [][Next]_vars

(* A handler runs on while its next statement can; InnoDB serves the       *)
(* waiters of a row lock in order or ends their wait, and the pool serves  *)
(* those of a connection in order: a statement that can proceed again and  *)
(* again does.  Nothing obliges a client to call.                          *)
FairSpec == Spec /\ \A c \in Calls : SF_vars(Step(c))

-----------------------------------------------------------------------------
CallRecord == [pc : Labels, op : AllOps \cup {"none"}, me : Users \cup {NoUser},
               d : Dirs \cup {<<NoUser, NoUser>>}, seen : Status]

(* Every table and every handler's locals stay in their types, and a call  *)
(* that runs has a direction.                                              *)
TypeOK ==
  /\ req \in [Dirs -> Status]
  /\ friends \subseteq Pairs
  /\ blocks \subseteq Dirs
  /\ rooms \subseteq Pairs
  /\ call \in [Calls -> CallRecord]
  /\ \A c \in Calls : call[c].pc # "idle" => call[c].d \in Dirs

(* From the moment accept has checked a request until it commits, the      *)
(* request stays PENDING, its caller is the one asked, and no second       *)
(* accept holds it: the FOR UPDATE lock covers the whole decision.         *)
AcceptsHoldPending ==
  \A c \in Calls : call[c].pc \in HoldsRequest =>
    /\ req[call[c].d] = "PENDING"
    /\ call[c].me = call[c].d[2]
    /\ call[c].op = "accept"
    /\ \A e \in Calls : call[e].pc \in HoldsRequest /\ call[e].d = call[c].d => e = c

(* Friends can chat: a pair with a friends row has a FRIEND room, however  *)
(* accepts, failures and unfriends interleave (accept ensures the room     *)
(* before it commits the friendship).                                      *)
FriendsHaveRoom == friends \subseteq rooms

(* No two transactions hold one friends row: the friendship of a pair is   *)
(* written by one accept at a time, even of the two opposite requests.     *)
OneUpsertPerPair ==
  \A c, e \in Calls :
    /\ call[c].pc \in HoldsFriend
    /\ call[e].pc \in HoldsFriend
    /\ Pair(call[c].d) = Pair(call[e].d)
    => c = e

(* The step accepts a PENDING request between the two of p, in the name of *)
(* the one who was asked, and neither has blocked the other.               *)
Consented(p) ==
  \E c \in Calls :
    /\ call[c].op = "accept"
    /\ Pair(call[c].d) = p
    /\ call[c].me = call[c].d[2]
    /\ req[call[c].d] = "PENDING"
    /\ req'[call[c].d] = "ACCEPTED"
    /\ ~BlockedEither(call[c].d)

(* A friendship appears only when the user who was asked accepts a request *)
(* that is PENDING at that very step, and neither has blocked the other.   *)
FriendshipIsConsented == [][\A p \in friends' \ friends : Consented(p)]_vars

Relation == INSTANCE FriendRelation WITH asked <- {d \in Dirs : req[d] = "PENDING"}

(* Under any interleaving the handlers implement the weak promise.         *)
ImplementsLooseRelation == Relation!LooseSpec

(* listFriends: the other user of every friends row u is in; neither blocks *)
(* nor requests are looked at.                                             *)
ListFriends(u) == {v \in Users \ {u} : {u, v} \in friends}

(* Whoever listFriends shows a user is backed by the request the           *)
(* friendship came from: one of the two rows is still ACCEPTED.            *)
FriendsWereAccepted ==
  \A u \in Users : \A v \in ListFriends(u) :
    "ACCEPTED" \in {req[<<u, v>>], req[<<v, u>>]}

(* sendRequest, however slow, makes no request PENDING between users one   *)
(* of whom has blocked the other: the block it checked first is still      *)
(* absent when it inserts or reopens the row.                              *)
NoRequestAcrossBlock ==
  [][\A c \in Calls :
       (call[c].op = "send" /\ call'[c] # call[c] /\ req' # req)
       => ~BlockedEither(call[c].d)]_vars

(* Every call is answered: waiting for a row lock or for a connection is   *)
(* never for ever.                                                         *)
EveryCallAnswered == \A c \in Calls : []<>(call[c].pc = "idle")
=============================================================================
