-------------------------------- MODULE ChatRoom --------------------------------
(***************************************************************************)
(* The server's side of one chat room: ChatsService of                     *)
(* features/chats/chats.service.ts over the tables chatMessages and        *)
(* chatReads, as the handlers of ChatsController call it.  A step is one   *)
(* database statement; an INSERT has two, because its AUTO_INCREMENT seq   *)
(* is drawn before the row can be read by others: rows may become visible  *)
(* in another order than their seq.                                        *)
(*                                                                         *)
(* A message's id and createdAt are drawn together, before the INSERT: the *)
(* model numbers the messages in the order ORDER BY createdAt, id gives    *)
(* them, and calls that number the id.  There are thus three orders, of    *)
(* ids, of seqs and of commits, and no two of them agree.                  *)
(***************************************************************************)
EXTENDS Integers, FiniteSets, Sequences

CONSTANTS Users,        \* the participants of the room
          Readers,      \* bound: those who send read requests
          FetchLimit,   \* the LIMIT a client asks for
          MaxMessages,  \* bound: messages posted in a behaviour
          MaxInserts,   \* bound: INSERTs under way at a time
          MaxMarks,     \* bound: read requests served at a time
          None          \* no request of a client

ASSUME ChatAssumption ==
  /\ Readers \subseteq Users
  /\ FetchLimit \in Nat \ {0}
  /\ MaxMessages \in Nat
  /\ MaxInserts \in Nat
  /\ MaxMarks \in Nat

VARIABLES made,       \* how many messages were given an id and a createdAt
          nextSeq,    \* AUTO_INCREMENT of chatMessages
          inserting,  \* messages whose INSERT has not committed; seq 0: not drawn
          rows,       \* chatMessages, as other statements see it
          cursor,     \* chatReads: seq of each user's lastReadMessageId, 0 without
          marks       \* markReadTo calls between choosing a target and the upsert

roomVars == <<made, nextSeq, inserting, rows, cursor, marks>>

Ids == 1 .. MaxMessages
Seqs == 1 .. MaxMessages
Messages == [id : Ids, seq : Seqs, from : Users]

(* seqFromDate: the milliseconds of a date, far above every AUTO_INCREMENT.*)
SeqFromDate(id) == MaxMessages + id

RoomInit ==
  /\ made = 0
  /\ nextSeq = 1
  /\ inserting = {}
  /\ rows = {}
  /\ cursor = [u \in Readers |-> 0]
  /\ marks = {}

-----------------------------------------------------------------------------
(* appendText                                                              *)

(* const id = uuidv1(); const createdAt = new Date()                       *)
Post(u) ==
  /\ made < MaxMessages
  /\ Cardinality(inserting) < MaxInserts
  /\ made' = made + 1
  /\ inserting' = inserting \cup {[id |-> made + 1, seq |-> 0, from |-> u]}
  /\ UNCHANGED <<nextSeq, rows, cursor, marks>>

(* The INSERT draws its seq ...                                            *)
Insert(m) ==
  /\ m.seq = 0
  /\ inserting' = (inserting \ {m}) \cup {[m EXCEPT !.seq = nextSeq]}
  /\ nextSeq' = nextSeq + 1
  /\ UNCHANGED <<made, rows, cursor, marks>>

(* ... and commits.                                                        *)
Commit(m) ==
  /\ m.seq # 0
  /\ inserting' = inserting \ {m}
  /\ rows' = rows \cup {m}
  /\ UNCHANGED <<made, nextSeq, cursor, marks>>

(* The statement fails; a seq it drew is lost.                             *)
InsertFails(m) ==
  /\ inserting' = inserting \ {m}
  /\ UNCHANGED <<made, nextSeq, rows, cursor, marks>>

-----------------------------------------------------------------------------
(* fetchMessagesSinceSeq                                                   *)

Older(m, n) == m.id < n.id

(* The i-th of them has i - 1 older ones.                                  *)
InOrder(S) ==
  [i \in 1 .. Cardinality(S) |->
     CHOOSE m \in S : Cardinality({n \in S : Older(n, m)}) = i - 1]

(* Bug: the newest messages are asked for in ascending order.              *)
NewestAscending(n) ==
  LET all == InOrder(rows) IN
  IF Len(all) <= n THEN all ELSE SubSeq(all, 1, n)

(* ORDER BY createdAt DESC, id DESC LIMIT n, reversed                      *)
Newest(n) ==
  LET all == InOrder(rows) IN
  IF Len(all) <= n THEN all ELSE SubSeq(all, Len(all) - n + 1, Len(all))

(* Bug: of the messages after since, the newest n are taken.               *)
SinceNewest(since, n) ==
  LET all == InOrder({m \in rows : m.seq > since}) IN
  IF Len(all) <= n THEN all ELSE SubSeq(all, Len(all) - n + 1, Len(all))

(* seq > since ORDER BY createdAt ASC, id ASC LIMIT n                      *)
Since(since, n) ==
  LET all == InOrder({m \in rows : m.seq > since}) IN
  IF Len(all) <= n THEN all ELSE SubSeq(all, 1, n)

Fetch(since, n) == IF since <= 0 THEN Newest(n) ELSE Since(since, n)

-----------------------------------------------------------------------------
(* markReadTo                                                              *)

Mark(u, target) ==
  /\ Cardinality(marks) < MaxMarks
  /\ marks' = marks \cup {[user |-> u, seq |-> target.seq]}
  /\ UNCHANGED <<made, nextSeq, inserting, rows, cursor>>

(* A message the caller names must be in the room.                         *)
MarkMessage(u) == \E m \in rows : Mark(u, m)

(* Without one, the message with the largest seq; nothing in an empty room.*)
MarkLatest(u) ==
  \E m \in rows : /\ \A n \in rows : n.seq <= m.seq
                  /\ Mark(u, m)

(* Bug: the upsert overwrites, as that of updateReadCursor does.           *)
UpsertOverwrites(k) ==
  /\ marks' = marks \ {k}
  /\ cursor' = [cursor EXCEPT ![k.user] = k.seq]
  /\ UNCHANGED <<made, nextSeq, inserting, rows>>

(* ON DUPLICATE KEY UPDATE: of the old and the new message, the later one. *)
Upsert(k) ==
  /\ marks' = marks \ {k}
  /\ cursor' = [cursor EXCEPT ![k.user] = IF k.seq > @ THEN k.seq ELSE @]
  /\ UNCHANGED <<made, nextSeq, inserting, rows>>

(* What listFriends does not count as unread.                              *)
Read(u, m) == m.seq <= cursor[u]

RoomStep ==
  \/ \E m \in inserting : Insert(m) \/ Commit(m) \/ InsertFails(m)
  \/ \E u \in Readers : MarkMessage(u) \/ MarkLatest(u)
  \/ \E k \in marks : Upsert(k)

RoomTypeOK ==
  /\ made \in 0 .. MaxMessages
  /\ nextSeq \in 1 .. MaxMessages + 1
  /\ inserting \subseteq [id : Ids, seq : Seqs \cup {0}, from : Users]
  /\ rows \subseteq Messages
  /\ cursor \in [Readers -> Seqs \cup {0}]
  /\ marks \subseteq [user : Readers, seq : Seqs]
=============================================================================
