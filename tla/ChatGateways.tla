------------------------------ MODULE ChatGateways ------------------------------
(***************************************************************************)
(* A client that follows a room by polling, RestChatGateway of             *)
(* lib/features/chat/data/chat_gateway_rest.dart, in front of ChatRoom: a  *)
(* timer asks every two seconds for the messages after the last seq it     *)
(* has, and hands what comes to the stream of its screen.                  *)
(*                                                                         *)
(* The server selects by seq, orders by createdAt and id, and limits the   *)
(* result, and the gateway goes on from the seq of the last message of the *)
(* list.  These are three different orders when posts overlap.             *)
(*                                                                         *)
(* The last five variables are there for the properties.  delivered was    *)
(* handed over; late became visible after a message with a larger seq;     *)
(* before is what the newest N of the first load did not reach back to.    *)
(* jumped is lost: a later load from the start of the room brings the      *)
(* newest N again, and _lastSeq goes on behind them, over messages between *)
(* the two loads that nobody was given.  looked says whether history() has *)
(* asked from there; without it no load after the first one does.          *)
(***************************************************************************)
EXTENDS ChatRoom

CONSTANT MaxFailures   \* bound: requests that fail in a behaviour

ASSUME GatewayAssumption ==
  /\ MaxFailures \in Nat
  /\ None \notin [since : Nat, answered : BOOLEAN, list : Seq(Messages), left : SUBSET Ids]

VARIABLES lastSeq,    \* _lastSeq
          fetching,   \* _fetching
          poll,       \* the request of _tick in flight
          history,    \* the request of history() in flight
          disposed,   \* dispose() was called
          failures,
          delivered, late, before, jumped, looked

gatewayVars == <<lastSeq, fetching, poll, history, disposed, failures,
                 delivered, before, jumped, looked>>
vars == <<roomVars, gatewayVars, late>>

Init ==
  /\ RoomInit
  /\ lastSeq = 0
  /\ fetching = FALSE
  /\ poll = None /\ history = None
  /\ disposed = FALSE
  /\ failures = 0
  /\ delivered = {} /\ late = {} /\ before = {} /\ jumped = {}
  /\ looked = FALSE

IdsIn(list) == {list[i].id : i \in DOMAIN list}
Asked(since) == [since |-> since, answered |-> FALSE, list |-> <<>>, left |-> {}]

(* What a request without a seq leaves out: the rows before the newest N.  *)
LeftOut(since) == IF since > 0 THEN {} ELSE {m.id : m \in rows} \ IdsIn(Fetch(0, FetchLimit))

Answer(r) == [since |-> r.since, answered |-> TRUE, list |-> Fetch(r.since, FetchLimit),
              left |-> LeftOut(r.since)]

(* What is handed over with the answer r, and what r leaves behind.        *)
HandOver(r) ==
  /\ delivered' = delivered \cup IdsIn(r.list)
  /\ IF delivered = {}
       THEN before' = before \cup r.left /\ UNCHANGED jumped
       ELSE jumped' = jumped \cup (r.left \ (delivered \cup before)) /\ UNCHANGED before

-----------------------------------------------------------------------------
(* The room goes on: other devices post.                                   *)
OtherPosts ==
  /\ \E u \in Users : Post(u)
  /\ UNCHANGED <<gatewayVars, late>>

Server ==
  /\ RoomStep
  /\ late' = late \cup {m.id : m \in {n \in rows' \ rows : \E k \in rows : k.seq > n.seq}}
  /\ UNCHANGED gatewayVars

-----------------------------------------------------------------------------
(* The timer: nothing while the request before is under way.               *)
Tick ==
  /\ ~disposed
  /\ ~fetching
  /\ fetching' = TRUE
  /\ poll' = Asked(lastSeq)
  /\ UNCHANGED <<roomVars, late, lastSeq, history, disposed, failures, delivered, before,
                 jumped, looked>>

ServePoll ==
  /\ poll # None /\ ~poll.answered
  /\ poll' = Answer(poll)
  /\ UNCHANGED <<roomVars, late, fetching, lastSeq, history, disposed, failures, delivered,
                 before, jumped, looked>>

(* Bug: the next request starts one past the last seq.                     *)
GoOnPast(list) == lastSeq' = IF list = <<>> THEN lastSeq ELSE list[Len(list)].seq + 1

(* mapped.last.seq, when the list is not empty                             *)
GoOnFrom(list) == lastSeq' = IF list = <<>> THEN lastSeq ELSE list[Len(list)].seq

(* Once disposed of, the closed stream refuses the first message.          *)
LandPoll ==
  /\ poll # None /\ poll.answered
  /\ IF disposed THEN UNCHANGED <<delivered, before, jumped, lastSeq>>
     ELSE HandOver(poll) /\ GoOnFrom(poll.list)
  /\ poll' = None
  /\ fetching' = FALSE
  /\ UNCHANGED <<roomVars, late, history, disposed, failures, looked>>

(* Bug: an error leaves _fetching set: every later tick returns at once.   *)
PollStuck ==
  /\ poll # None
  /\ failures < MaxFailures
  /\ failures' = failures + 1
  /\ poll' = None
  /\ UNCHANGED <<roomVars, late, lastSeq, fetching, history, disposed, delivered, before,
                 jumped, looked>>

(* An error or a timeout: finally clears _fetching, nothing catches the    *)
(* error, and the timer goes on.                                           *)
PollFails ==
  /\ poll # None
  /\ failures < MaxFailures
  /\ failures' = failures + 1
  /\ poll' = None
  /\ fetching' = FALSE
  /\ UNCHANGED <<roomVars, late, lastSeq, history, disposed, delivered, before, jumped, looked>>

-----------------------------------------------------------------------------
(* history(), from the start of the room or from the seq the screen has;   *)
(* it moves _lastSeq too, whatever a tick is doing.                        *)
AskHistory ==
  /\ ~disposed
  /\ history = None
  /\ \E since \in {0, lastSeq} : /\ history' = Asked(since)
                                /\ looked' = (looked \/ since = 0)
  /\ UNCHANGED <<roomVars, late, fetching, lastSeq, poll, disposed, failures, delivered,
                 before, jumped>>

ServeHistory ==
  /\ history # None /\ ~history.answered
  /\ history' = Answer(history)
  /\ UNCHANGED <<roomVars, late, fetching, lastSeq, poll, disposed, failures, delivered,
                 before, jumped, looked>>

LandHistory ==
  /\ history # None /\ history.answered
  /\ HandOver(history)
  /\ GoOnFrom(history.list)
  /\ history' = None
  /\ UNCHANGED <<roomVars, late, fetching, poll, disposed, failures, looked>>

HistoryFails ==
  /\ history # None
  /\ failures < MaxFailures
  /\ failures' = failures + 1
  /\ history' = None
  /\ UNCHANGED <<roomVars, late, fetching, lastSeq, poll, disposed, delivered, before,
                 jumped, looked>>

Dispose ==
  /\ ~disposed
  /\ disposed' = TRUE
  /\ UNCHANGED <<roomVars, late, fetching, lastSeq, poll, history, failures, delivered,
                 before, jumped, looked>>

Polling == Tick \/ ServePoll \/ LandPoll
Looking == AskHistory \/ ServeHistory \/ LandHistory \/ HistoryFails

Next == OtherPosts \/ Server \/ Polling \/ PollFails \/ Looking \/ Dispose

(* Timer.periodic fires, and requests end, at the latest by their timeout; *)
(* they do not fail for ever (MaxFailures).  Nobody has to post or look.   *)
Spec == Init /\ [][Next]_vars /\ WF_vars(Polling)

-----------------------------------------------------------------------------
(* The variables have their types, and what was handed over was stored.    *)
TypeOK ==
  /\ RoomTypeOK
  /\ lastSeq \in {0} \cup {m.seq : m \in rows}
  /\ delivered \cup late \cup before \cup jumped \subseteq {m.id : m \in rows}
  /\ disposed \in BOOLEAN /\ looked \in BOOLEAN
  /\ fetching <=> poll # None
  /\ failures \in 0 .. MaxFailures
  /\ \A r \in {poll, history} \ {None} :
       /\ r.since \in Nat /\ Len(r.list) <= FetchLimit
       /\ IdsIn(r.list) \cup r.left \subseteq {m.id : m \in rows}

(* m was stored in order: not after a message with a larger seq, and no    *)
(* message created before it has a larger seq.                             *)
InOrderOf(m) ==
  /\ m.id \notin late
  /\ \A n \in rows : n.id < m.id => n.seq < m.seq

(* What the gateway has passed it has handed over: a message whose seq is  *)
(* not after _lastSeq was delivered, unless it came before the first load, *)
(* or a later load from the start of the room lost it (jumped), or its     *)
(* post overlapped another so that the orders of seq, createdAt and commit *)
(* disagree (chats.service.ts:138-151).  The loss is history()'s: as long  *)
(* as it has not asked from the start, nothing is jumped over.  Loads of   *)
(* limited length, failures, and history() beside a tick lose nothing else.*)
NothingSkipped ==
  /\ \A m \in rows :
       m.seq <= lastSeq /\ m.id \notin delivered /\ InOrderOf(m) => m.id \in before \cup jumped
  /\ jumped # {} => looked

(* A stored message reaches the screen, if it is in order, after the first *)
(* load and not lost to a later load from the start, or the gateway is     *)
(* disposed of: failed polls are made up for (chat_gateway_rest.dart:36-56).*)
PollsCatchUp ==
  \A id \in Ids :
    (\E m \in rows : m.id = id) ~>
      \/ id \in delivered \cup before \cup jumped
      \/ disposed
      \/ \E m \in rows : m.id = id /\ ~InOrderOf(m)
=============================================================================
