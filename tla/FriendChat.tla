------------------------------- MODULE FriendChat -------------------------------
(***************************************************************************)
(* The chat screen of the app, _FriendChatPageState of                     *)
(* lib/features/friend/friend_chat_screen.dart, in front of the room of    *)
(* ChatRoom: one screen, of the user Me, while other devices post through  *)
(* the same server.                                                        *)
(*                                                                         *)
(* The screen has no socket: it learns of messages by _loadInitial (when   *)
(* it opens, and from its menu), by the answers to what it sends, and by   *)
(* the _reload each send ends with.  Both delays are of 20 ms: they fire   *)
(* in the order they were set.  Its read marks are PUT to /read_cursor, a  *)
(* route the server does not have, and change nothing there: the cursors   *)
(* move for other clients of PUT /read.                                    *)
(*                                                                         *)
(* req.had is there for the properties: what the screen showed when the    *)
(* request left.  So is calm: nothing has committed, been sent or been     *)
(* answered since the load in flight, or the last one that ended, was      *)
(* requested.                                                              *)
(***************************************************************************)
EXTENDS ChatRoom

CONSTANT Me    \* the user of the screen

ScreenRequests == [kind : {"initial", "reload"}, since : Nat, had : SUBSET Ids,
                   answered : BOOLEAN, list : Seq([id : Ids, seq : Nat])]

ASSUME ScreenAssumption == Me \in Users /\ None \notin ScreenRequests

VARIABLES mounted,   \* the screen is open
          shown,     \* _messages: ids and seqs
          ids,       \* _messageIds
          screenFetching, \* _fetching
          req,       \* the load in flight
          sends,     \* ids of the messages whose send awaits its answer
          timers,    \* the delays set, first to fire first
          calm       \* see above

screenVars == <<mounted, shown, ids, screenFetching, req, sends, timers, calm>>
chatVars == <<roomVars, screenVars>>

Row(m) == [id |-> m.id, seq |-> m.seq]
ShownIds == {shown[i].id : i \in DOMAIN shown}
IdsOf(rowSeq) == {rowSeq[i].id : i \in DOMAIN rowSeq}
Loaded == "loaded"

ScreenInit ==
  /\ RoomInit
  /\ mounted = FALSE
  /\ screenFetching = FALSE
  /\ calm = FALSE
  /\ shown = <<>> /\ ids = {} /\ req = None /\ sends = {} /\ timers = <<>>

-----------------------------------------------------------------------------
(* Loading                                                                 *)

Request(kind, since) ==
  req' = [kind |-> kind, since |-> since, had |-> ShownIds,
          answered |-> FALSE, list |-> <<>>]

(* initState, which loads                                                  *)
Open ==
  /\ ~mounted
  /\ mounted' = TRUE
  /\ screenFetching' = TRUE
  /\ Request("initial", 0)
  /\ calm' = TRUE
  /\ UNCHANGED <<roomVars, shown, ids, sends, timers>>

(* _loadInitial from the menu.  It does nothing while a load runs, nor     *)
(* within 500 ms of the one before: the user may have to press later.      *)
Refresh ==
  /\ mounted
  /\ ~screenFetching
  /\ screenFetching' = TRUE
  /\ Request("initial", 0)
  /\ calm' = (sends = {} /\ timers = <<>>)
  /\ UNCHANGED <<roomVars, mounted, shown, ids, sends, timers>>

(* The server answers: the SELECT of fetchMessagesSinceSeq.                *)
Serve ==
  /\ req # None
  /\ ~req.answered
  /\ req' = [req EXCEPT !.answered = TRUE,
                        !.list = [i \in DOMAIN Fetch(req.since, FetchLimit) |->
                                    Row(Fetch(req.since, FetchLimit)[i])]]
  /\ UNCHANGED <<roomVars, mounted, shown, ids, screenFetching, sends, timers, calm>>

Answered(kind) == req # None /\ req.kind = kind /\ req.answered

(* Bug: what was fetched is added to what is shown.                        *)
ReplaceAppends(list) ==
  /\ shown' = shown \o list
  /\ ids' = ids \cup IdsOf(list)

(* Bug: what is not on the screen yet is added to what is.                 *)
ReplaceMerges(list) ==
  LET new == SelectSeq(list, LAMBDA m : m.id \notin ids) IN
  /\ shown' = shown \o new
  /\ ids' = ids \cup IdsOf(new)

(* Bug: the set of ids is not cleared.                                     *)
ReplaceKeepsIds(list) ==
  /\ shown' = list
  /\ ids' = ids \cup IdsOf(list)

(* _messages = fetched, _messageIds with it                                *)
Replace(list) ==
  /\ shown' = list
  /\ ids' = IdsOf(list)

(* The answer of _loadInitial.  It scrolls after a delay, and until then   *)
(* _fetching stays.                                                        *)
LandInitial ==
  /\ Answered("initial")
  /\ Replace(req.list)
  /\ req' = None
  /\ timers' = Append(timers, Loaded)
  /\ UNCHANGED <<roomVars, mounted, screenFetching, sends, calm>>

(* fetched.where((m) => !_messageIds.contains(m.id)): the k-th of these    *)
(* has k - 1 before it.                                                    *)
NewOnes(list) ==
  LET new == {i \in DOMAIN list : list[i].id \notin ids} IN
  [k \in 1 .. Cardinality(new) |->
     list[CHOOSE i \in new : Cardinality({j \in new : j < i}) = k - 1]]

(* The answer of _reload.  Without news there is no delay.                 *)
LandReload ==
  /\ Answered("reload")
  /\ LET new == NewOnes(req.list) IN
     /\ shown' = shown \o new
     /\ ids' = ids \cup IdsOf(new)
     /\ IF new = <<>>
          THEN screenFetching' = FALSE /\ UNCHANGED timers
          ELSE timers' = Append(timers, Loaded) /\ UNCHANGED screenFetching
  /\ req' = None
  /\ calm' = FALSE
  /\ UNCHANGED <<roomVars, mounted, sends>>

(* A load fails, or runs into the client's timeout of 20 s: finally.       *)
LoadFails ==
  /\ req # None
  /\ req' = None
  /\ screenFetching' = FALSE
  /\ calm' = FALSE
  /\ UNCHANGED <<roomVars, mounted, shown, ids, sends, timers>>

(* The delay after a load that landed: finally.                            *)
LoadEnds ==
  /\ timers # <<>>
  /\ Head(timers) = Loaded
  /\ timers' = Tail(timers)
  /\ screenFetching' = FALSE
  /\ UNCHANGED <<roomVars, mounted, shown, ids, req, sends, calm>>

-----------------------------------------------------------------------------
(* Sending                                                                 *)

Send ==
  /\ mounted
  /\ Post(Me)
  /\ sends' = sends \cup {made'}
  /\ calm' = FALSE
  /\ UNCHANGED <<mounted, shown, ids, screenFetching, req, timers>>

(* The answer: appendText returns the milliseconds of createdAt as seq.    *)
SendAnswered(m) ==
  /\ m.id \in sends
  /\ sends' = sends \ {m.id}
  /\ shown' = Append(shown, [id |-> m.id, seq |-> SeqFromDate(m.id)])
  /\ ids' = ids \cup {m.id}
  /\ timers' = Append(timers, "sent")
  /\ calm' = FALSE
  /\ UNCHANGED <<roomVars, mounted, screenFetching, req>>

(* An error or a timeout; the message may be stored all the same.          *)
SendFails ==
  /\ \E id \in sends : sends' = sends \ {id}
  /\ calm' = FALSE
  /\ UNCHANGED <<roomVars, mounted, shown, ids, screenFetching, req, timers>>

(* _messages.last.seq, 0 when there is none                                *)
LastSeq == IF shown = <<>> THEN 0 ELSE shown[Len(shown)].seq

(* The delay after a send that was answered: _reload, unless a load runs.  *)
Reload ==
  /\ timers # <<>>
  /\ Head(timers) = "sent"
  /\ timers' = Tail(timers)
  /\ IF screenFetching
       THEN UNCHANGED <<screenFetching, req, calm>>
       ELSE /\ screenFetching' = TRUE
            /\ Request("reload", LastSeq)
            /\ calm' = FALSE
  /\ UNCHANGED <<roomVars, mounted, shown, ids, sends>>

(* dispose.  What is answered later finds the screen unmounted.            *)
Leave ==
  /\ mounted
  /\ mounted' = FALSE
  /\ screenFetching' = FALSE
  /\ calm' = FALSE
  /\ shown' = <<>> /\ ids' = {} /\ req' = None /\ sends' = {} /\ timers' = <<>>
  /\ UNCHANGED roomVars

-----------------------------------------------------------------------------
(* Another device posts.                                                   *)
DevicePosts ==
  /\ \E u \in Users : Post(u)
  /\ UNCHANGED screenVars

ServerSteps ==
  /\ RoomStep
  /\ calm' = (calm /\ rows' = rows)
  /\ UNCHANGED <<mounted, shown, ids, screenFetching, req, sends, timers>>

Load == Serve \/ LandInitial \/ LandReload \/ LoadFails
Timer == LoadEnds \/ Reload

ScreenNext ==
  \/ Open \/ Refresh \/ Load \/ Timer
  \/ Send \/ (\E m \in rows : SendAnswered(m)) \/ SendFails \/ Leave
  \/ DevicePosts \/ ServerSteps

(* Every request is answered or fails, at the latest by its timeout, and   *)
(* every delay ends.                                                       *)
ScreenSpec == ScreenInit /\ [][ScreenNext]_chatVars /\ WF_chatVars(Load) /\ WF_chatVars(Timer)

-----------------------------------------------------------------------------
(* The variables have their types, and the set of ids the screen keeps is  *)
(* that of the messages it shows: _reload relies on it to leave out what   *)
(* is there.                                                               *)
ScreenTypeOK ==
  /\ RoomTypeOK
  /\ mounted \in BOOLEAN
  /\ screenFetching \in BOOLEAN
  /\ shown \in Seq([id : Ids, seq : Nat])
  /\ ids = ShownIds
  /\ sends \subseteq Ids
  /\ timers \in Seq({Loaded, "sent"})
  /\ req # None => screenFetching

(* A message of someone else is never on the screen twice.  One's own is,  *)
(* when a load and the answer to the send both bring it, but never three   *)
(* times (_send and _reload, lines 187-258).                               *)
OthersShownOnce ==
  \A m \in rows :
    Cardinality({i \in DOMAIN shown : shown[i].id = m.id}) <= IF m.from = Me THEN 2 ELSE 1

(* A load of the screen, requested while no send is under way and landing  *)
(* before anything else happens, leaves it showing exactly the newest      *)
(* messages, in order: whatever overlapping sends and loads left on the    *)
(* screen, one quiet refresh repairs (_loadInitial, line 136).             *)
RefreshHeals ==
  calm /\ mounted /\ req = None
    => shown = [i \in DOMAIN Newest(FetchLimit) |-> Row(Newest(FetchLimit)[i])]

(* A refresh loses no message that was on the screen when it was asked     *)
(* for, unless as many newer ones as the screen loads took its place.      *)
RefreshKeeps ==
  [][LandInitial => \A id \in req.had :
       \/ id \in ids'
       \/ Cardinality(ids') = FetchLimit /\ \A other \in ids' : other > id]_chatVars

(* A message someone has read is never unread again: the cursor only moves *)
(* forward, as the comments at chats.service.ts:217 and 249 say, also when *)
(* requests to mark overlap.                                               *)
ReadStaysRead ==
  [][\A u \in Readers, m \in rows : Read(u, m) => Read(u, m)']_chatVars
=============================================================================
