---------------------------- MODULE RealtimeProofs ----------------------------
(***************************************************************************)
(* The properties of Realtime for any devices, rooms, messages and         *)
(* sockets: its types, that a device which fetched while it held its       *)
(* socket misses nothing, and that the rooms answered only descend.        *)
(*                                                                         *)
(* JoinThenFetch speaks of fetches that have landed.  It is inductive only *)
(* with what holds of the one in flight: once answered, its list, what was *)
(* read and what is on the wire cover the stored messages, or a broadcast  *)
(* is to come.  That rests on the numbering of sockets, by which one that  *)
(* connects is in no room yet, and on a post knowing whether its row is    *)
(* stored.                                                                 *)
(***************************************************************************)
EXTENDS Realtime, WellFoundedInduction, TLAPS

(* A device opens a chat only while it has none; an answered room stays.   *)
RoomsInv ==
  /\ rooms \subseteq RoomIds /\ answered \in rooms \cup {None}
  /\ opening \in [Devices -> {Idle, "insert", "select"}]
  /\ room \in [Devices -> rooms \cup {None}]
  /\ accepting # None =>
       /\ accepting \in [new : RoomIds \ rooms, pick : RoomIds \cup {None}]
       /\ accepting.pick \in rooms \cup {accepting.new, None}
  /\ \A d \in Devices : /\ opening[d] # Idle => room[d] = None
                        /\ opening[d] = "select" => rooms # {}

(* Without a chat there is no socket and nothing read.                     *)
ClosedIsEmpty ==
  \A d \in Devices : room[d] = None =>
    /\ socket[d] = None /\ fetch[d] = None /\ caughtUp[d] = None
    /\ wire[d] = {} /\ got[d] = {}

(* The sockets d has connected so far.                                     *)
Made(d) == {d} \X (1 .. made[d])

Fetches == [with : Sockets \cup {None}, answered : BOOLEAN, list : SUBSET Ids]

(* A socket in a room was connected; the one a device holds is in its      *)
(* room alone.                                                             *)
SocketsInv ==
  /\ made \in [Devices -> 0 .. MaxSockets]
  /\ subs \in [RoomIds -> SUBSET Sockets]
  /\ socket \in [Devices -> Sockets \cup {None}]
  /\ caughtUp \in [Devices -> Sockets \cup {None}]
  /\ fetch \in [Devices -> Fetches \cup {None}]
  /\ \A r \in RoomIds : \A s \in subs[r] : s \in Made(s[1])
  /\ \A d \in Devices :
       /\ socket[d] \in Made(d) \cup {None} /\ caughtUp[d] \in Made(d) \cup {None}
       /\ fetch[d] # None => fetch[d].with \in Made(d) \cup {None}
       /\ socket[d] # None => \A r \in RoomIds : socket[d] \in subs[r] <=> r = room[d]

(* Ids are not shared, and a post waits for its broadcast exactly when its *)
(* row is there.                                                           *)
PostsInv ==
  /\ posted \in 0 .. MaxMessages
  /\ posts \subseteq [id : 1 .. posted, room : rooms, todo : {PostSteps, <<"broadcast">>}]
  /\ rows \subseteq [id : 1 .. posted, room : rooms]
  /\ \A p, q \in posts : p.id = q.id => p = q
  /\ \A p \in posts : \A m \in rows : m.id = p.id => m.room = p.room /\ p.todo = <<"broadcast">>
  /\ \A p \in posts : p.todo = <<"broadcast">> => [id |-> p.id, room |-> p.room] \in rows

(* What a device has, or is about to have, was stored in its room.         *)
StoredIn(d, ids) == \A id \in ids : [id |-> id, room |-> room[d]] \in rows

ReadsInv ==
  /\ wire \in [Devices -> SUBSET Ids] /\ got \in [Devices -> SUBSET Ids]
  /\ \A d \in Devices : /\ StoredIn(d, wire[d] \cup got[d])
                        /\ fetch[d] # None => StoredIn(d, fetch[d].list)

(* Every stored message of the chat is in ids, or still to be broadcast.   *)
Covers(d, ids) ==
  \A m \in rows : m.room = room[d] => m.id \in ids \/ \E p \in posts : p.id = m.id

(* JoinThenFetch of the fetch in flight, once it is answered.              *)
FetchCovers ==
  \A d \in Devices :
    (socket[d] # None /\ fetch[d] # None /\ fetch[d].answered /\ fetch[d].with = socket[d]) =>
      Covers(d, fetch[d].list \cup got[d] \cup wire[d])

IInv ==
  /\ RoomsInv /\ ClosedIsEmpty /\ SocketsInv /\ PostsInv /\ ReadsInv
  /\ FetchCovers /\ JoinThenFetch

-----------------------------------------------------------------------------
(* A nonempty set of rooms has a first one, and FirstRoom is it.           *)
LEMMA LeastRoom ==
  ASSUME NEW S, S \subseteq RoomIds, S # {}
  PROVE  FirstRoom(S) \in S /\ \A r \in S : FirstRoom(S) <= r
<1>1. S \subseteq Nat
  BY RealtimeAssumption
<1>2. PICK x \in S : \A y \in S : ~(<<y, x>> \in OpToRel(<, Nat))
  <2> HIDE DEF OpToRel
  <2> QED BY <1>1, NatLessThanWellFounded, WFMin
<1>3. ASSUME NEW y \in S PROVE x <= y
  <2>1. x \in Nat /\ y \in Nat
    BY <1>1
  <2>2. y < x => <<y, x>> \in OpToRel(<, Nat)
    BY <2>1 DEF OpToRel
  <2>3. ~(y < x)
    BY <1>2, <2>2
  <2> QED BY <2>1, <2>3
<1> QED BY <1>3 DEF FirstRoom, Min

LEMMA InitInv == Init => IInv
<1> SUFFICES ASSUME Init PROVE IInv
  OBVIOUS
<1>1. RoomsInv /\ ClosedIsEmpty
  BY DEF Init, RoomsInv, ClosedIsEmpty, Idle
<1>2. SocketsInv
  BY RealtimeAssumption DEF Init, SocketsInv, Made
<1>3. PostsInv /\ ReadsInv
  BY RealtimeAssumption DEF Init, PostsInv, ReadsInv, StoredIn, Ids
<1>4. FetchCovers /\ JoinThenFetch
  BY DEF Init, FetchCovers, JoinThenFetch
<1> QED BY <1>1, <1>2, <1>3, <1>4 DEF IInv

(* While the sockets, the posts and the devices stay, only the rooms need  *)
(* a look: they grow, and a chat opens only where there was none.          *)
LEMMA OnlyRoomsMove ==
  ASSUME IInv, RoomsInv', rooms \subseteq rooms',
         \A d \in Devices : room'[d] # room[d] => room[d] = None,
         UNCHANGED <<socketVars, postVars, clientVars>>
  PROVE  IInv'
<1> USE DEF socketVars, postVars, clientVars
<1>1. ClosedIsEmpty'
  BY DEF IInv, ClosedIsEmpty
<1>2. \A d \in Devices : (socket[d] # None \/ fetch[d] # None \/ wire[d] # {} \/ got[d] # {})
                           => room'[d] = room[d]
  BY DEF IInv, ClosedIsEmpty
<1>3. SocketsInv'
  BY <1>2 DEF IInv, SocketsInv, Made, Fetches
<1>4. PostsInv'
  BY DEF IInv, PostsInv
<1>5. ReadsInv'
  BY <1>2 DEF IInv, ReadsInv, StoredIn
<1>6. FetchCovers' /\ JoinThenFetch'
  BY <1>2 DEF IInv, FetchCovers, JoinThenFetch, Covers
<1> QED BY <1>1, <1>3, <1>4, <1>5, <1>6 DEF IInv

LEMMA OpenInv ==
  ASSUME IInv, NEW d \in Devices,
         OpenChat(d) \/ InsertRoom(d) \/ Resolve(d) \/ OpenFails(d)
  PROVE  IInv'
<1>1. CASE OpenChat(d) \/ OpenFails(d)
  <2>1. RoomsInv'
    BY <1>1 DEF IInv, RoomsInv, OpenChat, OpenFails, Idle
  <2> QED BY <1>1, <2>1, OnlyRoomsMove DEF OpenChat, OpenFails
<1>2. CASE InsertRoom(d)
  <2>1. RoomsInv'
    BY <1>2 DEF IInv, RoomsInv, InsertRoom, Fresh, Idle
  <2> QED BY <1>2, <2>1, OnlyRoomsMove DEF InsertRoom
<1>3. CASE Resolve(d)
  <2>1. answered' \in rooms
    BY <1>3, LeastRoom DEF IInv, RoomsInv, Resolve
  <2>2. RoomsInv'
    BY <1>3, <2>1 DEF IInv, RoomsInv, Resolve, Idle
  <2>3. \A e \in Devices : room'[e] # room[e] => room[e] = None
    BY <1>3 DEF IInv, RoomsInv, Resolve, Idle
  <2> QED BY <1>3, <2>2, <2>3, OnlyRoomsMove DEF Resolve
<1> QED BY <1>1, <1>2, <1>3

LEMMA AcceptInv ==
  ASSUME IInv, AcceptInsert \/ AcceptSelect \/ AcceptFails \/ \E d \in Devices : AcceptCommit(d)
  PROVE  IInv'
<1>1. CASE AcceptInsert \/ AcceptFails
  <2>1. RoomsInv'
    BY <1>1 DEF IInv, RoomsInv, AcceptInsert, AcceptFails, Fresh
  <2> QED BY <1>1, <2>1, OnlyRoomsMove DEF AcceptInsert, AcceptFails
<1>2. CASE AcceptSelect
  <2>1. FirstRoom(rooms \cup {accepting.new}) \in rooms \cup {accepting.new}
    BY <1>2, LeastRoom DEF IInv, RoomsInv, AcceptSelect
  <2>2. RoomsInv'
    BY <1>2, <2>1 DEF IInv, RoomsInv, AcceptSelect
  <2> QED BY <1>2, <2>2, OnlyRoomsMove DEF AcceptSelect
<1>3. ASSUME NEW d \in Devices, AcceptCommit(d) PROVE IInv'
  <2>1. RoomsInv'
    BY <1>3 DEF IInv, RoomsInv, AcceptCommit
  <2>2. \A e \in Devices : room'[e] # room[e] => room[e] = None
    BY <1>3 DEF IInv, RoomsInv, AcceptCommit
  <2>3. rooms \subseteq rooms' 
    BY <1>3 DEF AcceptCommit
  <2> QED BY <1>3, <2>1, <2>2, <2>3, OnlyRoomsMove DEF AcceptCommit
<1> QED BY <1>1, <1>2, <1>3

-----------------------------------------------------------------------------
(* The sockets                                                             *)

(* The new socket is in no room, and no fetch was asked with it.           *)
LEMMA ConnectInv ==
  ASSUME IInv, NEW d \in Devices, Connect(d)
  PROVE  IInv'
<1> DEFINE s == <<d, made[d] + 1>>
<1>1. /\ made[d] + 1 \in 1 .. MaxSockets /\ s \in Sockets /\ s # None
      /\ s \notin Made(d) \cup {None} /\ room[d] \in RoomIds
  <2>1. made[d] \in 0 .. MaxSockets /\ made[d] < MaxSockets /\ MaxSockets \in Nat
    BY RealtimeAssumption DEF IInv, SocketsInv, Connect
  <2>2. made[d] + 1 \in 1 .. MaxSockets /\ made[d] + 1 \notin 1 .. made[d]
    BY <2>1
  <2>3. s \in Sockets /\ s # None
    BY <2>2, RealtimeAssumption DEF Sockets
  <2> QED BY <2>2, <2>3 DEF IInv, RoomsInv, Connect, Made
<1>2. /\ made' = [made EXCEPT ![d] = @ + 1]
      /\ socket' = [socket EXCEPT ![d] = s]
      /\ subs' = [subs EXCEPT ![room[d]] = @ \cup {s}]
  BY DEF Connect, IInv, SocketsInv
<1>3. \A r \in RoomIds : s \notin subs[r]
  <2>1. s[1] = d
    OBVIOUS
  <2> QED BY <1>1, <2>1 DEF IInv, SocketsInv
<1>4. \A e \in Devices : Made(e) \subseteq Made(e)' /\ s \in Made(d)'
  BY <1>1, <1>2 DEF IInv, SocketsInv, Made
<1>5. \A e \in Devices : e # d => s \notin Made(e) /\ socket'[e] = socket[e]
  BY <1>2 DEF IInv, SocketsInv, Made
<1>6. \A e \in Devices : socket'[e] # None =>
        \A r \in RoomIds : socket'[e] \in subs'[r] <=> r = room[e]
  BY <1>1, <1>2, <1>3, <1>5 DEF IInv, SocketsInv
<1>7. SocketsInv'
  <2>1. made' \in [Devices -> 0 .. MaxSockets]
    BY <1>1, <1>2 DEF IInv, SocketsInv
  <2>2. subs' \in [RoomIds -> SUBSET Sockets]
    BY <1>1, <1>2 DEF IInv, SocketsInv
  <2>3. ASSUME NEW r \in RoomIds, NEW u \in subs'[r] PROVE u \in Made(u[1])'
    <3>1. CASE u = s
      BY <1>4, <3>1
    <3>2. CASE u \in subs[r]
      BY <1>4, <3>2 DEF IInv, SocketsInv, Sockets
    <3> QED BY <1>1, <1>2, <3>1, <3>2 DEF IInv, SocketsInv
  <2> QED BY <1>1, <1>2, <1>4, <1>6, <2>1, <2>2, <2>3
        DEF IInv, SocketsInv, Connect, clientVars, Fetches
<1>8. RoomsInv' /\ PostsInv' /\ ReadsInv'
  BY DEF Connect, roomVars, postVars, clientVars, IInv, RoomsInv, PostsInv, ReadsInv, StoredIn
<1>9. ClosedIsEmpty'
  BY <1>2 DEF Connect, clientVars, IInv, ClosedIsEmpty, SocketsInv
<1>10. \A e \in Devices : socket'[e] # None =>
         /\ caughtUp[e] = socket'[e] => socket[e] = caughtUp[e]
         /\ fetch[e] # None /\ fetch[e].with = socket'[e] => socket[e] = fetch[e].with
  BY <1>1, <1>2, <1>5 DEF IInv, SocketsInv
<1>11. FetchCovers' /\ JoinThenFetch'
  BY <1>10 DEF Connect, clientVars, postVars, IInv, FetchCovers, JoinThenFetch, Covers
<1> QED BY <1>7, <1>8, <1>9, <1>11 DEF IInv

(* Break, and CloseChat, which also drops what the device has.             *)
LEMMA SocketGoneInv ==
  ASSUME IInv, UNCHANGED <<roomVars, made, postVars>>,
         NEW d \in Devices, UNCHANGED subs, Gone(d),
         \/ UNCHANGED <<room, fetch, got, caughtUp>>
         \/ /\ room' = [room EXCEPT ![d] = None]
            /\ fetch' = [fetch EXCEPT ![d] = None]
            /\ got' = [got EXCEPT ![d] = {}]
            /\ caughtUp' = [caughtUp EXCEPT ![d] = None]
  PROVE  IInv'
<1>1. \A e \in Devices :
        \/ /\ e # d /\ room'[e] = room[e] /\ socket'[e] = socket[e] /\ wire'[e] = wire[e]
           /\ fetch'[e] = fetch[e] /\ got'[e] = got[e] /\ caughtUp'[e] = caughtUp[e]
        \/ /\ e = d /\ socket'[e] = None /\ wire'[e] = {}
           /\ \/ /\ room'[e] = room[e] /\ fetch'[e] = fetch[e]
                 /\ got'[e] = got[e] /\ caughtUp'[e] = caughtUp[e]
              \/ /\ room'[e] = None /\ fetch'[e] = None
                 /\ got'[e] = {} /\ caughtUp'[e] = None
  BY DEF Gone, IInv, RoomsInv, SocketsInv, ReadsInv
<1>2. RoomsInv'
  BY <1>1 DEF roomVars, IInv, RoomsInv
<1>3. ClosedIsEmpty'
  BY <1>1 DEF IInv, ClosedIsEmpty
<1>4. SocketsInv'
  BY <1>1 DEF Gone, IInv, SocketsInv, Made, Fetches
<1>5. PostsInv'
  BY DEF roomVars, postVars, IInv, PostsInv
<1>6. ReadsInv'
  BY <1>1 DEF Gone, postVars, IInv, ReadsInv, StoredIn
<1>7. FetchCovers' /\ JoinThenFetch'
  BY <1>1 DEF postVars, IInv, FetchCovers, JoinThenFetch, Covers
<1> QED BY <1>2, <1>3, <1>4, <1>5, <1>6, <1>7 DEF IInv

LEMMA ClosedInv ==
  ASSUME IInv, NEW s \in Sockets, Closed(s)
  PROVE  IInv'
<1>1. \A d \in Devices : socket[d] # None => socket[d] # s
  BY DEF Closed, IInv, SocketsInv, Made
<1>2. SocketsInv'
  BY <1>1 DEF Closed, clientVars, IInv, SocketsInv, Made, Fetches
<1> QED BY <1>2 DEF Closed, roomVars, postVars, clientVars, IInv, RoomsInv, ClosedIsEmpty, PostsInv,
      ReadsInv, StoredIn, FetchCovers, JoinThenFetch, Covers

LEMMA RestartInv ==
  ASSUME IInv, Restart
  PROVE  IInv'
<1>1. RoomsInv'
  BY DEF Restart, IInv, RoomsInv, Idle
<1>2. ClosedIsEmpty'
  BY DEF Restart, IInv, ClosedIsEmpty
<1>3. SocketsInv'
  BY DEF Restart, IInv, SocketsInv, Made
<1>4. PostsInv' /\ ReadsInv'
  BY DEF Restart, IInv, PostsInv, ReadsInv, StoredIn
<1>5. FetchCovers' /\ JoinThenFetch'
  BY DEF Restart, FetchCovers, JoinThenFetch
<1> QED BY <1>1, <1>2, <1>3, <1>4, <1>5 DEF IInv

-----------------------------------------------------------------------------
(* The posts                                                               *)

LEMMA TwoSteps ==
  /\ Head(PostSteps) = "store" /\ Tail(PostSteps) = <<"broadcast">>
  /\ Head(<<"broadcast">>) = "broadcast" /\ Tail(<<"broadcast">>) = <<>>
  /\ PostSteps # <<"broadcast">>
BY DEF PostSteps

LEMMA PostInv ==
  ASSUME IInv, NEW d \in Devices, Post(d)
  PROVE  IInv'
<1> DEFINE p == [id |-> posted + 1, room |-> room[d], todo |-> PostSteps]
<1>1. posts' = posts \cup {p} /\ posted' = posted + 1 /\ posted' \in 1 .. MaxMessages
  BY RealtimeAssumption DEF Post, IInv, PostsInv
<1>2. PostsInv'
  <2>1. p \in [id : 1 .. posted', room : rooms, todo : {PostSteps, <<"broadcast">>}]
    BY <1>1 DEF Post, IInv, RoomsInv, PostsInv
  <2>2. \A q \in posts : q.id \in 1 .. posted
    BY DEF IInv, PostsInv
  <2>3. \A m \in rows : m.id \in 1 .. posted
    BY DEF IInv, PostsInv
  <2>4. p.id \notin 1 .. posted /\ p.todo # <<"broadcast">> /\ posted \in Nat
    BY TwoSteps DEF IInv, PostsInv
  <2>5. posts' \subseteq [id : 1 .. posted', room : rooms, todo : {PostSteps, <<"broadcast">>}]
    BY <1>1, <2>1, <2>4 DEF IInv, PostsInv
  <2>6. rows \subseteq [id : 1 .. posted', room : rooms]
    BY <1>1, <2>4 DEF IInv, PostsInv
  <2>7. \A q, u \in posts' : q.id = u.id => q = u
    BY <1>1, <2>2, <2>4 DEF IInv, PostsInv
  <2>8. \A q \in posts' : \A m \in rows :
          m.id = q.id => m.room = q.room /\ q.todo = <<"broadcast">>
    BY <1>1, <2>3, <2>4 DEF IInv, PostsInv
  <2>9. \A q \in posts' : q.todo = <<"broadcast">> => [id |-> q.id, room |-> q.room] \in rows
    BY <1>1, <2>4 DEF IInv, PostsInv
  <2> QED BY <1>1, <2>5, <2>6, <2>7, <2>8, <2>9 DEF Post, roomVars, PostsInv
<1>3. RoomsInv' /\ ClosedIsEmpty' /\ SocketsInv' /\ ReadsInv'
  BY DEF Post, roomVars, socketVars, clientVars, IInv, RoomsInv, ClosedIsEmpty, SocketsInv, Made,
     ReadsInv, StoredIn
<1>4. FetchCovers' /\ JoinThenFetch'
  BY <1>1 DEF Post, socketVars, clientVars, IInv, FetchCovers, JoinThenFetch, Covers
<1> QED BY <1>2, <1>3, <1>4 DEF IInv

(* The stored row is covered by its post, which now awaits its broadcast.  *)
LEMMA StoreInv ==
  ASSUME IInv, NEW p \in posts, Store(p)
  PROVE  IInv'
<1> DEFINE m == [id |-> p.id, room |-> p.room]
           q == [id |-> p.id, room |-> p.room, todo |-> <<"broadcast">>]
<1>1. p \in [id : 1 .. posted, room : rooms, todo : {PostSteps, <<"broadcast">>}]
  BY DEF IInv, PostsInv
<1>2. p.todo = PostSteps
  BY <1>1, TwoSteps DEF Store, Does
<1>3. posts' = (posts \ {p}) \cup {q} /\ rows' = rows \cup {m}
  <2>1. Tail(p.todo) = <<"broadcast">> /\ Tail(p.todo) # <<>>
    BY <1>2, TwoSteps
  <2>2. [p EXCEPT !.todo = <<"broadcast">>] = q
    BY <1>1
  <2> QED BY <2>1, <2>2 DEF Store, Does
<1>4. \A u \in posts' : (u \in posts /\ u # p /\ u.id # p.id) \/ u = q
  BY <1>3 DEF IInv, PostsInv
<1>5. \A n \in rows : n.id # p.id
  BY <1>2, TwoSteps DEF IInv, PostsInv
<1>6. PostsInv'
  <2>1. posts' \subseteq [id : 1 .. posted, room : rooms, todo : {PostSteps, <<"broadcast">>}]
    BY <1>1, <1>3 DEF IInv, PostsInv
  <2>2. rows' \subseteq [id : 1 .. posted, room : rooms]
    BY <1>1, <1>3 DEF IInv, PostsInv
  <2>3. \A u, v \in posts' : u.id = v.id => u = v
    BY <1>4 DEF IInv, PostsInv
  <2>4. \A u \in posts' : \A n \in rows' :
          n.id = u.id => n.room = u.room /\ u.todo = <<"broadcast">>
    BY <1>3, <1>4, <1>5 DEF IInv, PostsInv
  <2>5. \A u \in posts' : u.todo = <<"broadcast">> => [id |-> u.id, room |-> u.room] \in rows'
    BY <1>3, <1>4 DEF IInv, PostsInv
  <2> QED BY <2>1, <2>2, <2>3, <2>4, <2>5 DEF Store, roomVars, IInv, PostsInv
<1>7. RoomsInv' /\ ClosedIsEmpty' /\ SocketsInv'
  BY DEF Store, roomVars, socketVars, clientVars, IInv, RoomsInv, ClosedIsEmpty, SocketsInv, Made
<1>8. ReadsInv'
  BY <1>3 DEF Store, clientVars, IInv, ReadsInv, StoredIn
<1>9. \A n \in rows' : n \in rows \/ \E u \in posts' : u.id = n.id
  <2>1. q \in posts' /\ q.id = m.id
    BY <1>3
  <2> QED BY <1>3, <2>1
<1>10. \A n \in rows : (\E u \in posts : u.id = n.id) => \E u \in posts' : u.id = n.id
  BY <1>3, <1>5
<1>11. FetchCovers' /\ JoinThenFetch'
  BY <1>9, <1>10 DEF Store, socketVars, clientVars, IInv, FetchCovers, JoinThenFetch, Covers
<1> QED BY <1>6, <1>7, <1>8, <1>11 DEF IInv

LEMMA PostFailsInv ==
  ASSUME IInv, NEW p \in posts, PostFails(p)
  PROVE  IInv'
<1>1. p.todo = PostSteps
  BY TwoSteps DEF PostFails, IInv, PostsInv
<1>2. \A n \in rows : n.id # p.id
  BY <1>1, TwoSteps DEF IInv, PostsInv
<1>3. PostsInv'
  BY DEF PostFails, roomVars, IInv, PostsInv
<1>4. RoomsInv' /\ ClosedIsEmpty' /\ SocketsInv' /\ ReadsInv'
  BY DEF PostFails, roomVars, socketVars, clientVars, IInv, RoomsInv, ClosedIsEmpty, SocketsInv,
         Made, ReadsInv, StoredIn
<1>5. \A n \in rows : (\E u \in posts : u.id = n.id) => \E u \in posts' : u.id = n.id
  BY <1>2 DEF PostFails
<1>6. FetchCovers' /\ JoinThenFetch'
  BY <1>5 DEF PostFails, socketVars, clientVars, IInv, FetchCovers, JoinThenFetch, Covers
<1> QED BY <1>3, <1>4, <1>6 DEF IInv

(* The row of a broadcast post is framed to every socket of its room.      *)
LEMMA BroadcastInv ==
  ASSUME IInv, NEW p \in posts, Broadcast(p)
  PROVE  IInv'
<1>1. p \in [id : 1 .. posted, room : rooms, todo : {PostSteps, <<"broadcast">>}]
  BY DEF IInv, PostsInv
<1>2. p.todo = <<"broadcast">> /\ posts' = posts \ {p} /\ rows' = rows
  BY <1>1, TwoSteps DEF Broadcast, Does
<1>3. [id |-> p.id, room |-> p.room] \in rows /\ p.id \in Ids /\ p.room \in RoomIds
  <2>1. p.id \in 1 .. posted /\ p.room \in rooms /\ posted \in 0 .. MaxMessages
    BY <1>1 DEF IInv, PostsInv
  <2>2. p.id \in Ids
    <3>1. MaxMessages \in Nat
      BY RealtimeAssumption
    <3> QED BY <2>1, <3>1 DEF Ids
  <2>3. p.room \in RoomIds
    BY <2>1 DEF IInv, RoomsInv
  <2> QED BY <1>2, <2>2, <2>3 DEF IInv, PostsInv
<1>4. \A d \in Devices : Sends(p, d) => p.room = room[d]
  BY <1>3 DEF Sends, IInv, SocketsInv
<1>5. \A d \in Devices : socket[d] # None /\ room[d] = p.room => p.id \in wire'[d]
  BY <1>3 DEF Broadcast, Sends, IInv, SocketsInv
<1>6. \A d \in Devices : /\ wire[d] \subseteq wire'[d]
                         /\ wire'[d] \subseteq wire[d] \cup {p.id}
                         /\ p.id \in wire'[d] => p.id \in wire[d] \/ room[d] = p.room
  BY <1>4 DEF Broadcast
<1>7. RoomsInv' /\ SocketsInv' /\ PostsInv'
  BY <1>2 DEF Broadcast, roomVars, socketVars, IInv, RoomsInv, SocketsInv, Made, PostsInv
<1>8. ClosedIsEmpty'
  BY DEF Broadcast, Sends, socketVars, IInv, ClosedIsEmpty
<1>9. ReadsInv'
  <2>1. wire' \in [Devices -> SUBSET Ids]
    BY <1>3 DEF Broadcast, IInv, ReadsInv
  <2> QED BY <1>3, <1>6, <2>1 DEF Broadcast, IInv, ReadsInv, StoredIn
<1>10. \A d \in Devices : socket[d] # None =>
         \A n \in rows : n.room = room[d] /\ (\E u \in posts : u.id = n.id) =>
           n.id \in wire'[d] \/ \E u \in posts' : u.id = n.id
  BY <1>2, <1>5 DEF IInv, PostsInv
<1>11. ASSUME NEW d \in Devices, NEW ids, socket[d] # None, Covers(d, ids \cup wire[d])
       PROVE  \A n \in rows : n.room = room[d] =>
                n.id \in ids \cup wire'[d] \/ \E u \in posts' : u.id = n.id
  BY <1>6, <1>10, <1>11 DEF Covers
<1>12. FetchCovers'
  <2> SUFFICES ASSUME NEW d \in Devices, socket[d] # None, fetch[d] # None, fetch[d].answered,
                      fetch[d].with = socket[d]
               PROVE  \A n \in rows : n.room = room[d] =>
                        \/ n.id \in fetch[d].list \cup got[d] \cup wire'[d]
                        \/ \E u \in posts' : u.id = n.id
    BY <1>2 DEF Broadcast, socketVars, FetchCovers, Covers
  <2> QED BY <1>11 DEF IInv, FetchCovers
<1>13. JoinThenFetch'
  <2>1. UNCHANGED <<room, rows, socket, caughtUp, got>>
    BY DEF Broadcast, socketVars
  <2>2. ASSUME NEW d \in Devices, socket[d] # None, caughtUp[d] = socket[d]
        PROVE  \A n \in rows : n.room = room[d] =>
                 n.id \in got[d] \cup wire'[d] \/ \E u \in posts' : u.id = n.id
    BY <1>11, <2>2 DEF IInv, JoinThenFetch, Covers
  <2> QED BY <2>1, <2>2 DEF JoinThenFetch
<1> QED BY <1>7, <1>8, <1>9, <1>12, <1>13 DEF IInv

-----------------------------------------------------------------------------
(* The devices                                                             *)

LEMMA FrameInv ==
  ASSUME IInv, NEW d \in Devices, Frame(d)
  PROVE  IInv'
<1>1. PICK id \in wire[d] : /\ wire' = [wire EXCEPT ![d] = @ \ {id}]
                            /\ got' = [got EXCEPT ![d] = @ \cup {id}]
  BY DEF Frame
<1>2. \A e \in Devices : wire'[e] \cup got'[e] = wire[e] \cup got[e]
  BY <1>1 DEF IInv, ReadsInv
<1>3. RoomsInv' /\ SocketsInv' /\ PostsInv'
  BY DEF Frame, roomVars, socketVars, postVars, IInv, RoomsInv, SocketsInv, Made, PostsInv
<1>4. ClosedIsEmpty'
  BY <1>2 DEF Frame, socketVars, IInv, ClosedIsEmpty
<1>5. ReadsInv'
  <2>1. wire' \in [Devices -> SUBSET Ids] /\ got' \in [Devices -> SUBSET Ids]
    BY <1>1 DEF IInv, ReadsInv
  <2> QED BY <1>2, <2>1 DEF Frame, postVars, IInv, ReadsInv, StoredIn
<1>6. FetchCovers' /\ JoinThenFetch'
  BY <1>2 DEF Frame, socketVars, postVars, IInv, FetchCovers, JoinThenFetch, Covers
<1> QED BY <1>3, <1>4, <1>5, <1>6 DEF IInv

LEMMA AskInv ==
  ASSUME IInv, NEW d \in Devices, Ask(d) \/ FetchFails(d)
  PROVE  IInv'
<1> DEFINE asked == [with |-> socket[d], answered |-> FALSE, list |-> {}]
<1>1. /\ room[d] # None /\ asked \in Fetches
      /\ fetch' \in {[fetch EXCEPT ![d] = None], [fetch EXCEPT ![d] = asked]}
      /\ \A e \in Devices : fetch'[e] = fetch[e] \/ (e = d /\ fetch'[e] \in {asked, None})
  <2>1. asked \in Fetches
    BY DEF IInv, SocketsInv, Fetches
  <2>2. room[d] # None
    BY DEF Ask, FetchFails, IInv, ClosedIsEmpty
  <2>3. fetch' \in {[fetch EXCEPT ![d] = None], [fetch EXCEPT ![d] = asked]}
    BY DEF Ask, FetchFails
  <2>4. fetch \in [Devices -> Fetches \cup {None}]
    BY DEF IInv, SocketsInv
  <2> HIDE DEF asked
  <2> QED BY <2>1, <2>2, <2>3, <2>4
<1>2. SocketsInv'
  <2>1. fetch' \in [Devices -> Fetches \cup {None}]
    <3> HIDE DEF asked
    <3> QED BY <1>1, SMTT(30) DEF IInv, SocketsInv
  <2>2. asked.with \in Made(d) \cup {None}
    BY DEF IInv, SocketsInv
  <2>3. \A e \in Devices : fetch'[e] # None => fetch'[e].with \in Made(e) \cup {None}
    BY <1>1, <2>2 DEF IInv, SocketsInv
  <2>4. UNCHANGED socketVars /\ caughtUp' = caughtUp /\ room' = room
    BY DEF Ask, FetchFails
  <2> QED BY <2>1, <2>3, <2>4 DEF socketVars, IInv, SocketsInv, Made
<1>3. RoomsInv' /\ PostsInv' /\ JoinThenFetch'
  BY DEF Ask, FetchFails, roomVars, postVars, socketVars, IInv, RoomsInv, PostsInv, JoinThenFetch
<1>4. ClosedIsEmpty' /\ ReadsInv' /\ FetchCovers'
  BY <1>1 DEF Ask, FetchFails, socketVars, postVars, IInv, ClosedIsEmpty, ReadsInv, StoredIn,
     FetchCovers, Covers
<1> QED BY <1>2, <1>3, <1>4 DEF IInv

(* The record a served fetch becomes.                                      *)
LEMMA AnsweredFetch ==
  ASSUME NEW W, NEW L, NEW f \in [with : W, answered : BOOLEAN, list : L], NEW l
  PROVE  [f EXCEPT !.answered = TRUE, !.list = l] = [with |-> f.with, answered |-> TRUE, list |-> l]
<1> DEFINE Only == [with : {f.with}, answered : {TRUE}, list : {l}]
<1>1. [f EXCEPT !.answered = TRUE, !.list = l] \in Only
  OBVIOUS
<1>2. \A r \in Only : r = [with |-> r.with, answered |-> r.answered, list |-> r.list]
  OBVIOUS
<1>3. \A r \in Only : r.with = f.with /\ r.answered = TRUE /\ r.list = l
  OBVIOUS
<1> QED BY <1>1, <1>2, <1>3

LEMMA ServeInv ==
  ASSUME IInv, NEW d \in Devices, Serve(d)
  PROVE  IInv'
<1> DEFINE list == {m.id : m \in {n \in rows : n.room = room[d]}}
<1>1. list \in SUBSET Ids /\ StoredIn(d, list)
  BY RealtimeAssumption DEF IInv, PostsInv, Ids, StoredIn
<1> DEFINE served == [with |-> fetch[d].with, answered |-> TRUE, list |-> list]
<1>2. /\ fetch' = [fetch EXCEPT ![d] = served]
      /\ fetch[d] \in Fetches /\ served \in Fetches /\ room[d] # None
  <2>1. fetch[d] \in Fetches
    BY DEF Serve, IInv, SocketsInv
  <2>2. \A l : [fetch[d] EXCEPT !.answered = TRUE, !.list = l]
                 = [with |-> fetch[d].with, answered |-> TRUE, list |-> l]
    BY <2>1, AnsweredFetch, ZenonT(30) DEF Fetches
  <2>3. served \in Fetches
    BY <1>1, <2>1 DEF Fetches
  <2>4. fetch' = [fetch EXCEPT ![d] = served]
    <3>1. served = [fetch[d] EXCEPT !.answered = TRUE, !.list = list]
      BY <2>2
    <3>2. fetch' = [fetch EXCEPT ![d] = [fetch[d] EXCEPT !.answered = TRUE, !.list = list]]
      BY <2>1 DEF Serve
    <3> QED BY <3>1, <3>2
  <2>5. room[d] # None
    BY DEF Serve, IInv, ClosedIsEmpty
  <2> QED BY <2>1, <2>3, <2>4, <2>5
<1> HIDE DEF list
<1>3. SocketsInv'
  <2>1. fetch' \in [Devices -> Fetches \cup {None}]
    BY <1>1, <1>2 DEF IInv, SocketsInv
  <2>2. \A e \in Devices :
          fetch'[e] # None => fetch[e] # None /\ fetch'[e].with = fetch[e].with
    <3>1. served.with = fetch[d].with
      OBVIOUS
    <3> HIDE DEF served
    <3> QED BY <1>2, <3>1 DEF Serve, IInv, SocketsInv
  <2> QED BY <2>1, <2>2 DEF Serve, socketVars, clientVars, IInv, SocketsInv, Made
<1>4. RoomsInv' /\ PostsInv' /\ JoinThenFetch'
  BY DEF Serve, roomVars, postVars, socketVars, IInv, RoomsInv, PostsInv, JoinThenFetch
<1>5. ClosedIsEmpty'
  BY <1>2 DEF Serve, socketVars, IInv, ClosedIsEmpty, SocketsInv
<1>6. ReadsInv'
  BY <1>1, <1>2 DEF Serve, postVars, IInv, ReadsInv, StoredIn, SocketsInv
<1>7. FetchCovers'
  <2>1. \A m \in rows : m.room = room[d] => m.id \in list
    BY DEF list
  <2> QED BY <1>2, <2>1 DEF Serve, postVars, socketVars, IInv, FetchCovers, Covers, SocketsInv
<1> QED BY <1>3, <1>4, <1>5, <1>6, <1>7 DEF IInv

LEMMA LandInv ==
  ASSUME IInv, NEW d \in Devices, Land(d)
  PROVE  IInv'
<1>1. fetch[d] \in Fetches /\ room[d] # None
  BY DEF Land, IInv, SocketsInv, ClosedIsEmpty
<1>2. \A e \in Devices :
        \/ got'[e] = got[e] /\ caughtUp'[e] = caughtUp[e] /\ fetch'[e] = fetch[e]
        \/ /\ e = d /\ fetch'[e] = None
           /\ got'[e] = got[e] \cup fetch[e].list /\ caughtUp'[e] = fetch[e].with
  BY DEF Land, IInv, SocketsInv, ReadsInv
<1>3. SocketsInv'
  <2>1. /\ fetch' \in [Devices -> Fetches \cup {None}]
        /\ caughtUp' \in [Devices -> Sockets \cup {None}]
    BY <1>1 DEF Land, IInv, SocketsInv, Fetches
  <2> QED BY <1>2, <2>1 DEF Land, socketVars, IInv, SocketsInv, Made
<1>4. RoomsInv' /\ PostsInv'
  BY DEF Land, roomVars, postVars, IInv, RoomsInv, PostsInv
<1>5. ClosedIsEmpty'
  BY <1>1, <1>2 DEF Land, socketVars, IInv, ClosedIsEmpty
<1>6. ReadsInv'
  <2>1. got' \in [Devices -> SUBSET Ids]
    BY <1>1 DEF Land, IInv, ReadsInv, Fetches
  <2> QED BY <1>2, <2>1 DEF Land, postVars, IInv, ReadsInv, StoredIn
<1>7. FetchCovers'
  BY <1>2 DEF Land, postVars, socketVars, IInv, FetchCovers, Covers
<1>8. JoinThenFetch'
  BY <1>2 DEF Land, postVars, socketVars, IInv, FetchCovers, JoinThenFetch, Covers
<1> QED BY <1>3, <1>4, <1>5, <1>6, <1>7, <1>8 DEF IInv

-----------------------------------------------------------------------------
LEMMA NextInv == IInv /\ [Next]_vars => IInv'
<1> SUFFICES ASSUME IInv, [Next]_vars PROVE IInv'
  OBVIOUS
<1>1. CASE \/ AcceptInsert \/ AcceptSelect \/ AcceptFails
           \/ \E d \in Devices : AcceptCommit(d)
  BY <1>1, AcceptInv
<1>2. CASE Restart
  BY <1>2, RestartInv
<1>3. CASE \E p \in posts : Store(p) \/ PostFails(p) \/ Broadcast(p)
  BY <1>3, StoreInv, PostFailsInv, BroadcastInv
<1>4. CASE \E s \in Sockets : Closed(s)
  BY <1>4, ClosedInv
<1>5. CASE \E d \in Devices : OpenChat(d) \/ InsertRoom(d) \/ Resolve(d) \/ OpenFails(d)
  BY <1>5, OpenInv
<1>6. CASE \E d \in Devices : CloseChat(d) \/ Break(d)
  BY <1>6, SocketGoneInv DEF CloseChat, Break
<1>7. CASE \E d \in Devices : Connect(d) \/ Frame(d) \/ Post(d)
  BY <1>7, ConnectInv, FrameInv, PostInv
<1>8. CASE \E d \in Devices : Ask(d) \/ Serve(d) \/ Land(d) \/ FetchFails(d)
  BY <1>8, AskInv, ServeInv, LandInv
<1>9. CASE UNCHANGED vars
  <2>1. RoomsInv'
    BY <1>9 DEF vars, roomVars, IInv, RoomsInv
  <2> QED BY <1>9, <2>1, OnlyRoomsMove DEF vars, roomVars, IInv
<1> QED BY <1>1, <1>2, <1>3, <1>4, <1>5, <1>6, <1>7, <1>8, <1>9 DEF Next

LEMMA Invariant == Spec => []IInv
BY InitInv, NextInv, PTL DEF Spec

(* The rooms, the sockets, the posts and what the devices hold agree, for  *)
(* any number of devices, rooms, messages and sockets: a socket a device   *)
(* holds is in the room of its chat and in no other.                       *)
THEOREM TypeCorrect == Spec => []TypeOK
<1>1. IInv => TypeOK
  <2> SUFFICES ASSUME IInv PROVE TypeOK
    OBVIOUS
  <2>1. \A p \in posts : p.id \in Ids /\ p.room \in rooms
    BY RealtimeAssumption DEF IInv, PostsInv, Ids
  <2>2. rows \subseteq [id : Ids, room : rooms]
    BY RealtimeAssumption DEF IInv, PostsInv, Ids
  <2>3. \A d \in Devices : \A id \in wire[d] \cup got[d] :
          [id |-> id, room |-> room[d]] \in rows
    BY DEF IInv, ReadsInv, StoredIn
  <2>4. ASSUME NEW d \in Devices, NEW id \in wire[d] \cup got[d]
        PROVE  \E m \in rows \cup posts : m.id = id /\ m.room = room[d]
    <3> DEFINE m == [id |-> id, room |-> room[d]]
    <3>1. m \in rows /\ m.id = id /\ m.room = room[d]
      BY <2>3
    <3> QED BY <3>1
  <2> QED BY <2>1, <2>2, <2>4 DEF IInv, RoomsInv, SocketsInv, TypeOK
<1> QED BY <1>1, Invariant, PTL

(* A device that fetched while holding its socket misses no message of its *)
(* chat, however posts, breaks, fetches and restarts interleave.           *)
THEOREM NothingMissed == Spec => []JoinThenFetch
<1>1. IInv => JoinThenFetch
  BY DEF IInv
<1> QED BY <1>1, Invariant, PTL

(* GET /chat/friend-room never answers a later room than one it answered:  *)
(* the answer stays among the rooms, of which the next one is the least.   *)
THEOREM RoomsDescend == Spec => RoomsOnlyDescend
<1>1. IInv /\ [Next]_vars => [answered # None => answered' <= answered]_answered
  <2> SUFFICES ASSUME IInv, [Next]_vars, answered' # answered, answered # None
               PROVE  answered' <= answered
    OBVIOUS
  <2>1. PICK d \in Devices : Resolve(d)
    BY DEF Next, vars, roomVars, AcceptInsert, AcceptSelect, AcceptFails, Restart, Store, PostFails,
       Broadcast, Closed, OpenChat, InsertRoom, OpenFails, AcceptCommit, CloseChat, Connect, Break,
       Frame, Post, Ask, Serve, Land, FetchFails
  <2>2. answered \in rooms /\ rooms \subseteq RoomIds
    BY DEF IInv, RoomsInv
  <2>3. answered' = FirstRoom(rooms)
    BY <2>1 DEF Resolve
  <2> QED BY <2>2, <2>3, LeastRoom
<1> QED BY <1>1, Invariant, PTL DEF Spec, RoomsOnlyDescend
=============================================================================
