-------------------------------- MODULE Realtime --------------------------------
(***************************************************************************)
(* How two friends' devices come together in a chat: the FRIEND rooms of   *)
(* one pair (ensureFriendRoom of features/chats/chats.service.ts and of    *)
(* features/friends/friends.service.ts), the sockets of main.ts that join  *)
(* a room, and the posts that are stored and then broadcast to them.       *)
(*                                                                         *)
(* chatRooms is unique on (type, productId, buyerId, sellerId), productId  *)
(* is NULL in a FRIEND room, and NULLs never collide: every call inserts a *)
(* room.  The SELECT that follows has a LIMIT 1 and no ORDER BY; InnoDB    *)
(* reads the rows of the pair by an index that ends in the primary key, so *)
(* it finds the least id, and a new UUID may be less than all before it.   *)
(* Rooms are numbered in the order of their ids.                           *)
(*                                                                         *)
(* A device is a client of this API: it opens the chat, connects a socket  *)
(* to /ws/realtime?room=..., fetches, and posts.  The n-th socket of a     *)
(* device d is <<d, n>>.  When one breaks, what was on the wire is lost,   *)
(* and the server keeps it in its room until its 'close' event.            *)
(***************************************************************************)
EXTENDS Integers, Sequences, FiniteSets, FiniteSetsExt

CONSTANTS Devices,      \* devices of the two users
          Posters,      \* bound: devices that post
          Listeners,    \* bound: devices that connect a socket
          RoomIds,      \* bound: ids of FRIEND rooms, in their order
          MaxMessages,  \* bound: messages posted in a behaviour
          MaxSockets,   \* bound: sockets a device connects
          None          \* no room, no socket, no request

ASSUME RealtimeAssumption ==
  /\ Posters \subseteq Devices /\ Listeners \subseteq Devices
  /\ RoomIds \subseteq Nat /\ IsFiniteSet(RoomIds)
  /\ MaxMessages \in Nat /\ MaxSockets \in Nat
  /\ None \notin RoomIds \cup (Devices \X (1 .. MaxSockets))

VARIABLES rooms,      \* FRIEND rooms of the pair, as committed
          opening,    \* the statement each GET /chat/friend-room is about to run
          accepting,  \* the room transaction of an accept: its new room, its pick
          answered,   \* the last room a GET /chat/friend-room answered
          room,       \* the chat each device has open
          subs,       \* main.ts: the sockets of each room
          socket,     \* the socket each device holds
          made,       \* sockets each device has connected
          posts,      \* posts before their broadcast
          rows,       \* chatMessages
          posted,     \* messages given an id
          wire,       \* frames sent to each device and not read
          fetch,      \* the fetch each device has in flight
          got,        \* messages each device has of its chat
          caughtUp    \* the socket each device held all through its last fetch

roomVars == <<rooms, opening, accepting, answered>>
socketVars == <<subs, socket, made>>
postVars == <<posts, rows, posted>>
clientVars == <<wire, fetch, got, caughtUp>>
vars == <<roomVars, room, socketVars, postVars, clientVars>>

Ids == 1 .. MaxMessages
Sockets == Devices \X (1 .. MaxSockets)
Idle == "idle"

Init ==
  /\ rooms = {} /\ accepting = None /\ answered = None
  /\ opening = [d \in Devices |-> Idle]
  /\ room = [d \in Devices |-> None]
  /\ subs = [r \in RoomIds |-> {}]
  /\ socket = [d \in Devices |-> None]
  /\ made = [d \in Devices |-> 0]
  /\ posts = {} /\ rows = {} /\ posted = 0
  /\ wire = [d \in Devices |-> {}]
  /\ fetch = [d \in Devices |-> None]
  /\ got = [d \in Devices |-> {}]
  /\ caughtUp = [d \in Devices |-> None]

-----------------------------------------------------------------------------
(* Opening the chat: GET /chat/friend-room                                 *)

(* The route, and the SELECTs that find both users                         *)
OpenChat(d) ==
  /\ room[d] = None /\ opening[d] = Idle
  /\ opening' = [opening EXCEPT ![d] = "insert"]
  /\ UNCHANGED <<rooms, accepting, answered, room, socketVars, postVars, clientVars>>

Fresh == RoomIds \ (rooms \cup IF accepting = None THEN {} ELSE {accepting.new})

(* INSERT ... ON DUPLICATE KEY UPDATE: there is no duplicate.              *)
InsertRoom(d) ==
  /\ opening[d] = "insert"
  /\ \E r \in Fresh : rooms' = rooms \cup {r}
  /\ opening' = [opening EXCEPT ![d] = "select"]
  /\ UNCHANGED <<accepting, answered, room, socketVars, postVars, clientVars>>

(* Bug: the rooms are read from the other end.                             *)
LastRoom(S) == Max(S)

(* SELECT id FROM chatRooms ... LIMIT 1                                    *)
FirstRoom(S) == Min(S)

Resolve(d) ==
  /\ opening[d] = "select"
  /\ opening' = [opening EXCEPT ![d] = Idle]
  /\ answered' = FirstRoom(rooms)
  /\ room' = [room EXCEPT ![d] = answered']
  /\ UNCHANGED <<rooms, accepting, socketVars, postVars, clientVars>>

(* A statement fails, or there is no such user.                            *)
OpenFails(d) ==
  /\ opening[d] # Idle
  /\ opening' = [opening EXCEPT ![d] = Idle]
  /\ UNCHANGED <<rooms, accepting, answered, room, socketVars, postVars, clientVars>>

(* The same inside accept: a transaction, which sees its own insert.       *)
AcceptInsert ==
  /\ accepting = None
  /\ \E r \in Fresh : accepting' = [new |-> r, pick |-> None]
  /\ UNCHANGED <<rooms, opening, answered, room, socketVars, postVars, clientVars>>

AcceptSelect ==
  /\ accepting # None /\ accepting.pick = None
  /\ accepting' = [accepting EXCEPT !.pick = FirstRoom(rooms \cup {accepting.new})]
  /\ UNCHANGED <<rooms, opening, answered, room, socketVars, postVars, clientVars>>

(* The commit; the device that accepted goes to the room it is answered.   *)
AcceptCommit(d) ==
  /\ accepting # None /\ accepting.pick # None
  /\ room[d] = None /\ opening[d] = Idle
  /\ rooms' = rooms \cup {accepting.new}
  /\ room' = [room EXCEPT ![d] = accepting.pick]
  /\ accepting' = None
  /\ UNCHANGED <<opening, answered, socketVars, postVars, clientVars>>

AcceptFails ==
  /\ accepting # None
  /\ accepting' = None
  /\ UNCHANGED <<rooms, opening, answered, room, socketVars, postVars, clientVars>>

-----------------------------------------------------------------------------
(* The socket server                                                       *)

(* connection: the socket joins the room of its query; without a room it   *)
(* would be closed with 1008.                                              *)
Connect(d) ==
  /\ d \in Listeners
  /\ room[d] # None /\ socket[d] = None
  /\ made[d] < MaxSockets
  /\ made' = [made EXCEPT ![d] = @ + 1]
  /\ socket' = [socket EXCEPT ![d] = <<d, made'[d]>>]
  /\ subs' = [subs EXCEPT ![room[d]] = @ \cup {socket'[d]}]
  /\ UNCHANGED <<roomVars, room, postVars, clientVars>>

Gone(d) ==
  /\ socket' = [socket EXCEPT ![d] = None]
  /\ wire' = [wire EXCEPT ![d] = {}]

(* The connection breaks.                                                  *)
Break(d) ==
  /\ socket[d] # None
  /\ Gone(d)
  /\ UNCHANGED <<roomVars, room, subs, made, postVars, fetch, got, caughtUp>>

(* 'close' or 'error' of a socket whose connection broke: leave(ws)        *)
Closed(s) ==
  /\ s # socket[s[1]]
  /\ s[2] <= made[s[1]]
  /\ \E r \in RoomIds : s \in subs[r]
  /\ subs' = [r \in RoomIds |-> subs[r] \ {s}]
  /\ UNCHANGED <<roomVars, room, socket, made, postVars, clientVars>>

-----------------------------------------------------------------------------
(* Posting: POST /chat/rooms/:roomId/messages                              *)

(* Bug: the message is announced while its INSERT runs.                    *)
BroadcastFirst == <<"broadcast", "store">>

(* The handler awaits appendText, then broadcasts.                         *)
PostSteps == <<"store", "broadcast">>

Post(d) ==
  /\ d \in Posters
  /\ room[d] # None
  /\ posted < MaxMessages
  /\ posted' = posted + 1
  /\ posts' = posts \cup {[id |-> posted', room |-> room[d], todo |-> PostSteps]}
  /\ UNCHANGED <<roomVars, room, socketVars, rows, clientVars>>

Does(p, step) ==
  /\ Head(p.todo) = step
  /\ posts' = (posts \ {p}) \cup
                IF Tail(p.todo) = <<>> THEN {} ELSE {[p EXCEPT !.todo = Tail(@)]}

(* appendText: the INSERT commits.                                         *)
Store(p) ==
  /\ Does(p, "store")
  /\ rows' = rows \cup {[id |-> p.id, room |-> p.room]}
  /\ UNCHANGED <<roomVars, room, socketVars, posted, clientVars>>

PostFails(p) ==
  /\ Head(p.todo) = "store"
  /\ posts' = posts \ {p}
  /\ UNCHANGED <<roomVars, room, socketVars, rows, posted, clientVars>>

(* Bug: every open socket gets the frame.                                  *)
SendsEverywhere(p, d) == socket[d] # None

Sends(p, d) == socket[d] # None /\ socket[d] \in subs[p.room]

(* broadcastChatToRoom: a frame to each open socket of the room.           *)
Broadcast(p) ==
  /\ Does(p, "broadcast")
  /\ wire' = [d \in Devices |-> IF Sends(p, d) THEN wire[d] \cup {p.id} ELSE wire[d]]
  /\ UNCHANGED <<roomVars, room, socketVars, rows, posted, fetch, got, caughtUp>>

-----------------------------------------------------------------------------
(* The device                                                              *)

Frame(d) ==
  /\ \E id \in wire[d] : /\ wire' = [wire EXCEPT ![d] = @ \ {id}]
                         /\ got' = [got EXCEPT ![d] = @ \cup {id}]
  /\ UNCHANGED <<roomVars, room, socketVars, postVars, fetch, caughtUp>>

Ask(d) ==
  /\ d \in Listeners
  /\ room[d] # None /\ fetch[d] = None
  /\ fetch' = [fetch EXCEPT ![d] = [with |-> socket[d], answered |-> FALSE, list |-> {}]]
  /\ UNCHANGED <<roomVars, room, socketVars, postVars, wire, got, caughtUp>>

(* GET /chat/rooms/:roomId/messages; the limit leaves out none here.       *)
Serve(d) ==
  /\ fetch[d] # None /\ ~fetch[d].answered
  /\ fetch' = [fetch EXCEPT ![d].answered = TRUE,
                            ![d].list = {m.id : m \in {n \in rows : n.room = room[d]}}]
  /\ UNCHANGED <<roomVars, room, socketVars, postVars, wire, got, caughtUp>>

Land(d) ==
  /\ fetch[d] # None /\ fetch[d].answered
  /\ got' = [got EXCEPT ![d] = @ \cup fetch[d].list]
  /\ caughtUp' = [caughtUp EXCEPT ![d] = fetch[d].with]
  /\ fetch' = [fetch EXCEPT ![d] = None]
  /\ UNCHANGED <<roomVars, room, socketVars, postVars, wire>>

FetchFails(d) ==
  /\ fetch[d] # None
  /\ fetch' = [fetch EXCEPT ![d] = None]
  /\ UNCHANGED <<roomVars, room, socketVars, postVars, wire, got, caughtUp>>

(* The chat is closed, with its socket.                                    *)
CloseChat(d) ==
  /\ room[d] # None
  /\ room' = [room EXCEPT ![d] = None]
  /\ Gone(d)
  /\ fetch' = [fetch EXCEPT ![d] = None]
  /\ got' = [got EXCEPT ![d] = {}]
  /\ caughtUp' = [caughtUp EXCEPT ![d] = None]
  /\ UNCHANGED <<roomVars, subs, made, postVars>>

(* The server's process ends and starts again: its map of rooms and every  *)
(* handler are gone, what was stored stays, and not every post that was    *)
(* stored is broadcast.                                                    *)
Restart ==
  /\ opening' = [d \in Devices |-> Idle]
  /\ accepting' = None
  /\ subs' = [r \in RoomIds |-> {}]
  /\ socket' = [d \in Devices |-> None]
  /\ posts' = {}
  /\ wire' = [d \in Devices |-> {}]
  /\ fetch' = [d \in Devices |-> None]
  /\ UNCHANGED <<rooms, answered, room, made, rows, posted, got, caughtUp>>

-----------------------------------------------------------------------------
Next ==
  \/ AcceptInsert \/ AcceptSelect \/ AcceptFails \/ Restart
  \/ \E p \in posts : Store(p) \/ PostFails(p) \/ Broadcast(p)
  \/ \E s \in Sockets : Closed(s)
  \/ \E d \in Devices :
       \/ OpenChat(d) \/ InsertRoom(d) \/ Resolve(d) \/ OpenFails(d)
       \/ AcceptCommit(d) \/ CloseChat(d)
       \/ Connect(d) \/ Break(d) \/ Frame(d)
       \/ Post(d) \/ Ask(d) \/ Serve(d) \/ Land(d) \/ FetchFails(d)

Spec == Init /\ [][Next]_vars

-----------------------------------------------------------------------------
(* The variables have their types, and the server's map and the devices    *)
(* agree: a socket a device holds is in the room it has open and in no     *)
(* other, so no frame of another chat reaches it (main.ts, 106-140).       *)
TypeOK ==
  /\ rooms \subseteq RoomIds /\ answered \in RoomIds \cup {None}
  /\ opening \in [Devices -> {Idle, "insert", "select"}]
  /\ accepting # None => accepting \in [new : RoomIds \ rooms, pick : RoomIds \cup {None}]
  /\ room \in [Devices -> rooms \cup {None}]
  /\ subs \in [RoomIds -> SUBSET Sockets]
  /\ \A p \in posts : p.id \in Ids /\ p.room \in rooms
  /\ rows \subseteq [id : Ids, room : rooms]
  /\ \A d \in Devices :
       /\ socket[d] # None =>
            \A r \in RoomIds : socket[d] \in subs[r] <=> r = room[d]
       /\ \A id \in wire[d] \cup got[d] :
            \E m \in rows \cup posts : m.id = id /\ m.room = room[d]

(* A device that fetched while holding its socket misses nothing from then *)
(* on: every stored message of its chat has been read or framed to it, or  *)
(* its broadcast is still to come.  Posts, fetches and connections may     *)
(* interleave in any way, since a post is broadcast after it is stored and *)
(* a socket is in its room before the device can fetch.                    *)
JoinThenFetch ==
  \A d \in Devices :
    (socket[d] # None /\ caughtUp[d] = socket[d]) =>
      \A m \in rows :
        m.room = room[d] =>
          \/ m.id \in got[d] \cup wire[d]
          \/ \E p \in posts : p.id = m.id

(* Opening the chat never leads back: once GET /chat/friend-room has       *)
(* answered some room, it answers no later one again, to neither user, and *)
(* whatever was posted in a room it moved away from is out of sight.       *)
RoomsOnlyDescend ==
  [][answered # None => answered' <= answered]_answered
=============================================================================
