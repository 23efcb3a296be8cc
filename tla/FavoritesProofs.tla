----------------------------- MODULE FavoritesProofs -----------------------------
(***************************************************************************)
(* The properties of Favorites for any products and any number of toggles  *)
(* and loads in flight: the types, that a second row of a product comes    *)
(* only of toggles that overlap, that the answer to a toggle that ran      *)
(* alone shows what the server holds, and that a quiet refresh heals.      *)
(*                                                                         *)
(* What carries them is what a toggle that runs alone knows between its    *)
(* statements: no other toggle of its product is in flight, so the rows    *)
(* are as its find, its delete or its insert left them.                    *)
(***************************************************************************)
EXTENDS Favorites, FiniteSetTheorems, TLAPS

(* Toggles that have found no row; each may still insert one.              *)
Inserting(p) == {c \in Calls : call[c].p = p /\ call[c].pc \in {"product", "insert"}}

Room(p) == rows[p] \in Nat /\ rows[p] + Cardinality(Inserting(p)) <= Cardinality(Calls)

CallInv(c) ==
  /\ At(c, "idle") => call[c] = IdleCall
  /\ ~At(c, "idle") => call[c].p \in Products

SoloInv(c) ==
  LET p == call[c].p IN
  (~At(c, "idle") /\ call[c].solo) =>
    /\ InFlight(p) = {c}
    /\ call[c].pc \in {"product", "insert", "off"} => rows[p] = 0
    /\ call[c].pc = "on" => rows[p] > 0

TangleInv(p) ==
  ~tangled[p] => rows[p] <= 1 /\ \A c \in InFlight(p) : call[c].solo

(* What a quiet load was served is what the server holds.                  *)
CalmInv == calm => \A l \in Loads : load[l].pc = "served" => load[l].list = Listed

IInv ==
  /\ TypeOK /\ CalmInv
  /\ \A c \in Calls : CallInv(c) /\ SoloInv(c)
  /\ \A p \in Products : Room(p) /\ TangleInv(p)

CallTypes == [pc : {"idle"} \cup Served \cup Answers, by : Origins,
              p : Products \cup {None}, prev : BOOLEAN, solo : BOOLEAN]
LoadTypes == [pc : {"idle", "asked", "served"}, list : SUBSET Products]

-----------------------------------------------------------------------------
(* Room: rows and toggles that may still insert are never more than slots. *)
LEMMA InsertingFinite ==
  ASSUME NEW p
  PROVE  /\ IsFiniteSet(Inserting(p)) /\ Cardinality(Inserting(p)) \in Nat
         /\ Cardinality(Inserting(p)) <= Cardinality(Calls) /\ Cardinality(Calls) \in Nat
<1>1. Inserting(p) \subseteq Calls
  BY DEF Inserting
<1> QED BY <1>1, FavoritesAssumption, FS_Subset, FS_CardinalityType

LEMMA RoomStays ==
  ASSUME NEW p, Room(p), rows'[p] = rows[p], Inserting(p)' \subseteq Inserting(p)
  PROVE  Room(p)'
<1> HIDE DEF Inserting
<1>1. Cardinality(Inserting(p)') \in Nat /\ Cardinality(Inserting(p)') <= Cardinality(Inserting(p))
      /\ Cardinality(Inserting(p)) \in Nat /\ Cardinality(Calls) \in Nat
  BY InsertingFinite, FS_Subset, FS_CardinalityType
<1>2. Cardinality(Inserting(p))' = Cardinality(Inserting(p)')
  OBVIOUS
<1> QED BY <1>1, <1>2 DEF Room

LEMMA RoomEmpty ==
  ASSUME NEW p, rows'[p] = 0
  PROVE  Room(p)'
<1>1. Inserting(p)' \subseteq Calls
  BY DEF Inserting
<1>2. Cardinality(Inserting(p)') \in Nat /\ Cardinality(Inserting(p)') <= Cardinality(Calls)
  BY <1>1, FavoritesAssumption, FS_Subset, FS_CardinalityType
<1>3. Cardinality(Inserting(p))' = Cardinality(Inserting(p)')
  OBVIOUS
<1> QED BY <1>2, <1>3 DEF Room

LEMMA RowsBounded ==
  ASSUME rows' \in [Products -> Nat], \A p \in Products : Room(p)'
  PROVE  rows' \in [Products -> 0 .. Cardinality(Calls)]
<1>1. ASSUME NEW p \in Products PROVE rows'[p] \in 0 .. Cardinality(Calls)
  <2>1. Inserting(p)' \subseteq Calls
    BY DEF Inserting
  <2>2. Cardinality(Inserting(p)') \in Nat /\ Cardinality(Calls) \in Nat
    BY <2>1, FavoritesAssumption, FS_Subset, FS_CardinalityType
  <2>3. Cardinality(Inserting(p))' = Cardinality(Inserting(p)')
    OBVIOUS
  <2> QED BY <1>1, <2>2, <2>3 DEF Room
<1> QED BY <1>1

-----------------------------------------------------------------------------
LEMMA InitInv == Init => IInv
<1> SUFFICES ASSUME Init PROVE IInv
  OBVIOUS
<1>1. ASSUME NEW p \in Products PROVE Room(p) /\ TangleInv(p)
  <2>1. Inserting(p) = {} /\ InFlight(p) = {}
    BY DEF Init, Inserting, InFlight, IdleCall
  <2>2. Cardinality(Inserting(p)) = 0
    BY <2>1, FS_EmptySet
  <2>3. Cardinality(Calls) \in Nat /\ Cardinality(Calls) # 0
    BY FavoritesAssumption, FS_EmptySet, FS_CardinalityType
  <2>4. rows[p] \in 0 .. 1
    BY DEF Init
  <2> QED BY <2>1, <2>2, <2>3, <2>4 DEF Room, TangleInv
<1>2. rows \in [Products -> 0 .. Cardinality(Calls)]
  BY <1>1, InsertingFinite DEF Init, Room
<1>3. TypeOK
  BY <1>2 DEF Init, TypeOK, IdleCall, IdleLoad, Origins, App, Screens
<1>4. \A c \in Calls : CallInv(c) /\ SoloInv(c)
  BY DEF Init, CallInv, SoloInv, At, IdleCall
<1>5. CalmInv
  BY DEF Init, CalmInv
<1> QED BY <1>1, <1>3, <1>4, <1>5 DEF IInv

(* A statement of one toggle, which touches the rows of its product only.  *)
LEMMA StatementMoves ==
  ASSUME IInv, NEW c \in Calls, ~At(c, "idle"), NEW label \in Served \cup Answers, Goto(c, label),
         gone' = gone, calm' = FALSE, NEW p \in Products, p = call[c].p,
         rows' \in [Products -> Nat], tangled' \in [Products -> BOOLEAN],
         \A q \in Products : q # p => rows'[q] = rows[q] /\ tangled'[q] = tangled[q],
         ~tangled'[p] => rows'[p] <= 1 /\ (~tangled[p] \/ call[c].solo), Room(p)',
         call[c].solo => /\ label \in {"product", "insert", "off"} => rows'[p] = 0
                         /\ label = "on" => rows'[p] > 0
  PROVE  IInv'
<1>1. /\ call'[c].pc = label /\ call'[c].p = p /\ call'[c].solo = call[c].solo
      /\ call'[c] \in CallTypes /\ \A d \in Calls : d # c => call'[d] = call[d]
      /\ call' \in [Calls -> CallTypes]
  BY DEF Goto, IInv, TypeOK, CallTypes
<1>3. label # "idle"
  BY DEF Served, Answers
<1>4. \A q : InFlight(q)' = InFlight(q)
  BY <1>1, <1>3 DEF InFlight, At
<1>5. ASSUME NEW d \in Calls PROVE CallInv(d)' /\ SoloInv(d)'
  <2>1. CASE d = c
    BY <1>1, <1>3, <1>4, <2>1 DEF IInv, CallInv, SoloInv, At
  <2>2. CASE d # c
    <3>1. call'[d] = call[d] /\ CallInv(d) /\ SoloInv(d) /\ c \in InFlight(p)
      BY <1>1, <2>2 DEF IInv, InFlight, At
    <3>2. ~At(d, "idle") /\ call[d].solo => call[d].p \in Products /\ call[d].p # p
      BY <2>2, <3>1 DEF CallInv, SoloInv
    <3> QED BY <1>4, <3>1, <3>2 DEF CallInv, SoloInv, At
  <2> QED BY <2>1, <2>2
<1>6. ASSUME NEW q \in Products PROVE Room(q)' /\ TangleInv(q)'
  <2>1. CASE q = p
    <3>1. ~tangled'[p] => \A d \in InFlight(p) : call[d].solo
      BY <1>1 DEF IInv, TangleInv, SoloInv, InFlight, At
    <3>2. \A d \in Calls : call'[d].solo = call[d].solo
      BY <1>1
    <3>3. InFlight(p) \subseteq Calls
      BY DEF InFlight
    <3> QED BY <1>4, <2>1, <3>1, <3>2, <3>3 DEF TangleInv
  <2>2. CASE q # p
    <3>1. Inserting(q)' \subseteq Inserting(q)
      BY <1>1, <2>2 DEF Inserting
    <3>2. Room(q)'
      BY <2>2, <3>1, RoomStays DEF IInv
    <3>3. \A d \in Calls : call'[d].solo = call[d].solo
      BY <1>1
    <3>4. InFlight(q) \subseteq Calls
      BY DEF InFlight
    <3> QED BY <1>4, <2>2, <3>2, <3>3, <3>4 DEF IInv, TangleInv
  <2> QED BY <2>1, <2>2
<1>7. TypeOK'
  <2>1. rows' \in [Products -> 0 .. Cardinality(Calls)]
    BY <1>6, RowsBounded
  <2> QED BY <1>1, <2>1 DEF Goto, IInv, TypeOK, CallTypes
<1>8. CalmInv'
  BY DEF CalmInv
<1> QED BY <1>5, <1>6, <1>7, <1>8 DEF IInv

LEMMA StatementInv ==
  ASSUME IInv, NEW c \in Calls,
         Find(c) \/ Delete(c) \/ FindProduct(c) \/ Insert(c) \/ ToggleFails(c)
  PROVE  IInv'
<1>1. PICK p \in Products : p = call[c].p /\ ~At(c, "idle")
  BY DEF Find, Delete, FindProduct, Insert, ToggleFails, At, Served, IInv, CallInv
<1>2. /\ rows \in [Products -> Nat] /\ tangled \in [Products -> BOOLEAN]
      /\ call \in [Calls -> CallTypes] /\ Room(p) /\ SoloInv(c)
      /\ ~tangled[p] => rows[p] <= 1 /\ call[c].solo
  BY <1>1, InsertingFinite DEF IInv, TypeOK, TangleInv, CallTypes, InFlight, At
<1>3. CASE Find(c)
  <2> DEFINE label == IF rows[p] > 0 THEN "delete" ELSE "product"
  <2>1. Goto(c, label) /\ UNCHANGED <<rows, gone, tangled>> /\ calm' = FALSE
    BY <1>1, <1>3 DEF Find, server
  <2>2. label \in {"delete", "product"} /\ (label = "product" => rows[p] = 0)
    BY <1>1, <1>2
  <2>3. Room(p)'
    <3>1. CASE rows[p] > 0
      <4>1. Inserting(p)' \subseteq Inserting(p)
        BY <1>1, <1>2, <2>1, <3>1 DEF Goto, Inserting
      <4> QED BY <1>2, <2>1, <4>1, RoomStays
    <3>2. CASE rows[p] = 0
      BY <2>1, <3>2, RoomEmpty
    <3> QED BY <1>1, <1>2, <3>1, <3>2
  <2> HIDE DEF label
  <2> QED BY <1>1, <1>2, <2>1, <2>2, <2>3, StatementMoves DEF Served
<1>4. CASE Delete(c)
  <2>1. /\ rows' = [rows EXCEPT ![p] = 0] /\ tangled' = [tangled EXCEPT ![p] = @ /\ ~call[c].solo]
        /\ Goto(c, "off") /\ gone' = gone /\ calm' = FALSE
    BY <1>1, <1>4 DEF Delete
  <2>2. /\ rows' \in [Products -> Nat] /\ rows'[p] = 0 /\ tangled' \in [Products -> BOOLEAN]
        /\ \A q \in Products : q # p => rows'[q] = rows[q] /\ tangled'[q] = tangled[q]
        /\ ~tangled'[p] => rows'[p] <= 1 /\ (~tangled[p] \/ call[c].solo)
        /\ gone' = gone /\ calm' = FALSE
    BY <1>1, <1>2, <2>1
  <2>3. Room(p)'
    BY <2>2, RoomEmpty
  <2>4. "off" \in Served \cup Answers /\ Goto(c, "off")
    BY <2>1 DEF Answers
  <2>5. /\ \A q \in Products : q # p => rows'[q] = rows[q] /\ tangled'[q] = tangled[q]
        /\ ~tangled'[p] => rows'[p] <= 1 /\ (~tangled[p] \/ call[c].solo)
        /\ call[c].solo => /\ "off" \in {"product", "insert", "off"} => rows'[p] = 0
                           /\ "off" = "on" => rows'[p] > 0
    BY <2>2
  <2> QED BY <1>1, <2>2, <2>3, <2>4, <2>5, StatementMoves
<1>5. CASE FindProduct(c)
  <2> DEFINE label == IF p \in gone THEN "error" ELSE "insert"
  <2>1. /\ Goto(c, label) /\ label \in {"error", "insert"} /\ call[c].pc = "product"
        /\ UNCHANGED <<rows, gone, tangled>> /\ calm' = FALSE
    BY <1>1, <1>5 DEF FindProduct, At, server
  <2> HIDE DEF label
  <2>2. Inserting(p)' \subseteq Inserting(p)
    BY <1>1, <1>2, <2>1 DEF Goto, Inserting
  <2>3. Room(p)'
    BY <1>2, <2>1, <2>2, RoomStays
  <2>4. call[c].solo => rows[p] = 0
    BY <1>1, <1>2, <2>1 DEF SoloInv
  <2> QED BY <1>1, <1>2, <2>1, <2>3, <2>4, StatementMoves DEF Served, Answers
<1>6. CASE Insert(c)
  <2>1. /\ rows' = [rows EXCEPT ![p] = @ + 1] /\ call[c].pc = "insert"
        /\ Goto(c, "on") /\ UNCHANGED <<gone, tangled>> /\ calm' = FALSE
    BY <1>1, <1>6 DEF Insert, At
  <2>2. /\ rows' \in [Products -> Nat] /\ rows'[p] = rows[p] + 1 /\ rows[p] \in Nat
        /\ \A q \in Products : q # p => rows'[q] = rows[q]
        /\ UNCHANGED <<gone, tangled>> /\ calm' = FALSE
    BY <1>1, <1>2, <2>1
  <2>3. c \in Inserting(p) /\ Inserting(p)' = Inserting(p) \ {c}
    BY <1>1, <1>2, <2>1 DEF Goto, Inserting
  <2>4. Cardinality(Inserting(p)') = Cardinality(Inserting(p)) - 1
    BY <2>3, InsertingFinite, FS_RemoveElement
  <2>5. Room(p)'
    <3>1. Cardinality(Inserting(p))' = Cardinality(Inserting(p)')
      OBVIOUS
    <3>2. Cardinality(Inserting(p)) \in Nat /\ Cardinality(Calls) \in Nat
      BY InsertingFinite
    <3> QED BY <1>2, <2>2, <2>4, <3>1, <3>2 DEF Room
  <2>6. call[c].solo => rows[p] = 0
    BY <1>1, <1>2, <2>1 DEF SoloInv
  <2>7. PICK label \in Served \cup Answers :
            label \notin {"product", "insert", "off"} /\ Goto(c, label)
    BY <2>1 DEF Answers
  <2>8. rows'[p] > 0 /\ (~tangled'[p] => rows'[p] <= 1 /\ (~tangled[p] \/ call[c].solo))
    BY <1>2, <2>2, <2>6
  <2>9. tangled' \in [Products -> BOOLEAN]
    BY <1>2, <2>2
  <2> QED BY <1>1, <2>2, <2>5, <2>7, <2>8, <2>9, StatementMoves
<1>7. CASE ToggleFails(c)
  <2>1. Goto(c, "error") /\ UNCHANGED <<rows, gone, tangled>> /\ calm' = FALSE
    BY <1>7 DEF ToggleFails, server
  <2>2. Inserting(p)' \subseteq Inserting(p)
    BY <1>1, <1>2, <2>1 DEF Goto, Inserting
  <2>3. Room(p)'
    BY <1>2, <2>1, <2>2, RoomStays
  <2>4. PICK label \in Served \cup Answers :
            label \notin {"product", "insert", "on", "off"} /\ Goto(c, label)
    BY <2>1 DEF Answers
  <2> QED BY <1>1, <1>2, <2>1, <2>3, <2>4, StatementMoves
<1> QED BY <1>3, <1>4, <1>5, <1>6, <1>7

(* A tap: whoever is in flight for the product is no longer alone.         *)
LEMMA RequestInv ==
  ASSUME IInv, NEW c \in Calls, NEW by \in Origins, NEW p \in Products, Request(c, by, p),
         fav' \in SUBSET Products, pending' \in SUBSET Products
  PROVE  IInv'
<1> DEFINE me == [pc |-> "find", by |-> by, p |-> p, prev |-> p \in fav, solo |-> InFlight(p) = {}]
<1>1. /\ me \in CallTypes /\ me.pc = "find" /\ me.p = p /\ (me.solo <=> InFlight(p) = {})
  <2>1. (p \in fav) \in BOOLEAN /\ (InFlight(p) = {}) \in BOOLEAN
    OBVIOUS
  <2>2. \A prev, solo \in BOOLEAN :
          LET r == [pc |-> "find", by |-> by, p |-> p, prev |-> prev, solo |-> solo]
          IN  r \in CallTypes /\ r.pc = "find" /\ r.p = p /\ r.solo = solo
    BY DEF CallTypes, Served
  <2> QED BY <2>1, <2>2, Zenon
<1>2. /\ call[c] = IdleCall /\ call \in [Calls -> CallTypes] /\ call[c].pc = "idle"
      /\ c \notin InFlight(p)
  BY DEF Request, At, IInv, CallInv, TypeOK, CallTypes, InFlight
<1>3. call' = [d \in Calls |-> IF d = c THEN me
                               ELSE IF d \in InFlight(p) THEN [call[d] EXCEPT !.solo = FALSE]
                               ELSE call[d]]
  BY DEF Request
<1> HIDE DEF me
<1>4. /\ call' \in [Calls -> CallTypes] /\ call'[c] = me
      /\ \A d \in Calls \ {c} : call'[d].pc = call[d].pc /\ call'[d].p = call[d].p
      /\ \A d \in InFlight(p) : ~call'[d].solo
      /\ \A d \in Calls \ {c} : d \notin InFlight(p) => call'[d] = call[d]
  BY <1>1, <1>2, <1>3 DEF CallTypes, InFlight
<1>5. InFlight(p)' = InFlight(p) \cup {c} /\ \A q : q # p => InFlight(q)' = InFlight(q)
  BY <1>1, <1>2, <1>4 DEF InFlight
<1>6. /\ UNCHANGED <<rows, gone, load>> /\ calm' = FALSE
      /\ tangled' \in [Products -> BOOLEAN] /\ \A q \in Products : q # p => tangled'[q] = tangled[q]
      /\ ~tangled'[p] => ~tangled[p] /\ InFlight(p) = {}
  BY DEF Request, IInv, TypeOK
<1>7. ASSUME NEW d \in Calls PROVE CallInv(d)' /\ SoloInv(d)'
  <2>1. CASE d = c
    BY <1>1, <1>4, <1>5, <2>1 DEF CallInv, SoloInv, At
  <2>2. CASE d \in InFlight(p)
    BY <1>2, <1>4, <2>2 DEF IInv, CallInv, SoloInv, At, InFlight
  <2>3. CASE d # c /\ d \notin InFlight(p)
    <3>1. call'[d] = call[d] /\ CallInv(d) /\ SoloInv(d)
      BY <1>4, <2>3 DEF IInv
    <3>2. ~At(d, "idle") => call[d].p # p
      BY <2>3 DEF InFlight, At
    <3> QED BY <1>5, <1>6, <3>1, <3>2 DEF CallInv, SoloInv, At
  <2> QED BY <2>1, <2>2, <2>3
<1>8. ASSUME NEW q \in Products PROVE Room(q)' /\ TangleInv(q)'
  <2>1. Inserting(q)' \subseteq Inserting(q)
    BY <1>1, <1>2, <1>4 DEF Inserting
  <2>2. Room(q)'
    BY <1>6, <2>1, RoomStays DEF IInv
  <2>3. CASE q = p
    BY <1>1, <1>4, <1>5, <1>6, <2>2, <2>3 DEF IInv, TangleInv
  <2>4. CASE q # p
    <3>1. \A d \in InFlight(q) : call'[d] = call[d]
      BY <1>2, <1>4, <2>4 DEF InFlight
    <3> QED BY <1>5, <1>6, <2>2, <2>4, <3>1 DEF IInv, TangleInv
  <2> QED BY <2>3, <2>4
<1>9. TypeOK'
  BY <1>4, <1>6 DEF IInv, TypeOK, CallTypes
<1>10. CalmInv'
  BY <1>6 DEF CalmInv
<1> QED BY <1>7, <1>8, <1>9, <1>10 DEF IInv

LEMMA TapInv ==
  ASSUME IInv, NEW c \in Calls, NEW p \in Products,
         TapHome(c, p) \/ TapHeart(c, p) \/ OtherDevice(c, p)
  PROVE  IInv'
<1>1. PICK by \in Origins : Request(c, by, p)
  BY DEF TapHome, TapHeart, OtherDevice, Origins, App, Screens
<1>2. fav' \in SUBSET Products /\ pending' \in SUBSET Products
  BY DEF TapHome, TapHeart, OtherDevice, Optimistic, IInv, TypeOK
<1> QED BY <1>1, <1>2, RequestInv

LEMMA AnsweredInv ==
  ASSUME IInv, NEW c \in Calls, Answered(c)
  PROVE  IInv'
<1>1. /\ ~At(c, "idle") /\ call[c].p \in Products /\ call \in [Calls -> CallTypes]
      /\ IdleCall \in CallTypes /\ IdleCall.pc = "idle"
  BY DEF Answered, At, Answers, IInv, CallInv, TypeOK, CallTypes, IdleCall, Origins, App, Screens
<1>2. /\ call' \in [Calls -> CallTypes] /\ call'[c] = IdleCall
      /\ \A d \in Calls \ {c} : call'[d] = call[d]
  BY <1>1 DEF Answered
<1>3. fav' \in SUBSET Products /\ pending' \in SUBSET Products
  BY <1>1 DEF Answered, Rollback, ApplyServer, Show, IInv, TypeOK
<1>4. UNCHANGED <<rows, gone, load, tangled>> /\ calm' = FALSE
  BY DEF Answered
<1>5. \A q : InFlight(q)' = InFlight(q) \ {c}
  BY <1>1, <1>2 DEF InFlight
<1>6. ASSUME NEW d \in Calls PROVE CallInv(d)' /\ SoloInv(d)'
  <2>1. CASE d = c
    BY <1>1, <1>2, <2>1 DEF CallInv, SoloInv, At
  <2>2. CASE d # c
    BY <1>2, <1>4, <1>5, <2>2 DEF IInv, CallInv, SoloInv, At
  <2> QED BY <2>1, <2>2
<1>7. ASSUME NEW q \in Products PROVE Room(q)' /\ TangleInv(q)'
  <2>1. Inserting(q)' \subseteq Inserting(q)
    BY <1>1, <1>2 DEF Inserting
  <2>2. Room(q)'
    BY <1>4, <2>1, RoomStays DEF IInv
  <2>3. InFlight(q) \subseteq Calls
    BY DEF InFlight
  <2> QED BY <1>2, <1>4, <1>5, <2>2, <2>3 DEF IInv, TangleInv
<1>8. TypeOK'
  BY <1>2, <1>3, <1>4 DEF IInv, TypeOK, CallTypes
<1>9. CalmInv'
  BY <1>4 DEF CalmInv
<1> QED BY <1>6, <1>7, <1>8, <1>9 DEF IInv

(* Leaving a screen or closing the app changes who waits for an answer.    *)
LEMMA OriginsChange ==
  ASSUME IInv, UNCHANGED <<rows, gone, fav, tangled>>, call' \in [Calls -> CallTypes],
         pending' \in SUBSET Products, load' \in [Loads -> LoadTypes], calm' \in BOOLEAN,
         CalmInv',
         \A c \in Calls : /\ call'[c].pc = call[c].pc /\ call'[c].p = call[c].p
                          /\ call'[c].solo = call[c].solo
                          /\ call[c] = IdleCall => call'[c] = IdleCall
  PROVE  IInv'
<1>1. \A q : InFlight(q)' = InFlight(q) /\ Inserting(q)' = Inserting(q)
  BY DEF InFlight, Inserting
<1>2. \A c \in Calls : CallInv(c)' /\ SoloInv(c)'
  BY <1>1 DEF IInv, CallInv, SoloInv, At
<1>3. ASSUME NEW q \in Products PROVE Room(q)' /\ TangleInv(q)'
  <2>1. InFlight(q) \subseteq Calls
    BY DEF InFlight
  <2>2. Room(q)'
    BY <1>1, RoomStays DEF IInv
  <2> QED BY <1>1, <2>1, <2>2 DEF IInv, TangleInv
<1>4. TypeOK'
  BY DEF IInv, TypeOK, CallTypes, LoadTypes
<1> QED BY <1>2, <1>3, <1>4 DEF IInv

LEMMA LeaveInv ==
  ASSUME IInv, NEW screen \in Screens, Leave(screen)
  PROVE  IInv'
<1>1. \A c \in Calls : call[c] \in CallTypes /\ (call[c] = IdleCall => call[c].by = "other")
  BY DEF IInv, TypeOK, CallTypes, IdleCall
<1>2. screen # "other" /\ "left" \in Origins
  BY DEF Screens, Origins, App
<1>3. call' \in [Calls -> CallTypes]
  BY <1>1, <1>2 DEF Leave, CallTypes
<1>4. \A c \in Calls : /\ call'[c].pc = call[c].pc /\ call'[c].p = call[c].p
                       /\ call'[c].solo = call[c].solo
                       /\ call[c] = IdleCall => call'[c] = IdleCall
  BY <1>1, <1>2 DEF Leave, CallTypes
<1>5. CalmInv'
  BY DEF Leave, IInv, CalmInv, Listed
<1> QED BY <1>3, <1>4, <1>5, OriginsChange DEF Leave, IInv, TypeOK, LoadTypes

LEMMA ReopenInv ==
  ASSUME IInv, Reopen
  PROVE  IInv'
<1>1. \A c \in Calls : call[c] \in CallTypes
  BY DEF IInv, TypeOK, CallTypes
<1>2. "other" \in Origins
  BY DEF Origins
<1>3. call' \in [Calls -> CallTypes]
  BY <1>1, <1>2 DEF Reopen, CallTypes
<1>4. \A c \in Calls : /\ call'[c].pc = call[c].pc /\ call'[c].p = call[c].p
                       /\ call'[c].solo = call[c].solo
                       /\ call[c] = IdleCall => call'[c] = IdleCall
  BY <1>1, <1>2 DEF Reopen, CallTypes, IdleCall
<1>5. load' \in [Loads -> LoadTypes] /\ calm' = FALSE
  BY DEF Reopen, IdleLoad, LoadTypes
<1>6. CalmInv'
  BY <1>5 DEF CalmInv
<1> QED BY <1>3, <1>4, <1>5, <1>6, OriginsChange DEF Reopen

-----------------------------------------------------------------------------
(* Steps no toggle makes: of its toggles nothing changes.                  *)
LEMMA TogglesStay ==
  ASSUME IInv, UNCHANGED <<rows, call, tangled>>, TypeOK', CalmInv'
  PROVE  IInv'
<1>1. \A c \in Calls : CallInv(c)' /\ SoloInv(c)'
  BY DEF IInv, CallInv, SoloInv, At, InFlight
<1>2. \A q \in Products : Room(q)' /\ TangleInv(q)'
  BY DEF IInv, Room, Inserting, TangleInv, InFlight
<1> QED BY <1>1, <1>2 DEF IInv

LEMMA LoadInv ==
  ASSUME IInv, NEW l \in Loads, StartLoad(l) \/ Serve(l) \/ LoadFails(l) \/ Land(l)
  PROVE  IInv'
<1>1. load \in [Loads -> LoadTypes] /\ Listed \in SUBSET Products
  BY DEF IInv, TypeOK, LoadTypes, Listed
<1>2. Listed' = Listed /\ UNCHANGED <<rows, gone, call, tangled>>
  BY DEF StartLoad, Serve, LoadFails, Land, Listed
<1>3. CASE StartLoad(l)
  <2>1. TypeOK'
    BY <1>1, <1>3 DEF StartLoad, IInv, TypeOK, LoadTypes
  <2>2. CalmInv'
    BY <1>1, <1>3 DEF StartLoad, CalmInv, LoadTypes
  <2> QED BY <1>2, <2>1, <2>2, TogglesStay
<1>4. CASE Serve(l)
  <2>1. TypeOK'
    BY <1>1, <1>4 DEF Serve, IInv, TypeOK, LoadTypes
  <2>2. CalmInv'
    BY <1>1, <1>2, <1>4 DEF Serve, IInv, CalmInv
  <2> QED BY <1>2, <2>1, <2>2, TogglesStay
<1>5. CASE LoadFails(l)
  <2>1. TypeOK'
    BY <1>1, <1>5 DEF LoadFails, IInv, TypeOK, LoadTypes
  <2>2. CalmInv'
    BY <1>5 DEF LoadFails, CalmInv
  <2> QED BY <1>2, <2>1, <2>2, TogglesStay
<1>6. CASE Land(l)
  <2>1. IdleLoad \in LoadTypes /\ IdleLoad.pc = "idle" /\ load[l].list \in SUBSET Products
    BY <1>1 DEF IdleLoad, LoadTypes
  <2>2. TypeOK'
    BY <1>1, <1>6, <2>1 DEF Land, ReplaceAll, IInv, TypeOK, LoadTypes
  <2>3. CalmInv'
    BY <1>1, <1>2, <1>6, <2>1 DEF Land, IInv, CalmInv
  <2> QED BY <1>2, <2>2, <2>3, TogglesStay
<1> QED BY <1>3, <1>4, <1>5, <1>6

LEMMA NextInv == IInv /\ [Next]_vars => IInv'
<1> SUFFICES ASSUME IInv, [Next]_vars PROVE IInv'
  OBVIOUS
<1>1. ASSUME NEW c \in Calls,
             \/ \E p \in Products : TapHome(c, p) \/ TapHeart(c, p) \/ OtherDevice(c, p)
             \/ Find(c) \/ Delete(c) \/ FindProduct(c) \/ Insert(c) \/ ToggleFails(c)
             \/ Answered(c)
      PROVE  IInv'
  BY <1>1, TapInv, StatementInv, AnsweredInv
<1>2. CASE ProductRemoved \/ ProductReturns
  <2>1. TypeOK' /\ CalmInv'
    BY <1>2 DEF ProductRemoved, ProductReturns, IInv, TypeOK, CalmInv
  <2> QED BY <1>2, <2>1, TogglesStay DEF ProductRemoved, ProductReturns
<1>3. CASE UNCHANGED vars
  <2>1. TypeOK' /\ CalmInv'
    BY <1>3 DEF vars, IInv, TypeOK, CalmInv, Listed
  <2> QED BY <1>3, <2>1, TogglesStay DEF vars
<1> QED BY <1>1, <1>2, <1>3, LoadInv, LeaveInv, ReopenInv DEF Next

(* Every reachable state has the inductive invariant.                      *)
LEMMA Invariant == Spec => []IInv
BY InitInv, NextInv, PTL DEF Spec

-----------------------------------------------------------------------------
(* The variables have their types, and no product has more rows than there *)
(* can be toggles in flight (favorites.service toggle).                    *)
THEOREM TypeCorrect == Spec => []TypeOK
<1>1. IInv => TypeOK
  BY DEF IInv
<1> QED BY <1>1, Invariant, PTL

(* Toggles that never ran side by side leave at most one row, and once     *)
(* toggles have, the next one that removes the product alone sets it right *)
(* (favorites.service toggle, without a unique key).                       *)
THEOREM OneRow == Spec => []OneRowUnlessTangled
<1>1. IInv => OneRowUnlessTangled
  BY DEF IInv, TangleInv, OneRowUnlessTangled
<1> QED BY <1>1, Invariant, PTL

(* A slot whose answer goes is the slot it reaches.                        *)
LEMMA OnlyAnswered ==
  ASSUME IInv, [Next]_vars, NEW c \in Calls, call[c].pc \in {"on", "off"},
         call'[c].pc = "idle"
  PROVE  Answered(c)
<1>1. call \in [Calls -> CallTypes]
  BY DEF IInv, TypeOK, CallTypes
<1>2. ASSUME NEW d \in Calls, NEW p \in Products,
             TapHome(d, p) \/ TapHeart(d, p) \/ OtherDevice(d, p)
      PROVE  FALSE
  <2>1. PICK by : Request(d, by, p)
    BY <1>2 DEF TapHome, TapHeart, OtherDevice
  <2>2. d # c
    BY <2>1 DEF Request, At
  <2> QED BY <1>1, <2>1, <2>2 DEF Request, CallTypes
<1>3. ASSUME NEW d \in Calls,
             Find(d) \/ Delete(d) \/ FindProduct(d) \/ Insert(d) \/ ToggleFails(d)
      PROVE  FALSE
  <2>1. PICK label \in Served \cup Answers : Goto(d, label)
    BY <1>3 DEF Find, Delete, FindProduct, Insert, ToggleFails, Served, Answers
  <2> QED BY <1>1, <2>1 DEF Goto, CallTypes, Served, Answers
<1>4. ASSUME NEW d \in Calls, Answered(d) PROVE Answered(c)
  <2>1. d = c
    BY <1>1, <1>4 DEF Answered
  <2> QED BY <1>4, <2>1
<1>5. ASSUME NEW screen \in Screens, Leave(screen) PROVE FALSE
  BY <1>1, <1>5 DEF Leave, CallTypes
<1>6. ~Reopen
  BY <1>1 DEF Reopen, CallTypes
<1>7. ASSUME NEW l \in Loads, StartLoad(l) \/ Serve(l) \/ LoadFails(l) \/ Land(l) PROVE FALSE
  BY <1>7 DEF StartLoad, Serve, LoadFails, Land
<1>8. ~ProductRemoved /\ ~ProductReturns /\ ~UNCHANGED vars
  BY DEF ProductRemoved, ProductReturns, vars
<1> QED BY <1>2, <1>3, <1>4, <1>5, <1>6, <1>7, <1>8 DEF Next

(* The answer to a toggle that ran alone leaves the app showing what the   *)
(* server holds, whatever loads came in between (favorites_store           *)
(* applyServer, favorites.service toggle).                                 *)
THEOREM SoloAgrees == Spec => SoloToggleAgrees
<1> DEFINE Agrees(c) ==
      (call[c].pc \in {"on", "off"} /\ call'[c].pc = "idle"
         /\ call[c].solo /\ call[c].by \in Screens)
      => (call[c].p \in fav' <=> rows[call[c].p] > 0)
<1>1. ASSUME IInv, [Next]_vars, NEW c \in Calls PROVE Agrees(c)
  <2> SUFFICES ASSUME call[c].pc \in {"on", "off"}, call'[c].pc = "idle", call[c].solo,
                      call[c].by \in Screens
               PROVE  call[c].p \in fav' <=> rows[call[c].p] > 0
    OBVIOUS
  <2>1. Answered(c)
    BY <1>1, OnlyAnswered
  <2>2. ApplyServer(c)
    BY <2>1 DEF Answered, Screens
  <2>3. /\ call[c].pc = "on" => rows[call[c].p] > 0
        /\ call[c].pc = "off" => rows[call[c].p] = 0
    BY <1>1 DEF IInv, SoloInv, At
  <2>4. call[c].p \in fav' <=> call[c].pc = "on"
    BY <2>2 DEF ApplyServer, Show
  <2> QED BY <2>3, <2>4
<1>2. IInv /\ [Next]_vars => [\A c \in Calls : Agrees(c)]_vars
  BY <1>1
<1> QED BY <1>2, Invariant, PTL DEF Spec, SoloToggleAgrees

(* A load that nothing came in between leaves the app showing exactly the  *)
(* server's favorites, whatever earlier toggles and loads left behind      *)
(* (favorites_store replaceAll).                                           *)
THEOREM QuietRefreshHeals == Spec => RefreshHeals
<1> DEFINE Heals == (/\ calm /\ calm'
                     /\ \E l \in Loads : load[l].pc = "served" /\ load'[l].pc = "idle")
                    => fav' = Listed
<1>1. ASSUME IInv, [Next]_vars PROVE Heals
  <2> SUFFICES ASSUME calm, calm', NEW l \in Loads, load[l].pc = "served", load'[l].pc = "idle"
               PROVE  fav' = Listed
    OBVIOUS
  <2>1. load \in [Loads -> LoadTypes]
    BY <1>1 DEF IInv, TypeOK, LoadTypes
  <2>2. ASSUME NEW c \in Calls,
               \/ \E p \in Products : TapHome(c, p) \/ TapHeart(c, p) \/ OtherDevice(c, p)
               \/ Find(c) \/ Delete(c) \/ FindProduct(c) \/ Insert(c) \/ ToggleFails(c)
               \/ Answered(c)
        PROVE  FALSE
    BY <2>2 DEF TapHome, TapHeart, OtherDevice, Request, Find, Delete, FindProduct, Insert,
       ToggleFails, Answered
  <2>3. ~ProductRemoved /\ ~ProductReturns /\ ~Reopen /\ ~UNCHANGED vars
    BY DEF ProductRemoved, ProductReturns, Reopen, vars
  <2>4. ASSUME NEW screen \in Screens, Leave(screen) PROVE FALSE
    BY <2>4 DEF Leave
  <2>5. PICK k \in Loads : StartLoad(k) \/ Serve(k) \/ LoadFails(k) \/ Land(k)
    BY <1>1, <2>2, <2>3, <2>4 DEF Next
  <2>6. k = l /\ Land(l)
    BY <2>1, <2>5 DEF StartLoad, Serve, LoadFails, Land
  <2> QED BY <1>1, <2>6 DEF IInv, CalmInv, Land, ReplaceAll
<1>2. IInv /\ [Next]_vars => [Heals]_vars
  BY <1>1
<1> QED BY <1>2, Invariant, PTL DEF Spec, RefreshHeals
=============================================================================
