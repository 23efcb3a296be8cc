------------------------------- MODULE Favorites -------------------------------
(***************************************************************************)
(* The favorites of one user: the server's toggle (FavoritesService over   *)
(* the table favorites) statement by statement, and the app's optimistic   *)
(* copy, FavoritesStore, as the home screen and the list of favorites (the *)
(* heart screen) use it.  Another device of the user toggles too.          *)
(*                                                                         *)
(* The table has no unique key on (ownerUserId, productId): rows counts    *)
(* the rows of each product.  The app saves its copy on every change, so   *)
(* what it loads when it starts again is what it had.  The counts of likes *)
(* next to the hearts come from no table and are left out.                 *)
(*                                                                         *)
(* For the properties, a call's solo says that no other toggle of its      *)
(* product has run beside it so far, tangled that two have since the last  *)
(* one that ran solo removed the product's rows, and calm that nothing but *)
(* the load in flight has happened since it was requested.                 *)
(***************************************************************************)
EXTENDS Integers, FiniteSets

CONSTANTS Products,   \* ids of products
          Calls,      \* slots of toggles in flight
          Loads,      \* slots of loads in flight
          None        \* filler

ASSUME FavoritesAssumption ==
  None \notin Products /\ Calls # {} /\ IsFiniteSet(Calls)

VARIABLES rows,      \* table favorites: how many rows each product has
          gone,      \* products that were removed from sale
          fav,       \* FavoritesStore.favoriteIds
          pending,   \* FavoritesStore._pending
          call,      \* the toggles in flight
          load,      \* the loads in flight
          tangled, calm

server == <<rows, gone, tangled>>
vars == <<rows, gone, fav, pending, call, load, tangled, calm>>

(* Who awaits the answer: a screen, a screen that has been left since, or  *)
(* "other": another device, or an app that has been closed.                *)
Screens == {"home", "heart"}
App == Screens \cup {"left"}
Origins == App \cup {"other"}
Served == {"find", "delete", "product", "insert"}
Answers == {"on", "off", "error"}

IdleCall == [pc |-> "idle", by |-> "other", p |-> None, prev |-> FALSE, solo |-> FALSE]
IdleLoad == [pc |-> "idle", list |-> {}]

Init ==
  /\ rows \in [Products -> 0 .. 1]
  /\ gone = {}
  /\ fav = {}
  /\ pending = {}
  /\ call = [c \in Calls |-> IdleCall]
  /\ load = [l \in Loads |-> IdleLoad]
  /\ tangled = [p \in Products |-> FALSE]
  /\ calm = FALSE

At(c, label) == call[c].pc = label
InFlight(p) == {c \in Calls : call[c].p = p /\ call[c].pc # "idle"}
Listed == {p \in Products \ gone : rows[p] > 0}

Goto(c, label) ==
  /\ call' = [call EXCEPT ![c].pc = label]
  /\ UNCHANGED <<fav, pending, load>>

-----------------------------------------------------------------------------
(* The store.                                                              *)

(* toggleOptimistic: nothing, while a toggle of the product is pending.    *)
Optimistic(p) ==
  IF p \in pending
    THEN UNCHANGED <<fav, pending>>
    ELSE /\ pending' = pending \cup {p}
         /\ fav' = IF p \in fav THEN fav \ {p} ELSE fav \cup {p}

Show(p, favorited) == fav' = IF favorited THEN fav \cup {p} ELSE fav \ {p}

(* Bug: what was shown in advance is taken for confirmed.                  *)
ApplyServerNothing(c) ==
  /\ pending' = pending \ {call[c].p}
  /\ UNCHANGED fav

ApplyServer(c) ==
  /\ pending' = pending \ {call[c].p}
  /\ Show(call[c].p, call[c].pc = "on")

Rollback(c) ==
  /\ pending' = pending \ {call[c].p}
  /\ Show(call[c].p, call[c].prev)

(* replaceAll does not look at what is pending.                            *)
ReplaceAll(list) == fav' = list /\ UNCHANGED pending

-----------------------------------------------------------------------------
(* A tap.  The request leaves; every toggle of p that is in flight then    *)
(* runs beside another.                                                    *)
Request(c, by, p) ==
  /\ At(c, "idle")
  /\ call' = [d \in Calls |->
       IF d = c THEN [pc |-> "find", by |-> by, p |-> p, prev |-> p \in fav,
                      solo |-> InFlight(p) = {}]
       ELSE IF d \in InFlight(p) THEN [call[d] EXCEPT !.solo = FALSE]
       ELSE call[d]]
  /\ tangled' = [tangled EXCEPT ![p] = @ \/ InFlight(p) # {}]
  /\ calm' = FALSE
  /\ UNCHANGED <<rows, gone, load>>

(* _toggleLikeById: the request is sent whatever toggleOptimistic did.     *)
TapHome(c, p) == Request(c, "home", p) /\ Optimistic(p)

(* _toggleFavorite: nothing while the product is pending.                  *)
TapHeart(c, p) == p \notin pending /\ Request(c, "heart", p) /\ Optimistic(p)

OtherDevice(c, p) == Request(c, "other", p) /\ UNCHANGED <<fav, pending>>

-----------------------------------------------------------------------------
(* FavoritesService.toggle.                                                *)

(* Bug: rows that are there are not looked for.                            *)
FindSkipped(c) ==
  /\ At(c, "find")
  /\ Goto(c, "product")
  /\ calm' = FALSE
  /\ UNCHANGED server

Find(c) ==
  /\ At(c, "find")
  /\ Goto(c, IF rows[call[c].p] > 0 THEN "delete" ELSE "product")
  /\ calm' = FALSE
  /\ UNCHANGED server

(* favRepo.delete({ ownerUserId, productId })                              *)
Delete(c) ==
  /\ At(c, "delete")
  /\ rows' = [rows EXCEPT ![call[c].p] = 0]
  /\ tangled' = [tangled EXCEPT ![call[c].p] = @ /\ ~call[c].solo]
  /\ Goto(c, "off")
  /\ calm' = FALSE
  /\ UNCHANGED gone

FindProduct(c) ==
  /\ At(c, "product")
  /\ Goto(c, IF call[c].p \in gone THEN "error" ELSE "insert")
  /\ calm' = FALSE
  /\ UNCHANGED server

(* favRepo.save of a new id                                                *)
Insert(c) ==
  /\ At(c, "insert")
  /\ rows' = [rows EXCEPT ![call[c].p] = @ + 1]
  /\ Goto(c, "on")
  /\ calm' = FALSE
  /\ UNCHANGED <<gone, tangled>>

(* A statement fails, or the answer is lost on its way.                    *)
ToggleFails(c) ==
  /\ call[c].pc \in Served \cup {"on", "off"}
  /\ Goto(c, "error")
  /\ calm' = FALSE
  /\ UNCHANGED server

(* The seller removes the product.                                         *)
ProductRemoved ==
  /\ \E p \in Products \ gone : gone' = gone \cup {p}
  /\ calm' = FALSE
  /\ UNCHANGED <<rows, fav, pending, call, load, tangled>>

(* An update of the product that had read it before it was removed saves   *)
(* it as it was, deletedAt empty: the product is back.                     *)
ProductReturns ==
  /\ \E p \in gone : gone' = gone \ {p}
  /\ calm' = FALSE
  /\ UNCHANGED <<rows, fav, pending, call, load, tangled>>

(* The answer reaches the screen, which applies it or rolls back.  In a    *)
(* screen that has been left the setState that follows applyServer throws, *)
(* and the handler of errors rolls back what was applied.                  *)
Answered(c) ==
  /\ call[c].pc \in Answers
  /\ call' = [call EXCEPT ![c] = IdleCall]
  /\ CASE call[c].by = "other" -> UNCHANGED <<fav, pending>>
       [] call[c].pc = "error" \/ call[c].by = "left" -> Rollback(c)
       [] OTHER -> ApplyServer(c)
  /\ calm' = FALSE
  /\ UNCHANGED <<rows, gone, load, tangled>>

(* The user leaves a screen, whose toggles go on.                          *)
Leave(screen) ==
  /\ \E c \in Calls : call[c].by = screen
  /\ call' = [c \in Calls |-> IF call[c].by = screen THEN [call[c] EXCEPT !.by = "left"]
                              ELSE call[c]]
  /\ UNCHANGED <<rows, gone, fav, pending, load, tangled, calm>>

-----------------------------------------------------------------------------
(* refreshFromServer, and the heart screen's _loadFavorites.               *)
StartLoad(l) ==
  /\ load[l].pc = "idle"
  /\ load' = [load EXCEPT ![l].pc = "asked"]
  /\ calm' = (/\ \A c \in Calls : At(c, "idle")
              /\ \A k \in Loads : load[k].pc = "idle")
  /\ UNCHANGED <<rows, gone, fav, pending, call, tangled>>

(* listMine joins the products, which leaves out the removed ones.         *)
Serve(l) ==
  /\ load[l].pc = "asked"
  /\ load' = [load EXCEPT ![l] = [pc |-> "served", list |-> Listed]]
  /\ UNCHANGED <<rows, gone, fav, pending, call, tangled, calm>>

(* fetchMyFavorites answers null when it fails, and                        *)
(* fetchMyFavoriteItems an empty list for it.                              *)
LoadFails(l) ==
  /\ load[l].pc \in {"asked", "served"}
  /\ load' = [load EXCEPT ![l] = [pc |-> "served", list |-> {}]]
  /\ calm' = FALSE
  /\ UNCHANGED <<rows, gone, fav, pending, call, tangled>>

(* Bug: what was loaded is added to what is there.                         *)
LandAdds(l) ==
  /\ load[l].pc = "served"
  /\ fav' = fav \cup load[l].list
  /\ load' = [load EXCEPT ![l] = IdleLoad]
  /\ UNCHANGED <<rows, gone, pending, call, tangled, calm>>

Land(l) ==
  /\ load[l].pc = "served"
  /\ ReplaceAll(load[l].list)
  /\ load' = [load EXCEPT ![l] = IdleLoad]
  /\ UNCHANGED <<rows, gone, call, tangled, calm>>

(* The app is closed and opened: its copy is loaded from storage, nothing  *)
(* is pending, and answers to what it asked reach no one.                  *)
Reopen ==
  /\ pending' = {}
  /\ call' = [c \in Calls |-> [call[c] EXCEPT !.by = "other"]]
  /\ load' = [l \in Loads |-> IdleLoad]
  /\ calm' = FALSE
  /\ UNCHANGED <<rows, gone, fav, tangled>>

Next ==
  \/ \E c \in Calls :
       \/ \E p \in Products : TapHome(c, p) \/ TapHeart(c, p) \/ OtherDevice(c, p)
       \/ Find(c) \/ Delete(c) \/ FindProduct(c) \/ Insert(c)
       \/ ToggleFails(c) \/ Answered(c)
  \/ \E l \in Loads : StartLoad(l) \/ Serve(l) \/ LoadFails(l) \/ Land(l)
  \/ \E screen \in Screens : Leave(screen)
  \/ ProductRemoved \/ ProductReturns \/ Reopen

Spec == Init /\ [][Next]_vars

-----------------------------------------------------------------------------
(* The variables have their types, and no product has more rows than there *)
(* can be toggles in flight.                                               *)
TypeOK ==
  /\ rows \in [Products -> 0 .. Cardinality(Calls)]
  /\ gone \subseteq Products
  /\ fav \subseteq Products
  /\ pending \subseteq Products
  /\ call \in [Calls -> [pc : {"idle"} \cup Served \cup Answers, by : Origins,
                         p : Products \cup {None}, prev : BOOLEAN, solo : BOOLEAN]]
  /\ load \in [Loads -> [pc : {"idle", "asked", "served"}, list : SUBSET Products]]
  /\ tangled \in [Products -> BOOLEAN]
  /\ calm \in BOOLEAN

(* Toggles that never ran side by side leave at most one row, although     *)
(* nothing but the find of toggle keeps a second one out; and once toggles *)
(* have, the next one that removes the product alone sets it right.        *)
OneRowUnlessTangled == \A p \in Products : ~tangled[p] => rows[p] <= 1

(* The answer to a toggle that ran alone, on a screen that is still there, *)
(* leaves the app showing what the server holds, whatever loads came in    *)
(* between (applyServer, lines 144-157).                                   *)
SoloToggleAgrees ==
  [][\A c \in Calls :
       (call[c].pc \in {"on", "off"} /\ call'[c].pc = "idle"
          /\ call[c].solo /\ call[c].by \in Screens)
       => (call[c].p \in fav' <=> rows[call[c].p] > 0)]_vars

(* A load requested while nothing is under way and landing before anything *)
(* else happens leaves the app showing exactly the server's favorites:     *)
(* one quiet refresh repairs stale loads, lost answers and double taps     *)
(* (replaceAll, lines 99-120).                                             *)
RefreshHeals ==
  [][(calm /\ calm' /\ \E l \in Loads : load[l].pc = "served" /\ load'[l].pc = "idle")
     => fav' = Listed]_vars
=============================================================================
