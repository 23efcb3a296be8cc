------------------------------- MODULE Products -------------------------------
(***************************************************************************)
(* The products table behind modules/products: create, update and remove,  *)
(* and a client that walks through the pages of the listing.               *)
(*                                                                         *)
(* update loads the entity, merges the fields it was given and saves it;   *)
(* save loads the row once more, the deleted rows too, and writes the      *)
(* columns that differ.  remove loads the row and sets deletedAt with one  *)
(* UPDATE.  A page is two statements, the rows and then their number.      *)
(* Between any two statements other calls run.                             *)
(*                                                                         *)
(* Of a product's columns the model keeps those that decide whether and    *)
(* where it is listed: an update may be given the status, which takes it   *)
(* out of the listing or back, and the title, which the listing may be     *)
(* ordered by.  No request orders it by the price: the DTO lets 'price'    *)
(* through and not 'priceWon', and the service knows only the other name.  *)
(***************************************************************************)
EXTENDS Integers, Sequences, FiniteSets, Functions

CONSTANTS ProductIds, \* random UUIDs, numbered in their order
          Calls,      \* slots of concurrently served updates and removals
          Limits,     \* limits the walks use
          Sorts,      \* columns and directions the walks use
          Titles,     \* titles, numbered in the order of their collation
          MaxTime,    \* bound on createdAt, in ticks of its clock
          Beside,     \* bound: calls in progress while a walk is
          MaxGiven,   \* bound: columns an update is given
          NoValue     \* no row, no value

Status == {"LISTED", "SOLD"}
Rows == [status : Status, title : Titles, deleted : BOOLEAN, at : 0..MaxTime]
Columns == {"status", "title", "deleted", "at"}
(* The entity an update holds, or the columns of it that it will write.    *)
Entities == {Restrict(row, D) : row \in Rows, D \in SUBSET Columns}
(* What an update is given, one column or more or none.                    *)
Givens == {Restrict(row, D) : row \in Rows, D \in SUBSET {"status", "title"}}
(* What the listing is ordered by: 'price' falls back to createdAt.        *)
SortColumns == {"at", "title"}

ASSUME ProductsAssumption ==
  /\ ProductIds \subseteq Nat /\ IsFiniteSet(ProductIds)
  /\ Limits \subseteq Nat \ {0} /\ Titles \subseteq Nat
  /\ Sorts \subseteq SortColumns \X {"ASC", "DESC"}
  /\ MaxTime \in Nat /\ Beside \in Nat /\ MaxGiven \in Nat
  /\ NoValue \notin ProductIds /\ NoValue \notin Entities

VARIABLES products, \* the row of an id, or NoValue
          call,     \* the update or removal each slot runs
          walk,     \* a client's walk through the listing
          clean     \* for the properties: nobody wrote the row since it was read

productsVars == <<products, call, walk, clean>>

Idle == [pc |-> "idle", op |-> "none", id |-> NoValue, given |-> NoValue,
         entity |-> NoValue]
NoWalk == [pc |-> "idle", page |-> 1, pages |-> 1, limit |-> 1, by |-> "at",
           order |-> "DESC", shown |-> <<>>, start |-> {},
           shrunk |-> FALSE, grown |-> FALSE, moved |-> FALSE]

ProductsInit ==
  /\ products = [i \in ProductIds |-> NoValue]
  /\ call = [c \in Calls |-> Idle]
  /\ walk = NoWalk
  /\ clean = [c \in Calls |-> TRUE]

At(c, step) == call[c].pc = step

(* findOne: not there, or deleted, is 404.                                 *)
Found(i) == products[i] # NoValue /\ ~products[i].deleted

EndCall(c) == call' = [call EXCEPT ![c] = Idle]

Busy == {c \in Calls : ~At(c, "idle")}

Begin(c, step, op, i, given, entity) ==
  /\ At(c, "idle")
  /\ walk.pc = "idle" \/ Cardinality(Busy) < Beside
  /\ call' = [call EXCEPT ![c] = [pc |-> step, op |-> op, id |-> i, given |-> given,
                                  entity |-> entity]]
  /\ clean' = [clean EXCEPT ![c] = TRUE]
  /\ UNCHANGED <<products, walk>>

-----------------------------------------------------------------------------
(* findAll: the products of the default status, in one direction or the    *)
(* other by the column asked for, those that are equal in it by id.        *)
Listed(table) ==
  {i \in DOMAIN table : table[i] # NoValue /\ ~table[i].deleted /\ table[i].status = "LISTED"}

Before(by, order, i, j) ==
  \/ products[i][by] = products[j][by] /\ i > j
  \/ IF order = "ASC" THEN products[i][by] < products[j][by]
     ELSE products[i][by] > products[j][by]

(* The k-th product has k - 1 before it.                                   *)
Listing(by, order) ==
  [k \in 1 .. Cardinality(Listed(products)) |->
     CHOOSE i \in Listed(products) :
       Cardinality({j \in Listed(products) : Before(by, order, j, i)}) = k - 1]

(* Bug: pages counted from zero.                                           *)
SkippedFromZero(page, limit) == page * limit

Skipped(page, limit) == (page - 1) * limit

PageOf(list, page, limit) ==
  LET skip == Skipped(page, limit) IN
  SubSeq(list, skip + 1, IF Len(list) < skip + limit THEN Len(list) ELSE skip + limit)

(* Bug: an empty listing has no page.                                      *)
PagesRoundedUp(total, limit) == (total + limit - 1) \div limit

(* Math.max(1, Math.ceil(total / limit))                                   *)
Pages(total, limit) ==
  LET needed == (total + limit - 1) \div limit IN IF needed > 1 THEN needed ELSE 1

(* What a write makes of the listing, for the walk that is under way.  The  *)
(* start counts until something left the listing or moved in it.           *)
Observed(table) ==
  LET leaves == Listed(products) \ Listed(table) # {}
      enters == Listed(table) \ Listed(products) # {}
      moves == \E i \in Listed(products) \cap Listed(table) :
                 products[i][walk.by] # table[i][walk.by]
  IN IF walk.pc = "idle" THEN walk
     ELSE [walk EXCEPT !.shrunk = @ \/ leaves, !.grown = @ \/ enters, !.moved = @ \/ moves,
                       !.start = IF leaves \/ moves THEN {} ELSE @]

(* The row of i was written from slot c: whoever read it before is stale.  *)
Store(c, i, row) ==
  LET table == [products EXCEPT ![i] = row] IN
  /\ products' = table
  /\ walk' = Observed(table)
  /\ clean' = [d \in Calls |-> clean[d] /\ (d = c \/ At(d, "idle") \/ call[d].id # i)]

-----------------------------------------------------------------------------
(* create: one INSERT; the status is LISTED whatever the client asks for.  *)
NewRow(title, at) == [status |-> "LISTED", title |-> title, deleted |-> FALSE, at |-> at]

Create(i, title, at) ==
  /\ products[i] = NoValue
  /\ \A j \in ProductIds : products[j] # NoValue => products[j].at <= at
  /\ at = 0 \/ \E j \in ProductIds : products[j] # NoValue /\ products[j].at >= at - 1
  /\ Store(NoValue, i, NewRow(title, at))
  /\ UNCHANGED call

(* A row with some of its columns written over.                            *)
Over(columns, row) ==
  [f \in Columns |-> IF f \in DOMAIN columns THEN columns[f] ELSE row[f]]

(* Bug: a status that was not given gets its default.                      *)
MergeDefaults(row, given) ==
  [Over(given, row) EXCEPT !.status = IF "status" \in DOMAIN given THEN @ ELSE "LISTED"]

(* merge: fields that were not given keep what was loaded.                 *)
Merge(row, given) == Over(given, row)

Update(c, i, given) ==
  /\ Found(i) /\ Cardinality(DOMAIN given) <= MaxGiven
  /\ Begin(c, "load", "update", i, given, Merge(products[i], given))

(* Repository.save: the SELECT by id, the deleted rows too, finds the      *)
(* columns in which the entity differs ...                                 *)
Differing(entity, row) == {f \in Columns : entity[f] # row[f]}

SaveLoad(c) ==
  LET me == call[c] IN
  /\ At(c, "load")
  /\ call' = [call EXCEPT ![c].pc = "write",
                ![c].entity = Restrict(@, Differing(@, products[me.id]))]
  /\ UNCHANGED <<products, walk, clean>>

(* ... and the UPDATE writes these.                                        *)
SaveWrite(c) ==
  LET i == call[c].id IN
  /\ At(c, "write") /\ call[c].op = "update"
  /\ Store(c, i, Over(call[c].entity, products[i]))
  /\ EndCall(c)

Delete(c, i) == Found(i) /\ Begin(c, "write", "remove", i, NoValue, NoValue)

DeleteWrite(c) ==
  LET i == call[c].id IN
  /\ At(c, "write") /\ call[c].op = "remove"
  /\ Store(c, i, [products[i] EXCEPT !.deleted = TRUE])
  /\ EndCall(c)

Fails(c) ==
  /\ ~At(c, "idle")
  /\ EndCall(c)
  /\ UNCHANGED <<products, walk, clean>>

-----------------------------------------------------------------------------
(* A client asks for page after page until it has as many as there are.    *)
StartWalk(limit, by, order) ==
  /\ walk.pc = "idle" /\ Cardinality(Busy) <= Beside
  /\ walk' = [NoWalk EXCEPT !.pc = "rows", !.limit = limit, !.by = by, !.order = order,
                            !.start = Listed(products)]
  /\ UNCHANGED <<products, call, clean>>

PageRows ==
  /\ walk.pc = "rows"
  /\ walk' = [walk EXCEPT !.pc = "count",
                !.shown = @ \o PageOf(Listing(walk.by, walk.order),
                                    walk.page, walk.limit)]
  /\ UNCHANGED <<products, call, clean>>

PageCount ==
  LET pages == Pages(Cardinality(Listed(products)), walk.limit) IN
  /\ walk.pc = "count"
  /\ walk' = [walk EXCEPT !.pages = pages,
                          !.pc = IF walk.page < pages THEN "rows" ELSE "done",
                          !.page = IF walk.page < pages THEN @ + 1 ELSE @]
  /\ UNCHANGED <<products, call, clean>>

EndWalk ==
  /\ walk.pc = "done"
  /\ walk' = NoWalk
  /\ UNCHANGED <<products, call, clean>>

ProductsNext ==
  \/ \E i \in ProductIds :
       \/ \E title \in Titles, at \in 0..MaxTime : Create(i, title, at)
       \/ \E c \in Calls : Delete(c, i)
       \/ \E c \in Calls, given \in Givens : Update(c, i, given)
  \/ \E c \in Calls : SaveLoad(c) \/ SaveWrite(c) \/ DeleteWrite(c) \/ Fails(c)
  \/ \E limit \in Limits, sort \in Sorts : StartWalk(limit, sort[1], sort[2])
  \/ PageRows \/ PageCount \/ EndWalk

ProductsSpec == ProductsInit /\ [][ProductsNext]_productsVars

-----------------------------------------------------------------------------
(* Types of the products, the calls and the pages (product.entity,         *)
(* products.service); a listing has one page at least.                     *)
ProductsTypeOK ==
  /\ products \in [ProductIds -> Rows \cup {NoValue}]
  /\ call \in [Calls -> [pc : {"idle", "load", "write"}, op : {"none", "update", "remove"},
                         id : ProductIds \cup {NoValue}, given : Givens \cup {NoValue},
                         entity : Entities \cup {NoValue}]]
  /\ walk.page \in Nat \ {0} /\ walk.pages \in Nat \ {0} /\ walk.shown \in Seq(ProductIds)
  /\ clean \in [Calls -> BOOLEAN]

(* A product changes only by a call of its own: a removal, or an update,   *)
(* which changes the fields it was given and no other - unless another     *)
(* call wrote the row after the update had read it.  So a removed product  *)
(* comes back only through an update it overlapped.                        *)
UpdateKeepsTheRest ==
  [][\A i \in ProductIds :
       (products[i] # NoValue /\ products'[i] # products[i]) =>
         \E c \in Calls :
           LET me == call[c] IN
           /\ me.id = i /\ At(c, "write") /\ call'[c] = Idle
           /\ \/ ~clean[c]
              \/ me.op = "remove" /\ products'[i] = [products[i] EXCEPT !.deleted = TRUE]
              \/ me.op = "update" /\ products'[i] = Over(me.given, products[i])]_productsVars

(* A walk through the pages misses a product that was listed all along     *)
(* only if meanwhile another one left the listing, and shows one twice     *)
(* only if meanwhile another one entered it - or, in either case, if an    *)
(* update moved a product within the listing, and it does so only to a     *)
(* walk by title: no write changes createdAt.                              *)
WalkShowsAll ==
  walk.pc = "done" =>
    /\ walk.shrunk \/ walk.moved \/ walk.start \subseteq Range(walk.shown)
    /\ walk.grown \/ walk.moved \/ IsInjective(walk.shown)
    /\ walk.moved => walk.by = "title"
=============================================================================
