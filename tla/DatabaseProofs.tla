----------------------------- MODULE DatabaseProofs -----------------------------
(***************************************************************************)
(* What the database holds, for any addresses, passwords, slots and        *)
(* crashes.                                                                *)
(*                                                                         *)
(* Accounts and Delivery: the types, that a row holds what the calls on it *)
(* were answered, that nobody registers or joins twice, and that a login   *)
(* agrees with the row.  Each needs to know what a handler holds between   *)
(* two statements: as long as nobody wrote the row since it was read, the  *)
(* entity is that row with the one column the call was asked to write.     *)
(*                                                                         *)
(* Migrations: the types, that what is recorded is in the schema, and that *)
(* a run fails at nothing but what it met as it began.  They need to know  *)
(* that migrations are recorded in their order, and which statements of    *)
(* the current one have had their effect.                                  *)
(***************************************************************************)
EXTENDS Delivery, Migrations, SequenceTheorems, TLAPS

(* What the save of a call whose row nobody wrote was handed.              *)
Entity(me, row) ==
  IF me.op = "reset" THEN WithPassword(row, me.pw) ELSE [row EXCEPT !.verified = TRUE]
Held(me) == Entity(me, users[me.who])

Saving(me) ==
  /\ users[me.who] # None
  /\ me.op = "mark" \/ (me.op = "reset" /\ me.pw \in Passwords)

CallInv(c) ==
  /\ ~At(c, "idle") =>
       call[c].who \in Addresses /\ reply[c] = "none" /\ signup[c] = NoSignup
  /\ At(c, "insert") => call[c].pw \in Passwords
  /\ At(c, "compare") =>
       /\ call[c].pw \in Passwords /\ call[c].entity \in Rows /\ ~call[c].entity.deleted
       /\ clean[c] => call[c].entity = users[call[c].who]
  /\ At(c, "load") =>
       /\ Saving(call[c]) /\ call[c].entity \in Rows
       /\ clean[c] => call[c].entity = Held(call[c])
  /\ At(c, "write") =>
       /\ Saving(call[c]) /\ call[c].entity \in Entities
       /\ clean[c] => call[c].entity =
            Restrict(Held(call[c]), Differing(Held(call[c]), users[call[c].who]))

(* A signup past its first statement is of an account that is there.       *)
SignupInv(c) ==
  signup[c] # NoSignup =>
    /\ signup[c].pc \in {"exists", "member", "insert"} /\ signup[c].who \in Addresses
    /\ signup[c].pc # "exists" => users[signup[c].who] # None

ToldTyped == told \in [Addresses -> Known \cup {None}]

(* Who was answered has his row.                                           *)
Won(a) ==
  /\ wins[a] <= 1 /\ (users[a] = None => wins[a] = 0)
  /\ joined[a] <= 1 /\ (a \notin members => joined[a] = 0)
  /\ a \in members => users[a] # None

SlotInv(c) == CallInv(c) /\ SignupInv(c)

IInv ==
  /\ DeliveryTypeOK /\ ToldTyped /\ StoredAsAnswered
  /\ \A c \in Calls : SlotInv(c)
  /\ \A a \in Addresses : Won(a)

CallTypes == [pc : Steps, op : Ops, who : Addresses \cup {None},
              pw : Passwords \cup {None}, entity : Entities \cup {None}]
SignupTypes == [pc : {"idle", "exists", "member", "insert"}, who : Addresses \cup {None}]

-----------------------------------------------------------------------------
(* Rows and the columns a save writes                                      *)

(* A row is a function of its columns, and whole it is an entity.          *)
LEMMA RowColumns ==
  ASSUME NEW r \in Rows
  PROVE  /\ r \in Known /\ r # None /\ DOMAIN r = Columns /\ r = [f \in Columns |-> r[f]]
         /\ r["pw"] \in Passwords /\ r["verified"] \in BOOLEAN /\ r["deleted"] \in BOOLEAN
         /\ r \in Entities
<1>1. /\ r \in Known /\ DOMAIN r = Columns /\ r = [f \in Columns |-> r[f]]
      /\ r["pw"] \in Passwords /\ r["verified"] \in BOOLEAN /\ r["deleted"] \in BOOLEAN
  BY DEF Rows, Columns, Known
<1>2. r = Restrict(r, Columns)
  BY <1>1 DEF Restrict
<1> QED BY <1>1, <1>2, AccountsAssumption DEF Entities

LEMMA ColumnsRow ==
  ASSUME NEW r, r = [f \in Columns |-> r[f]], r["pw"] \in Passwords,
         r["verified"] \in BOOLEAN, r["deleted"] \in BOOLEAN
  PROVE  r \in Rows
BY DEF Rows, Columns

(* Columns of a row, written over another row, make a row.                 *)
LEMMA OverIsRow ==
  ASSUME NEW e \in Entities, NEW r \in Rows
  PROVE  Over(e, r) \in Rows /\ DOMAIN e \subseteq Columns
<1>1. PICK row \in Rows, D \in SUBSET Columns : e = Restrict(row, D)
  BY DEF Entities
<1>2. DOMAIN e = D /\ \A f \in D : e[f] = row[f]
  BY <1>1 DEF Restrict
<1>3. Over(e, r) = [f \in Columns |-> IF f \in D THEN row[f] ELSE r[f]]
  BY <1>2 DEF Over
<1>4. \A f \in Columns : Over(e, r)[f] \in {row[f], r[f]}
  BY <1>3
<1>5. Over(e, r) \in Rows
  BY <1>3, <1>4, RowColumns, ColumnsRow DEF Columns
<1> QED BY <1>2, <1>5

(* The columns in which an entity differs turn the row into the entity.    *)
LEMMA DifferenceWritten ==
  ASSUME NEW e \in Rows, NEW r \in Rows
  PROVE  /\ Restrict(e, Differing(e, r)) \in Entities
         /\ Over(Restrict(e, Differing(e, r)), r) = e
<1>1. Differing(e, r) \in SUBSET Columns
  BY DEF Differing
<1>2. \A f \in Columns : Over(Restrict(e, Differing(e, r)), r)[f] = e[f]
  BY DEF Over, Restrict, Differing
<1>3. e = [f \in Columns |-> e[f]]
  BY RowColumns
<1>4. Over(Restrict(e, Differing(e, r)), r) = [f \in Columns |-> e[f]]
  BY <1>2 DEF Over
<1> QED BY <1>1, <1>3, <1>4 DEF Entities

LEMMA AskedColumns ==
  ASSUME NEW me
  PROVE  /\ me.op = "reset" => DOMAIN Asked(me) = {"pw"} /\ Asked(me)["pw"] = me.pw
         /\ me.op = "mark" => DOMAIN Asked(me) = {"verified"} /\ Asked(me)["verified"] \in BOOLEAN
<1>1. DOMAIN [verified |-> TRUE] = {"verified"} /\ [verified |-> TRUE]["verified"] \in BOOLEAN
  OBVIOUS
<1>2. DOMAIN [pw |-> me.pw] = {"pw"} /\ [pw |-> me.pw]["pw"] = me.pw
  OBVIOUS
<1> QED BY <1>1, <1>2 DEF Asked

(* The entity is the row with what was asked for.                          *)
LEMMA HeldIsRow ==
  ASSUME NEW me, users[me.who] \in Rows, Saving(me)
  PROVE  /\ Held(me) \in Rows
         /\ \A f \in DOMAIN Asked(me) : Held(me)[f] = Asked(me)[f]
         /\ \A f \in Columns \ DOMAIN Asked(me) : Held(me)[f] = users[me.who][f]
<1>1. CASE me.op = "reset" /\ me.pw \in Passwords
  <2>1. Held(me) = [users[me.who] EXCEPT !.pw = me.pw]
    BY <1>1 DEF Held, Entity, WithPassword
  <2> QED BY <1>1, <2>1, AskedColumns DEF Rows, Columns
<1>2. CASE me.op = "mark"
  <2>1. Held(me) = [users[me.who] EXCEPT !.verified = TRUE] /\ Asked(me) = [verified |-> TRUE]
    BY <1>2 DEF Held, Entity, Asked
  <2>2. Held(me)["verified"] = [verified |-> TRUE]["verified"]
    BY <2>1 DEF Rows
  <2> QED BY <1>2, <2>1, <2>2, AskedColumns DEF Rows, Columns
<1> QED BY <1>1, <1>2 DEF Saving

(* What the call was asked for, and nothing else, is in the row.           *)
LEMMA HeldAsAsked ==
  ASSUME NEW me, users[me.who] \in Rows, Saving(me), NEW known, NEW f \in Columns,
         known[f] # None => users[me.who][f] = known[f], Over(Asked(me), known)[f] # None
  PROVE  Held(me)[f] = Over(Asked(me), known)[f]
<1>1. Over(Asked(me), known)[f] = IF f \in DOMAIN Asked(me) THEN Asked(me)[f] ELSE known[f]
  BY DEF Over
<1> QED BY <1>1, HeldIsRow

LEMMA KnownStays ==
  ASSUME NEW me, Saving(me), NEW known \in Known
  PROVE  Over(Asked(me), known) \in Known
<1>1. \A f \in DOMAIN Asked(me) : Asked(me)[f] \in Passwords \cup BOOLEAN
  BY AskedColumns DEF Saving
<1> QED BY <1>1 DEF Over, Known

-----------------------------------------------------------------------------
LEMMA InitInv == DeliveryInit => IInv
<1> SUFFICES ASSUME DeliveryInit PROVE IInv
  OBVIOUS
<1>1. DeliveryTypeOK
  BY DEF DeliveryInit, Init, DeliveryTypeOK, AccountsTypeOK, Idle, Steps, Ops, NoSignup,
     SignupReplies, Replies
<1>2. ToldTyped /\ StoredAsAnswered
  BY DEF DeliveryInit, Init, ToldTyped, StoredAsAnswered
<1>3. \A c \in Calls : SlotInv(c)
  BY DEF DeliveryInit, Init, SlotInv, CallInv, SignupInv, At, Idle
<1>4. \A a \in Addresses : Won(a)
  BY DEF DeliveryInit, Init, Won
<1> QED BY <1>1, <1>2, <1>3, <1>4 DEF IInv

(* A step of one slot that writes no row.                                  *)
LEMMA SlotMoves ==
  ASSUME IInv, NEW c \in Calls,
         UNCHANGED <<users, told, wins, members, joined>>, tokens' \subseteq Addresses,
         NEW me \in CallTypes, call' = [call EXCEPT ![c] = me],
         NEW r \in SignupReplies, reply' = [reply EXCEPT ![c] = r],
         NEW b \in BOOLEAN, clean' = [clean EXCEPT ![c] = b],
         NEW s \in SignupTypes, signup' = [signup EXCEPT ![c] = s],
         SlotInv(c)'
  PROVE  IInv'
<1>1. DeliveryTypeOK'
  BY DEF IInv, DeliveryTypeOK, AccountsTypeOK, CallTypes, SignupTypes
<1>2. ASSUME NEW d \in Calls PROVE SlotInv(d)'
  <2>1. CASE d = c
    BY <2>1
  <2>2. CASE d # c
    <3>1. /\ call'[d] = call[d] /\ reply'[d] = reply[d]
          /\ clean'[d] = clean[d] /\ signup'[d] = signup[d]
      BY <2>2 DEF IInv, DeliveryTypeOK, AccountsTypeOK
    <3> QED BY <3>1 DEF IInv, SlotInv, CallInv, SignupInv, At, Saving, Held
  <2> QED BY <2>1, <2>2
<1> QED BY <1>1, <1>2 DEF IInv, ToldTyped, StoredAsAnswered, Won

(* An answer that writes no row.                                           *)
LEMMA AnswerMoves ==
  ASSUME IInv, NEW c \in Calls, NEW r \in Replies, Answer(c, r), SignupInv(c),
         tokens' \subseteq Addresses,
         UNCHANGED <<users, told, clean, wins, members, signup, joined>>
  PROVE  IInv'
<1>1. Idle \in CallTypes /\ Idle.pc = "idle" /\ r \in SignupReplies
  BY DEF Idle, CallTypes, Steps, Ops, SignupReplies
<1>2. /\ clean[c] \in BOOLEAN /\ clean' = [clean EXCEPT ![c] = clean[c]]
      /\ signup[c] \in SignupTypes /\ signup' = [signup EXCEPT ![c] = signup[c]]
  BY DEF IInv, DeliveryTypeOK, AccountsTypeOK, SignupTypes
<1>3. call'[c] = Idle
  BY DEF Answer, IInv, DeliveryTypeOK, AccountsTypeOK
<1>4. SlotInv(c)'
  BY <1>1, <1>3 DEF SlotInv, CallInv, SignupInv, At
<1> QED BY <1>1, <1>2, <1>4, SlotMoves DEF Answer

LEMMA DeclineMoves ==
  ASSUME IInv, NEW c \in Calls, NEW r \in SignupReplies, At(c, "idle"),
         reply' = [reply EXCEPT ![c] = r],
         UNCHANGED <<users, tokens, call, history, members, joined>>,
         NEW s \in SignupTypes, signup' = [signup EXCEPT ![c] = s], SignupInv(c)'
  PROVE  IInv'
<1>1. /\ clean[c] \in BOOLEAN /\ clean' = [clean EXCEPT ![c] = clean[c]]
      /\ call[c] \in CallTypes /\ call' = [call EXCEPT ![c] = call[c]]
  BY DEF history, IInv, DeliveryTypeOK, AccountsTypeOK, CallTypes
<1>2. SlotInv(c)'
  BY DEF SlotInv, CallInv, At
<1> QED BY <1>1, <1>2, SlotMoves DEF history, IInv, DeliveryTypeOK, AccountsTypeOK

LEMMA BeginMoves ==
  ASSUME IInv, NEW c \in Calls, Free(c), UNCHANGED <<members, signup, joined>>,
         NEW step \in {"insert", "compare", "load"}, NEW op \in Ops, NEW a \in Addresses,
         NEW pw \in Passwords \cup {None}, NEW entity \in Rows \cup {None},
         Begin(c, step, op, a, pw, entity),
         step \in {"insert", "compare"} => pw \in Passwords,
         step = "compare" => entity = users[a] /\ entity \in Rows /\ ~entity.deleted,
         step = "load" =>
           /\ users[a] # None /\ entity \in Rows
           /\ \/ op = "mark" /\ entity = [users[a] EXCEPT !.verified = TRUE]
              \/ op = "reset" /\ pw \in Passwords /\ entity = WithPassword(users[a], pw)
  PROVE  IInv'
<1> DEFINE me == [pc |-> step, op |-> op, who |-> a, pw |-> pw, entity |-> entity]
<1>1. me \in CallTypes
  BY RowColumns DEF CallTypes, Steps
<1>2. call' = [call EXCEPT ![c] = me] /\ call'[c] = me
  BY DEF Begin, IInv, DeliveryTypeOK, AccountsTypeOK
<1>3. "none" \in SignupReplies /\ reply'[c] = "none" /\ clean'[c] = TRUE
  BY DEF Begin, IInv, DeliveryTypeOK, AccountsTypeOK, SignupReplies, Replies
<1>4. signup[c] \in SignupTypes /\ signup' = [signup EXCEPT ![c] = signup[c]]
  BY DEF IInv, DeliveryTypeOK, AccountsTypeOK, SignupTypes
<1>5. SlotInv(c)'
  <2>1. /\ call'[c].pc = step /\ call'[c].op = op /\ call'[c].who = a
        /\ call'[c].pw = pw /\ call'[c].entity = entity
    BY <1>2
  <2>2. signup'[c] = NoSignup /\ users' = users
    BY DEF Begin, Free
  <2>3. CASE step = "load"
    <3>1. Saving(call[c])'
      BY <2>1, <2>2, <2>3 DEF Saving
    <3>2. Held(call[c])' = entity
      BY <2>1, <2>2, <2>3 DEF Held, Entity
    <3> QED BY <1>3, <2>1, <2>2, <2>3, <3>1, <3>2 DEF SlotInv, CallInv, SignupInv, At
  <2>4. CASE step # "load"
    BY <1>3, <2>1, <2>2, <2>4 DEF SlotInv, CallInv, SignupInv, At
  <2> QED BY <2>3, <2>4
<1> QED BY <1>1, <1>2, <1>3, <1>4, <1>5, SlotMoves DEF Begin, IInv, DeliveryTypeOK, AccountsTypeOK

-----------------------------------------------------------------------------
(* Calls that write no row.                                                *)
LEMMA AuthCallInv ==
  ASSUME IInv, NEW c \in Calls, Free(c), AuthCall(c), UNCHANGED <<members, signup, joined>>
  PROVE  IInv'
<1>1. ASSUME NEW r \in Replies, Decline(c, r) PROVE IInv'
  <2>1. signup' = [signup EXCEPT ![c] = signup[c]] /\ signup[c] \in SignupTypes /\ SignupInv(c)'
    BY <1>1 DEF Decline, Free, SignupInv, IInv, DeliveryTypeOK, SignupTypes
  <2> QED BY <1>1, <2>1, DeclineMoves DEF Decline, SignupReplies
<1>2. RefreshInvalid(c) \/ ResetRefused(c) => IInv'
  BY <1>1 DEF RefreshInvalid, ResetRefused, Replies
<1>3. ASSUME NEW a \in Addresses,
             \/ RegisterTaken(c, a) \/ LoginUnknown(c, a) \/ Lookup(c, a) \/ RefreshMissing(c, a)
             \/ ResetMissing(c, a) \/ MarkMissing(c, a) \/ MarkAlready(c, a)
      PROVE  IInv'
  BY <1>1, <1>3 DEF RegisterTaken, LoginUnknown, Lookup, RefreshMissing, ResetMissing,
     MarkMissing, MarkAlready, Replies
<1>4. ASSUME NEW a \in Addresses, Refresh(c, a) PROVE IInv'
  BY <1>4, AnswerMoves DEF Refresh, Grant, history, Replies, IInv, SlotInv, DeliveryTypeOK,
     AccountsTypeOK
<1>5. \A a \in Addresses : Live(a) =>
        /\ users[a] \in Rows /\ users[a] # None /\ ~users[a].deleted
        /\ [users[a] EXCEPT !.verified = TRUE] \in Rows
        /\ \A pw \in Passwords : WithPassword(users[a], pw) \in Rows
  BY DEF Live, WithPassword, Rows, IInv, DeliveryTypeOK, AccountsTypeOK
<1>6. ASSUME NEW a \in Addresses, Mark(c, a) PROVE IInv'
  BY <1>5, <1>6, BeginMoves DEF Mark, Ops
<1>7. ASSUME NEW a \in Addresses, NEW pw \in Passwords,
             Register(c, a, pw) \/ Login(c, a, pw) \/ Reset(c, a, pw)
      PROVE  IInv'
  BY <1>5, <1>7, BeginMoves DEF Register, Login, Reset, Ops
<1> QED BY <1>2, <1>3, <1>4, <1>6, <1>7 DEF AuthCall

LEMMA AnswerInv ==
  ASSUME IInv, NEW c \in Calls, UNCHANGED <<members, signup, joined>>,
         InsertClashes(c) \/ LoginAccepted(c) \/ LoginDenied(c) \/ Fails(c)
  PROVE  IInv'
<1>1. SignupInv(c) /\ (~At(c, "idle") => call[c].who \in Addresses) /\ tokens \subseteq Addresses
  BY DEF IInv, SlotInv, CallInv, DeliveryTypeOK, AccountsTypeOK
<1> QED BY <1>1, AnswerMoves DEF InsertClashes, LoginAccepted, LoginDenied, Fails, Grant, history,
      Replies, At

(* The columns that differ are those asked for, as long as the row is the  *)
(* one that was read.                                                      *)
LEMMA SaveLoadInv ==
  ASSUME IInv, NEW c \in Calls, SaveLoad(c), UNCHANGED <<members, signup, joined>>
  PROVE  IInv'
<1> DEFINE row == users[call[c].who]
           e == Restrict(call[c].entity, Differing(call[c].entity, row))
           me == [call[c] EXCEPT !.pc = "write", !.entity = e]
<1>1. /\ call[c] \in CallTypes /\ call[c].who \in Addresses /\ Saving(call[c])
      /\ call[c].entity \in Rows /\ signup[c] = NoSignup /\ reply[c] = "none"
      /\ clean[c] => call[c].entity = Held(call[c])
  BY DEF SaveLoad, At, IInv, SlotInv, CallInv, DeliveryTypeOK, AccountsTypeOK, CallTypes
<1>2. row \in Rows
  BY <1>1 DEF Saving, IInv, DeliveryTypeOK, AccountsTypeOK
<1>3. e \in Entities
  BY <1>1, <1>2, DifferenceWritten
<1>4. call' = [call EXCEPT ![c] = me]
  BY <1>1 DEF SaveLoad, CallTypes
<1> HIDE DEF e
<1>5. /\ me \in CallTypes /\ me.pc = "write" /\ me.who = call[c].who /\ me.op = call[c].op
      /\ me.pw = call[c].pw /\ me.entity = e
  BY <1>1, <1>3 DEF CallTypes, Steps
<1> HIDE DEF me
<1>6. call'[c] = me /\ users' = users /\ clean' = clean /\ signup'[c] = NoSignup
      /\ reply'[c] = "none"
  BY <1>1, <1>4 DEF SaveLoad, history, IInv, DeliveryTypeOK, AccountsTypeOK
<1>7. Held(call[c])' = Held(call[c]) /\ Saving(call[c])'
  <2>1. \A r : Entity(me, r) = Entity(call[c], r)
    BY <1>5 DEF Entity
  <2>2. call'[c].who = call[c].who /\ users'[call[c].who] = users[call[c].who]
    BY <1>5, <1>6
  <2>3. Held(call[c])' = Entity(me, users[call[c].who])
    BY <1>6, <2>2 DEF Held
  <2> QED BY <1>1, <1>5, <1>6, <2>1, <2>3 DEF Held, Saving
<1>8. clean[c] => e = Restrict(Held(call[c]), Differing(Held(call[c]), row))
  BY <1>1 DEF e
<1>9. SlotInv(c)'
  BY <1>1, <1>3, <1>5, <1>6, <1>7, <1>8 DEF SlotInv, CallInv, SignupInv, At, Differing
<1>10. /\ reply[c] \in SignupReplies /\ reply' = [reply EXCEPT ![c] = reply[c]]
       /\ clean[c] \in BOOLEAN /\ clean' = [clean EXCEPT ![c] = clean[c]]
       /\ signup[c] \in SignupTypes /\ signup' = [signup EXCEPT ![c] = signup[c]]
  BY DEF SaveLoad, history, IInv, DeliveryTypeOK, AccountsTypeOK, SignupTypes
<1> QED BY <1>4, <1>5, <1>9, <1>10, SlotMoves DEF SaveLoad, history, IInv, DeliveryTypeOK,
      AccountsTypeOK

-----------------------------------------------------------------------------
(* Steps that write a row.  The slots that read it before are no longer    *)
(* clean; what they know of it is only that it is there.                   *)
LEMMA RowWritten ==
  ASSUME IInv, NEW a \in Addresses, NEW row \in Rows, users' = [users EXCEPT ![a] = row],
         NEW d \in Calls, call'[d] = call[d], reply'[d] = reply[d], signup'[d] = signup[d],
         call[d].who = a /\ ~At(d, "idle") => ~clean'[d], clean'[d] => clean[d]
  PROVE  SlotInv(d)'
<1>1. users'[a] # None /\ \A b \in Addresses : b # a => users'[b] = users[b]
  BY RowColumns DEF IInv, DeliveryTypeOK, AccountsTypeOK
<1>2. CASE At(d, "idle")
  BY <1>1, <1>2 DEF IInv, SlotInv, CallInv, SignupInv, At
<1>3. CASE ~At(d, "idle")
  <2>1. call[d].who \in Addresses /\ signup[d] = NoSignup
    BY <1>3 DEF IInv, SlotInv, CallInv
  <2>2. Saving(call[d]) => Saving(call[d])'
    BY <1>1, <2>1 DEF Saving
  <2>3. CASE call[d].who = a
    BY <1>3, <2>1, <2>2, <2>3 DEF IInv, SlotInv, CallInv, SignupInv, At
  <2>4. CASE call[d].who # a
    <3>1. users'[call[d].who] = users[call[d].who]
      BY <1>1, <2>1, <2>4
    <3>2. Held(call[d])' = Held(call[d])
      BY <3>1 DEF Held
    <3> QED BY <2>1, <2>2, <3>1, <3>2 DEF IInv, SlotInv, CallInv, SignupInv, At
  <2> QED BY <2>3, <2>4
<1> QED BY <1>2, <1>3

LEMMA RowTypes ==
  ASSUME IInv, NEW a \in Addresses, NEW row \in Rows, users' = [users EXCEPT ![a] = row],
         NEW k \in Known, told' = [told EXCEPT ![a] = k],
         \A f \in Columns : k[f] # None => row[f] = k[f]
  PROVE  /\ users' \in [Addresses -> Rows \cup {None}] /\ ToldTyped' /\ StoredAsAnswered'
         /\ \A b \in Addresses : users[b] # None => users'[b] # None
<1>1. row # None /\ k # None
  BY RowColumns, AccountsAssumption
<1> QED BY <1>1 DEF IInv, DeliveryTypeOK, AccountsTypeOK, ToldTyped, StoredAsAnswered

LEMMA InsertInv ==
  ASSUME IInv, NEW c \in Calls, Insert(c), UNCHANGED <<members, signup, joined>>
  PROVE  IInv'
<1> DEFINE a == call[c].who
           row == NewRow(call[c].pw)
<1>1. a \in Addresses /\ call[c].pw \in Passwords /\ users[a] = None /\ wins[a] = 0
  BY DEF Insert, At, IInv, SlotInv, CallInv, Won
<1>2. row \in Rows
  BY <1>1 DEF NewRow, Rows
<1>3. /\ users' \in [Addresses -> Rows \cup {None}] /\ ToldTyped' /\ StoredAsAnswered'
      /\ \A b \in Addresses : users[b] # None => users'[b] # None
  BY <1>1, <1>2, RowTypes, RowColumns DEF Insert
<1>4. Idle \in CallTypes /\ Idle.pc = "idle"
  BY DEF Idle, CallTypes, Steps, Ops
<1>5. DeliveryTypeOK'
  <2>1. wins' \in [Addresses -> Nat] /\ tokens' \subseteq Addresses
    BY <1>1 DEF Insert, Grant, IInv, DeliveryTypeOK, AccountsTypeOK
  <2>2. call' \in [Calls -> CallTypes] /\ reply' \in [Calls -> SignupReplies]
    BY <1>4 DEF Insert, Grant, Answer, IInv, DeliveryTypeOK, AccountsTypeOK, CallTypes,
       SignupReplies, Replies
  <2>3. clean' \in [Calls -> BOOLEAN]
    BY DEF Insert, Dirty, IInv, DeliveryTypeOK, AccountsTypeOK
  <2> QED BY <1>3, <2>1, <2>2, <2>3 DEF IInv, DeliveryTypeOK, AccountsTypeOK, CallTypes
<1>6. ASSUME NEW d \in Calls PROVE SlotInv(d)'
  <2>1. CASE d = c
    <3>1. call'[d] = Idle /\ signup[d] = NoSignup
      BY <2>1 DEF Insert, At, Grant, Answer, IInv, SlotInv, CallInv, DeliveryTypeOK, AccountsTypeOK
    <3> QED BY <1>4, <3>1 DEF SlotInv, CallInv, SignupInv, At
  <2>2. CASE d # c
    <3>1. call'[d] = call[d] /\ reply'[d] = reply[d]
      BY <2>2 DEF Insert, Grant, Answer, IInv, DeliveryTypeOK, AccountsTypeOK
    <3>2. (call[d].who = a /\ ~At(d, "idle") => ~clean'[d]) /\ (clean'[d] => clean[d])
      BY <2>2 DEF Insert, Dirty
    <3> QED BY <1>1, <1>2, <3>1, <3>2, RowWritten DEF Insert
  <2> QED BY <2>1, <2>2
<1>7. \A b \in Addresses : Won(b)'
  BY <1>1, <1>2, <1>3, RowColumns DEF Insert, IInv, DeliveryTypeOK, AccountsTypeOK, Won
<1> QED BY <1>3, <1>5, <1>6, <1>7 DEF IInv

(* The UPDATE of a save: as asked when nobody wrote the row, else unknown. *)
LEMMA SaveWriteInv ==
  ASSUME IInv, NEW c \in Calls, SaveWrite(c), UNCHANGED <<members, signup, joined>>
  PROVE  IInv'
<1> DEFINE me == call[c]
           a == me.who
           row == Over(me.entity, users[a])
           k == IF clean[c] THEN Over(Asked(me), told[a]) ELSE Unknown
<1>1. /\ a \in Addresses /\ Saving(me) /\ me.entity \in Entities
      /\ clean[c] => me.entity = Restrict(Held(me), Differing(Held(me), users[a]))
  BY DEF SaveWrite, At, IInv, SlotInv, CallInv
<1>2. users[a] \in Rows /\ told[a] \in Known
  BY <1>1 DEF Saving, IInv, DeliveryTypeOK, AccountsTypeOK, ToldTyped, StoredAsAnswered
<1>3. row \in Rows /\ (clean[c] => row = Held(me))
  BY <1>1, <1>2, OverIsRow, DifferenceWritten, HeldIsRow
<1>4. k \in Known /\ \A f \in Columns : k[f] # None => row[f] = k[f]
  <2>1. CASE clean[c]
    <3>1. \A f \in Columns : told[a][f] # None => users[a][f] = told[a][f]
      BY <1>1, <1>2, AccountsAssumption DEF IInv, StoredAsAnswered
    <3> HIDE DEF me, a
    <3>2. \A f \in Columns : Over(Asked(me), told[a])[f] # None =>
            Held(me)[f] = Over(Asked(me), told[a])[f]
      BY <1>1, <1>2, <3>1, HeldAsAsked DEF a
    <3> QED BY <1>1, <1>2, <1>3, <2>1, <3>2, KnownStays
  <2>2. CASE ~clean[c]
    BY <2>2 DEF Unknown, Known
  <2> QED BY <2>1, <2>2
<1>5. users' = [users EXCEPT ![a] = row] /\ told' = [told EXCEPT ![a] = k]
  BY DEF SaveWrite
<1> HIDE DEF row, k
<1>6. /\ users' \in [Addresses -> Rows \cup {None}] /\ ToldTyped' /\ StoredAsAnswered'
      /\ \A b \in Addresses : users[b] # None => users'[b] # None
  BY <1>1, <1>3, <1>4, <1>5, RowTypes
<1>7. Idle \in CallTypes /\ Idle.pc = "idle"
  BY DEF Idle, CallTypes, Steps, Ops
<1>8. DeliveryTypeOK'
  <2>1. call' \in [Calls -> CallTypes] /\ reply' \in [Calls -> SignupReplies]
    BY <1>7 DEF SaveWrite, Answer, IInv, DeliveryTypeOK, AccountsTypeOK, CallTypes,
       SignupReplies, Replies
  <2>2. clean' \in [Calls -> BOOLEAN]
    BY DEF SaveWrite, Dirty, IInv, DeliveryTypeOK, AccountsTypeOK
  <2> QED BY <1>6, <2>1, <2>2 DEF SaveWrite, IInv, DeliveryTypeOK, AccountsTypeOK, CallTypes
<1>9. ASSUME NEW d \in Calls PROVE SlotInv(d)'
  <2>1. CASE d = c
    <3>1. call'[d] = Idle /\ signup[d] = NoSignup
      BY <2>1 DEF SaveWrite, At, Answer, IInv, SlotInv, CallInv, DeliveryTypeOK, AccountsTypeOK
    <3> QED BY <1>7, <3>1 DEF SlotInv, CallInv, SignupInv, At
  <2>2. CASE d # c
    <3>1. call'[d] = call[d] /\ reply'[d] = reply[d]
      BY <2>2 DEF SaveWrite, Answer, IInv, DeliveryTypeOK, AccountsTypeOK
    <3>2. (call[d].who = a /\ ~At(d, "idle") => ~clean'[d]) /\ (clean'[d] => clean[d])
      BY <2>2 DEF SaveWrite, Dirty
    <3> QED BY <1>1, <1>3, <1>5, <3>1, <3>2, RowWritten
  <2> QED BY <2>1, <2>2
<1>10. \A b \in Addresses : Won(b)'
  BY <1>1, <1>6 DEF SaveWrite, Saving, IInv, Won, DeliveryTypeOK, AccountsTypeOK
<1> QED BY <1>6, <1>8, <1>9, <1>10 DEF IInv

(* An operator deletes an account: its password and its mark stay.         *)
LEMMA SoftDeleteInv ==
  ASSUME IInv, NEW a \in Addresses, SoftDelete(a), UNCHANGED <<members, signup, joined>>
  PROVE  IInv'
<1> DEFINE row == [users[a] EXCEPT !.deleted = TRUE]
           k == [told[a] EXCEPT !.deleted = TRUE]
<1>1. users[a] \in Rows /\ told[a] \in Known
  BY DEF SoftDelete, Live, IInv, DeliveryTypeOK, AccountsTypeOK, ToldTyped, StoredAsAnswered
<1>2. row \in Rows
  BY <1>1 DEF Rows
<1>3. k \in Known
  BY <1>1 DEF Known, Columns
<1>4. \A f \in Columns : k[f] # None => row[f] = k[f]
  <2>1. \A f \in Columns : told[a][f] # None => users[a][f] = told[a][f]
    BY <1>1, AccountsAssumption DEF IInv, StoredAsAnswered
  <2>2. row["deleted"] = k["deleted"] /\ row["pw"] = users[a]["pw"]
        /\ row["verified"] = users[a]["verified"]
    BY <1>1 DEF Rows, Known, Columns
  <2>3. k["pw"] = told[a]["pw"] /\ k["verified"] = told[a]["verified"]
    BY <1>1 DEF Known, Columns
  <2> HIDE DEF row, k
  <2> QED BY <2>1, <2>2, <2>3 DEF Columns
<1>5. users' = [users EXCEPT ![a] = row] /\ told' = [told EXCEPT ![a] = k]
  BY DEF SoftDelete
<1> HIDE DEF row, k
<1>6. /\ users' \in [Addresses -> Rows \cup {None}] /\ ToldTyped' /\ StoredAsAnswered'
      /\ \A b \in Addresses : users[b] # None => users'[b] # None
  BY <1>2, <1>3, <1>4, <1>5, RowTypes
<1>7. clean' \in [Calls -> BOOLEAN]
  BY DEF SoftDelete, IInv, DeliveryTypeOK, AccountsTypeOK
<1>8. DeliveryTypeOK'
  BY <1>6, <1>7 DEF SoftDelete, IInv, DeliveryTypeOK, AccountsTypeOK
<1>9. ASSUME NEW d \in Calls PROVE SlotInv(d)'
  <2>1. (call[d].who = a /\ ~At(d, "idle") => ~clean'[d]) /\ (clean'[d] => clean[d])
    BY DEF SoftDelete
  <2> QED BY <1>2, <1>5, <2>1, RowWritten DEF SoftDelete
<1>10. \A b \in Addresses : Won(b)'
  BY <1>1, <1>6, RowColumns DEF SoftDelete, IInv, Won, DeliveryTypeOK, AccountsTypeOK
<1> QED BY <1>6, <1>8, <1>9, <1>10 DEF IInv

(* Tokens expire: no handler holds any.                                    *)
LEMMA ExpireInv ==
  ASSUME IInv, NEW a \in Addresses, Expire(a), UNCHANGED <<members, signup, joined>>
  PROVE  IInv'
<1>1. ASSUME NEW c \in Calls PROVE SlotInv(c)'
  <2>1. SlotInv(c)
    BY DEF IInv
  <2>2. Held(call[c])' = Held(call[c]) /\ (Saving(call[c]) => Saving(call[c])')
    BY DEF Expire, Held, Saving
  <2> QED BY <2>1, <2>2 DEF Expire, history, SlotInv, CallInv, SignupInv, At
<1> QED BY <1>1 DEF Expire, history, IInv, DeliveryTypeOK, AccountsTypeOK, ToldTyped,
      StoredAsAnswered, Won

-----------------------------------------------------------------------------
(* The signup of a membership.                                             *)
LEMMA SignupInvariant ==
  ASSUME IInv, NEW c \in Calls, DeliveryStep(c), ~Join(c)
  PROVE  IInv'
<1>1. NoSignup \in SignupTypes /\ NoSignup.pc = "idle"
  BY DEF NoSignup, SignupTypes
<1>2. signup[c] # NoSignup =>
        /\ At(c, "idle") /\ Me(c) \in Addresses
        /\ signup[c].pc # "exists" => users[Me(c)] # None
  BY DEF IInv, SlotInv, CallInv, SignupInv, Me
<1>3. ASSUME NEW r \in SignupReplies, Finish(c, r), signup[c] # NoSignup,
             UNCHANGED <<members, joined>>
      PROVE  IInv'
  <2>1. SignupInv(c)'
    BY <1>1, <1>3 DEF Finish, SignupInv, IInv, DeliveryTypeOK
  <2> QED BY <1>1, <1>2, <1>3, <2>1, DeclineMoves DEF Finish, Respond
<1>4. ASSUME NEW step \in {"exists", "member", "insert"}, NEW a \in Addresses, At(c, "idle"),
             step # "exists" => users[a] # None, Proceed(c, step, a)
      PROVE  IInv'
  <2> DEFINE s == [pc |-> step, who |-> a]
  <2>1. s \in SignupTypes /\ s.pc = step /\ s.who = a
    BY DEF SignupTypes
  <2>2. signup' = [signup EXCEPT ![c] = s] /\ signup'[c] = s
    BY <1>4 DEF Proceed, IInv, DeliveryTypeOK
  <2> HIDE DEF s
  <2>3. SignupInv(c)'
    BY <1>4, <2>1, <2>2 DEF Proceed, Respond, SignupInv
  <2>4. "none" \in SignupReplies
    BY DEF SignupReplies, Replies
  <2> QED BY <1>4, <2>1, <2>2, <2>3, <2>4, DeclineMoves DEF Proceed, Respond
<1>5. InStep(c, "exists") \/ InStep(c, "member") => signup[c] # NoSignup
  BY <1>1 DEF InStep
<1>6. SignupRefused(c) \/ SignupAlready(c) \/ SignupFails(c) => IInv'
  BY <1>3, <1>5 DEF SignupRefused, SignupAlready, SignupFails, SignupReplies, Replies
<1>7. ASSUME SignupExists(c) PROVE IInv'
  BY <1>2, <1>4, <1>5, <1>7 DEF SignupExists, Live
<1>8. ASSUME SignupNew(c) PROVE IInv'
  <2>1. signup[c].pc = "member" /\ Me(c) \in Addresses /\ At(c, "idle") /\ users[Me(c)] # None
    BY <1>2, <1>5, <1>8 DEF SignupNew, InStep
  <2> QED BY <1>4, <1>8, <2>1 DEF SignupNew
<1>9. ASSUME NEW a \in Addresses, Signup(c, a) PROVE IInv'
  BY <1>4, <1>9 DEF Signup, Free
<1>10. ASSUME NEW a \in Addresses, Membership(c, a) PROVE IInv'
  <2>1. /\ signup' = [signup EXCEPT ![c] = signup[c]] /\ signup[c] \in SignupTypes
        /\ SignupInv(c)' /\ At(c, "idle")
    BY <1>10 DEF Membership, Free, SignupInv, IInv, DeliveryTypeOK, SignupTypes
  <2>2. PICK r \in SignupReplies : Respond(c, r)
    BY <1>10 DEF Membership, SignupReplies
  <2> QED BY <1>10, <2>1, <2>2, DeclineMoves DEF Membership, Respond
<1> QED BY <1>6, <1>7, <1>8, <1>9, <1>10 DEF DeliveryStep

LEMMA JoinInv ==
  ASSUME IInv, NEW c \in Calls, Join(c)
  PROVE  IInv'
<1> DEFINE a == Me(c)
<1>1. NoSignup \in SignupTypes /\ NoSignup.pc = "idle"
  BY DEF NoSignup, SignupTypes
<1>2. /\ a \in Addresses /\ users[a] # None /\ a \notin members /\ At(c, "idle")
      /\ joined[a] = 0
  <2>1. signup[c] # NoSignup /\ signup[c].pc = "insert" /\ a \notin members
    BY <1>1 DEF Join, InStep
  <2> QED BY <2>1 DEF IInv, SlotInv, CallInv, SignupInv, Me, Won
<1>3. /\ members' = members \cup {a} /\ joined' = [joined EXCEPT ![a] = @ + 1]
      /\ signup' = [signup EXCEPT ![c] = NoSignup] /\ reply' = [reply EXCEPT ![c] = "member"]
      /\ UNCHANGED <<users, tokens, call, told, clean, wins>>
  BY DEF Join, Finish, Respond, history
<1> HIDE DEF a
<1>4. DeliveryTypeOK'
  BY <1>1, <1>2, <1>3 DEF IInv, DeliveryTypeOK, AccountsTypeOK, SignupTypes, SignupReplies
<1>5. ASSUME NEW d \in Calls PROVE SlotInv(d)'
  <2>1. CASE d = c
    BY <1>1, <1>2, <1>3, <2>1 DEF SlotInv, CallInv, SignupInv, At, IInv, DeliveryTypeOK
  <2>2. CASE d # c
    <3>1. /\ call'[d] = call[d] /\ reply'[d] = reply[d] /\ signup'[d] = signup[d]
          /\ clean'[d] = clean[d] /\ users' = users
      BY <1>3, <2>2 DEF IInv, DeliveryTypeOK
    <3>2. Held(call[d])' = Held(call[d]) /\ (Saving(call[d]) => Saving(call[d])')
      BY <3>1 DEF Held, Saving
    <3> QED BY <3>1, <3>2 DEF IInv, SlotInv, CallInv, SignupInv, At
  <2> QED BY <2>1, <2>2
<1>6. \A b \in Addresses : Won(b)'
  BY <1>2, <1>3 DEF IInv, Won, DeliveryTypeOK
<1> QED BY <1>3, <1>4, <1>5, <1>6 DEF IInv, ToldTyped, StoredAsAnswered

-----------------------------------------------------------------------------
LEMMA NextInv == IInv /\ [DeliveryNext]_allVars => IInv'
<1> SUFFICES ASSUME IInv, [DeliveryNext]_allVars PROVE IInv'
  OBVIOUS
<1>1. ASSUME NEW c \in Calls, DeliveryStep(c) PROVE IInv'
  BY <1>1, SignupInvariant, JoinInv
<1>2. ASSUME NEW c \in Calls, AuthStep(c), UNCHANGED <<members, signup, joined>> PROVE IInv'
  BY <1>2, InsertInv, AnswerInv, SaveLoadInv, SaveWriteInv DEF AuthStep
<1>3. ASSUME NEW c \in Calls, Free(c), AuthCall(c), UNCHANGED <<members, signup, joined>>
      PROVE  IInv'
  BY <1>3, AuthCallInv
<1>4. ASSUME NEW a \in Addresses, Expire(a) \/ SoftDelete(a),
             UNCHANGED <<members, signup, joined>>
      PROVE  IInv'
  BY <1>4, ExpireInv, SoftDeleteInv
<1>5. CASE UNCHANGED allVars
  <2>1. ASSUME NEW c \in Calls PROVE SlotInv(c)'
    <3>1. Held(call[c])' = Held(call[c]) /\ (Saving(call[c]) => Saving(call[c])')
      BY <1>5 DEF allVars, vars, Held, Saving
    <3> QED BY <1>5, <3>1 DEF allVars, vars, IInv, SlotInv, CallInv, SignupInv, At
  <2> QED BY <1>5, <2>1 DEF allVars, vars, IInv, DeliveryTypeOK, AccountsTypeOK, ToldTyped,
        StoredAsAnswered, Won
<1> QED BY <1>1, <1>2, <1>3, <1>4, <1>5 DEF DeliveryNext

(* Every reachable state has the inductive invariant.                      *)
LEMMA Invariant == DeliverySpec => []IInv
BY InitInv, NextInv, PTL DEF DeliverySpec

(* Types of the accounts, the memberships and the calls (user.entity,      *)
(* delivery-membership.entity, auth.service).                              *)
THEOREM TypeCorrect == DeliverySpec => []DeliveryTypeOK
<1>1. IInv => DeliveryTypeOK
  BY DEF IInv
<1> QED BY <1>1, Invariant, PTL

(* A row holds what the calls that wrote it were asked for, whatever other *)
(* calls run between the SELECT and the UPDATE of a save, unless one of    *)
(* them wrote the row (auth.service resetPasswordDev, users.service        *)
(* markUniversityVerified).                                                *)
THEOREM AnswersStored == DeliverySpec => []StoredAsAnswered
<1>1. IInv => StoredAsAnswered
  BY DEF IInv
<1> QED BY <1>1, Invariant, PTL

(* Nobody wins the same account or the same membership twice, however many *)
(* calls pass the check before one of them inserts (auth.service register, *)
(* delivery.service signup).                                               *)
THEOREM OneOfEachHolds == DeliverySpec => []OneOfEach
<1>1. IInv => OneOfEach
  BY DEF IInv, Won, OneOfEach, OneRegistration, OneSignup, DeliveryTypeOK
<1> QED BY <1>1, Invariant, PTL

-----------------------------------------------------------------------------
(* A slot that compares a password is answered by that comparison only.    *)
LEMMA ComparedAnswer ==
  ASSUME IInv, [DeliveryNext]_allVars, NEW c \in Calls, At(c, "compare"),
         reply'[c] \in {"tokens", "denied"}
  PROVE  (LoginAccepted(c) /\ reply'[c] = "tokens") \/ (LoginDenied(c) /\ reply'[c] = "denied")
<1>1. /\ reply[c] = "none" /\ signup[c] = NoSignup /\ call[c].pc = "compare"
      /\ reply \in [Calls -> SignupReplies] /\ reply'[c] # reply[c]
  BY DEF IInv, SlotInv, CallInv, At, DeliveryTypeOK
<1>2. ASSUME NEW d \in Calls, DeliveryStep(d) PROVE FALSE
  <2>1. PICK r : reply' = [reply EXCEPT ![d] = r]
    BY <1>2 DEF DeliveryStep, SignupRefused, SignupExists, SignupAlready, SignupNew, Join,
       SignupFails, Membership, Signup, Finish, Proceed, Respond
  <2>2. d = c
    BY <1>1, <2>1
  <2> QED BY <1>1, <1>2, <2>2 DEF DeliveryStep, SignupRefused, SignupExists, SignupAlready,
        SignupNew, Join, SignupFails, Membership, Signup, InStep, Free, At, NoSignup
<1>3. ASSUME NEW d \in Calls, Free(d), AuthCall(d) PROVE FALSE
  <2>1. PICK r : reply' = [reply EXCEPT ![d] = r]
    BY <1>3 DEF AuthCall, RefreshInvalid, ResetRefused, RegisterTaken, LoginUnknown, Lookup,
       Refresh, RefreshMissing, ResetMissing, MarkMissing, MarkAlready, Mark, Register, Login,
       Reset, Decline, Begin, Grant, Answer
  <2> QED BY <1>1, <1>3, <2>1 DEF Free, At
<1>4. ASSUME NEW d \in Calls, AuthStep(d)
      PROVE  (LoginAccepted(c) /\ reply'[c] = "tokens") \/ (LoginDenied(c) /\ reply'[c] = "denied")
  <2>1. PICK r : reply' = [reply EXCEPT ![d] = r]
    BY <1>1, <1>4 DEF AuthStep, Insert, InsertClashes, LoginAccepted, LoginDenied, SaveLoad,
       SaveWrite, Fails, Grant, Answer
  <2>2. d = c
    BY <1>1, <2>1
  <2>3. ~Insert(c) /\ ~InsertClashes(c) /\ ~SaveLoad(c) /\ ~SaveWrite(c)
    BY <1>1 DEF Insert, InsertClashes, SaveLoad, SaveWrite, At
  <2>4. Fails(c) => reply'[c] = "error"
    BY <1>1 DEF Fails, Answer
  <2>5. LoginAccepted(c) => reply'[c] = "tokens"
    BY <1>1 DEF LoginAccepted, Grant, Answer
  <2>6. LoginDenied(c) => reply'[c] = "denied"
    BY <1>1 DEF LoginDenied, Answer
  <2> QED BY <1>4, <2>2, <2>3, <2>4, <2>5, <2>6 DEF AuthStep
<1>5. ASSUME NEW a \in Addresses, Expire(a) \/ SoftDelete(a) PROVE FALSE
  BY <1>1, <1>5 DEF Expire, SoftDelete
<1>6. CASE UNCHANGED allVars
  BY <1>1, <1>6 DEF allVars, vars
<1> QED BY <1>2, <1>3, <1>4, <1>5, <1>6 DEF DeliveryNext

(* A login no write overlaps is accepted exactly when its account is not   *)
(* deleted and its password is the one last registered or reset            *)
(* (auth.service login), whatever else runs beside it.                     *)
THEOREM LoginsAgree == DeliverySpec => LoginAgrees
<1> DEFINE Agrees(c) ==
      LET a == call[c].who IN
      (/\ At(c, "compare") /\ reply'[c] \in {"tokens", "denied"}
       /\ clean[c] /\ None \notin {told[a].pw, told[a].deleted})
      => (reply'[c] = "tokens" <=> ~told[a].deleted /\ call[c].pw = told[a].pw)
<1>1. ASSUME IInv, [DeliveryNext]_allVars, NEW c \in Calls PROVE Agrees(c)
  <2> DEFINE a == call[c].who
  <2> SUFFICES ASSUME At(c, "compare"), reply'[c] \in {"tokens", "denied"}, clean[c],
                      None \notin {told[a].pw, told[a].deleted}
               PROVE  reply'[c] = "tokens" <=> ~told[a].deleted /\ call[c].pw = told[a].pw
    OBVIOUS
  <2>1. /\ a \in Addresses /\ users[a] \in Rows /\ call[c].entity = users[a]
        /\ ~users[a].deleted
    BY <1>1 DEF IInv, SlotInv, CallInv, At
  <2>2. users[a].pw = told[a].pw /\ users[a].deleted = told[a].deleted
    <3>1. told[a] # None
      BY <1>1, <2>1, RowColumns DEF IInv, StoredAsAnswered
    <3>2. \A f \in {"pw", "deleted"} : told[a][f] # None => users[a][f] = told[a][f]
      BY <1>1, <2>1, <3>1 DEF IInv, StoredAsAnswered, Columns
    <3> QED BY <3>2
  <2>3. reply'[c] = "tokens" <=> Matches(c)
    BY <1>1, ComparedAnswer DEF LoginAccepted, LoginDenied
  <2> QED BY <2>1, <2>2, <2>3 DEF Matches
<1>2. IInv /\ [DeliveryNext]_allVars => [\A c \in Calls : Agrees(c)]_vars
  BY <1>1
<1> QED BY <1>2, Invariant, PTL DEF DeliverySpec, LoginAgrees

-----------------------------------------------------------------------------
(* A statement has had its effect.                                         *)
Effected(s) == s.op = "create" <=> s.name \in schema

All == Range(Migrations)
Prefixes == {{}, {Cleanup}, {Cleanup, AutoMigration}, {Cleanup, AutoMigration, Ensure}, All}

(* Indexes and keys of the messages come with their table, and the key of  *)
(* Auto's tables with all of them.                                         *)
SchemaShape ==
  /\ schema \subseteq Objects
  /\ schema \cap (Indexes \cup MessageKeys) # {} => Messages \in schema
  /\ OwnerKey \in schema => Range(AutoTables) \subseteq schema

(* What is recorded was migrated in order, and is in the schema unless its *)
(* revert was cut short.                                                   *)
RecordsInv ==
  /\ seen \in Prefixes /\ recorded \in Prefixes /\ torn \subseteq recorded
  /\ (cli.mode = "idle" \/ ~inTx) => seen = recorded
  /\ \A m \in (recorded \cup seen) \ torn : Applied(m)

(* What the command has done of the migration it is at.                    *)
CommandInv ==
  \/ cli = IdleCommand
  \/ /\ cli \in [mode : {"up", "down"}, todo : SUBSET All, step : Nat \ {0}]
     /\ result = "none"
     /\ cli.mode = "up" => cli.todo = All \ seen
     /\ cli.mode = "down" => cli.todo = {} \/ (seen # {} /\ cli.todo = {Latest(seen)})
     /\ (cli.mode = "up" \/ cli.todo # {}) => recorded \subseteq seen
     /\ cli.todo = {} => cli.step = 1
     /\ cli.todo # {} =>
          /\ cli.step <= Len(Script) + 1
          /\ \A k \in 1 .. cli.step - 1 : Effected(Script[k])

(* What an unfinished run still cannot get past.                           *)
Ahead ==
  \/ Messages \notin schema
  \/ Current = Cleanup /\ cli.step = 1 /\ LastServing(OldIndex)
  \/ Current = Cleanup /\ schema \cap Range(AutoTables) # {}
  \/ /\ Current = AutoMigration
     /\ \E k \in DOMAIN AutoTables : k >= cli.step /\ AutoTables[k] \in schema

BlockedInv ==
  cli.mode = "up" =>
    /\ blocked <=> (cli.todo # {} /\ Ahead)
    /\ (cli.todo # {} /\ Current = AutoMigration /\ cli.step \in 2 .. Len(AutoTables) + 1)
         => OwnerKey \notin schema

(* The types follow (TypesFollow).                                         *)
MigrationsInv ==
  /\ SchemaShape /\ RecordsInv /\ CommandInv /\ BlockedInv
  /\ blocked \in BOOLEAN /\ crashes \in 0 .. MaxCrashes
  /\ result \in {"none", "done", "failed", "crashed"}

-----------------------------------------------------------------------------
(* Names, and the order of the migrations                                  *)
LEMMA MigrationNames ==
  /\ All = {Cleanup, AutoMigration, Ensure, DropDup}
  /\ Cleanup # AutoMigration /\ Cleanup # Ensure /\ Cleanup # DropDup
  /\ AutoMigration # Ensure /\ AutoMigration # DropDup /\ Ensure # DropDup
<1>1. DOMAIN Migrations = {1, 2, 3, 4}
  BY DEF Migrations
<1>2. /\ Migrations[1] = Cleanup /\ Migrations[2] = AutoMigration
      /\ Migrations[3] = Ensure /\ Migrations[4] = DropDup
  BY DEF Migrations
<1>3. All = {Cleanup, AutoMigration, Ensure, DropDup}
  BY <1>1, <1>2 DEF All, Range
<1>4. /\ Cleanup # AutoMigration /\ Cleanup # Ensure /\ Cleanup # DropDup
      /\ AutoMigration # Ensure /\ AutoMigration # DropDup /\ Ensure # DropDup
  BY DEF Cleanup, AutoMigration, Ensure, DropDup
<1> QED BY <1>3, <1>4

LEMMA Places ==
  /\ Place(Cleanup) = 1 /\ Place(AutoMigration) = 2 /\ Place(Ensure) = 3 /\ Place(DropDup) = 4
<1>1. DOMAIN Migrations = {1, 2, 3, 4}
  BY DEF Migrations
<1>2. /\ Migrations[1] = Cleanup /\ Migrations[2] = AutoMigration
      /\ Migrations[3] = Ensure /\ Migrations[4] = DropDup
  BY DEF Migrations
<1> QED BY <1>1, <1>2, MigrationNames DEF Place

(* What is left of the migrations begins with the next one.                *)
LEMMA NextOne ==
  /\ First({Cleanup, AutoMigration, Ensure, DropDup}) = Cleanup
  /\ First({AutoMigration, Ensure, DropDup}) = AutoMigration
  /\ First({Ensure, DropDup}) = Ensure
  /\ \A m \in All : First({m}) = m
<1>1. First({Cleanup, AutoMigration, Ensure, DropDup}) = Cleanup
  BY Places, MigrationNames DEF First
<1>2. First({AutoMigration, Ensure, DropDup}) = AutoMigration
  BY Places, MigrationNames DEF First
<1>3. First({Ensure, DropDup}) = Ensure
  BY Places, MigrationNames DEF First
<1>4. \A m \in All : First({m}) = m
  BY Places, MigrationNames DEF First
<1> QED BY <1>1, <1>2, <1>3, <1>4

LEMMA LastOne ==
  /\ Latest({Cleanup}) = Cleanup
  /\ Latest({Cleanup, AutoMigration}) = AutoMigration
  /\ Latest({Cleanup, AutoMigration, Ensure}) = Ensure
  /\ Latest({Cleanup, AutoMigration, Ensure, DropDup}) = DropDup
<1>1. Latest({Cleanup}) = Cleanup
  BY Places, MigrationNames DEF Latest
<1>2. Latest({Cleanup, AutoMigration}) = AutoMigration
  BY Places, MigrationNames DEF Latest
<1>3. Latest({Cleanup, AutoMigration, Ensure}) = Ensure
  BY Places, MigrationNames DEF Latest
<1>4. Latest({Cleanup, AutoMigration, Ensure, DropDup}) = DropDup
  BY Places, MigrationNames DEF Latest
<1> QED BY <1>1, <1>2, <1>3, <1>4

(* A prefix and what follows it.                                           *)
LEMMA PrefixProps ==
  ASSUME NEW ms \in Prefixes
  PROVE  /\ ms \subseteq All
         /\ ms # All =>
              /\ All \ ms # {} /\ First(All \ ms) \in All \ ms
              /\ ms \cup {First(All \ ms)} \in Prefixes
              /\ (All \ ms) \ {First(All \ ms)} = All \ (ms \cup {First(All \ ms)})
         /\ ms # {} =>
              /\ Latest(ms) \in ms /\ ms \ {Latest(ms)} \in Prefixes
              /\ First({Latest(ms)}) = Latest(ms)
<1> USE MigrationNames
<1>1. CASE ms = {}
  <2>1. All \ ms = {Cleanup, AutoMigration, Ensure, DropDup}
    BY <1>1
  <2> QED BY <1>1, <2>1, NextOne DEF Prefixes
<1>2. CASE ms = {Cleanup}
  <2>1. All \ ms = {AutoMigration, Ensure, DropDup} /\ ms \ {Cleanup} = {}
    BY <1>2
  <2> QED BY <1>2, <2>1, NextOne, LastOne DEF Prefixes
<1>3. CASE ms = {Cleanup, AutoMigration}
  <2>1. All \ ms = {Ensure, DropDup} /\ ms \ {AutoMigration} = {Cleanup}
    BY <1>3
  <2> QED BY <1>3, <2>1, NextOne, LastOne DEF Prefixes
<1>4. CASE ms = {Cleanup, AutoMigration, Ensure}
  <2>1. All \ ms = {DropDup} /\ ms \ {Ensure} = {Cleanup, AutoMigration}
    BY <1>4
  <2>2. ms \cup {DropDup} = All
    BY <1>4
  <2> QED BY <1>4, <2>1, <2>2, NextOne, LastOne DEF Prefixes
<1>5. CASE ms = All
  <2>1. ms \ {DropDup} = {Cleanup, AutoMigration, Ensure}
    BY <1>5
  <2> QED BY <1>5, <2>1, NextOne, LastOne DEF Prefixes
<1> QED BY <1>1, <1>2, <1>3, <1>4, <1>5 DEF Prefixes

-----------------------------------------------------------------------------
(* The tables, indexes and keys                                            *)
Tables == {"users", "products", "notifications", "email_verifications",
  "friend_requests", "friends", "chat_reads", "chat_messages", "user_blocks"}

LEMMA TableNames ==
  /\ Len(AutoTables) = 9 /\ DOMAIN AutoTables = 1 .. 9
  /\ Range(AutoTables) = Tables
  /\ \A i \in 1 .. 9 : AutoTables[i] \in Tables
  /\ \A i, j \in 1 .. 9 : AutoTables[i] = AutoTables[j] => i = j
<1>1. Len(AutoTables) = 9 /\ DOMAIN AutoTables = 1 .. 9
  BY DEF AutoTables
<1>2. /\ AutoTables[1] = "users" /\ AutoTables[2] = "products"
      /\ AutoTables[3] = "notifications" /\ AutoTables[4] = "email_verifications"
      /\ AutoTables[5] = "friend_requests" /\ AutoTables[6] = "friends"
      /\ AutoTables[7] = "chat_reads" /\ AutoTables[8] = "chat_messages"
      /\ AutoTables[9] = "user_blocks"
  BY DEF AutoTables
<1>3. 1 .. 9 = {1, 2, 3, 4, 5, 6, 7, 8, 9}
  OBVIOUS
<1>4. \A i \in 1 .. 9 : AutoTables[i] \in Tables
  BY <1>2, <1>3 DEF Tables
<1>5. \A t \in Tables : \E i \in 1 .. 9 : AutoTables[i] = t
  BY <1>2, <1>3 DEF Tables
<1>6. Range(AutoTables) = Tables
  BY <1>1, <1>4, <1>5 DEF Range
<1>7. \A i, j \in 1 .. 9 : AutoTables[i] = AutoTables[j] => i = j
  BY <1>2, <1>3
<1> QED BY <1>1, <1>4, <1>6, <1>7

LEMMA ObjectNames ==
  /\ Objects = Tables \cup {Messages, OwnerKey} \cup Indexes \cup MessageKeys
  /\ Indexes = {OldIndex, NewIndex, ImplicitIndex} /\ MessageKeys = {MainKey, DupKey}
  /\ Tables \cap ({Messages, OwnerKey} \cup Indexes \cup MessageKeys) = {}
  /\ OwnerKey \notin {Messages} \cup Indexes \cup MessageKeys
  /\ Messages \notin Indexes \cup MessageKeys
  /\ Indexes \cap MessageKeys = {}
  /\ OldIndex # NewIndex /\ OldIndex # ImplicitIndex /\ NewIndex # ImplicitIndex
  /\ MainKey # DupKey
BY TableNames DEF Objects, Tables, Messages, OwnerKey, Indexes, MessageKeys, OldIndex, NewIndex,
   ImplicitIndex, MainKey, DupKey

-----------------------------------------------------------------------------
(* The scripts, statement by statement                                     *)
LEMMA UpScripts ==
  /\ Up(Cleanup) = CleanupUp /\ Up(AutoMigration) = AutoUp
  /\ Up(Ensure) = EnsureUp /\ Up(DropDup) = DropDupUp
  /\ Len(CleanupUp) = 3 /\ CleanupUp[1] = DropIfPresent(OldIndex)
  /\ CleanupUp[2] = CreateIfAbsent(NewIndex) /\ CleanupUp[3] = DropIfPresent(DupKey)
  /\ Len(AutoUp) = 10 /\ AutoUp[10] = Create(OwnerKey)
  /\ \A k \in 1 .. 9 : AutoUp[k] = Create(AutoTables[k])
  /\ Len(EnsureUp) = 1 /\ EnsureUp[1] = CreateIfAbsent(NewIndex)
  /\ Len(DropDupUp) = 2 /\ DropDupUp[1] = CreateIfAbsent(MainKey)
  /\ DropDupUp[2] = DropIfPresent(DupKey)
<1>1. /\ Up(Cleanup) = CleanupUp /\ Up(AutoMigration) = AutoUp
      /\ Up(Ensure) = EnsureUp /\ Up(DropDup) = DropDupUp
  BY MigrationNames DEF Up
<1>2. /\ Len(CleanupUp) = 3 /\ CleanupUp[1] = DropIfPresent(OldIndex)
      /\ CleanupUp[2] = CreateIfAbsent(NewIndex) /\ CleanupUp[3] = DropIfPresent(DupKey)
  BY DEF CleanupUp
<1>3. /\ Len(EnsureUp) = 1 /\ EnsureUp[1] = CreateIfAbsent(NewIndex)
      /\ Len(DropDupUp) = 2 /\ DropDupUp[1] = CreateIfAbsent(MainKey)
      /\ DropDupUp[2] = DropIfPresent(DupKey)
  BY DEF EnsureUp, DropDupUp
<1>4. /\ Len(AutoUp) = 10 /\ AutoUp[10] = Create(OwnerKey)
      /\ \A k \in 1 .. 9 : AutoUp[k] = Create(AutoTables[k])
  <2>1. PICK s : s = [i \in 1 .. 9 |-> Create(AutoTables[i])]
    OBVIOUS
  <2>2. PICK E : E = {Create(AutoTables[i]) : i \in 1 .. 9} \cup {Create(OwnerKey)}
    OBVIOUS
  <2>3. s \in Seq(E) /\ Len(s) = 9 /\ \A k \in 1 .. 9 : s[k] = Create(AutoTables[k])
    BY <2>1, <2>2
  <2>4. PICK last \in E : last = Create(OwnerKey)
    BY <2>2
  <2>5. AutoUp = s \o <<last>>
    BY <2>1, <2>4, TableNames DEF AutoUp
  <2>6. <<last>> \in Seq(E) /\ Len(<<last>>) = 1 /\ <<last>>[1] = last
    OBVIOUS
  <2>7. /\ Len(s \o <<last>>) = 10 /\ (s \o <<last>>)[10] = last
        /\ \A k \in 1 .. 9 : (s \o <<last>>)[k] = s[k]
    <3>1. /\ Len(s \o <<last>>) = Len(s) + Len(<<last>>)
          /\ \A k \in 1 .. Len(s) + Len(<<last>>) :
               (s \o <<last>>)[k] = IF k <= Len(s) THEN s[k] ELSE <<last>>[k - Len(s)]
      BY <2>3, <2>6, ConcatProperties
    <3>2. \A k \in 1 .. 9 : k \in 1 .. 10 /\ k <= 9
      OBVIOUS
    <3>3. 10 \in 1 .. 10 /\ ~(10 <= 9) /\ 10 - 9 = 1 /\ 9 + 1 = 10
      OBVIOUS
    <3> QED BY <2>3, <2>6, <3>1, <3>2, <3>3
  <2> QED BY <2>3, <2>4, <2>5, <2>7
<1> QED BY <1>1, <1>2, <1>3, <1>4

LEMMA DownScripts ==
  /\ Down(Cleanup) = CleanupDown /\ Down(AutoMigration) = AutoDown
  /\ Down(Ensure) = EnsureDown /\ Down(DropDup) = DropDupDown
  /\ Len(CleanupDown) = 2 /\ CleanupDown[1] = CreateIfAbsent(OldIndex)
  /\ CleanupDown[2] = Drop(NewIndex)
  /\ Len(AutoDown) = 10 /\ AutoDown[1] = Drop(OwnerKey)
  /\ \A k \in 2 .. 10 : AutoDown[k] = Drop(AutoTables[11 - k])
  /\ Len(EnsureDown) = 0
  /\ Len(DropDupDown) = 1 /\ DropDupDown[1] = CreateIfAbsent(DupKey)
<1>1. /\ Down(Cleanup) = CleanupDown /\ Down(AutoMigration) = AutoDown
      /\ Down(Ensure) = EnsureDown /\ Down(DropDup) = DropDupDown
  BY MigrationNames DEF Down
<1>2. /\ Len(CleanupDown) = 2 /\ CleanupDown[1] = CreateIfAbsent(OldIndex)
      /\ CleanupDown[2] = Drop(NewIndex)
      /\ Len(EnsureDown) = 0
      /\ Len(DropDupDown) = 1 /\ DropDupDown[1] = CreateIfAbsent(DupKey)
  BY DEF CleanupDown, EnsureDown, DropDupDown
<1>3. /\ Len(AutoDown) = 10 /\ AutoDown[1] = Drop(OwnerKey)
      /\ \A k \in 2 .. 10 : AutoDown[k] = Drop(AutoTables[11 - k])
  <2>1. PICK s : s = [i \in 1 .. 9 |-> Drop(AutoTables[10 - i])]
    OBVIOUS
  <2>2. PICK E : E = {Drop(AutoTables[10 - i]) : i \in 1 .. 9} \cup {Drop(OwnerKey)}
    OBVIOUS
  <2>3. s \in Seq(E) /\ Len(s) = 9 /\ \A k \in 1 .. 9 : s[k] = Drop(AutoTables[10 - k])
    BY <2>1, <2>2
  <2>4. PICK head \in E : head = Drop(OwnerKey)
    BY <2>2
  <2>5. AutoDown = <<head>> \o s
    <3>1. \A i \in 1 .. 9 : 9 + 1 - i = 10 - i
      OBVIOUS
    <3>2. [i \in 1 .. 9 |-> Drop(AutoTables[9 + 1 - i])] = s
      BY <2>1, <3>1
    <3> QED BY <2>4, <3>2, TableNames DEF AutoDown
  <2>6. <<head>> \in Seq(E) /\ Len(<<head>>) = 1 /\ <<head>>[1] = head
    OBVIOUS
  <2>7. /\ Len(<<head>> \o s) = 10 /\ (<<head>> \o s)[1] = head
        /\ \A k \in 2 .. 10 : (<<head>> \o s)[k] = s[k - 1]
    <3>1. /\ Len(<<head>> \o s) = Len(<<head>>) + Len(s)
          /\ \A k \in 1 .. Len(<<head>>) + Len(s) :
               (<<head>> \o s)[k] = IF k <= Len(<<head>>) THEN <<head>>[k]
                                                        ELSE s[k - Len(<<head>>)]
      BY <2>3, <2>6, ConcatProperties
    <3>2. \A k \in 2 .. 10 : k \in 1 .. 10 /\ ~(k <= 1)
      OBVIOUS
    <3>3. 1 \in 1 .. 10 /\ 1 <= 1 /\ 1 + 9 = 10
      OBVIOUS
    <3> QED BY <2>3, <2>6, <3>1, <3>2, <3>3
  <2>8. \A k \in 2 .. 10 : k - 1 \in 1 .. 9 /\ 10 - (k - 1) = 11 - k
    OBVIOUS
  <2> QED BY <2>3, <2>4, <2>5, <2>7, <2>8
<1> QED BY <1>1, <1>2, <1>3

(* No script names the implicit index, nor anything twice.                 *)
ProperScript(script) ==
  /\ Len(script) \in 0 .. 10
  /\ \A k \in 1 .. Len(script) :
       /\ script[k].op \in {"create", "drop"}
       /\ script[k].name \in Objects /\ script[k].name # ImplicitIndex
       /\ script[k].name # Messages
  /\ \A k, l \in 1 .. Len(script) : script[k].name = script[l].name => k = l

LEMMA ProperScripts ==
  ASSUME NEW m \in All
  PROVE  ProperScript(Up(m)) /\ ProperScript(Down(m))
<1>1. ProperScript(CleanupUp)
  <2>1. /\ CleanupUp[1].op = "drop" /\ CleanupUp[1].name = OldIndex
        /\ CleanupUp[2].op = "create" /\ CleanupUp[2].name = NewIndex
        /\ CleanupUp[3].op = "drop" /\ CleanupUp[3].name = DupKey
    BY UpScripts DEF DropIfPresent, CreateIfAbsent, Statement
  <2>2. 1 .. Len(CleanupUp) = {1, 2, 3} /\ Len(CleanupUp) \in 0 .. 10
    BY UpScripts
  <2>3. \A n \in {OldIndex, NewIndex, DupKey} :
          n \in Objects /\ n # ImplicitIndex /\ n # Messages
    BY ObjectNames
  <2>4. OldIndex # NewIndex /\ OldIndex # DupKey /\ NewIndex # DupKey
    BY ObjectNames
  <2> QED BY <2>1, <2>2, <2>3, <2>4 DEF ProperScript
<1>2. ProperScript(AutoUp)
  <2>1. \A k \in 1 .. 9 : AutoUp[k].op = "create" /\ AutoUp[k].name = AutoTables[k]
    BY UpScripts DEF Create, Statement
  <2>2. AutoUp[10].op = "create" /\ AutoUp[10].name = OwnerKey
    BY UpScripts DEF Create, Statement
  <2>3. \A k \in 1 .. 10 : k \in 1 .. 9 \/ k = 10
    OBVIOUS
  <2>4. \A k \in 1 .. 9 : AutoTables[k] \in Tables
    BY TableNames
  <2>5. \A k, l \in 1 .. 10 : AutoUp[k].name = AutoUp[l].name => k = l
    BY <2>1, <2>2, <2>3, <2>4, TableNames, ObjectNames
  <2>6. \A k \in 1 .. 10 : /\ AutoUp[k].op \in {"create", "drop"}
                           /\ AutoUp[k].name \in Objects /\ AutoUp[k].name # ImplicitIndex
                           /\ AutoUp[k].name # Messages
    BY <2>1, <2>2, <2>3, <2>4, ObjectNames
  <2> QED BY <2>5, <2>6, UpScripts DEF ProperScript
<1>3. ProperScript(EnsureUp) /\ ProperScript(DropDupUp)
  <2>1. /\ EnsureUp[1].op = "create" /\ EnsureUp[1].name = NewIndex
        /\ DropDupUp[1].op = "create" /\ DropDupUp[1].name = MainKey
        /\ DropDupUp[2].op = "drop" /\ DropDupUp[2].name = DupKey
    BY UpScripts DEF DropIfPresent, CreateIfAbsent, Statement
  <2>2. /\ 1 .. Len(EnsureUp) = {1} /\ Len(EnsureUp) \in 0 .. 10
        /\ 1 .. Len(DropDupUp) = {1, 2} /\ Len(DropDupUp) \in 0 .. 10
    BY UpScripts
  <2>3. \A n \in {NewIndex, MainKey, DupKey} :
          n \in Objects /\ n # ImplicitIndex /\ n # Messages
    BY ObjectNames
  <2>4. ProperScript(EnsureUp)
    BY <2>1, <2>2, <2>3 DEF ProperScript
  <2>5. ProperScript(DropDupUp)
    BY <2>1, <2>2, <2>3, ObjectNames DEF ProperScript
  <2> QED BY <2>4, <2>5
<1>4. ProperScript(CleanupDown) /\ ProperScript(EnsureDown) /\ ProperScript(DropDupDown)
  <2>1. /\ CleanupDown[1].op = "create" /\ CleanupDown[1].name = OldIndex
        /\ CleanupDown[2].op = "drop" /\ CleanupDown[2].name = NewIndex
        /\ DropDupDown[1].op = "create" /\ DropDupDown[1].name = DupKey
    BY DownScripts DEF Drop, CreateIfAbsent, Statement
  <2>2. /\ 1 .. Len(CleanupDown) = {1, 2} /\ Len(CleanupDown) \in 0 .. 10
        /\ 1 .. Len(EnsureDown) = {} /\ Len(EnsureDown) \in 0 .. 10
        /\ 1 .. Len(DropDupDown) = {1} /\ Len(DropDupDown) \in 0 .. 10
    BY DownScripts
  <2>3. \A n \in {OldIndex, NewIndex, DupKey} :
          n \in Objects /\ n # ImplicitIndex /\ n # Messages
    BY ObjectNames
  <2>4. ProperScript(CleanupDown)
    BY <2>1, <2>2, <2>3, ObjectNames DEF ProperScript
  <2>5. ProperScript(EnsureDown)
    BY <2>2 DEF ProperScript
  <2>6. ProperScript(DropDupDown)
    BY <2>1, <2>2, <2>3 DEF ProperScript
  <2> QED BY <2>4, <2>5, <2>6
<1>5. ProperScript(AutoDown)
  <2>1. \A k \in 2 .. 10 : AutoDown[k].op = "drop" /\ AutoDown[k].name = AutoTables[11 - k]
    BY DownScripts DEF Drop, Statement
  <2>2. AutoDown[1].op = "drop" /\ AutoDown[1].name = OwnerKey
    BY DownScripts DEF Drop, Statement
  <2>3. \A k \in 1 .. 10 : k \in 2 .. 10 \/ k = 1
    OBVIOUS
  <2>4. \A k \in 2 .. 10 : 11 - k \in 1 .. 9 /\ AutoTables[11 - k] \in Tables
    BY TableNames
  <2>5. \A k, l \in 2 .. 10 : AutoDown[k].name = AutoDown[l].name => k = l
    <3> TAKE k, l \in 2 .. 10
    <3> HAVE AutoDown[k].name = AutoDown[l].name
    <3>1. 11 - k = 11 - l
      BY <2>1, <2>4, TableNames
    <3> QED BY <3>1
  <2>6. \A k, l \in 1 .. 10 : AutoDown[k].name = AutoDown[l].name => k = l
    BY <2>1, <2>2, <2>3, <2>4, <2>5, ObjectNames
  <2>7. \A k \in 1 .. 10 : /\ AutoDown[k].op \in {"create", "drop"}
                           /\ AutoDown[k].name \in Objects /\ AutoDown[k].name # ImplicitIndex
                           /\ AutoDown[k].name # Messages
    BY <2>1, <2>2, <2>3, <2>4, ObjectNames
  <2> QED BY <2>6, <2>7, DownScripts DEF ProperScript
<1> QED BY <1>1, <1>2, <1>3, <1>4, <1>5, MigrationNames, UpScripts, DownScripts

LEMMA ScriptTouches ==
  ASSUME NEW m \in All, NEW script \in {Up(m), Down(m)}, NEW k \in 1 .. Len(script)
  PROVE  /\ m # Cleanup => /\ script[k].name # OldIndex
                           /\ script[k].name = NewIndex => script[k].op = "create"
         /\ m # AutoMigration => script[k].name \notin Tables \cup {OwnerKey}
<1>1. CASE m = Cleanup
  <2>1. /\ CleanupUp[1].name = OldIndex /\ CleanupUp[2].name = NewIndex
        /\ CleanupUp[3].name = DupKey
        /\ CleanupDown[1].name = OldIndex /\ CleanupDown[2].name = NewIndex
    BY UpScripts, DownScripts DEF Drop, DropIfPresent, CreateIfAbsent, Statement
  <2>2. script \in {CleanupUp, CleanupDown} /\ Len(CleanupUp) = 3 /\ Len(CleanupDown) = 2
    BY <1>1, UpScripts, DownScripts
  <2>3. script[k].name \in {OldIndex, NewIndex, DupKey}
    <3>1. CASE script = CleanupUp
      <4>1. Len(script) = 3
        BY <2>2, <3>1
      <4>2. k \in {1, 2, 3}
        BY <4>1
      <4> QED BY <2>1, <3>1, <4>2
    <3>2. CASE script = CleanupDown
      <4>1. Len(script) = 2
        BY <2>2, <3>2
      <4>2. k \in {1, 2}
        BY <4>1
      <4> QED BY <2>1, <3>2, <4>2
    <3> QED BY <2>2, <3>1, <3>2
  <2> QED BY <1>1, <2>3, ObjectNames
<1>2. CASE m = AutoMigration
  <2>1. /\ \A i \in 1 .. 9 : AutoUp[i].name \in Tables
        /\ \A i \in 2 .. 10 : AutoDown[i].name \in Tables
        /\ AutoUp[10].name = OwnerKey /\ AutoDown[1].name = OwnerKey
    <3>1. \A i \in 1 .. 9 : AutoUp[i].name = AutoTables[i]
      BY UpScripts DEF Create, Statement
    <3>2. \A i \in 2 .. 10 : AutoDown[i].name = AutoTables[11 - i] /\ 11 - i \in 1 .. 9
      BY DownScripts DEF Drop, Statement
    <3>3. AutoUp[10].name = OwnerKey /\ AutoDown[1].name = OwnerKey
      BY UpScripts, DownScripts DEF Create, Drop, Statement
    <3> QED BY <3>1, <3>2, <3>3, TableNames
  <2>2. script \in {AutoUp, AutoDown} /\ Len(AutoUp) = 10 /\ Len(AutoDown) = 10
    BY <1>2, UpScripts, DownScripts
  <2>3. (k \in 1 .. 9 \/ k = 10) /\ (k \in 2 .. 10 \/ k = 1)
    <3>1. Len(script) = 10
      BY <2>2
    <3> QED BY <3>1
  <2>4. script[k].name \in Tables \cup {OwnerKey}
    BY <2>1, <2>2, <2>3
  <2> QED BY <1>2, <2>4, ObjectNames
<1>3. CASE m = Ensure
  <2>1. EnsureUp[1].name = NewIndex /\ EnsureUp[1].op = "create"
    BY UpScripts DEF CreateIfAbsent, Statement
  <2>2. script \in {EnsureUp, EnsureDown} /\ Len(EnsureUp) = 1 /\ Len(EnsureDown) = 0
    BY <1>3, UpScripts, DownScripts
  <2>3. script = EnsureUp /\ k = 1
    <3>1. CASE script = EnsureUp
      <4>1. Len(script) = 1
        BY <2>2, <3>1
      <4> QED BY <3>1, <4>1
    <3>2. CASE script = EnsureDown
      <4>1. Len(script) = 0
        BY <2>2, <3>2
      <4> QED BY <4>1
    <3> QED BY <2>2, <3>1, <3>2
  <2> QED BY <2>1, <2>3, ObjectNames
<1>4. CASE m = DropDup
  <2>1. /\ DropDupUp[1].name = MainKey /\ DropDupUp[2].name = DupKey
        /\ DropDupDown[1].name = DupKey
    BY UpScripts, DownScripts DEF DropIfPresent, CreateIfAbsent, Statement
  <2>2. script \in {DropDupUp, DropDupDown} /\ Len(DropDupUp) = 2 /\ Len(DropDupDown) = 1
    BY <1>4, UpScripts, DownScripts
  <2>3. script[k].name \in {MainKey, DupKey}
    <3>1. CASE script = DropDupUp
      <4>1. Len(script) = 2
        BY <2>2, <3>1
      <4>2. k \in {1, 2}
        BY <4>1
      <4> QED BY <2>1, <3>1, <4>2
    <3>2. CASE script = DropDupDown
      <4>1. Len(script) = 1
        BY <2>2, <3>2
      <4>2. k = 1
        BY <4>1
      <4> QED BY <2>1, <3>2, <4>2
    <3> QED BY <2>2, <3>1, <3>2
  <2> QED BY <2>3, ObjectNames
<1> QED BY <1>1, <1>2, <1>3, <1>4, MigrationNames

(* A statement moves its own object, and at most the implicit index.       *)
LEMMA DoneProps ==
  ASSUME SchemaShape, NEW s, s.op \in {"create", "drop"}, Possible(s),
         s.name \in Objects, s.name # ImplicitIndex, s.name # Messages
  PROVE  /\ Done(s) \subseteq Objects
         /\ \A x : x # s.name /\ x # ImplicitIndex => (x \in Done(s) <=> x \in schema)
         /\ s.name \in Done(s) <=> s.op = "create"
         /\ Done(s) \cap (Indexes \cup MessageKeys) # {} => Messages \in schema
<1>1. schema \subseteq Objects /\ ImplicitIndex \in Objects
  BY ObjectNames DEF SchemaShape
<1>2. /\ s.op = "create" <=> s.name \notin schema
      /\ s.name \in Indexes \cup MessageKeys => Messages \in schema
  BY DEF Possible
<1>3. CASE s.op = "drop"
  <2>1. Done(s) = schema \ {s.name}
    BY <1>3 DEF Done
  <2> QED BY <1>1, <1>3, <2>1 DEF SchemaShape
<1>4. CASE s.op = "create" /\ s.name \in Indexes
  <2>1. Done(s) = (schema \ {ImplicitIndex}) \cup {s.name}
    BY <1>4, ObjectNames DEF Done
  <2> QED BY <1>1, <1>2, <1>4, <2>1
<1>5. CASE s.op = "create" /\ s.name \in MessageKeys
  <2>1. Done(s) = schema \cup {s.name} \cup (IF Serving = {} THEN {ImplicitIndex} ELSE {})
    BY <1>5, ObjectNames DEF Done
  <2> QED BY <1>1, <1>2, <1>5, <2>1
<1>6. CASE s.op = "create" /\ s.name \notin Indexes \cup MessageKeys
  <2>1. Done(s) = schema \cup {s.name}
    BY <1>6 DEF Done
  <2> QED BY <1>1, <1>6, <2>1, ObjectNames DEF SchemaShape
<1> QED BY <1>3, <1>4, <1>5, <1>6

-----------------------------------------------------------------------------
(* Where a command stands                                                  *)
LEMMA UpAt ==
  ASSUME RecordsInv, CommandInv, cli.mode = "up", cli.todo # {}
  PROVE  /\ Script = Up(Current) /\ cli # IdleCommand
         /\ \/ Current = Cleanup /\ seen = {}
            \/ Current = AutoMigration /\ seen = {Cleanup}
            \/ Current = Ensure /\ seen = {Cleanup, AutoMigration}
            \/ Current = DropDup /\ seen = {Cleanup, AutoMigration, Ensure}
<1>1. cli # IdleCommand /\ cli.todo = All \ seen /\ seen \in Prefixes
  BY DEF RecordsInv, CommandInv, IdleCommand
<1>2. CASE seen = {}
  <2>1. cli.todo = {Cleanup, AutoMigration, Ensure, DropDup}
    BY <1>1, <1>2, MigrationNames
  <2> QED BY <1>1, <1>2, <2>1, NextOne DEF Current, Script
<1>3. CASE seen = {Cleanup}
  <2>1. cli.todo = {AutoMigration, Ensure, DropDup}
    BY <1>1, <1>3, MigrationNames
  <2> QED BY <1>1, <1>3, <2>1, NextOne DEF Current, Script
<1>4. CASE seen = {Cleanup, AutoMigration}
  <2>1. cli.todo = {Ensure, DropDup}
    BY <1>1, <1>4, MigrationNames
  <2> QED BY <1>1, <1>4, <2>1, NextOne DEF Current, Script
<1>5. CASE seen = {Cleanup, AutoMigration, Ensure}
  <2>1. cli.todo = {DropDup}
    BY <1>1, <1>5, MigrationNames
  <2> QED BY <1>1, <1>5, <2>1, NextOne, MigrationNames DEF Current, Script
<1> QED BY <1>1, <1>2, <1>3, <1>4, <1>5 DEF Prefixes

LEMMA DownAt ==
  ASSUME RecordsInv, CommandInv, cli.mode = "down", cli.todo # {}
  PROVE  /\ Script = Down(Current) /\ cli # IdleCommand
         /\ cli.todo = {Current} /\ Current = Latest(seen)
         /\ \/ Current = Cleanup /\ seen = {Cleanup}
            \/ Current = AutoMigration /\ seen = {Cleanup, AutoMigration}
            \/ Current = Ensure /\ seen = {Cleanup, AutoMigration, Ensure}
            \/ Current = DropDup /\ seen = All
<1>1. cli # IdleCommand /\ seen # {} /\ cli.todo = {Latest(seen)} /\ seen \in Prefixes
  BY DEF RecordsInv, CommandInv, IdleCommand
<1>2. Current = Latest(seen)
  BY <1>1, PrefixProps DEF Current
<1>3. cli.mode # "up"
  OBVIOUS
<1> QED BY <1>1, <1>2, <1>3, LastOne, MigrationNames DEF Prefixes, Script

LEMMA ScriptAt ==
  ASSUME RecordsInv, CommandInv, cli # IdleCommand, cli.todo # {}
  PROVE  /\ Current \in All /\ Current \in cli.todo /\ Script \in {Up(Current), Down(Current)}
         /\ cli.mode \in {"up", "down"} /\ cli.step \in 1 .. Len(Script) + 1
         /\ ProperScript(Script)
         /\ \A k \in 1 .. cli.step - 1 : Effected(Script[k])
<1>1. /\ cli \in [mode : {"up", "down"}, todo : SUBSET All, step : Nat \ {0}]
      /\ cli.step <= Len(Script) + 1
      /\ \A k \in 1 .. cli.step - 1 : Effected(Script[k])
  BY DEF CommandInv
<1>2. cli.mode \in {"up", "down"}
  BY <1>1
<1>3. Current \in All /\ Script \in {Up(Current), Down(Current)}
  BY <1>2, UpAt, DownAt, MigrationNames
<1>4. Current \in cli.todo
  <2>1. CASE cli.mode = "up"
    BY <2>1, UpAt, MigrationNames DEF CommandInv
  <2>2. CASE cli.mode = "down"
    BY <2>2, DownAt
  <2> QED BY <1>2, <2>1, <2>2
<1>5. ProperScript(Script)
  BY <1>3, ProperScripts
<1>6. Len(Script) \in Nat
  BY <1>5 DEF ProperScript
<1> QED BY <1>1, <1>2, <1>3, <1>4, <1>5, <1>6

-----------------------------------------------------------------------------
(* What the statements of a command keep                                   *)

(* A script that has run to its end has applied its migration.             *)
LEMMA ScriptApplies ==
  ASSUME NEW m \in All, \A k \in 1 .. Len(Up(m)) : Effected(Up(m)[k])
  PROVE  /\ Applied(m)
         /\ m = DropDup => MainKey \in schema
<1>1. CASE m = Cleanup
  <2>1. Effected(CleanupUp[1]) /\ Effected(CleanupUp[2])
    BY <1>1, UpScripts
  <2>2. OldIndex \notin schema /\ NewIndex \in schema
    BY <2>1, UpScripts DEF Effected, DropIfPresent, CreateIfAbsent, Statement
  <2> QED BY <1>1, <2>2, MigrationNames DEF Applied
<1>2. CASE m = AutoMigration
  <2>1. \A k \in 1 .. 10 : Effected(AutoUp[k])
    BY <1>2, UpScripts
  <2>2. \A k \in 1 .. 9 : AutoTables[k] \in schema
    <3> TAKE k \in 1 .. 9
    <3>1. k \in 1 .. 10 /\ AutoUp[k] = Create(AutoTables[k])
      BY UpScripts
    <3> QED BY <2>1, <3>1 DEF Effected, Create, Statement
  <2>3. OwnerKey \in schema
    BY <2>1, UpScripts DEF Effected, Create, Statement
  <2>4. Range(AutoTables) \subseteq schema
    BY <2>2, TableNames DEF Range
  <2> QED BY <1>2, <2>3, <2>4, MigrationNames DEF Applied
<1>3. CASE m = Ensure
  <2>1. Effected(EnsureUp[1])
    BY <1>3, UpScripts
  <2>2. NewIndex \in schema
    BY <2>1, UpScripts DEF Effected, CreateIfAbsent, Statement
  <2> QED BY <1>3, <2>2, MigrationNames DEF Applied
<1>4. CASE m = DropDup
  <2>1. Effected(DropDupUp[1]) /\ Effected(DropDupUp[2])
    BY <1>4, UpScripts
  <2>2. MainKey \in schema /\ DupKey \notin schema
    BY <2>1, UpScripts DEF Effected, DropIfPresent, CreateIfAbsent, Statement
  <2> QED BY <1>4, <2>2, MigrationNames DEF Applied
<1> QED BY <1>1, <1>2, <1>3, <1>4, MigrationNames

(* A statement of one migration leaves what the earlier ones applied.      *)
LEMMA AppliedKept ==
  ASSUME RecordsInv, CommandInv, cli # IdleCommand, cli.todo # {}, cli.step <= Len(Script),
         \A x : x # Script[cli.step].name /\ x # ImplicitIndex
                  => (x \in schema' <=> x \in schema),
         Script[cli.step].name \in schema' <=> Script[cli.step].op = "create",
         NEW n \in seen, n # Current, Applied(n)
  PROVE  Applied(n)'
<1>1. PICK s : s = Script[cli.step]
  OBVIOUS
<1>2. /\ Current # Cleanup => s.name # OldIndex /\ (s.name = NewIndex => s.op = "create")
      /\ Current # AutoMigration => s.name \notin Tables \cup {OwnerKey}
  <2>1. /\ Current \in All /\ Script \in {Up(Current), Down(Current)}
        /\ cli.step \in 1 .. Len(Script) + 1 /\ ProperScript(Script)
    BY ScriptAt
  <2>2. Len(Script) \in Nat
    BY <2>1 DEF ProperScript
  <2>3. cli.step \in 1 .. Len(Script)
    BY <2>1, <2>2
  <2> QED BY <1>1, <2>1, <2>3, ScriptTouches
<1>3. /\ cli.mode \in {"up", "down"}
      /\ Current # Cleanup /\ n # DropDup /\ n \in All
      /\ n = AutoMigration => Current # AutoMigration
  <2>1. cli.mode \in {"up", "down"}
    BY ScriptAt
  <2>2. CASE cli.mode = "up"
    BY <2>2, UpAt, MigrationNames
  <2>3. CASE cli.mode = "down"
    BY <2>3, DownAt, MigrationNames
  <2> QED BY <2>1, <2>2, <2>3
<1>4. CASE n = Cleanup
  <2>1. NewIndex \in schema /\ OldIndex \notin schema
    BY <1>4, MigrationNames DEF Applied
  <2>2. NewIndex \in schema' /\ OldIndex \notin schema'
    BY <1>1, <1>2, <1>3, <2>1, ObjectNames
  <2> QED BY <1>4, <2>2, MigrationNames DEF Applied
<1>5. CASE n = AutoMigration
  <2>1. Tables \cup {OwnerKey} \subseteq schema
    BY <1>5, MigrationNames, TableNames DEF Applied
  <2>2. Tables \cup {OwnerKey} \subseteq schema'
    BY <1>1, <1>2, <1>3, <1>5, <2>1, ObjectNames
  <2> QED BY <1>5, <2>2, MigrationNames, TableNames DEF Applied
<1>6. CASE n = Ensure
  <2>1. NewIndex \in schema
    BY <1>6, MigrationNames DEF Applied
  <2>2. NewIndex \in schema'
    BY <1>1, <1>2, <1>3, <2>1, ObjectNames
  <2> QED BY <1>6, <2>2, MigrationNames DEF Applied
<1> QED BY <1>3, <1>4, <1>5, <1>6, MigrationNames

(* The statement at which a command is.                                    *)
LEMMA StatementAt ==
  ASSUME RecordsInv, CommandInv, AtStatement, NEW s, s = Script[cli.step]
  PROVE  /\ cli # IdleCommand /\ cli.todo # {} /\ cli.step \in 1 .. Len(Script)
         /\ Len(Script) \in 0 .. 10
         /\ s.op \in {"create", "drop"} /\ s.name \in Objects
         /\ s.name # ImplicitIndex /\ s.name # Messages
         /\ \A k \in 1 .. cli.step - 1 : /\ Effected(Script[k]) /\ Script[k].name # s.name
                                         /\ Script[k].name # ImplicitIndex
<1>1. cli # IdleCommand /\ cli.todo # {} /\ cli.step <= Len(Script)
  BY DEF AtStatement
<1>2. /\ cli.step \in 1 .. Len(Script) + 1 /\ ProperScript(Script)
      /\ \A k \in 1 .. cli.step - 1 : Effected(Script[k])
  BY <1>1, ScriptAt
<1>3. Len(Script) \in 0 .. 10
  BY <1>2 DEF ProperScript
<1>4. cli.step \in 1 .. Len(Script)
  BY <1>1, <1>2, <1>3
<1>5. /\ s.op \in {"create", "drop"} /\ s.name \in Objects
      /\ s.name # ImplicitIndex /\ s.name # Messages
  BY <1>2, <1>4 DEF ProperScript
<1>6. \A k \in 1 .. cli.step - 1 : /\ k \in 1 .. Len(Script) /\ k # cli.step
  BY <1>3, <1>4
<1>7. \A k \in 1 .. cli.step - 1 : Script[k].name # s.name /\ Script[k].name # ImplicitIndex
  BY <1>2, <1>4, <1>6 DEF ProperScript
<1> QED BY <1>1, <1>2, <1>3, <1>4, <1>5, <1>7

(* A command that goes on to its next statement.                           *)
LEMMA CommandOn ==
  ASSUME RecordsInv, CommandInv, AtStatement, cli' = [cli EXCEPT !.step = @ + 1],
         seen' = seen, result' = result, recorded' \subseteq seen,
         \A k \in 1 .. cli.step : Effected(Script[k])'
  PROVE  /\ CommandInv' /\ Current' = Current /\ Script' = Script
         /\ cli' # IdleCommand /\ cli'.step = cli.step + 1 /\ cli'.todo = cli.todo
         /\ cli'.mode = cli.mode /\ cli'.step \in 1 .. 11
<1>1. /\ cli # IdleCommand /\ cli.todo # {} /\ cli.step \in 1 .. Len(Script)
      /\ Len(Script) \in 0 .. 10
  BY StatementAt
<1>2. cli \in [mode : {"up", "down"}, todo : SUBSET All, step : Nat \ {0}]
  BY <1>1 DEF CommandInv
<1>3. /\ cli'.step = cli.step + 1 /\ cli'.todo = cli.todo /\ cli'.mode = cli.mode
      /\ cli' \in [mode : {"up", "down"}, todo : SUBSET All, step : Nat \ {0}]
  BY <1>2
<1>4. Current' = Current
  BY <1>3 DEF Current
<1>5. Script' = Script
  BY <1>3, <1>4 DEF Script
<1>6. cli' # IdleCommand
  BY <1>3 DEF IdleCommand
<1>7. /\ cli'.step <= Len(Script') + 1
      /\ \A k \in 1 .. cli'.step - 1 : Effected(Script[k])'
  BY <1>1, <1>3, <1>5
<1>8. CommandInv'
  <2>1. /\ result = "none" /\ (cli.mode = "up" => cli.todo = All \ seen)
        /\ cli.mode = "down" => cli.todo = {} \/ (seen # {} /\ cli.todo = {Latest(seen)})
    BY <1>1 DEF CommandInv
  <2> QED BY <1>1, <1>3, <1>7, <2>1 DEF CommandInv
<1>9. cli'.step \in 1 .. 11
  <2>1. PICK n \in 0 .. 10 : n = Len(Script)
    BY <1>1
  <2>2. PICK k \in 1 .. n : k = cli.step
    BY <1>1, <2>1
  <2> QED BY <1>3, <2>2
<1> QED BY <1>1, <1>3, <1>4, <1>5, <1>6, <1>8, <1>9

-----------------------------------------------------------------------------
(* The invariant                                                           *)
LEMMA SchemaInitInv == SchemaInit => MigrationsInv
<1> SUFFICES ASSUME SchemaInit PROVE MigrationsInv
  OBVIOUS
<1>1. /\ recorded = {} /\ seen = {} /\ inTx = FALSE /\ cli = IdleCommand /\ result = "none"
      /\ crashes = 0 /\ blocked = FALSE /\ torn = {}
  BY DEF SchemaInit
<1>2. cli.mode = "idle" /\ cli.step = 0
  BY <1>1 DEF IdleCommand
<1>3. PICK made \in {{}, Range(AutoTables)}, messages \in MessagesAlone :
        schema = made \cup messages
  BY DEF SchemaInit
<1>4. \/ messages = {}
      \/ \E ix \in SUBSET Indexes, fk \in SUBSET MessageKeys :
           messages = {Messages} \cup ix \cup fk
  BY DEF MessagesAlone
<1>5. made \subseteq Tables
  BY <1>3, TableNames
<1>6. SchemaShape
  <2>1. messages \subseteq {Messages} \cup Indexes \cup MessageKeys
    BY <1>4
  <2>2. messages # {} => Messages \in messages
    BY <1>4
  <2>3. schema \subseteq Objects /\ OwnerKey \notin schema
    BY <1>3, <1>5, <2>1, ObjectNames
  <2>4. schema \cap (Indexes \cup MessageKeys) # {} => Messages \in schema
    BY <1>3, <1>5, <2>2, ObjectNames
  <2> QED BY <2>3, <2>4 DEF SchemaShape
<1>7. crashes \in 0 .. MaxCrashes
  BY <1>1, MigrationsAssumption
<1>8. RecordsInv
  BY <1>1, <1>2 DEF RecordsInv, Prefixes
<1>9. CommandInv
  BY <1>1 DEF CommandInv
<1>10. BlockedInv
  <2>1. cli.mode # "up"
    BY <1>2
  <2> QED BY <2>1 DEF BlockedInv
<1>11. blocked \in BOOLEAN
  BY <1>1
<1> QED BY <1>1, <1>6, <1>7, <1>8, <1>9, <1>10, <1>11 DEF MigrationsInv

LEMMA TypesFollow == MigrationsInv => SchemaTypeOK
<1> SUFFICES ASSUME MigrationsInv PROVE SchemaTypeOK
  OBVIOUS
<1> USE DEF MigrationsInv
<1>1. /\ seen \subseteq All /\ recorded \subseteq All /\ torn \subseteq All
      /\ (cli # IdleCommand /\ ~inTx) => recorded = seen
  BY PrefixProps DEF RecordsInv
<1>2. cli.mode \in {"idle", "up", "down"} /\ cli.step \in 0 .. (Len(AutoUp) + 1)
  <2>1. CASE cli = IdleCommand
    BY <2>1, UpScripts DEF IdleCommand
  <2>2. CASE cli # IdleCommand /\ cli.todo = {}
    <3>1. cli.mode \in {"up", "down"} /\ cli.step = 1
      BY <2>2 DEF CommandInv
    <3> QED BY <3>1, UpScripts
  <2>3. CASE cli # IdleCommand /\ cli.todo # {}
    <3>1. /\ cli.mode \in {"up", "down"} /\ cli.step \in 1 .. Len(Script) + 1
          /\ ProperScript(Script)
      BY <2>3, ScriptAt
    <3>2. Len(Script) \in 0 .. 10
      BY <3>1 DEF ProperScript
    <3>3. Len(AutoUp) + 1 = 11
      BY UpScripts
    <3>4. PICK n \in 0 .. 10 : n = Len(Script)
      BY <3>2
    <3>5. cli.step \in 1 .. n + 1
      BY <3>1, <3>4
    <3>6. cli.step \in 0 .. 11
      BY <3>5
    <3> QED BY <3>1, <3>3, <3>6
  <2> QED BY <2>1, <2>2, <2>3
<1> QED BY <1>1, <1>2 DEF SchemaTypeOK, SchemaShape, All

LEMMA Parts ==
  ASSUME MigrationsInv
  PROVE  /\ SchemaShape /\ RecordsInv /\ CommandInv /\ BlockedInv /\ blocked \in BOOLEAN
         /\ result \in {"none", "done", "failed", "crashed"} /\ crashes \in 0 .. MaxCrashes
         /\ seen \in Prefixes /\ recorded \in Prefixes /\ torn \subseteq recorded
BY DEF MigrationsInv, RecordsInv

LEMMA ExecuteInv == ASSUME MigrationsInv, Execute PROVE MigrationsInv'
<1>1. PICK s : s = Script[cli.step]
  OBVIOUS
<1>2. /\ AtStatement /\ Needed(s) /\ Possible(s) /\ schema' = Done(s) /\ recorded' = seen
      /\ inTx' = FALSE /\ cli' = [cli EXCEPT !.step = @ + 1]
      /\ torn' = torn \cup (IF cli.mode = "down" THEN {Current} ELSE {})
      /\ UNCHANGED <<seen, result, crashes, blocked>>
  BY <1>1 DEF Execute
<1>3. /\ cli # IdleCommand /\ cli.todo # {} /\ cli.step \in 1 .. Len(Script)
      /\ Len(Script) \in 0 .. 10
      /\ s.op \in {"create", "drop"} /\ s.name \in Objects
      /\ s.name # ImplicitIndex /\ s.name # Messages
      /\ \A k \in 1 .. cli.step - 1 : /\ Effected(Script[k]) /\ Script[k].name # s.name
                                      /\ Script[k].name # ImplicitIndex
  BY <1>1, <1>2, Parts, StatementAt
<1>4. /\ schema' \subseteq Objects
      /\ \A x : x # s.name /\ x # ImplicitIndex => (x \in schema' <=> x \in schema)
      /\ s.name \in schema' <=> s.op = "create"
      /\ schema' \cap (Indexes \cup MessageKeys) # {} => Messages \in schema
  BY <1>2, <1>3, Parts, DoneProps
<1>5. /\ Current \in All /\ Script \in {Up(Current), Down(Current)}
      /\ cli.mode \in {"up", "down"} /\ cli.step <= Len(Script)
  BY <1>3, Parts, ScriptAt
<1>6. /\ Current # Cleanup => s.name # OldIndex /\ (s.name = NewIndex => s.op = "create")
      /\ Current # AutoMigration => s.name \notin Tables \cup {OwnerKey}
  BY <1>1, <1>3, <1>5, ScriptTouches
<1>7. Current' = Current /\ Script' = Script
  <2>1. cli \in [mode : {"up", "down"}, todo : SUBSET All, step : Nat \ {0}]
    BY <1>3, Parts DEF CommandInv
  <2>2. cli'.todo = cli.todo /\ cli'.mode = cli.mode
    BY <1>2, <2>1
  <2> QED BY <2>2 DEF Current, Script
<1>8. \A k \in 1 .. cli.step : Effected(Script[k])'
  <2> TAKE k \in 1 .. cli.step
  <2>1. PICK t : t = Script[k]
    OBVIOUS
  <2>2. (t.op = "create") <=> (t.name \in schema')
    <3>1. CASE k = cli.step
      BY <1>1, <1>4, <2>1, <3>1
    <3>2. CASE k # cli.step
      <4>1. k \in 1 .. cli.step - 1
        BY <1>3, <3>2
      <4>2. Effected(t) /\ t.name # s.name /\ t.name # ImplicitIndex
        BY <1>3, <2>1, <4>1
      <4> QED BY <1>4, <4>2 DEF Effected
    <3> QED BY <3>1, <3>2
  <2>3. Script'[k] = t
    BY <1>7, <2>1
  <2> QED BY <2>2, <2>3 DEF Effected
<1>9. /\ CommandInv' /\ cli' # IdleCommand /\ cli'.step = cli.step + 1
      /\ cli'.todo = cli.todo /\ cli'.mode = cli.mode
  <2>1. recorded' \subseteq seen
    BY <1>2
  <2> QED BY <1>2, <1>8, <2>1, Parts, CommandOn
<1>10. SchemaShape'
  <2>1. Messages \in schema' <=> Messages \in schema
    BY <1>3, <1>4, ObjectNames
  <2>2. ASSUME OwnerKey \in schema' PROVE Tables \subseteq schema'
    <3>1. CASE s.name = OwnerKey
      <4>1. Current = AutoMigration /\ s.op = "create"
        BY <1>4, <1>6, <2>2, <3>1
      <4>2. Script = AutoUp
        <5>1. CASE Script = AutoDown
          <6>1. AutoDown[1] = Drop(OwnerKey) /\ \A k \in 2 .. 10 : AutoDown[k].op = "drop"
            BY DownScripts DEF Drop, Statement
          <6>2. AutoDown[1].op = "drop" /\ Len(AutoDown) = 10
            BY <6>1, DownScripts DEF Drop, Statement
          <6>3. cli.step \in 1 .. 10
            BY <1>3, <5>1, <6>2
          <6>4. cli.step = 1 \/ cli.step \in 2 .. 10
            BY <6>3
          <6>5. s.op = "drop"
            BY <1>1, <5>1, <6>1, <6>2, <6>4
          <6> QED BY <4>1, <6>5
        <5> QED BY <1>5, <4>1, <5>1, UpScripts, DownScripts
      <4>3. cli.step = 10
        <5>1. \A k \in 1 .. 9 : AutoUp[k].name \in Tables
          BY UpScripts, TableNames DEF Create, Statement
        <5>2. cli.step \in 1 .. 9 \/ cli.step = 10
          <6>1. cli.step \in 1 .. 10
            BY <1>3, <4>2, UpScripts
          <6> QED BY <6>1
        <5> QED BY <1>1, <3>1, <4>2, <5>1, <5>2, ObjectNames
      <4>4. \A k \in 1 .. 9 : AutoTables[k] \in schema'
        <5> TAKE k \in 1 .. 9
        <5>1. k \in 1 .. cli.step - 1 /\ Script[k] = Create(AutoTables[k])
          BY <4>2, <4>3, UpScripts
        <5>2. Effected(Script[k]) /\ Script[k].name # s.name /\ Script[k].name # ImplicitIndex
          BY <1>3, <5>1
        <5>3. AutoTables[k] \in schema /\ AutoTables[k] # s.name /\ AutoTables[k] # ImplicitIndex
          BY <5>1, <5>2 DEF Effected, Create, Statement
        <5> QED BY <1>4, <5>3
      <4> QED BY <4>4, TableNames DEF Range
    <3>2. CASE s.name # OwnerKey
      <4>1. OwnerKey \in schema
        BY <1>4, <2>2, <3>2, ObjectNames
      <4>2. Tables \subseteq schema
        BY <4>1, Parts, TableNames DEF SchemaShape
      <4>3. s.name \notin Tables \/ s.op = "create"
        <5>1. ASSUME s.name \in Tables, s.op = "drop" PROVE FALSE
          <6>1. Current = AutoMigration
            BY <1>6, <5>1
          <6>2. Script = AutoDown
            <7>1. \A k \in 1 .. 10 : AutoUp[k].op = "create"
              <8>1. \A k \in 1 .. 9 : AutoUp[k].op = "create"
                BY UpScripts DEF Create, Statement
              <8>2. AutoUp[10].op = "create"
                BY UpScripts DEF Create, Statement
              <8>3. \A k \in 1 .. 10 : k \in 1 .. 9 \/ k = 10
                OBVIOUS
              <8> QED BY <8>1, <8>2, <8>3
            <7>2. CASE Script = AutoUp
              <8>1. cli.step \in 1 .. 10
                BY <1>3, <7>2, UpScripts
              <8> QED BY <1>1, <5>1, <7>1, <7>2, <8>1
            <7> QED BY <1>5, <6>1, <7>2, UpScripts, DownScripts
          <6>3. AutoDown[1].name = OwnerKey /\ AutoDown[1].op = "drop" /\ Len(AutoDown) = 10
            BY DownScripts DEF Drop, Statement
          <6>4. cli.step # 1
            BY <1>1, <3>2, <6>2, <6>3
          <6>5. 1 \in 1 .. cli.step - 1
            <7>1. cli.step \in 1 .. 10
              BY <1>3, <6>2, <6>3
            <7> QED BY <6>4, <7>1
          <6>6. Effected(AutoDown[1])
            BY <1>3, <6>2, <6>5
          <6> QED BY <4>1, <6>3, <6>6 DEF Effected
        <5> QED BY <1>3, <5>1
      <4> QED BY <1>4, <4>2, <4>3, ObjectNames
    <3> QED BY <3>1, <3>2
  <2> QED BY <1>4, <2>1, <2>2, TableNames DEF SchemaShape
<1>11. RecordsInv'
  <2>1. torn' \subseteq recorded'
    <3>1. recorded \subseteq seen /\ (cli.mode = "down" => Current \in seen)
      <4>1. recorded \subseteq seen
        BY <1>3, Parts DEF CommandInv
      <4>2. cli.mode = "down" => Current \in seen
        BY <1>3, Parts, DownAt, MigrationNames
      <4> QED BY <4>1, <4>2
    <3> QED BY <1>2, <3>1, Parts
  <2>2. \A n \in seen \ torn' : Applied(n)'
    <3> TAKE n \in seen \ torn'
    <3>1. n \notin torn /\ (cli.mode = "down" => n # Current)
      BY <1>2
    <3>2. cli.mode = "up" => n # Current
      BY <1>3, Parts, UpAt, MigrationNames
    <3>3. n # Current
      BY <1>5, <3>1, <3>2
    <3>4. Applied(n)
      BY <3>1, Parts DEF RecordsInv
    <3> QED BY <1>1, <1>3, <1>4, <1>5, <3>3, <3>4, Parts, AppliedKept
  <2> QED BY <1>2, <2>1, <2>2, Parts DEF RecordsInv
<1>12. BlockedInv'
  <2> SUFFICES ASSUME cli.mode = "up"
               PROVE  /\ blocked <=> Ahead'
                      /\ (Current = AutoMigration /\ cli'.step \in 2 .. 10)
                           => OwnerKey \notin schema'
    BY <1>2, <1>3, <1>7, <1>9, TableNames DEF BlockedInv
  <2>1. /\ blocked <=> Ahead
        /\ (Current = AutoMigration /\ cli.step \in 2 .. 10) => OwnerKey \notin schema
    BY <1>3, Parts, TableNames DEF BlockedInv
  <2>2. Messages \in schema' <=> Messages \in schema
    BY <1>3, <1>4, ObjectNames
  <2>3. Script = Up(Current)
    BY <1>3, Parts, UpAt
  <2>4. CASE Current = Cleanup
    <3>1. schema' \cap Tables = schema \cap Tables
      BY <1>4, <1>6, <2>4, MigrationNames, ObjectNames
    <3>2. cli.step = 1 => ~LastServing(OldIndex)
      <4>1. Script[1].name = OldIndex /\ Script[1].op = "drop"
        BY <2>3, <2>4, UpScripts DEF DropIfPresent, Statement
      <4> QED BY <1>1, <1>2, <4>1 DEF Possible
    <3>3. cli'.step # 1
      BY <1>3, <1>9
    <3> QED BY <1>7, <2>1, <2>2, <2>4, <3>1, <3>2, <3>3, MigrationNames, TableNames DEF Ahead
  <2>5. CASE Current = AutoMigration
    <3>1. Script = AutoUp /\ cli.step \in 1 .. 10
      <4>1. Script = AutoUp /\ Len(AutoUp) = 10
        BY <2>3, <2>5, UpScripts
      <4> QED BY <1>3, <4>1
    <3>2. CASE cli.step \in 1 .. 9
      <4>1. s.op = "create" /\ s.name = AutoTables[cli.step]
        BY <1>1, <3>1, <3>2, UpScripts DEF Create, Statement
      <4>2. AutoTables[cli.step] \notin schema
        BY <1>2, <4>1 DEF Possible
      <4>3. \A k \in 1 .. 9 : k # cli.step =>
              (AutoTables[k] \in schema' <=> AutoTables[k] \in schema)
        <5> TAKE k \in 1 .. 9
        <5>1. k # cli.step => AutoTables[k] # s.name
          BY <3>2, <4>1, TableNames
        <5>2. AutoTables[k] # ImplicitIndex
          BY TableNames, ObjectNames
        <5> QED BY <1>4, <5>1, <5>2
      <4>4. (\E k \in 1 .. 9 : k >= cli.step /\ AutoTables[k] \in schema)
              <=> (\E k \in 1 .. 9 : k >= cli.step + 1 /\ AutoTables[k] \in schema')
        <5>1. \A k \in 1 .. 9 : k >= cli.step /\ k # cli.step <=> k >= cli.step + 1
          BY <3>2
        <5> QED BY <4>2, <4>3, <5>1
      <4>5. OwnerKey \notin schema
        <5>1. CASE cli.step = 1
          <6>1. AutoTables[1] \in Tables /\ AutoTables[1] \notin schema
            BY <4>2, <5>1, TableNames
          <6> QED BY <6>1, Parts, TableNames DEF SchemaShape
        <5>2. CASE cli.step # 1
          <6>1. cli.step \in 2 .. 10
            BY <3>2, <5>2
          <6> QED BY <2>1, <2>5, <6>1
        <5> QED BY <5>1, <5>2
      <4>6. OwnerKey \notin schema'
        <5>1. s.name \in Tables
          BY <3>2, <4>1, TableNames
        <5> QED BY <1>4, <4>5, <5>1, ObjectNames
      <4> QED BY <1>7, <1>9, <2>1, <2>2, <2>5, <4>4, <4>6, MigrationNames, TableNames DEF Ahead
    <3>3. CASE cli.step = 10
      <4>1. (~\E k \in 1 .. 9 : k >= 10 /\ AutoTables[k] \in schema)
            /\ (~\E k \in 1 .. 9 : k >= 11 /\ AutoTables[k] \in schema')
        OBVIOUS
      <4>2. cli'.step = 11
        BY <1>9, <3>3
      <4> QED BY <1>7, <2>1, <2>2, <2>5, <3>3, <4>1, <4>2, MigrationNames, TableNames DEF Ahead
    <3>4. cli.step \in 1 .. 9 \/ cli.step = 10
      BY <3>1
    <3> QED BY <3>2, <3>3, <3>4
  <2>6. CASE Current \in {Ensure, DropDup}
    BY <1>7, <2>1, <2>2, <2>6, MigrationNames DEF Ahead
  <2> QED BY <1>5, <2>4, <2>5, <2>6, MigrationNames
<1> QED BY <1>2, <1>9, <1>10, <1>11, <1>12, Parts DEF MigrationsInv

LEMMA SkipInv == ASSUME MigrationsInv, Skip PROVE MigrationsInv'
<1>1. PICK s : s = Script[cli.step]
  OBVIOUS
<1>2. /\ AtStatement /\ ~Needed(s) /\ cli' = [cli EXCEPT !.step = @ + 1]
      /\ UNCHANGED <<schema, recorded, seen, inTx, result, crashes, blocked, torn>>
  BY <1>1 DEF Skip
<1>3. /\ cli # IdleCommand /\ cli.todo # {} /\ cli.step \in 1 .. Len(Script)
      /\ Len(Script) \in 0 .. 10 /\ s.op \in {"create", "drop"}
      /\ \A k \in 1 .. cli.step - 1 : Effected(Script[k])
  BY <1>1, <1>2, Parts, StatementAt
<1>4. s.checked /\ Effected(s)
  BY <1>2 DEF Needed, Effected
<1>5. Current' = Current /\ Script' = Script
  <2>1. cli \in [mode : {"up", "down"}, todo : SUBSET All, step : Nat \ {0}]
    BY <1>3, Parts DEF CommandInv
  <2>2. cli'.todo = cli.todo /\ cli'.mode = cli.mode
    BY <1>2, <2>1
  <2> QED BY <2>2 DEF Current, Script
<1>6. \A k \in 1 .. cli.step : Effected(Script[k])'
  <2> TAKE k \in 1 .. cli.step
  <2>1. PICK t : t = Script[k]
    OBVIOUS
  <2>2. k \in 1 .. cli.step - 1 \/ k = cli.step
    BY <1>3
  <2>3. Effected(t)
    BY <1>1, <1>3, <1>4, <2>1, <2>2
  <2>4. Script'[k] = t /\ schema' = schema
    BY <1>2, <1>5, <2>1
  <2> QED BY <2>3, <2>4 DEF Effected
<1>7. /\ CommandInv' /\ cli' # IdleCommand /\ cli'.step = cli.step + 1
      /\ cli'.todo = cli.todo /\ cli'.mode = cli.mode
  <2>1. recorded' \subseteq seen
    BY <1>2, <1>3, Parts DEF CommandInv
  <2> QED BY <1>2, <1>6, <2>1, Parts, CommandOn
<1>8. SchemaShape' /\ RecordsInv'
  <2>1. SchemaShape'
    BY <1>2, Parts DEF SchemaShape
  <2>2. \A n : Applied(n)' <=> Applied(n)
    BY <1>2 DEF Applied
  <2> QED BY <1>2, <1>7, <2>1, <2>2, Parts DEF RecordsInv
<1>9. BlockedInv'
  <2> SUFFICES ASSUME cli.mode = "up"
               PROVE  /\ blocked <=> Ahead'
                      /\ (Current = AutoMigration /\ cli'.step \in 2 .. 10)
                           => OwnerKey \notin schema'
    BY <1>2, <1>3, <1>5, <1>7, TableNames DEF BlockedInv
  <2>1. blocked <=> Ahead
    BY <1>3, Parts DEF BlockedInv
  <2>2. Script = Up(Current)
    BY <1>3, Parts, UpAt
  <2>3. Current # AutoMigration
    <3>1. CASE Current = AutoMigration
      <4>1. Script = AutoUp /\ Len(AutoUp) = 10
        BY <2>2, <3>1, UpScripts
      <4>2. cli.step \in 1 .. 9 \/ cli.step = 10
        BY <1>3, <4>1
      <4>3. ~s.checked
        BY <1>1, <4>1, <4>2, UpScripts DEF Create, Statement
      <4> QED BY <1>4, <4>3
    <3> QED BY <3>1
  <2>4. (Current = Cleanup /\ cli.step = 1) => ~LastServing(OldIndex)
    <3> HAVE Current = Cleanup /\ cli.step = 1
    <3>1. s = DropIfPresent(OldIndex)
      BY <1>1, <2>2, UpScripts
    <3>2. OldIndex \notin schema
      BY <1>4, <3>1 DEF Effected, DropIfPresent, Statement
    <3> QED BY <3>2 DEF LastServing, Serving
  <2>5. cli'.step # 1
    BY <1>3, <1>7
  <2> QED BY <1>2, <1>5, <2>1, <2>3, <2>4, <2>5 DEF Ahead
<1> QED BY <1>2, <1>7, <1>8, <1>9, Parts DEF MigrationsInv

(* An ended command leaves a table of migrations as far as it came.        *)
LEMMA EndedInv ==
  ASSUME MigrationsInv, cli' = IdleCommand, UNCHANGED <<schema, blocked>>,
         result' \in {"none", "done", "failed", "crashed"}, crashes' \in 0 .. MaxCrashes,
         seen' = recorded', recorded' \in {seen, recorded}, torn' \subseteq torn,
         torn' \subseteq recorded', torn \cap recorded' \subseteq torn'
  PROVE  MigrationsInv'
<1>1. SchemaShape'
  BY Parts DEF SchemaShape
<1>2. \A n : Applied(n)' <=> Applied(n)
  BY DEF Applied
<1>3. \A n \in recorded' \ torn' : n \in (recorded \cup seen) \ torn
  OBVIOUS
<1>4. RecordsInv'
  BY <1>2, <1>3, Parts DEF RecordsInv
<1>5. cli'.mode # "up"
  BY DEF IdleCommand
<1>6. BlockedInv'
  BY <1>5 DEF BlockedInv
<1>7. CommandInv'
  BY DEF CommandInv
<1> QED BY <1>1, <1>4, <1>6, <1>7, Parts DEF MigrationsInv

LEMMA StatementFailsInv == ASSUME MigrationsInv, StatementFails PROVE MigrationsInv'
<1>1. /\ AtStatement /\ recorded' = seen /\ cli' = IdleCommand /\ result' = "failed"
      /\ UNCHANGED <<schema, seen, crashes, blocked, torn>>
  BY DEF StatementFails, Ended
<1>2. recorded \subseteq seen
  <2>1. cli # IdleCommand /\ cli.todo # {}
    BY <1>1 DEF AtStatement
  <2> QED BY <2>1, Parts DEF CommandInv
<1> QED BY <1>1, <1>2, Parts, EndedInv

LEMMA CommitInv == ASSUME MigrationsInv, Commit PROVE MigrationsInv'
<1>1. /\ recorded' = seen /\ cli' = IdleCommand /\ result' = "done" /\ torn' = torn \cap seen
      /\ UNCHANGED <<schema, seen, crashes, blocked>>
  BY DEF Commit, Ended
<1> QED BY <1>1, Parts, EndedInv

LEMMA CrashInv == ASSUME MigrationsInv, Crash PROVE MigrationsInv'
<1>1. /\ crashes < MaxCrashes /\ crashes' = crashes + 1 /\ seen' = recorded
      /\ cli' = IdleCommand /\ result' = "crashed"
      /\ UNCHANGED <<schema, recorded, blocked, torn>>
  BY DEF Crash, Ended
<1>2. crashes' \in 0 .. MaxCrashes
  BY <1>1, Parts, MigrationsAssumption
<1> QED BY <1>1, <1>2, Parts, EndedInv

(* A command begins with what was committed.                               *)
LEMMA RunInv == ASSUME MigrationsInv, Run PROVE MigrationsInv'
<1>1. /\ cli = IdleCommand /\ cli' = [mode |-> "up", todo |-> All \ recorded, step |-> 1]
      /\ inTx' = TRUE /\ seen' = recorded /\ blocked' = Obstacle /\ result' = "none"
      /\ UNCHANGED <<schema, recorded, crashes, torn>>
  BY DEF Run, Pending, All
<1>2. SchemaShape' /\ RecordsInv'
  <2>1. SchemaShape'
    BY <1>1, Parts DEF SchemaShape
  <2>2. \A n : Applied(n)' <=> Applied(n)
    BY <1>1 DEF Applied
  <2> QED BY <1>1, <2>1, <2>2, Parts DEF RecordsInv
<1>3. /\ cli'.mode = "up" /\ cli'.step = 1 /\ cli'.todo = All \ recorded
      /\ cli' \in [mode : {"up", "down"}, todo : SUBSET All, step : Nat \ {0}]
  BY <1>1
<1>4. \/ recorded = All /\ cli'.todo = {}
      \/ Current' = Cleanup /\ recorded = {}
      \/ Current' = AutoMigration /\ recorded = {Cleanup}
      \/ Current' = Ensure /\ recorded = {Cleanup, AutoMigration}
      \/ Current' = DropDup /\ recorded = {Cleanup, AutoMigration, Ensure}
  <2>1. Current' = First(All \ recorded)
    BY <1>3 DEF Current
  <2>2. CASE recorded = {}
    <3>1. All \ recorded = {Cleanup, AutoMigration, Ensure, DropDup}
      BY <2>2, MigrationNames
    <3> QED BY <2>1, <2>2, <3>1, NextOne
  <2>3. CASE recorded = {Cleanup}
    <3>1. All \ recorded = {AutoMigration, Ensure, DropDup}
      BY <2>3, MigrationNames
    <3> QED BY <2>1, <2>3, <3>1, NextOne
  <2>4. CASE recorded = {Cleanup, AutoMigration}
    <3>1. All \ recorded = {Ensure, DropDup}
      BY <2>4, MigrationNames
    <3> QED BY <2>1, <2>4, <3>1, NextOne
  <2>5. CASE recorded = {Cleanup, AutoMigration, Ensure}
    <3>1. All \ recorded = {DropDup}
      BY <2>5, MigrationNames
    <3> QED BY <2>1, <2>5, <3>1, NextOne, MigrationNames
  <2>6. CASE recorded = All
    BY <1>3, <2>6
  <2> QED BY <2>2, <2>3, <2>4, <2>5, <2>6, Parts DEF Prefixes
<1>5. CommandInv'
  <2>1. cli'.todo # {} => cli'.step <= Len(Script') + 1
    <3> HAVE cli'.todo # {}
    <3>1. Script' = Up(Current') /\ Current' \in All
      BY <1>1, <1>3, <1>4, MigrationNames DEF Script
    <3>2. Len(Script') \in 0 .. 10
      BY <3>1, ProperScripts DEF ProperScript
    <3>3. PICK n \in 0 .. 10 : n = Len(Script')
      BY <3>2
    <3> QED BY <1>3, <3>3
  <2>2. \A k \in 1 .. cli'.step - 1 : FALSE
    BY <1>3
  <2> QED BY <1>1, <1>3, <2>1, <2>2 DEF CommandInv
<1>6. BlockedInv'
  <2>1. Pending = All \ recorded
    BY DEF Pending, All
  <2>2. cli'.step \notin 2 .. Len(AutoTables) + 1
    BY <1>3, TableNames
  <2>3. (\E k \in DOMAIN AutoTables : k >= 1 /\ AutoTables[k] \in schema)
          <=> schema \cap Range(AutoTables) # {}
    BY TableNames DEF Range
  <2>4. Ahead' <=> \/ Messages \notin schema
                   \/ Current' = Cleanup /\ LastServing(OldIndex)
                   \/ Current' = Cleanup /\ schema \cap Range(AutoTables) # {}
                   \/ Current' = AutoMigration /\ schema \cap Range(AutoTables) # {}
    BY <1>1, <1>3, <2>3 DEF Ahead, LastServing, Serving
  <2>5. Obstacle <=> (All \ recorded # {} /\ Ahead')
    <3>1. CASE recorded = All
      BY <2>1, <3>1, MigrationNames DEF Obstacle
    <3>2. CASE Current' = Cleanup /\ recorded = {}
      BY <2>1, <2>4, <3>2, MigrationNames DEF Obstacle
    <3>3. CASE Current' = AutoMigration /\ recorded = {Cleanup}
      BY <2>1, <2>4, <3>3, MigrationNames DEF Obstacle
    <3>4. CASE Current' = Ensure /\ recorded = {Cleanup, AutoMigration}
      BY <2>1, <2>4, <3>4, MigrationNames DEF Obstacle
    <3>5. CASE Current' = DropDup /\ recorded = {Cleanup, AutoMigration, Ensure}
      BY <2>1, <2>4, <3>5, MigrationNames DEF Obstacle
    <3> QED BY <1>4, <3>1, <3>2, <3>3, <3>4, <3>5
  <2>6. blocked' <=> (cli'.todo # {} /\ Ahead')
    BY <1>1, <1>3, <2>5
  <2> QED BY <2>2, <2>6 DEF BlockedInv
<1>7. blocked' \in BOOLEAN
  BY <1>1 DEF Obstacle
<1> QED BY <1>1, <1>2, <1>5, <1>6, <1>7, Parts DEF MigrationsInv

LEMMA RevertInv == ASSUME MigrationsInv, Revert PROVE MigrationsInv'
<1>1. /\ cli = IdleCommand /\ recorded # {}
      /\ cli' = [mode |-> "down", todo |-> {Latest(recorded)}, step |-> 1]
      /\ inTx' = TRUE /\ seen' = recorded /\ result' = "none"
      /\ UNCHANGED <<schema, recorded, crashes, blocked, torn>>
  BY DEF Revert
<1>2. SchemaShape' /\ RecordsInv'
  <2>1. SchemaShape'
    BY <1>1, Parts DEF SchemaShape
  <2>2. \A n : Applied(n)' <=> Applied(n)
    BY <1>1 DEF Applied
  <2> QED BY <1>1, <2>1, <2>2, Parts DEF RecordsInv
<1>3. Latest(recorded) \in All /\ First({Latest(recorded)}) = Latest(recorded)
  BY <1>1, Parts, PrefixProps
<1>4. /\ cli'.mode = "down" /\ cli'.step = 1 /\ cli'.todo = {Latest(recorded)}
      /\ cli' \in [mode : {"up", "down"}, todo : SUBSET All, step : Nat \ {0}]
  BY <1>1, <1>3
<1>5. CommandInv'
  <2>1. cli'.step <= Len(Script') + 1
    <3>1. Script' = Down(Current') /\ Current' \in All
      BY <1>3, <1>4 DEF Script, Current
    <3>2. Len(Script') \in 0 .. 10
      BY <3>1, ProperScripts DEF ProperScript
    <3>3. PICK n \in 0 .. 10 : n = Len(Script')
      BY <3>2
    <3> QED BY <1>4, <3>3
  <2>2. \A k \in 1 .. cli'.step - 1 : FALSE
    BY <1>4
  <2> QED BY <1>1, <1>4, <2>1, <2>2 DEF CommandInv
<1>6. BlockedInv'
  BY <1>4 DEF BlockedInv
<1> QED BY <1>1, <1>2, <1>5, <1>6, Parts DEF MigrationsInv

(* A migration all of whose statements are behind it.                      *)
LEMMA ScriptOver ==
  ASSUME RecordsInv, CommandInv, cli # IdleCommand, cli.todo # {}, cli.step > Len(Script)
  PROVE  \A k \in 1 .. Len(Script) : Effected(Script[k])
<1>1. /\ cli.step \in 1 .. Len(Script) + 1 /\ ProperScript(Script)
      /\ \A k \in 1 .. cli.step - 1 : Effected(Script[k])
  BY ScriptAt
<1>2. PICK n \in 0 .. 10 : n = Len(Script)
  BY <1>1 DEF ProperScript
<1>3. cli.step = n + 1
  BY <1>1, <1>2
<1> QED BY <1>1, <1>2, <1>3

(* What recording one migration of a run leaves to be done.                *)
LEMMA RecordUp ==
  ASSUME MigrationsInv, Record, cli.mode = "up"
  PROVE  /\ seen' = seen \cup {Current} /\ seen' \in Prefixes
         /\ cli'.todo = All \ seen' /\ cli'.step = 1 /\ cli'.mode = "up"
         /\ Script = Up(Current) /\ Current \in All
         /\ \A k \in 1 .. Len(Script) : Effected(Script[k])
         /\ \/ Current = Cleanup /\ Current' = AutoMigration /\ cli'.todo # {}
            \/ Current = AutoMigration /\ Current' = Ensure /\ cli'.todo # {}
            \/ Current = Ensure /\ Current' = DropDup /\ cli'.todo # {}
            \/ Current = DropDup /\ cli'.todo = {}
<1>1. /\ cli # IdleCommand /\ cli.todo # {} /\ cli.step > Len(Script)
      /\ seen' = seen \cup {Current}
      /\ cli' = [cli EXCEPT !.todo = @ \ {Current}, !.step = 1]
  BY DEF Record
<1>2. /\ cli \in [mode : {"up", "down"}, todo : SUBSET All, step : Nat \ {0}]
      /\ cli.todo = All \ seen
  BY <1>1, Parts DEF CommandInv
<1>3. cli'.todo = (All \ seen) \ {Current} /\ cli'.step = 1 /\ cli'.mode = "up"
  BY <1>1, <1>2
<1>4. /\ Script = Up(Current)
      /\ \/ Current = Cleanup /\ seen = {}
         \/ Current = AutoMigration /\ seen = {Cleanup}
         \/ Current = Ensure /\ seen = {Cleanup, AutoMigration}
         \/ Current = DropDup /\ seen = {Cleanup, AutoMigration, Ensure}
  BY <1>1, Parts, UpAt
<1>5. \A k \in 1 .. Len(Script) : Effected(Script[k])
  BY <1>1, Parts, ScriptOver
<1>6. Current' = First(cli'.todo)
  BY DEF Current
<1>7. CASE Current = Cleanup /\ seen = {}
  <2>1. seen' = {Cleanup} /\ cli'.todo = {AutoMigration, Ensure, DropDup}
    BY <1>1, <1>3, <1>7, MigrationNames
  <2>2. Current' = AutoMigration /\ cli'.todo # {} /\ cli'.todo = All \ seen'
    BY <1>6, <2>1, NextOne, MigrationNames
  <2> QED BY <1>1, <1>3, <1>4, <1>5, <1>7, <2>1, <2>2, MigrationNames DEF Prefixes
<1>8. CASE Current = AutoMigration /\ seen = {Cleanup}
  <2>1. seen' = {Cleanup, AutoMigration} /\ cli'.todo = {Ensure, DropDup}
    BY <1>1, <1>3, <1>8, MigrationNames
  <2>2. Current' = Ensure /\ cli'.todo # {} /\ cli'.todo = All \ seen'
    BY <1>6, <2>1, NextOne, MigrationNames
  <2> QED BY <1>1, <1>3, <1>4, <1>5, <1>8, <2>1, <2>2, MigrationNames DEF Prefixes
<1>9. CASE Current = Ensure /\ seen = {Cleanup, AutoMigration}
  <2>1. seen' = {Cleanup, AutoMigration, Ensure} /\ cli'.todo = {DropDup}
    BY <1>1, <1>3, <1>9, MigrationNames
  <2>2. Current' = DropDup /\ cli'.todo # {} /\ cli'.todo = All \ seen'
    BY <1>6, <2>1, NextOne, MigrationNames
  <2> QED BY <1>1, <1>3, <1>4, <1>5, <1>9, <2>1, <2>2, MigrationNames DEF Prefixes
<1>10. CASE Current = DropDup /\ seen = {Cleanup, AutoMigration, Ensure}
  <2>1. seen' = All /\ cli'.todo = {} /\ cli'.todo = All \ seen'
    BY <1>1, <1>3, <1>10, MigrationNames
  <2> QED BY <1>1, <1>3, <1>4, <1>5, <1>10, <2>1, MigrationNames DEF Prefixes
<1> QED BY <1>4, <1>7, <1>8, <1>9, <1>10

(* Recording keeps the order, and records what is in the schema.           *)
LEMMA RecordInv == ASSUME MigrationsInv, Record PROVE MigrationsInv'
<1>1. /\ cli # IdleCommand /\ cli.todo # {} /\ cli.step > Len(Script)
      /\ recorded' = IF inTx THEN recorded ELSE seen'
      /\ cli' = [cli EXCEPT !.todo = @ \ {Current}, !.step = 1]
      /\ torn' = torn \cap recorded'
      /\ UNCHANGED <<schema, inTx, result, crashes, blocked>>
  BY DEF Record
<1>2. /\ cli \in [mode : {"up", "down"}, todo : SUBSET All, step : Nat \ {0}]
      /\ result = "none" /\ recorded \subseteq seen
  BY <1>1, Parts DEF CommandInv
<1>3. /\ cli'.todo = cli.todo \ {Current} /\ cli'.step = 1 /\ cli'.mode = cli.mode
      /\ cli' \in [mode : {"up", "down"}, todo : SUBSET All, step : Nat \ {0}]
  <2>1. PICK c : c = Current
    OBVIOUS
  <2>2. cli' = [cli EXCEPT !.todo = @ \ {c}, !.step = 1]
    BY <1>1, <2>1
  <2>3. cli.todo \ {c} \in SUBSET All /\ 1 \in Nat \ {0}
    BY <1>2
  <2>4. cli' = [mode |-> cli.mode, todo |-> cli.todo \ {c}, step |-> 1]
    BY <1>2, <2>2
  <2> QED BY <1>2, <2>1, <2>3, <2>4
<1>4. SchemaShape'
  BY <1>1, Parts DEF SchemaShape
<1>5. \A n : Applied(n)' <=> Applied(n)
  BY <1>1 DEF Applied
<1>6. \A n \in (recorded \cup seen) \ torn : Applied(n)
  BY Parts DEF RecordsInv
<1>7. torn \subseteq recorded
  BY Parts
<1>8. CASE cli.mode = "up"
  <2>1. /\ seen' = seen \cup {Current} /\ seen' \in Prefixes
        /\ cli'.todo = All \ seen'
        /\ Script = Up(Current) /\ Current \in All
        /\ \A k \in 1 .. Len(Script) : Effected(Script[k])
        /\ \/ Current = Cleanup /\ Current' = AutoMigration /\ cli'.todo # {}
           \/ Current = AutoMigration /\ Current' = Ensure /\ cli'.todo # {}
           \/ Current = Ensure /\ Current' = DropDup /\ cli'.todo # {}
           \/ Current = DropDup /\ cli'.todo = {}
    BY <1>8, RecordUp
  <2>2. PICK m \in All : m = Current
    BY <2>1
  <2>3. Applied(m) /\ (m = DropDup => MainKey \in schema)
    BY <2>1, <2>2, ScriptApplies
  <2>4. RecordsInv'
    <3>1. recorded' \in {recorded, seen'}
      BY <1>1
    <3>2. \A n \in (recorded' \cup seen') \ torn' : n = m \/ n \in (recorded \cup seen) \ torn
      BY <1>1, <1>7, <2>1, <2>2, <3>1
    <3>3. \A n \in (recorded' \cup seen') \ torn' : Applied(n)'
      BY <1>5, <1>6, <2>3, <3>2
    <3>4. (cli'.mode = "idle" \/ ~inTx') => seen' = recorded'
      BY <1>1, <1>3, <1>8
    <3> QED BY <1>1, <2>1, <3>1, <3>3, <3>4, Parts DEF RecordsInv
  <2>5. CommandInv'
    <3>1. cli'.todo # {} => cli'.step <= Len(Script') + 1
      <4> HAVE cli'.todo # {}
      <4>1. Script' = Up(Current') /\ Current' \in All
        BY <1>3, <1>8, <2>1, MigrationNames DEF Script
      <4>2. Len(Script') \in 0 .. 10
        BY <4>1, ProperScripts DEF ProperScript
      <4>3. PICK n \in 0 .. 10 : n = Len(Script')
        BY <4>2
      <4> QED BY <1>3, <4>3
    <3>2. \A k \in 1 .. cli'.step - 1 : FALSE
      BY <1>3
    <3>3. recorded' \subseteq seen' /\ result' = "none" /\ cli'.mode # "down"
      BY <1>1, <1>2, <1>3, <1>8, <2>1
    <3> QED BY <1>3, <2>1, <3>1, <3>2, <3>3 DEF CommandInv
  <2>6. BlockedInv'
    <3>1. blocked <=> Ahead
      BY <1>1, <1>8, Parts DEF BlockedInv
    <3>2. cli'.step \notin 2 .. Len(AutoTables) + 1
      BY <1>3, TableNames
    <3>3. cli.step # 1 \/ Current # Cleanup
      <4> SUFFICES ASSUME Current = Cleanup PROVE cli.step # 1
        OBVIOUS
      <4>1. Script = CleanupUp /\ Len(CleanupUp) = 3
        BY <2>1, UpScripts
      <4> QED BY <1>1, <4>1
    <3>4. (\E k \in DOMAIN AutoTables : k >= 1 /\ AutoTables[k] \in schema)
            <=> schema \cap Range(AutoTables) # {}
      BY TableNames DEF Range
    <3>5. blocked' <=> (cli'.todo # {} /\ Ahead')
      <4>1. CASE Current = Cleanup /\ Current' = AutoMigration /\ cli'.todo # {}
        <5>1. Ahead <=> \/ Messages \notin schema
                        \/ schema \cap Range(AutoTables) # {}
          BY <3>3, <4>1, MigrationNames DEF Ahead
        <5>2. Ahead' <=> \/ Messages \notin schema
                         \/ schema \cap Range(AutoTables) # {}
          BY <1>1, <1>3, <3>4, <4>1, MigrationNames DEF Ahead
        <5> QED BY <1>1, <3>1, <4>1, <5>1, <5>2
      <4>2. CASE Current = AutoMigration /\ Current' = Ensure /\ cli'.todo # {}
        <5>1. ~ \E k \in DOMAIN AutoTables : k >= cli.step /\ AutoTables[k] \in schema
          <6>1. Script = AutoUp /\ Len(AutoUp) = 10
            BY <2>1, <4>2, UpScripts
          <6>2. cli.step > 10 /\ cli.step \in Nat
            BY <1>1, <1>2, <6>1
          <6>3. ~ \E k \in 1 .. 9 : k >= cli.step
            BY <6>2
          <6> QED BY <6>3, TableNames
        <5>2. Ahead <=> Messages \notin schema
          BY <4>2, <5>1, MigrationNames DEF Ahead
        <5>3. Ahead' <=> Messages \notin schema
          BY <1>1, <4>2, MigrationNames DEF Ahead
        <5> QED BY <1>1, <3>1, <4>2, <5>2, <5>3
      <4>3. CASE Current = Ensure /\ Current' = DropDup /\ cli'.todo # {}
        <5>1. Ahead <=> Messages \notin schema
          BY <4>3, MigrationNames DEF Ahead
        <5>2. Ahead' <=> Messages \notin schema
          BY <1>1, <4>3, MigrationNames DEF Ahead
        <5> QED BY <1>1, <3>1, <4>3, <5>1, <5>2
      <4>4. CASE Current = DropDup /\ cli'.todo = {}
        <5>1. Messages \in schema
          BY <2>2, <2>3, <4>4, Parts, ObjectNames DEF SchemaShape
        <5>2. ~Ahead
          BY <4>4, <5>1, MigrationNames DEF Ahead
        <5> QED BY <1>1, <3>1, <4>4, <5>2
      <4> QED BY <2>1, <4>1, <4>2, <4>3, <4>4
    <3> QED BY <3>2, <3>5 DEF BlockedInv
  <2> QED BY <1>1, <1>4, <2>4, <2>5, <2>6, Parts DEF MigrationsInv
<1>9. CASE cli.mode = "down"
  <2>1. seen' = seen \ {Current} /\ cli.todo = {Current} /\ Current = Latest(seen) /\ seen # {}
    <3>1. cli.todo = {Current} /\ Current = Latest(seen)
      BY <1>1, <1>9, Parts, DownAt
    <3>2. seen # {}
      BY <1>1, <1>9, Parts DEF CommandInv
    <3> QED BY <1>9, <3>1, <3>2 DEF Record
  <2>2. seen' \in Prefixes /\ cli'.todo = {}
    <3>1. seen \ {Latest(seen)} \in Prefixes
      BY <2>1, Parts, PrefixProps
    <3> QED BY <1>3, <2>1, <3>1
  <2>3. RecordsInv'
    <3>1. recorded' \in {recorded, seen'}
      BY <1>1
    <3>2. \A n \in (recorded' \cup seen') \ torn' : n \in (recorded \cup seen) \ torn
      BY <1>1, <1>7, <2>1, <3>1
    <3>3. \A n \in (recorded' \cup seen') \ torn' : Applied(n)'
      BY <1>5, <1>6, <3>2
    <3>4. (cli'.mode = "idle" \/ ~inTx') => seen' = recorded'
      BY <1>1, <1>3, <1>9
    <3> QED BY <1>1, <2>2, <3>1, <3>3, <3>4, Parts DEF RecordsInv
  <2>4. CommandInv'
    BY <1>1, <1>2, <1>3, <1>9, <2>2 DEF CommandInv
  <2>5. BlockedInv'
    BY <1>3, <1>9 DEF BlockedInv
  <2> QED BY <1>1, <1>4, <2>3, <2>4, <2>5, Parts DEF MigrationsInv
<1> QED BY <1>2, <1>8, <1>9

LEMMA SchemaNextInv == ASSUME MigrationsInv, [SchemaNext]_schemaVars PROVE MigrationsInv'
<1>1. CASE SchemaNext
  BY <1>1, RunInv, RevertInv, SkipInv, ExecuteInv, StatementFailsInv, RecordInv, CommitInv,
     CrashInv DEF SchemaNext
<1>2. CASE UNCHANGED schemaVars
  <2>1. UNCHANGED <<schema, recorded, seen, inTx, cli, result, crashes, blocked, torn>>
    BY <1>2 DEF schemaVars
  <2>2. SchemaShape' /\ (\A n : Applied(n)' <=> Applied(n))
    BY <2>1, Parts DEF SchemaShape, Applied
  <2>3. Current' = Current /\ Script' = Script
    BY <2>1 DEF Current, Script
  <2>4. RecordsInv' /\ CommandInv' /\ BlockedInv'
    BY <2>1, <2>2, <2>3, Parts
    DEF RecordsInv, CommandInv, BlockedInv, Effected, Ahead, LastServing, Serving
  <2> QED BY <2>1, <2>2, <2>4, Parts DEF MigrationsInv
<1> QED BY <1>1, <1>2

(* Why MySQL refuses a guarded statement whose guard let it through.       *)
LEMMA Refused ==
  ASSUME SchemaShape, NEW s, s.op \in {"create", "drop"}, s.checked,
         s.name \in Indexes \cup MessageKeys, Needed(s), ~Possible(s)
  PROVE  \/ Messages \notin schema
         \/ s.op = "drop" /\ s.name \in Indexes /\ LastServing(s.name)
<1>1. s.op = "create" <=> s.name \notin schema
  BY DEF Needed
<1>2. Messages \notin schema \/ (s.op = "drop" /\ LastServing(s.name))
  BY <1>1 DEF Possible
<1>3. LastServing(s.name) => s.name \in Indexes
  BY DEF LastServing, Serving
<1> QED BY <1>2, <1>3

(* A statement of a run fails only at what the run was bound to fail at.   *)
LEMMA FailsBlocked ==
  ASSUME MigrationsInv, StatementFails, cli.mode = "up"
  PROVE  blocked
<1>1. PICK s : s = Script[cli.step]
  OBVIOUS
<1>2. AtStatement /\ Needed(s) /\ ~Possible(s)
  BY <1>1 DEF StatementFails
<1>3. /\ cli.todo # {} /\ cli.step \in 1 .. Len(Script)
      /\ Len(Script) \in 0 .. 10 /\ s.op \in {"create", "drop"}
  BY <1>1, <1>2, Parts, StatementAt
<1>4. /\ Script = Up(Current)
      /\ Current \in {Cleanup, AutoMigration, Ensure, DropDup}
  BY <1>3, Parts, UpAt
<1> SUFFICES Ahead
  BY <1>3, Parts DEF BlockedInv
<1>5. CASE Current = Cleanup
  <2>1. Script = CleanupUp /\ Len(CleanupUp) = 3
    BY <1>4, <1>5, UpScripts
  <2>2. cli.step \in {1, 2, 3}
    BY <1>3, <2>1
  <2>3. CASE cli.step = 1
    <3>1. s.op = "drop" /\ s.name = OldIndex /\ s.checked
      BY <1>1, <2>1, <2>3, UpScripts DEF DropIfPresent, Statement
    <3>2. OldIndex \in Indexes
      BY ObjectNames
    <3> QED BY <1>2, <1>5, <2>3, <3>1, <3>2, Parts, Refused DEF Ahead
  <2>4. CASE cli.step = 2
    <3>1. s.op = "create" /\ s.name = NewIndex /\ s.checked
      BY <1>1, <2>1, <2>4, UpScripts DEF CreateIfAbsent, Statement
    <3>2. NewIndex \in Indexes
      BY ObjectNames
    <3> QED BY <1>2, <3>1, <3>2, Parts, Refused DEF Ahead
  <2>5. CASE cli.step = 3
    <3>1. s.op = "drop" /\ s.name = DupKey /\ s.checked
      BY <1>1, <2>1, <2>5, UpScripts DEF DropIfPresent, Statement
    <3>2. DupKey \in MessageKeys /\ DupKey \notin Indexes
      BY ObjectNames
    <3> QED BY <1>2, <3>1, <3>2, Parts, Refused DEF Ahead
  <2> QED BY <2>2, <2>3, <2>4, <2>5
<1>6. CASE Current = AutoMigration
  <2>1. Script = AutoUp /\ Len(AutoUp) = 10
    BY <1>4, <1>6, UpScripts
  <2>2. cli.step \in 1 .. 9 \/ cli.step = 10
    BY <1>3, <2>1
  <2>3. CASE cli.step \in 1 .. 9
    <3>1. s.op = "create" /\ s.name = AutoTables[cli.step]
      BY <1>1, <2>1, <2>3, UpScripts DEF Create, Statement
    <3>2. s.name \notin Indexes \cup MessageKeys
      BY <2>3, <3>1, TableNames, ObjectNames
    <3>3. AutoTables[cli.step] \in schema
      BY <1>2, <3>1, <3>2 DEF Possible
    <3>4. cli.step \in DOMAIN AutoTables /\ cli.step >= cli.step
      BY <2>3, TableNames
    <3> QED BY <1>6, <3>3, <3>4 DEF Ahead
  <2>4. CASE cli.step = 10
    <3>1. s.op = "create" /\ s.name = OwnerKey
      BY <1>1, <2>1, <2>4, UpScripts DEF Create, Statement
    <3>2. OwnerKey \notin Indexes \cup MessageKeys
      BY ObjectNames
    <3>3. 10 \in 2 .. Len(AutoTables) + 1
      BY TableNames
    <3>4. OwnerKey \notin schema
      BY <1>3, <1>6, <2>4, <3>3, Parts DEF BlockedInv
    <3> QED BY <1>2, <3>1, <3>2, <3>4 DEF Possible
  <2> QED BY <2>2, <2>3, <2>4
<1>7. CASE Current = Ensure
  <2>1. Script = EnsureUp /\ Len(EnsureUp) = 1
    BY <1>4, <1>7, UpScripts
  <2>2. cli.step = 1
    BY <1>3, <2>1
  <2>3. s.op = "create" /\ s.name = NewIndex /\ s.checked
    BY <1>1, <2>1, <2>2, UpScripts DEF CreateIfAbsent, Statement
  <2>4. NewIndex \in Indexes
    BY ObjectNames
  <2> QED BY <1>2, <2>3, <2>4, Parts, Refused DEF Ahead
<1>8. CASE Current = DropDup
  <2>1. Script = DropDupUp /\ Len(DropDupUp) = 2
    BY <1>4, <1>8, UpScripts
  <2>2. cli.step = 1 \/ cli.step = 2
    BY <1>3, <2>1
  <2>3. CASE cli.step = 1
    <3>1. s.op = "create" /\ s.name = MainKey /\ s.checked
      BY <1>1, <2>1, <2>3, UpScripts DEF CreateIfAbsent, Statement
    <3>2. MainKey \in MessageKeys
      BY ObjectNames
    <3> QED BY <1>2, <3>1, <3>2, Parts, Refused DEF Ahead
  <2>4. CASE cli.step = 2
    <3>1. s.op = "drop" /\ s.name = DupKey /\ s.checked
      BY <1>1, <2>1, <2>4, UpScripts DEF DropIfPresent, Statement
    <3>2. DupKey \in MessageKeys /\ DupKey \notin Indexes
      BY ObjectNames
    <3> QED BY <1>2, <3>1, <3>2, Parts, Refused DEF Ahead
  <2> QED BY <2>2, <2>3, <2>4
<1> QED BY <1>4, <1>5, <1>6, <1>7, <1>8

LEMMA RunStep ==
  ASSUME MigrationsInv, [SchemaNext]_schemaVars, cli.mode = "up"
  PROVE  /\ result' = "failed" => blocked
         /\ result' = "done" => ~blocked /\ recorded' = All
<1>1. cli # IdleCommand
  BY DEF IdleCommand
<1>2. result = "none" /\ cli.todo = All \ seen
  BY <1>1, Parts DEF CommandInv
<1>3. CASE StatementFails
  BY <1>3, FailsBlocked DEF StatementFails, Ended
<1>4. CASE Commit
  <2>1. cli.todo = {} /\ recorded' = seen /\ result' = "done"
    BY <1>4 DEF Commit, Ended
  <2>2. seen = All
    BY <1>2, <2>1, Parts, PrefixProps
  <2>3. ~blocked
    BY <2>1, Parts DEF BlockedInv
  <2> QED BY <2>1, <2>2, <2>3
<1>5. CASE Crash
  BY <1>5 DEF Crash, Ended
<1>6. CASE Skip \/ Execute \/ Record
  BY <1>2, <1>6 DEF Skip, Execute, Record
<1>7. CASE Run \/ Revert
  BY <1>1, <1>7 DEF Run, Revert
<1>8. CASE UNCHANGED schemaVars
  BY <1>2, <1>8 DEF schemaVars
<1> QED BY <1>3, <1>4, <1>5, <1>6, <1>7, <1>8 DEF SchemaNext

LEMMA MigrationsInvariant == MigrationsSpec => []MigrationsInv
<1>1. SchemaInit => MigrationsInv
  BY SchemaInitInv
<1>2. MigrationsInv /\ [SchemaNext]_schemaVars => MigrationsInv'
  BY SchemaNextInv
<1> QED BY <1>1, <1>2, PTL DEF MigrationsSpec

(* The types, through any number of runs that die: with the transaction    *)
(* gone, the migrations table holds all the running command has written.   *)
THEOREM SchemaTypes == MigrationsSpec => []SchemaTypeOK
<1>1. MigrationsInv => SchemaTypeOK
  BY TypesFollow
<1> QED BY <1>1, MigrationsInvariant, PTL

(* Whatever failed, died or was reverted, a migration that is recorded is  *)
(* in the schema, unless its own revert was cut short.                     *)
THEOREM AppliedHolds == MigrationsSpec => []RecordedIsApplied
<1>1. MigrationsInv => RecordedIsApplied
  BY Parts DEF RecordedIsApplied, RecordsInv
<1> QED BY <1>1, MigrationsInvariant, PTL

(* A run that does not die fails exactly when it met, as it began, what it *)
(* cannot get past; otherwise it has recorded every migration.             *)
THEOREM RunsEnd == MigrationsSpec => RunsUnlessBlocked
<1>1. ASSUME MigrationsInv, [SchemaNext]_schemaVars
      PROVE  [cli.mode = "up" =>
                /\ result' = "failed" => blocked
                /\ result' = "done" => ~blocked /\ recorded' = Range(Migrations)]_schemaVars
  BY <1>1, RunStep DEF All
<1> QED BY <1>1, MigrationsInvariant, PTL DEF MigrationsSpec, RunsUnlessBlocked
=============================================================================
