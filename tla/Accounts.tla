------------------------------- MODULE Accounts -------------------------------
(***************************************************************************)
(* The users table and the calls that read and write it: register, login,  *)
(* refresh and the development reset of auth.service.ts, and the mark the  *)
(* university verification makes through users.service.ts.                 *)
(*                                                                         *)
(* A slot serves one call at a time; between two awaits of its handler the *)
(* other slots run.  A row is found by its address, which is unique over   *)
(* all rows, the softly deleted ones too, and no row ever leaves the table,*)
(* so an address names an account.  A password and its hash are one value. *)
(***************************************************************************)
EXTENDS Integers, Functions

CONSTANTS Addresses,   \* normalised e-mail addresses
          Passwords,
          Calls,       \* slots of concurrently served calls
          Development, \* NODE_ENV is "development"
          None         \* no row, no value

VARIABLES users,   \* the row of an address, or None
          tokens,  \* accounts whose tokens somebody holds
          call,    \* the handler each slot runs and the entity it holds
          reply,   \* what each slot answered last
          told,    \* for the properties: what the answers say is stored
          clean,   \* for the properties: nobody wrote the row since it was read
          wins     \* for the properties: registrations answered with tokens

vars == <<users, tokens, call, reply, told, clean, wins>>
history == <<told, clean, wins>>

Columns == {"pw", "verified", "deleted"}
Rows == [pw : Passwords, verified : BOOLEAN, deleted : BOOLEAN]
(* The entity a save holds, or the columns of it that it will write.       *)
Entities == {Restrict(row, D) : row \in Rows, D \in SUBSET Columns}
(* What may be known of a row.                                             *)
Known == [Columns -> Passwords \cup BOOLEAN \cup {None}]
Unknown == [f \in Columns |-> None]

ASSUME AccountsAssumption ==
  /\ Development \in BOOLEAN
  /\ None \notin Passwords \cup BOOLEAN \cup Known

Steps == {"idle", "insert", "compare", "load", "write"}
Ops == {"none", "register", "login", "reset", "mark"}
Replies == {"none", "tokens", "done", "taken", "denied", "missing", "error"}

Idle == [pc |-> "idle", op |-> "none", who |-> None, pw |-> None, entity |-> None]

Init ==
  /\ users = [a \in Addresses |-> None]
  /\ tokens = {}
  /\ call = [c \in Calls |-> Idle]
  /\ reply = [c \in Calls |-> "none"]
  /\ told = [a \in Addresses |-> None]
  /\ clean = [c \in Calls |-> TRUE]
  /\ wins = [a \in Addresses |-> 0]

At(c, step) == call[c].pc = step

(* Bug: rows that were softly deleted are found too.                       *)
LiveOrDeleted(a) == users[a] # None

(* findOne and findByEmailWithHash leave softly deleted rows out.          *)
Live(a) == users[a] # None /\ ~users[a].deleted

Begin(c, step, op, a, pw, entity) ==
  /\ At(c, "idle")
  /\ call' = [call EXCEPT ![c] = [pc |-> step, op |-> op, who |-> a, pw |-> pw,
                                  entity |-> entity]]
  /\ reply' = [reply EXCEPT ![c] = "none"]
  /\ clean' = [clean EXCEPT ![c] = TRUE]
  /\ UNCHANGED <<users, tokens, told, wins>>

Answer(c, r) ==
  /\ call' = [call EXCEPT ![c] = Idle]
  /\ reply' = [reply EXCEPT ![c] = r]

(* Answered after one statement that changed nothing.                      *)
Decline(c, r) ==
  /\ At(c, "idle")
  /\ reply' = [reply EXCEPT ![c] = r]
  /\ UNCHANGED <<users, tokens, call, history>>

Grant(c, a) == tokens' = tokens \cup {a} /\ Answer(c, "tokens")

(* The row of a was written from slot c: whoever read it before is stale.  *)
Dirty(c, a) ==
  clean' = [d \in Calls |-> clean[d] /\ (d = c \/ At(d, "idle") \/ call[d].who # a)]

-----------------------------------------------------------------------------
(* register: the address is looked up among the accounts not deleted ...   *)
RegisterTaken(c, a) == Live(a) /\ Decline(c, "taken")
Register(c, a, pw) == ~Live(a) /\ Begin(c, "insert", "register", a, pw, None)

(* Bug: the hash is not handed to the entity.                              *)
NewRowWithoutHash(pw) == [pw |-> None, verified |-> FALSE, deleted |-> FALSE]

NewRow(pw) == [pw |-> pw, verified |-> FALSE, deleted |-> FALSE]

(* Bug: the address is not unique in the table.                            *)
InsertAnyway(c) ==
  LET a == call[c].who IN
  /\ At(c, "insert")
  /\ users' = [users EXCEPT ![a] = NewRow(call[c].pw)]
  /\ told' = [told EXCEPT ![a] = NewRow(call[c].pw)]
  /\ wins' = [wins EXCEPT ![a] = @ + 1]
  /\ Grant(c, a)
  /\ Dirty(c, a)

(* ... and, once the password is hashed, the row is inserted and the       *)
(* tokens are signed.                                                      *)
Insert(c) ==
  LET a == call[c].who IN
  /\ At(c, "insert")
  /\ users[a] = None
  /\ users' = [users EXCEPT ![a] = NewRow(call[c].pw)]
  /\ told' = [told EXCEPT ![a] = NewRow(call[c].pw)]
  /\ wins' = [wins EXCEPT ![a] = @ + 1]
  /\ Grant(c, a)
  /\ Dirty(c, a)

(* The unique key refuses the row; nothing catches the error.              *)
InsertClashes(c) ==
  /\ At(c, "insert")
  /\ users[call[c].who] # None
  /\ Answer(c, "error")
  /\ UNCHANGED <<users, tokens, history>>

-----------------------------------------------------------------------------
(* login: the hash is read, then compared while other calls run.           *)
LoginUnknown(c, a) == ~Live(a) /\ Decline(c, "denied")
Login(c, a, pw) == Live(a) /\ Begin(c, "compare", "login", a, pw, users[a])

Matches(c) == call[c].pw = call[c].entity.pw

LoginAccepted(c) ==
  /\ At(c, "compare") /\ Matches(c)
  /\ Grant(c, call[c].who)
  /\ UNCHANGED <<users, history>>

LoginDenied(c) ==
  /\ At(c, "compare") /\ ~Matches(c)
  /\ Answer(c, "denied")
  /\ UNCHANGED <<users, tokens, history>>

(* refresh: the account a held token names, read in one statement.         *)
Refresh(c, a) ==
  /\ At(c, "idle") /\ a \in tokens /\ Live(a)
  /\ Grant(c, a)
  /\ UNCHANGED <<users, history>>

RefreshMissing(c, a) == a \in tokens /\ ~Live(a) /\ Decline(c, "missing")
RefreshInvalid(c) == Decline(c, "denied")

(* Tokens are stateless: all an account has expire without a call.         *)
Expire(a) ==
  /\ tokens' = tokens \ {a}
  /\ UNCHANGED <<users, call, reply, history>>

(* lookupByQuery: one SELECT, by the address or by the name.               *)
Lookup(c, a) == Decline(c, IF Live(a) THEN "done" ELSE "missing")

-----------------------------------------------------------------------------
(* Bug: the entity was loaded without the flag of the university.          *)
WithPasswordOnly(row, pw) == [row EXCEPT !.pw = pw, !.verified = FALSE]

WithPassword(row, pw) == [row EXCEPT !.pw = pw]

(* resetPasswordDev: outside development, or without confirm=true, refused. *)
ResetRefused(c) == Decline(c, "denied")
ResetMissing(c, a) == Development /\ ~Live(a) /\ Decline(c, "missing")
Reset(c, a, pw) ==
  /\ Development /\ Live(a)
  /\ Begin(c, "load", "reset", a, pw, WithPassword(users[a], pw))

MarkMissing(c, a) == ~Live(a) /\ Decline(c, "missing")
MarkAlready(c, a) == Live(a) /\ users[a].verified /\ Decline(c, "done")
Mark(c, a) ==
  /\ Live(a) /\ ~users[a].verified
  /\ Begin(c, "load", "mark", a, None, [users[a] EXCEPT !.verified = TRUE])

(* Repository.save: the SELECT by id, which sees deleted rows too, finds   *)
(* the columns in which the entity differs ...                             *)
Differing(entity, row) == {f \in Columns : entity[f] # row[f]}

SaveLoad(c) ==
  LET me == call[c] IN
  /\ At(c, "load")
  /\ call' = [call EXCEPT ![c].pc = "write",
                ![c].entity = Restrict(@, Differing(@, users[me.who]))]
  /\ UNCHANGED <<users, tokens, reply, history>>

(* ... and the UPDATE writes these.                                        *)
Over(columns, row) ==
  [f \in Columns |-> IF f \in DOMAIN columns THEN columns[f] ELSE row[f]]

Asked(me) == IF me.op = "reset" THEN [pw |-> me.pw] ELSE [verified |-> TRUE]

SaveWrite(c) ==
  LET me == call[c]  a == me.who IN
  /\ At(c, "write")
  /\ users' = [users EXCEPT ![a] = Over(me.entity, @)]
  /\ told' = [told EXCEPT ![a] = IF clean[c] THEN Over(Asked(me), @) ELSE Unknown]
  /\ Answer(c, "done")
  /\ Dirty(c, a)
  /\ UNCHANGED <<tokens, wins>>

(* A statement fails: the transaction is rolled back, the answer is 500.   *)
Fails(c) ==
  /\ ~At(c, "idle")
  /\ Answer(c, "error")
  /\ UNCHANGED <<users, tokens, history>>

(* An operator sets deletedAt; no route of the API does.                   *)
SoftDelete(a) ==
  /\ Live(a)
  /\ users' = [users EXCEPT ![a].deleted = TRUE]
  /\ told' = [told EXCEPT ![a].deleted = TRUE]
  /\ clean' = [d \in Calls |-> clean[d] /\ (At(d, "idle") \/ call[d].who # a)]
  /\ UNCHANGED <<tokens, call, reply, wins>>

-----------------------------------------------------------------------------
AuthStep(c) ==
  \/ Insert(c) \/ InsertClashes(c) \/ LoginAccepted(c) \/ LoginDenied(c)
  \/ SaveLoad(c) \/ SaveWrite(c) \/ Fails(c)

AuthCall(c) ==
  \/ RefreshInvalid(c) \/ ResetRefused(c)
  \/ \E a \in Addresses :
       \/ RegisterTaken(c, a) \/ LoginUnknown(c, a) \/ Lookup(c, a)
       \/ Refresh(c, a) \/ RefreshMissing(c, a)
       \/ ResetMissing(c, a) \/ MarkMissing(c, a) \/ MarkAlready(c, a) \/ Mark(c, a)
       \/ \E pw \in Passwords : Register(c, a, pw) \/ Login(c, a, pw) \/ Reset(c, a, pw)

Next ==
  \/ \E c \in Calls : AuthStep(c) \/ AuthCall(c)
  \/ \E a \in Addresses : Expire(a) \/ SoftDelete(a)

Spec == Init /\ [][Next]_vars

-----------------------------------------------------------------------------
(* Types of the users table, the handlers and their answers (user.entity,  *)
(* auth.service).                                                          *)
AccountsTypeOK ==
  /\ users \in [Addresses -> Rows \cup {None}]
  /\ tokens \subseteq Addresses
  /\ call \in [Calls -> [pc : Steps, op : Ops, who : Addresses \cup {None},
                         pw : Passwords \cup {None}, entity : Entities \cup {None}]]
  /\ clean \in [Calls -> BOOLEAN]
  /\ wins \in [Addresses -> Nat]

(* A row holds what the calls that wrote it were asked for: a reset keeps  *)
(* the mark of the university and a deletion, a mark keeps the password,   *)
(* as long as nobody wrote the row while one of them held it.  What        *)
(* overlapping saves lose is restored by the next call that runs alone.    *)
StoredAsAnswered ==
  \A a \in Addresses :
    /\ told[a] = None <=> users[a] = None
    /\ told[a] # None =>
         \A f \in Columns : told[a][f] # None => users[a][f] = told[a][f]

(* A login no write overlaps is accepted exactly when its account is not   *)
(* deleted and its password is the one last registered or reset.           *)
LoginAgrees ==
  [][\A c \in Calls :
       LET a == call[c].who IN
       (/\ At(c, "compare") /\ reply'[c] \in {"tokens", "denied"}
        /\ clean[c] /\ None \notin {told[a].pw, told[a].deleted})
       => (reply'[c] = "tokens" <=> ~told[a].deleted /\ call[c].pw = told[a].pw)]_vars

(* Of all calls that register an address, also overlapping ones, one at    *)
(* most is answered with tokens.                                           *)
OneRegistration == \A a \in Addresses : wins[a] <= 1
=============================================================================
