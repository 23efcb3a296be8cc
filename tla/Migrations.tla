------------------------------ MODULE Migrations ------------------------------
(***************************************************************************)
(* The four migrations of src/migrations, run by the TypeORM command line  *)
(* over typeorm.config.ts (npm run mig:run) or reverted one by one.        *)
(*                                                                         *)
(* A run puts all pending migrations into one transaction, but a DDL       *)
(* statement of MySQL commits the transaction it is in, and what follows   *)
(* commits statement by statement.  So the schema and the table of         *)
(* executed migrations survive a failure or a crash half way, and the next *)
(* run begins with what they hold.  A step is a test of information_schema *)
(* with the statement it guards; only one command runs at a time.          *)
(***************************************************************************)
EXTENDS Integers, Sequences, Functions

CONSTANT MaxCrashes \* bound: runs that die half way

ASSUME MigrationsAssumption == MaxCrashes \in Nat

VARIABLES schema,   \* tables, indexes and foreign keys of the database
          recorded, \* rows of the migrations table, as committed
          seen,     \* the same as the running command sees them
          inTx,     \* is its transaction still open?
          cli,      \* the command and how far it is
          result,   \* how the last command ended
          crashes,
          blocked,  \* for the properties: was the run bound to fail?
          torn      \* for the properties: migrations whose revert was cut short

schemaVars == <<schema, recorded, seen, inTx, cli, result, crashes, blocked, torn>>

Cleanup == "MsgIndexAndFkCleanup1710000000002"
AutoMigration == "Auto1759916408928"
Ensure == "EnsureMsgIndex1759916500000"
DropDup == "DropDupFkConv1759916600000"
(* By the timestamp in the class name, whatever the file is called.        *)
Migrations == <<Cleanup, AutoMigration, Ensure, DropDup>>
Place(m) == CHOOSE k \in DOMAIN Migrations : Migrations[k] = m
First(ms) == CHOOSE m \in ms : \A n \in ms : Place(m) <= Place(n)
Latest(ms) == CHOOSE m \in ms : \A n \in ms : Place(n) <= Place(m)

AutoTables == <<"users", "products", "notifications", "email_verifications",
  "friend_requests", "friends", "chat_reads", "chat_messages", "user_blocks">>
Messages == "conversation_messages"
OldIndex == "ix_cm_conv_created"
NewIndex == "ix_cm_conv_created_id"
ImplicitIndex == "index MySQL adds for a foreign key"
MainKey == "fk_cm_conv"
DupKey == "fk_cm_conversation_id"
OwnerKey == "FK_47f06db8065c55a363b6db3ae82"

Indexes == {OldIndex, NewIndex, ImplicitIndex}
MessageKeys == {MainKey, DupKey}
Objects == Range(AutoTables) \cup {Messages, OwnerKey} \cup Indexes \cup MessageKeys

Statement(op, name, checked) == [op |-> op, name |-> name, checked |-> checked]
Create(name) == Statement("create", name, FALSE)
Drop(name) == Statement("drop", name, FALSE)
CreateIfAbsent(name) == Statement("create", name, TRUE)
DropIfPresent(name) == Statement("drop", name, TRUE)

CleanupUp == <<DropIfPresent(OldIndex), CreateIfAbsent(NewIndex), DropIfPresent(DupKey)>>
CleanupDown == <<CreateIfAbsent(OldIndex), Drop(NewIndex)>>
(* Unguarded; a table goes together with its indexes.                      *)
AutoUp == [i \in 1..Len(AutoTables) |-> Create(AutoTables[i])] \o <<Create(OwnerKey)>>
AutoDown == <<Drop(OwnerKey)>>
  \o [i \in 1..Len(AutoTables) |-> Drop(AutoTables[Len(AutoTables) + 1 - i])]
(* Bug: the index is created without asking whether it is there.           *)
EnsureUpUnguarded == <<Create(NewIndex)>>

(* The tests whether the messages table exists decide between two DO 0.    *)
EnsureUp == <<CreateIfAbsent(NewIndex)>>
EnsureDown == <<>>
DropDupUp == <<CreateIfAbsent(MainKey), DropIfPresent(DupKey)>>
DropDupDown == <<CreateIfAbsent(DupKey)>>

Up(m) == CASE m = Cleanup -> CleanupUp [] m = AutoMigration -> AutoUp
           [] m = Ensure -> EnsureUp [] m = DropDup -> DropDupUp
Down(m) == CASE m = Cleanup -> CleanupDown [] m = AutoMigration -> AutoDown
             [] m = Ensure -> EnsureDown [] m = DropDup -> DropDupDown

-----------------------------------------------------------------------------
(* Bug: the answer of information_schema is read the wrong way round.      *)
NeededReversed(s) == s.checked => (s.op = "create" <=> s.name \in schema)

(* The prepared statement is the guarded one and not DO 0.                 *)
Needed(s) == s.checked => (s.op = "create" <=> s.name \notin schema)

(* MySQL keeps an index a foreign key of the messages still needs.         *)
Serving == schema \cap Indexes
LastServing(name) == schema \cap MessageKeys # {} /\ Serving = {name}

Possible(s) ==
  /\ s.op = "create" <=> s.name \notin schema
  /\ s.name \in Indexes \cup MessageKeys => Messages \in schema
  /\ ~(s.op = "drop" /\ LastServing(s.name))

(* A foreign key without an index gets one, which goes when another comes. *)
Done(s) ==
  CASE s.op = "drop" -> schema \ {s.name}
    [] s.op = "create" /\ s.name \in Indexes -> (schema \ {ImplicitIndex}) \cup {s.name}
    [] s.op = "create" /\ s.name \in MessageKeys ->
         schema \cup {s.name} \cup (IF Serving = {} THEN {ImplicitIndex} ELSE {})
    [] OTHER -> schema \cup {s.name}

-----------------------------------------------------------------------------
IdleCommand == [mode |-> "idle", todo |-> {}, step |-> 0]

(* The messages table, if any, with some of its indexes and keys.          *)
MessagesAlone ==
  {{}} \cup {{Messages} \cup ix \cup fk : ix \in SUBSET Indexes, fk \in SUBSET MessageKeys}

(* Databases a first run may meet: nothing, or tables made by hand; the    *)
(* messages with either index and either key, and an index for each key.   *)
SchemaInit ==
  /\ \E made \in {{}, Range(AutoTables)}, messages \in MessagesAlone :
       /\ schema = made \cup messages
       /\ schema \cap MessageKeys # {} => Serving # {}
       /\ ImplicitIndex \in schema => Serving = {ImplicitIndex}
  /\ recorded = {} /\ seen = {}
  /\ inTx = FALSE
  /\ cli = IdleCommand
  /\ result = "none"
  /\ crashes = 0
  /\ blocked = FALSE
  /\ torn = {}

Pending == Range(Migrations) \ recorded

(* What a run of the pending migrations cannot get past.                   *)
Obstacle ==
  \/ Pending \ {AutoMigration} # {} /\ Messages \notin schema
  \/ Cleanup \in Pending /\ LastServing(OldIndex)
  \/ AutoMigration \in Pending /\ schema \cap Range(AutoTables) # {}

Ended(r) ==
  /\ cli' = IdleCommand
  /\ result' = r
  /\ inTx' = FALSE

Run ==
  /\ cli = IdleCommand
  /\ cli' = [mode |-> "up", todo |-> Pending, step |-> 1]
  /\ inTx' = TRUE
  /\ seen' = recorded
  /\ blocked' = Obstacle
  /\ result' = "none"
  /\ UNCHANGED <<schema, recorded, crashes, torn>>

(* The executed migration of the latest timestamp.                         *)
Revert ==
  /\ cli = IdleCommand /\ recorded # {}
  /\ cli' = [mode |-> "down", todo |-> {Latest(recorded)}, step |-> 1]
  /\ inTx' = TRUE
  /\ seen' = recorded
  /\ result' = "none"
  /\ UNCHANGED <<schema, recorded, crashes, blocked, torn>>

Current == First(cli.todo)
Script == IF cli.mode = "up" THEN Up(Current) ELSE Down(Current)
AtStatement == cli # IdleCommand /\ cli.todo # {} /\ cli.step <= Len(Script)

Skip ==
  /\ AtStatement /\ ~Needed(Script[cli.step])
  /\ cli' = [cli EXCEPT !.step = @ + 1]
  /\ UNCHANGED <<schema, recorded, seen, inTx, result, crashes, blocked, torn>>

(* A DDL statement commits what the transaction holds so far.              *)
Execute ==
  LET s == Script[cli.step] IN
  /\ AtStatement /\ Needed(s) /\ Possible(s)
  /\ schema' = Done(s)
  /\ recorded' = seen
  /\ inTx' = FALSE
  /\ cli' = [cli EXCEPT !.step = @ + 1]
  /\ torn' = torn \cup (IF cli.mode = "down" THEN {Current} ELSE {})
  /\ UNCHANGED <<seen, result, crashes, blocked>>

(* It does so also when it fails; nothing is left to be rolled back.       *)
StatementFails ==
  LET s == Script[cli.step] IN
  /\ AtStatement /\ Needed(s) /\ ~Possible(s)
  /\ recorded' = seen
  /\ Ended("failed")
  /\ UNCHANGED <<schema, seen, crashes, blocked, torn>>

(* Bug: what follows the first DDL statement is not committed by itself.   *)
RecordUncommitted ==
  /\ cli # IdleCommand /\ cli.todo # {} /\ cli.step > Len(Script)
  /\ seen' = IF cli.mode = "up" THEN seen \cup {Current} ELSE seen \ {Current}
  /\ cli' = [cli EXCEPT !.todo = @ \ {Current}, !.step = 1]
  /\ UNCHANGED <<schema, recorded, inTx, result, crashes, blocked, torn>>

(* The migration's row is inserted, or deleted after a revert.             *)
Record ==
  LET rows == IF cli.mode = "up" THEN seen \cup {Current} ELSE seen \ {Current} IN
  /\ cli # IdleCommand /\ cli.todo # {} /\ cli.step > Len(Script)
  /\ seen' = rows
  /\ recorded' = IF inTx THEN recorded ELSE rows
  /\ cli' = [cli EXCEPT !.todo = @ \ {Current}, !.step = 1]
  /\ torn' = torn \cap recorded'
  /\ UNCHANGED <<schema, inTx, result, crashes, blocked>>

Commit ==
  /\ cli # IdleCommand /\ cli.todo = {}
  /\ recorded' = seen
  /\ torn' = torn \cap seen
  /\ Ended("done")
  /\ UNCHANGED <<schema, seen, crashes, blocked>>

(* The process or its connection dies; an open transaction is rolled back. *)
Crash ==
  /\ cli # IdleCommand /\ crashes < MaxCrashes
  /\ crashes' = crashes + 1
  /\ seen' = recorded
  /\ Ended("crashed")
  /\ UNCHANGED <<schema, recorded, blocked, torn>>

SchemaNext == Run \/ Revert \/ Skip \/ Execute \/ StatementFails \/ Record \/ Commit \/ Crash

MigrationsSpec == SchemaInit /\ [][SchemaNext]_schemaVars

-----------------------------------------------------------------------------
(* Types; the migrations table never holds a row the running command has   *)
(* not written, and once the transaction is gone it holds all of them.     *)
SchemaTypeOK ==
  /\ schema \subseteq Objects
  /\ recorded \subseteq Range(Migrations) /\ seen \subseteq Range(Migrations)
  /\ (cli # IdleCommand /\ ~inTx) => recorded = seen
  /\ cli.mode \in {"idle", "up", "down"} /\ cli.step \in 0..(Len(AutoUp) + 1)
  /\ result \in {"none", "done", "failed", "crashed"}
  /\ crashes \in 0..MaxCrashes
  /\ torn \subseteq Range(Migrations)

Applied(m) ==
  CASE m = Cleanup -> NewIndex \in schema /\ OldIndex \notin schema
    [] m = AutoMigration -> Range(AutoTables) \cup {OwnerKey} \subseteq schema
    [] m = Ensure -> NewIndex \in schema
    [] m = DropDup -> MainKey \in schema /\ DupKey \notin schema

(* A migration that is recorded is in the schema, through failures,        *)
(* crashes and reverts, unless its own revert was cut short.               *)
RecordedIsApplied ==
  cli = IdleCommand => \A m \in recorded \ torn : Applied(m)

(* A run that does not die completes exactly when, as it starts, the       *)
(* messages table is there for the migrations that need it, the index it   *)
(* drops is not the last one a foreign key has, and no table of Auto's is  *)
(* there yet; it then has recorded every migration.  (A run that died      *)
(* within Auto, or one that was reverted, is never followed by one that    *)
(* completes.)                                                             *)
RunsUnlessBlocked ==
  [][cli.mode = "up" =>
       /\ result' = "failed" => blocked
       /\ result' = "done" => ~blocked /\ recorded' = Range(Migrations)]_schemaVars
=============================================================================
