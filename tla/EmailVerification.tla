--------------------------- MODULE EmailVerification ---------------------------
(***************************************************************************)
(* E-mail verification codes kept in MySQL: send and verify of             *)
(* modules/auth/services/email-verification.service.ts, for one address.   *)
(* Both read the newest row of the address, change the entity in memory    *)
(* and call Repository.save, which loads the row again and writes the      *)
(* columns in which the entity differs from what it loaded: three steps    *)
(* between which other calls run.  Nothing makes the address unique in the *)
(* table, so overlapping first sends leave two rows.                       *)
(*                                                                         *)
(* Times are whole seconds, as the datetime columns keep them; a code and  *)
(* its hash are one value.                                                 *)
(***************************************************************************)
EXTENDS Integers, Sequences

CONSTANTS Codes,        \* the codes genCode may draw
          Calls,        \* slots of concurrently served calls
          Ttl,          \* EMAIL_CODE_TTL_SEC
          Cooldown,     \* EMAIL_COOLDOWN_SEC
          MaxAttempts,  \* EMAIL_MAX_ATTEMPTS
          MaxTime,      \* bound: the clock stops there
          Registered,   \* does a user have the address?
          None          \* no code, no row

ASSUME EmailAssumption ==
  /\ Ttl \in Nat /\ Cooldown \in Nat /\ MaxTime \in Nat
  /\ MaxAttempts \in Nat \ {0}
  /\ Registered \in BOOLEAN
  /\ None \notin Codes

VARIABLES now,     \* new Date()
          rows,    \* email_verifications rows of the address, oldest first
          call,    \* the handler each slot runs, its entity and what save loaded
          reply,   \* what each slot answered last
          mail,    \* for the properties: the newest mail and its guesses
          alone    \* for the properties: no calls overlapped since its send began

vars == <<now, rows, call, reply, mail, alone>>
history == <<mail, alone>>

Columns == {"code", "expireAt", "left", "used", "lastSentAt"}
Rows == [code : Codes, expireAt : Nat, left : 0..MaxAttempts, used : BOOLEAN,
         lastSentAt : Nat]
Ops == {"none", "send", "miss", "hit"}
(* "refused" stands for the five exceptions that leave everything alone.   *)
Replies == {"none", "sent", "refused", "mismatch", "verified", "error"}

(* row 0 is an entity that is not in the table yet.                        *)
Idle == [pc |-> "idle", op |-> "none", row |-> 0, rec |-> None, loaded |-> None]
NoMail == [code |-> None, at |-> 0, wrong |-> 0, accepted |-> 0]

Init ==
  /\ now = 0
  /\ rows = <<>>
  /\ call = [c \in Calls |-> Idle]
  /\ reply = [c \in Calls |-> "none"]
  /\ mail = NoMail
  /\ alone = TRUE

At(c, label) == call[c].pc = label
Busy(c) == \E d \in Calls \ {c} : call[d].pc # "idle"

Goto(c, label) == call' = [call EXCEPT ![c].pc = label] /\ UNCHANGED reply
Answer(c, r) ==
  /\ call' = [call EXCEPT ![c] = Idle]
  /\ reply' = [reply EXCEPT ![c] = r]
Decline(c, r) ==
  /\ At(c, "idle")
  /\ reply' = [reply EXCEPT ![c] = r]
  /\ UNCHANGED <<now, rows, call, history>>

(* The handler has decided what to write and calls repo.save(rec).         *)
Save(c, op, row, rec) ==
  /\ At(c, "idle")
  /\ call' = [call EXCEPT ![c] = [pc |-> "load", op |-> op, row |-> row,
                                  rec |-> rec, loaded |-> None]]
  /\ reply' = [reply EXCEPT ![c] = "none"]
  /\ alone' = (~Busy(c) /\ (op = "send" \/ alone))
  /\ UNCHANGED <<now, rows>>

Newest == rows[Len(rows)]

-----------------------------------------------------------------------------
CoolingDown == rows # <<>> /\ now - Newest.lastSentAt < Cooldown

(* Reset and login codes for an address nobody registered: answered like   *)
(* a send, but nothing is sent or stored.                                  *)
SendSilently(c) == ~Registered /\ Decline(c, "sent")

SendTooSoon(c) == CoolingDown /\ Decline(c, "refused")

(* Bug: a resend keeps the expiry of the code it replaces.                 *)
FreshRowKeepsExpiry(code) ==
  [code |-> code, expireAt |-> IF rows = <<>> THEN now + Ttl ELSE Newest.expireAt,
   left |-> MaxAttempts, used |-> FALSE, lastSentAt |-> now]

FreshRow(code) ==
  [code |-> code, expireAt |-> now + Ttl, left |-> MaxAttempts, used |-> FALSE,
   lastSentAt |-> now]

Send(c, code) ==
  /\ ~CoolingDown
  /\ Save(c, "send", Len(rows), FreshRow(code))
  /\ UNCHANGED mail

-----------------------------------------------------------------------------
(* Bug: the attempts left are not looked at.                               *)
GuessableForEver == rows # <<>> /\ ~Newest.used /\ Newest.expireAt >= now

(* verify, on the newest row it found: there is one, it is not used, not   *)
(* expired and not guessed at too often.                                   *)
Guessable == rows # <<>> /\ ~Newest.used /\ Newest.expireAt >= now /\ Newest.left > 0

VerifyRefused(c) == ~Guessable /\ Decline(c, "refused")

Miss(rec) == [rec EXCEPT !.left = @ - 1]

(* Bug: the time of use is not stored.                                     *)
HitUnmarked(rec) == rec

Hit(rec) == [rec EXCEPT !.used = TRUE]

Verify(c, code) ==
  /\ Guessable
  /\ IF Newest.code = code
       THEN Save(c, "hit", Len(rows), Hit(Newest))
       ELSE Save(c, "miss", Len(rows), Miss(Newest))
  /\ UNCHANGED mail

-----------------------------------------------------------------------------
(* Repository.save: the SELECT by id ...                                   *)
SaveLoad(c) ==
  /\ At(c, "load")
  /\ call' = [call EXCEPT ![c].pc = "write",
                          ![c].loaded = IF call[c].row = 0 THEN None ELSE rows[call[c].row]]
  /\ UNCHANGED <<now, rows, reply, history>>

(* ... and the INSERT, or the UPDATE of the columns that differ.           *)
Written(rec, loaded, row) ==
  [f \in Columns |-> IF rec[f] = loaded[f] THEN row[f] ELSE rec[f]]

(* What the write tells the user of the newest mail, for the properties.   *)
Counted(op) ==
  CASE op = "send" -> NoMail
    [] op = "miss" -> [mail EXCEPT !.wrong = @ + 1]
    [] op = "hit" -> [mail EXCEPT !.accepted = @ + 1]

SaveWrite(c) ==
  LET me == call[c] IN
  /\ At(c, "write")
  /\ rows' = IF me.row = 0 THEN Append(rows, me.rec)
             ELSE [rows EXCEPT ![me.row] = Written(me.rec, me.loaded, rows[me.row])]
  /\ mail' = IF alone THEN Counted(me.op) ELSE NoMail
  /\ CASE me.op = "send" -> Goto(c, "mail")
       [] me.op = "miss" -> Answer(c, "mismatch")
       [] me.op = "hit" -> Answer(c, "verified")
  /\ UNCHANGED <<now, alone>>

(* The mail goes out after the row is written.                             *)
MailSent(c) ==
  /\ At(c, "mail")
  /\ mail' = IF alone THEN [NoMail EXCEPT !.code = call[c].rec.code,
                                          !.at = call[c].rec.lastSentAt]
             ELSE NoMail
  /\ Answer(c, "sent")
  /\ UNCHANGED <<now, rows, alone>>

(* The mailer or a statement fails, or the process dies.                   *)
Fails(c) ==
  /\ ~At(c, "idle")
  /\ Answer(c, "error")
  /\ UNCHANGED <<now, rows, history>>

Tick ==
  /\ now < MaxTime
  /\ now' = now + 1
  /\ UNCHANGED <<rows, call, reply, history>>

Next ==
  \/ Tick
  \/ \E c \in Calls :
       \/ SendSilently(c) \/ SendTooSoon(c) \/ VerifyRefused(c)
       \/ \E code \in Codes : Send(c, code) \/ Verify(c, code)
       \/ SaveLoad(c) \/ SaveWrite(c) \/ MailSent(c) \/ Fails(c)

Spec == Init /\ [][Next]_vars

-----------------------------------------------------------------------------
(* Types; a row's attempts never drop below zero, although overlapping     *)
(* guesses read the same count.                                            *)
TypeOK ==
  /\ now \in Nat
  /\ rows \in Seq(Rows)
  /\ call \in [Calls -> [pc : {"idle", "load", "write", "mail"}, op : Ops, row : Nat,
                         rec : Rows \cup {None}, loaded : Rows \cup {None}]]
  /\ reply \in [Calls -> Replies]
  /\ mail \in [code : Codes \cup {None}, at : Nat, wrong : Nat, accepted : Nat]
  /\ alone \in BOOLEAN

Redeemable ==
  mail.code # None /\ now <= mail.at + Ttl /\ mail.wrong < MaxAttempts /\ mail.accepted = 0

(* Calls that do not overlap: the code of the newest mail works until it   *)
(* expires, is used or is guessed at too often.                            *)
NewestMailWorks ==
  (alone /\ Redeemable /\ \A c \in Calls : At(c, "idle")) =>
    Guessable /\ Newest.code = mail.code

(* Calls that do not overlap: a guess is evaluated only against the code   *)
(* of the newest mail, and only while that is redeemable, so that a code   *)
(* is used once and guessed at MaxAttempts times at most.                  *)
GuessesAreEarned ==
  [][\A c \in Calls :
       (At(c, "idle") /\ call'[c].op \in {"hit", "miss"} /\ alone' /\ mail.code # None)
       => Redeemable /\ call'[c].rec.code = mail.code]_vars
=============================================================================
