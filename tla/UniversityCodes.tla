---------------------------- MODULE UniversityCodes ----------------------------
(***************************************************************************)
(* University e-mail verification: the handlers send and verify of         *)
(* features/university/university-verification.controller.ts over the      *)
(* in-memory CodeStoreService (core/verify/code-store.service.ts) and the  *)
(* users table.  A step is the code between two awaits that matter: the    *)
(* store's methods run synchronously, the mailer and the database do not.  *)
(* Several handlers run at a time, for one address or for several.         *)
(*                                                                         *)
(* The cooldown key `univ:cooldown:<email>` contains an '@', so the store  *)
(* keeps it in the same map as the codes, under a key of its own that no   *)
(* validated request can verify: it is the function cooldown here.         *)
(***************************************************************************)
EXTENDS Integers

CONSTANTS Emails,       \* university addresses, normalised
          Codes,        \* the codes a generator may draw
          Calls,        \* slots of concurrently served calls
          Ttl,          \* lifetime of a code
          Cooldown,     \* time before another mail to the same address
          MaxAttempts,  \* wrong guesses a code survives, plus one
          MaxTime,      \* bound: the clock stops there
          Prod,         \* NODE_ENV is production
          None          \* no record, no code

ASSUME CodesAssumption ==
  /\ Ttl \in Nat \ {0}
  /\ Cooldown \in Nat
  /\ MaxAttempts \in Nat \ {0}
  /\ MaxTime \in Nat
  /\ Prod \in BOOLEAN
  /\ None \notin Codes \cup Emails \cup [code : Codes, expiresAt : Nat, attempts : Nat]

VARIABLES now,       \* Date.now()
          codes,     \* CodeStoreService.codes of each address
          cooldown,  \* when each address's cooldown record expires, 0 without one
          profile,   \* the users row of each address
          call,      \* the handler each slot runs, and its locals
          reply,     \* what each slot answered last
          sent       \* of each address, for the properties: the last mail since
                     \* the process started, and what became of its code

vars == <<now, codes, cooldown, profile, call, reply, sent>>

Profiles == {"absent", "unverified", "verified"}
Replies == {"none", "sent", "cooldown", "mail_send_failed", "not_found", "expired",
            "too_many", "mismatch", "verified", "profile_missing", "error"}
Labels == {"idle", "send.mail", "send.cooldown", "verify.profile", "verify.save"}

Records == [code : Codes, expiresAt : Nat, attempts : Nat]
Idle == [pc |-> "idle", email |-> None, code |-> None]

(* Nothing was mailed since the process started.                           *)
NoMail == [code |-> None, at |-> 0, wrong |-> 0, accepted |-> 0, answeredAt |-> None]

Init ==
  /\ now = 0
  /\ codes = [e \in Emails |-> None]
  /\ cooldown = [e \in Emails |-> 0]
  /\ profile \in [Emails -> {"absent", "unverified"}]
  /\ call = [c \in Calls |-> Idle]
  /\ reply = [c \in Calls |-> "none"]
  /\ sent = [e \in Emails |-> NoMail]

At(c, label) == call[c].pc = label
Goto(c, label) == call' = [call EXCEPT ![c].pc = label] /\ UNCHANGED reply
Answer(c, r) ==
  /\ call' = [call EXCEPT ![c] = Idle]
  /\ reply' = [reply EXCEPT ![c] = r]

Start(c, label, e, code) ==
  /\ call' = [call EXCEPT ![c] = [pc |-> label, email |-> e, code |-> code]]
  /\ reply' = [reply EXCEPT ![c] = "none"]

-----------------------------------------------------------------------------
(* codeStore.ttl(cooldownKey) > 0                                          *)
CoolingDown(e) == cooldown[e] > now

(* send, up to the mail: refuse while the address cools down, else draw a  *)
(* code.  Nothing is stored yet, so overlapping sends can all get here.    *)
Send(c, e, code) ==
  /\ At(c, "idle")
  /\ IF CoolingDown(e)
       THEN /\ reply' = [reply EXCEPT ![c] = "cooldown"]
            /\ UNCHANGED call
       ELSE Start(c, "send.mail", e, code)
  /\ UNCHANGED <<now, codes, cooldown, profile, sent>>

(* Bug: a code that replaces another inherits its failed attempts.         *)
StoreKeepsAttempts(e, code) ==
  codes' = [codes EXCEPT ![e] =
    [code |-> code, expiresAt |-> now + Ttl,
     attempts |-> IF codes[e] = None THEN 0 ELSE codes[e].attempts]]

(* codeStore.set(email, code, ttlSec)                                      *)
Store(e, code) ==
  codes' = [codes EXCEPT ![e] = [code |-> code, expiresAt |-> now + Ttl, attempts |-> 0]]

(* The code reaches the user: by mail or, outside production, in the log   *)
(* of the server.  It is stored in the same turn.                          *)
Deliver(c) ==
  LET e == call[c].email
      code == call[c].code IN
  /\ Store(e, code)
  /\ sent' = [sent EXCEPT ![e] = [code |-> code, at |-> now, wrong |-> 0, accepted |-> 0,
                                  answeredAt |-> @.answeredAt]]
  /\ Goto(c, "send.cooldown")
  /\ UNCHANGED <<now, cooldown, profile>>

MailSent(c) == At(c, "send.mail") /\ Deliver(c)

(* The mailer throws: an answer in production, ignored elsewhere.          *)
MailFails(c) ==
  /\ At(c, "send.mail")
  /\ IF Prod
       THEN /\ Answer(c, "mail_send_failed")
            /\ UNCHANGED <<now, codes, cooldown, profile, sent>>
       ELSE Deliver(c)

(* codeStore.set(cooldownKey, '1', policy.cooldownSec), and the answer.    *)
StartCooldown(c) ==
  LET e == call[c].email IN
  /\ At(c, "send.cooldown")
  /\ cooldown' = [cooldown EXCEPT ![e] = now + Cooldown]
  /\ sent' = [sent EXCEPT ![e].answeredAt = now]
  /\ Answer(c, "sent")
  /\ UNCHANGED <<now, codes, profile>>

-----------------------------------------------------------------------------
(* CodeStoreService.verify on a record that is there.                      *)
Expired(rec) == now > rec.expiresAt

(* Bug: the attempts are compared before they are counted.                 *)
LastAttemptUncounted(rec) == rec.attempts >= MaxAttempts

LastAttempt(rec) == rec.attempts + 1 >= MaxAttempts

Drop(e) == codes' = [codes EXCEPT ![e] = None]
Reject(c, r) == reply' = [reply EXCEPT ![c] = r] /\ UNCHANGED call

VerifyMissing(c, e) ==
  /\ At(c, "idle") /\ codes[e] = None
  /\ Reject(c, "not_found")
  /\ UNCHANGED <<now, codes, cooldown, profile, sent>>

VerifyExpired(c, e) ==
  /\ At(c, "idle") /\ codes[e] # None /\ Expired(codes[e])
  /\ Drop(e)
  /\ Reject(c, "expired")
  /\ UNCHANGED <<now, cooldown, profile, sent>>

VerifyWrong(c, e, code) ==
  /\ At(c, "idle") /\ codes[e] # None
  /\ ~Expired(codes[e]) /\ codes[e].code # code
  /\ IF LastAttempt(codes[e])
       THEN Drop(e) /\ Reject(c, "too_many")
       ELSE /\ codes' = [codes EXCEPT ![e].attempts = @ + 1]
            /\ Reject(c, "mismatch")
  /\ sent' = [sent EXCEPT ![e].wrong = @ + 1]
  /\ UNCHANGED <<now, cooldown, profile>>

(* Bug: an accepted code stays in the store.                               *)
VerifyRightKept(c, e, code) ==
  /\ At(c, "idle") /\ codes[e] # None
  /\ ~Expired(codes[e]) /\ codes[e].code = code
  /\ sent' = [sent EXCEPT ![e].accepted = @ + 1]
  /\ Start(c, "verify.profile", e, code)
  /\ UNCHANGED <<now, codes, cooldown, profile>>

(* Accepted: the code is gone before the users row is touched.             *)
VerifyRight(c, e, code) ==
  /\ At(c, "idle") /\ codes[e] # None
  /\ ~Expired(codes[e]) /\ codes[e].code = code
  /\ Drop(e)
  /\ sent' = [sent EXCEPT ![e].accepted = @ + 1]
  /\ Start(c, "verify.profile", e, code)
  /\ UNCHANGED <<now, cooldown, profile>>

(* markUniversityVerifiedByEmail: find the user, then save it.             *)
FindProfile(c) ==
  LET e == call[c].email IN
  /\ At(c, "verify.profile")
  /\ CASE profile[e] = "absent" -> Answer(c, "profile_missing")
       [] profile[e] = "unverified" -> Goto(c, "verify.save")
       [] profile[e] = "verified" -> Answer(c, "verified")
  /\ UNCHANGED <<now, codes, cooldown, profile, sent>>

SaveProfile(c) ==
  /\ At(c, "verify.save")
  /\ profile' = [profile EXCEPT ![call[c].email] = "verified"]
  /\ Answer(c, "verified")
  /\ UNCHANGED <<now, codes, cooldown, sent>>

ProfileFails(c) ==
  /\ call[c].pc \in {"verify.profile", "verify.save"}
  /\ Answer(c, "error")
  /\ UNCHANGED <<now, codes, cooldown, profile, sent>>

-----------------------------------------------------------------------------
(* A user of the address registers (auth.service.ts).  The row starts      *)
(* unverified: register does not look at the univToken verify handed out.  *)
Register(e) ==
  /\ profile[e] = "absent"
  /\ profile' = [profile EXCEPT ![e] = "unverified"]
  /\ UNCHANGED <<now, codes, cooldown, call, reply, sent>>

Tick ==
  /\ now < MaxTime
  /\ now' = now + 1
  /\ UNCHANGED <<codes, cooldown, profile, call, reply, sent>>

(* The process dies and starts again: both maps and the handlers are gone. *)
Restart ==
  /\ codes' = [e \in Emails |-> None]
  /\ cooldown' = [e \in Emails |-> 0]
  /\ call' = [c \in Calls |-> Idle]
  /\ reply' = [c \in Calls |-> "none"]
  /\ sent' = [e \in Emails |-> NoMail]
  /\ UNCHANGED <<now, profile>>

Handler(c) ==
  \/ MailSent(c) \/ MailFails(c) \/ StartCooldown(c)
  \/ FindProfile(c) \/ SaveProfile(c) \/ ProfileFails(c)

Request(c) == \E e \in Emails :
  \/ VerifyMissing(c, e) \/ VerifyExpired(c, e)
  \/ \E code \in Codes :
       Send(c, e, code) \/ VerifyWrong(c, e, code) \/ VerifyRight(c, e, code)

Next ==
  \/ \E c \in Calls : Request(c) \/ Handler(c)
  \/ \E e \in Emails : Register(e)
  \/ Tick
  \/ Restart

Spec == Init /\ [][Next]_vars

-----------------------------------------------------------------------------
Mails == [code : Codes \cup {None}, at : Nat, wrong : Nat, accepted : Nat,
          answeredAt : Nat \cup {None}]

(* Types; a stored record always has an attempt left, so that the check    *)
(* `rec.attempts >= this.maxAttempts` verify opens with never fires.       *)
TypeOK ==
  /\ now \in Nat
  /\ codes \in [Emails -> Records \cup {None}]
  /\ cooldown \in [Emails -> Nat]
  /\ profile \in [Emails -> Profiles]
  /\ call \in [Calls -> [pc : Labels, email : Emails \cup {None}, code : Codes \cup {None}]]
  /\ reply \in [Calls -> Replies]
  /\ sent \in [Emails -> Mails]
  /\ \A c \in Calls : call[c].pc # "idle" => call[c].email \in Emails /\ call[c].code \in Codes
  /\ \A e \in Emails : codes[e] # None => codes[e].attempts < MaxAttempts

(* The promise a mail makes is still open: it is the last one, in time,    *)
(* not guessed away and not used.                                          *)
Redeemable(m) ==
  m.code # None /\ now <= m.at + Ttl /\ m.wrong < MaxAttempts /\ m.accepted = 0

(* The code of the last mail works as long as the mail says it does,       *)
(* whatever other handlers of the address do meanwhile.                    *)
NewestMailWorks ==
  \A e \in Emails : Redeemable(sent[e]) =>
    codes[e] # None /\ codes[e].code = sent[e].code /\ ~Expired(codes[e])

(* A handler lets a call pass only when it is due.  A code is accepted     *)
(* only when it is the last one mailed to the address since the process    *)
(* started, in time, with attempts left, and never twice.  And after an    *)
(* answered send the address gets no further mail for Cooldown, except     *)
(* from sends that overlapped it: none that comes later passes the check.  *)
PassesAreEarned ==
  [][\A c \in Calls : At(c, "idle") =>
       LET m == sent[call'[c].email] IN
       /\ call'[c].pc = "verify.profile" => Redeemable(m) /\ call'[c].code = m.code
       /\ call'[c].pc = "send.mail" =>
            (m.answeredAt # None => now >= m.answeredAt + Cooldown)]_vars
=============================================================================
