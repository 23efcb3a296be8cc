------------------------- MODULE UniversityCodesProofs -------------------------
(***************************************************************************)
(* The properties of UniversityCodes for any addresses, codes, slots and   *)
(* policy: its types, that the code of the newest mail works as long as    *)
(* the mail says it does, and that no handler lets a call pass too early.  *)
(*                                                                         *)
(* What a mail promised is kept in sent, what the process knows in its two *)
(* maps; the invariant says that they agree at every step of the handlers. *)
(***************************************************************************)
EXTENDS UniversityCodes, TLAPS

(* A stored code is the one last mailed, with the time and the attempts    *)
(* the mail has left; a mail that is redeemable has its code stored.       *)
StoreKeepsPromise(e) ==
  /\ codes[e] # None =>
       /\ codes[e].code = sent[e].code
       /\ codes[e].expiresAt = sent[e].at + Ttl
       /\ codes[e].attempts = sent[e].wrong
       /\ sent[e].accepted = 0
  /\ Redeemable(sent[e]) => codes[e] # None

(* The cooldown record is the one the last answered send left.             *)
CooldownKept(e) == sent[e].answeredAt # None => cooldown[e] = sent[e].answeredAt + Cooldown

IInv == TypeOK /\ \A e \in Emails : StoreKeepsPromise(e) /\ CooldownKept(e)

CallRecords == [pc : Labels, email : Emails \cup {None}, code : Codes \cup {None}]

(* The calls' part of TypeOK.                                              *)
CallsTyped ==
  /\ call \in [Calls -> CallRecords] /\ reply \in [Calls -> Replies]
  /\ \A c \in Calls : call[c].pc # "idle" => call[c].email \in Emails /\ call[c].code \in Codes

-----------------------------------------------------------------------------
LEMMA InitInv == Init => IInv
<1> SUFFICES ASSUME Init PROVE IInv
  OBVIOUS
<1>1. NoMail \in Mails /\ Idle \in CallRecords /\ Idle.pc = "idle"
  BY DEF NoMail, Mails, Idle, CallRecords, Labels
<1>2. TypeOK
  BY <1>1 DEF Init, TypeOK, Profiles, Replies, CallRecords
<1>3. \A e \in Emails : StoreKeepsPromise(e) /\ CooldownKept(e)
  BY DEF Init, StoreKeepsPromise, CooldownKept, Redeemable, NoMail
<1> QED BY <1>2, <1>3 DEF IInv

(* A step that only moves handlers.                                        *)
LEMMA OnlyCallsMove ==
  ASSUME IInv, UNCHANGED <<now, codes, cooldown, sent>>,
         profile' \in [Emails -> Profiles],
         CallsTyped'
  PROVE  IInv'
BY DEF IInv, TypeOK, CallsTyped, StoreKeepsPromise, CooldownKept, Redeemable, CallRecords

LEMMA CallsInRecords == TypeOK => call \in [Calls -> CallRecords]
BY DEF TypeOK, CallRecords

(* What Goto, Answer, Start and Reject do to the calls.                    *)
LEMMA CallTypes ==
  ASSUME TypeOK, NEW c \in Calls
  PROVE  /\ \A r \in Replies : Answer(c, r) \/ Reject(c, r) =>
              /\ call' \in [Calls -> CallRecords] /\ reply' \in [Calls -> Replies]
              /\ \A d \in Calls : call'[d] \in {call[d], Idle}
         /\ \A l \in Labels : Goto(c, l) =>
              /\ call' \in [Calls -> CallRecords] /\ reply' \in [Calls -> Replies]
              /\ \A d \in Calls : d # c => call'[d] = call[d]
              /\ call'[c].email = call[c].email /\ call'[c].code = call[c].code /\ call'[c].pc = l
         /\ \A l \in Labels, e \in Emails, code \in Codes : Start(c, l, e, code) =>
              /\ call' \in [Calls -> CallRecords] /\ reply' \in [Calls -> Replies]
              /\ \A d \in Calls : d # c => call'[d] = call[d]
              /\ call'[c].email = e /\ call'[c].code = code /\ call'[c].pc = l
         /\ Idle \in CallRecords /\ Idle.pc = "idle"
<1>1. Idle \in CallRecords /\ Idle.pc = "idle"
  BY DEF Idle, CallRecords, Labels
<1>2. ASSUME NEW r \in Replies, Answer(c, r) \/ Reject(c, r)
      PROVE  /\ call' \in [Calls -> CallRecords] /\ reply' \in [Calls -> Replies]
             /\ \A d \in Calls : call'[d] \in {call[d], Idle}
  <2>1. CASE Answer(c, r)
    BY <1>1, <2>1, CallsInRecords DEF TypeOK, Answer
  <2>2. CASE Reject(c, r)
    BY <2>2, CallsInRecords DEF TypeOK, Reject
  <2> QED BY <1>2, <2>1, <2>2
<1>3. ASSUME NEW l \in Labels, Goto(c, l)
      PROVE  /\ call' \in [Calls -> CallRecords] /\ reply' \in [Calls -> Replies]
             /\ \A d \in Calls : d # c => call'[d] = call[d]
             /\ call'[c].email = call[c].email /\ call'[c].code = call[c].code /\ call'[c].pc = l
  <2> DEFINE moved == [call[c] EXCEPT !.pc = l]
  <2>1. call' = [call EXCEPT ![c] = moved] /\ reply' = reply
    BY <1>3 DEF Goto
  <2>2. /\ moved \in CallRecords /\ moved.pc = l
        /\ moved.email = call[c].email /\ moved.code = call[c].code
    BY CallsInRecords DEF CallRecords
  <2> HIDE DEF moved
  <2> QED BY <2>1, <2>2, CallsInRecords DEF TypeOK
<1>4. ASSUME NEW l \in Labels, NEW e \in Emails, NEW code \in Codes, Start(c, l, e, code)
      PROVE  /\ call' \in [Calls -> CallRecords] /\ reply' \in [Calls -> Replies]
             /\ \A d \in Calls : d # c => call'[d] = call[d]
             /\ call'[c].email = e /\ call'[c].code = code /\ call'[c].pc = l
  <2> DEFINE begun == [pc |-> l, email |-> e, code |-> code]
  <2>1. call' = [call EXCEPT ![c] = begun] /\ reply' = [reply EXCEPT ![c] = "none"]
    BY <1>4 DEF Start
  <2>2. begun \in CallRecords /\ begun.pc = l /\ begun.email = e /\ begun.code = code
    BY DEF CallRecords
  <2> HIDE DEF begun
  <2> QED BY <2>1, <2>2, CallsInRecords DEF TypeOK, Replies
<1> QED BY <1>1, <1>2, <1>3, <1>4

-----------------------------------------------------------------------------
LEMMA SendInv ==
  ASSUME IInv, NEW c \in Calls, NEW e \in Emails, NEW code \in Codes, Send(c, e, code)
  PROVE  IInv'
<1>1. CASE CoolingDown(e)
  BY <1>1, OnlyCallsMove DEF Send, IInv, TypeOK, CallsTyped, Replies, CallRecords
<1>2. CASE ~CoolingDown(e)
  <2>1. Start(c, "send.mail", e, code) /\ "send.mail" \in Labels
    BY <1>2 DEF Send, Labels
  <2>2. /\ call' \in [Calls -> CallRecords] /\ reply' \in [Calls -> Replies]
        /\ \A d \in Calls : d # c => call'[d] = call[d]
        /\ call'[c].email = e /\ call'[c].code = code
    BY <2>1, CallTypes DEF IInv
  <2> QED BY <2>2, OnlyCallsMove DEF Send, IInv, TypeOK, CallsTyped
<1> QED BY <1>1, <1>2

(* The new record and the new mail are of one moment.                      *)
LEMMA DeliverInv ==
  ASSUME IInv, NEW c \in Calls, At(c, "send.mail"), Deliver(c)
  PROVE  IInv'
<1> DEFINE e == call[c].email
           rec == [code |-> call[c].code, expiresAt |-> now + Ttl, attempts |-> 0]
           m == [code |-> call[c].code, at |-> now, wrong |-> 0, accepted |-> 0,
                 answeredAt |-> sent[e].answeredAt]
<1>1. e \in Emails /\ call[c].code \in Codes
  BY DEF IInv, TypeOK, At
<1>2. codes' = [codes EXCEPT ![e] = rec] /\ sent' = [sent EXCEPT ![e] = m]
  BY DEF Deliver, Store
<1>3. rec \in Records /\ m \in Mails /\ rec # None
  BY <1>1, CodesAssumption DEF IInv, TypeOK, Records, Mails
<1>4. TypeOK'
  <2>1. codes' \in [Emails -> Records \cup {None}] /\ sent' \in [Emails -> Mails]
    BY <1>1, <1>2, <1>3 DEF IInv, TypeOK
  <2>2. \A d \in Emails : codes'[d] # None => codes'[d].attempts < MaxAttempts
    BY <1>1, <1>2, CodesAssumption DEF IInv, TypeOK
  <2>3. CallsTyped'
    <3>1. Goto(c, "send.cooldown") /\ "send.cooldown" \in Labels
      BY DEF Deliver, Labels
    <3>2. /\ call' \in [Calls -> CallRecords] /\ reply' \in [Calls -> Replies]
          /\ \A d \in Calls : d # c => call'[d] = call[d]
          /\ call'[c].email = call[c].email /\ call'[c].code = call[c].code
      BY <3>1, CallTypes DEF IInv
    <3> QED BY <1>1, <3>2 DEF IInv, TypeOK, CallsTyped
  <2> QED BY <2>1, <2>2, <2>3 DEF Deliver, IInv, TypeOK, CallsTyped, CallRecords
<1>5. \A d \in Emails : d # e => codes'[d] = codes[d] /\ sent'[d] = sent[d]
  BY <1>2 DEF IInv, TypeOK
<1>6. codes'[e] = rec /\ sent'[e] = m
  BY <1>1, <1>2 DEF IInv, TypeOK
<1>7. \A d \in Emails : StoreKeepsPromise(d)'
  BY <1>3, <1>5, <1>6 DEF Deliver, IInv, StoreKeepsPromise, Redeemable
<1>8. \A d \in Emails : CooldownKept(d)'
  BY <1>5, <1>6 DEF Deliver, IInv, CooldownKept
<1> QED BY <1>4, <1>7, <1>8 DEF IInv

LEMMA StartCooldownInv ==
  ASSUME IInv, NEW c \in Calls, StartCooldown(c)
  PROVE  IInv'
<1> DEFINE e == call[c].email
<1>1. e \in Emails /\ now \in Nat /\ Cooldown \in Nat
  BY CodesAssumption DEF IInv, TypeOK, StartCooldown, At
<1>2. [sent[e] EXCEPT !.answeredAt = now] \in Mails
  BY <1>1 DEF IInv, TypeOK, Mails
<1>3. sent' \in [Emails -> Mails] /\ cooldown' \in [Emails -> Nat]
  BY <1>1, <1>2 DEF StartCooldown, IInv, TypeOK
<1>4. \A d \in Emails :
        /\ sent'[d].code = sent[d].code /\ sent'[d].at = sent[d].at
        /\ sent'[d].wrong = sent[d].wrong /\ sent'[d].accepted = sent[d].accepted
        /\ d # e => sent'[d] = sent[d] /\ cooldown'[d] = cooldown[d]
        /\ d = e => sent'[d].answeredAt = now /\ cooldown'[d] = now + Cooldown
  BY <1>1 DEF StartCooldown, IInv, TypeOK, Mails
<1>5. TypeOK'
  BY CallTypes, <1>3 DEF StartCooldown, IInv, TypeOK, CallRecords, Replies
<1>6. \A d \in Emails : StoreKeepsPromise(d)' /\ CooldownKept(d)'
  BY <1>4 DEF StartCooldown, IInv, StoreKeepsPromise, CooldownKept, Redeemable
<1> QED BY <1>5, <1>6 DEF IInv

-----------------------------------------------------------------------------
(* An expired record leaves the map after its mail's time.                 *)
LEMMA VerifyExpiredInv ==
  ASSUME IInv, NEW c \in Calls, NEW e \in Emails, VerifyExpired(c, e)
  PROVE  IInv'
<1>1. codes' \in [Emails -> Records \cup {None}] /\ codes'[e] = None
      /\ \A d \in Emails : d # e => codes'[d] = codes[d]
  BY DEF VerifyExpired, Drop, IInv, TypeOK
<1>2. TypeOK'
  BY <1>1, CallTypes DEF VerifyExpired, IInv, TypeOK, CallRecords, Replies
<1>3. now > sent[e].at + Ttl
  BY DEF VerifyExpired, Expired, IInv, StoreKeepsPromise
<1>4. ~Redeemable(sent[e])
  BY <1>3, CodesAssumption DEF Redeemable, IInv, TypeOK, Mails
<1>5. \A d \in Emails : StoreKeepsPromise(d)' /\ CooldownKept(d)'
  BY <1>1, <1>4 DEF VerifyExpired, IInv, StoreKeepsPromise, CooldownKept, Redeemable
<1> QED BY <1>2, <1>5 DEF IInv

(* A guess is counted in the record as in the mail; the last one a code    *)
(* survives is the last one its mail allows.                               *)
LEMMA VerifyWrongInv ==
  ASSUME IInv, NEW c \in Calls, NEW e \in Emails, NEW code \in Codes, VerifyWrong(c, e, code)
  PROVE  IInv'
<1>1. codes[e] \in Records /\ sent[e] \in Mails
  BY DEF VerifyWrong, IInv, TypeOK
<1>2. sent' \in [Emails -> Mails]
  <2>1. [sent[e] EXCEPT !.wrong = @ + 1] \in Mails
    BY <1>1 DEF Mails
  <2>2. sent' = [sent EXCEPT ![e] = [sent[e] EXCEPT !.wrong = @ + 1]]
    BY DEF VerifyWrong
  <2> QED BY <2>1, <2>2 DEF IInv, TypeOK
<1>3. \A d \in Emails :
        /\ d # e => sent'[d] = sent[d]
        /\ sent'[d].code = sent[d].code /\ sent'[d].at = sent[d].at
        /\ sent'[d].accepted = sent[d].accepted /\ sent'[d].answeredAt = sent[d].answeredAt
  BY <1>1 DEF VerifyWrong, IInv, TypeOK, Mails
<1>4. sent'[e].wrong = sent[e].wrong + 1
  BY <1>1 DEF VerifyWrong, IInv, TypeOK, Mails
<1>5. CallsTyped'
  <2>1. Reject(c, "too_many") \/ Reject(c, "mismatch")
    BY DEF VerifyWrong
  <2> QED BY <2>1 DEF Reject, IInv, TypeOK, CallsTyped, CallRecords, Replies
<1>6. CASE LastAttempt(codes[e])
  <2>1. codes' \in [Emails -> Records \cup {None}] /\ codes'[e] = None
        /\ \A d \in Emails : d # e => codes'[d] = codes[d]
    BY <1>6 DEF VerifyWrong, Drop, IInv, TypeOK
  <2>2. TypeOK'
    BY <1>2, <1>5, <2>1 DEF VerifyWrong, IInv, TypeOK, CallsTyped, CallRecords
  <2>3. ~(sent'[e].wrong < MaxAttempts)
    BY <1>1, <1>4, <1>6, CodesAssumption
       DEF VerifyWrong, LastAttempt, IInv, StoreKeepsPromise, Records
  <2>4. \A d \in Emails : StoreKeepsPromise(d)' /\ CooldownKept(d)'
    BY <1>3, <2>1, <2>3 DEF VerifyWrong, IInv, StoreKeepsPromise, CooldownKept, Redeemable
  <2> QED BY <2>2, <2>4 DEF IInv
<1>7. CASE ~LastAttempt(codes[e])
  <2>1. [codes[e] EXCEPT !.attempts = @ + 1] \in Records
    BY <1>1 DEF Records
  <2>2. codes' \in [Emails -> Records \cup {None}]
    BY <1>7, <2>1 DEF VerifyWrong, IInv, TypeOK
  <2>3. /\ \A d \in Emails : d # e => codes'[d] = codes[d]
        /\ codes'[e].attempts = codes[e].attempts + 1 /\ codes'[e].code = codes[e].code
        /\ codes'[e].expiresAt = codes[e].expiresAt /\ codes'[e] # None
    BY <1>1, <1>7, <2>1, CodesAssumption DEF VerifyWrong, IInv, TypeOK, Records
  <2>4. codes'[e].attempts < MaxAttempts
    BY <1>1, <1>7, <2>3, CodesAssumption DEF LastAttempt, Records
  <2>5. TypeOK'
    BY <1>2, <1>5, <2>2, <2>3, <2>4 DEF VerifyWrong, IInv, TypeOK, CallsTyped, CallRecords
  <2>6. \A d \in Emails : StoreKeepsPromise(d)' /\ CooldownKept(d)'
    BY <1>3, <1>4, <2>3 DEF VerifyWrong, IInv, StoreKeepsPromise, CooldownKept, Redeemable
  <2> QED BY <2>5, <2>6 DEF IInv
<1> QED BY <1>6, <1>7

LEMMA VerifyRightInv ==
  ASSUME IInv, NEW c \in Calls, NEW e \in Emails, NEW code \in Codes, VerifyRight(c, e, code)
  PROVE  IInv'
<1>1. sent[e] \in Mails
  BY DEF IInv, TypeOK
<1>2. sent' \in [Emails -> Mails]
  <2>1. [sent[e] EXCEPT !.accepted = @ + 1] \in Mails
    BY <1>1 DEF Mails
  <2>2. sent' = [sent EXCEPT ![e] = [sent[e] EXCEPT !.accepted = @ + 1]]
    BY DEF VerifyRight
  <2> QED BY <2>1, <2>2 DEF IInv, TypeOK
<1>3. \A d \in Emails :
        /\ d # e => sent'[d] = sent[d]
        /\ sent'[d].answeredAt = sent[d].answeredAt
        /\ d = e => sent'[d].accepted # 0
  BY <1>1 DEF VerifyRight, IInv, TypeOK, Mails
<1>4. codes' \in [Emails -> Records \cup {None}] /\ codes'[e] = None
      /\ \A d \in Emails : d # e => codes'[d] = codes[d]
  BY DEF VerifyRight, Drop, IInv, TypeOK
<1>5. TypeOK'
  <2>1. CallsTyped'
    <3>1. Start(c, "verify.profile", e, code) /\ "verify.profile" \in Labels
      BY DEF VerifyRight, Labels
    <3>2. /\ call' \in [Calls -> CallRecords] /\ reply' \in [Calls -> Replies]
          /\ \A d \in Calls : d # c => call'[d] = call[d]
          /\ call'[c].email = e /\ call'[c].code = code
      BY <3>1, CallTypes DEF IInv
    <3> QED BY <3>2 DEF IInv, TypeOK, CallsTyped
  <2> QED BY <1>2, <1>4, <2>1 DEF VerifyRight, IInv, TypeOK, CallsTyped, CallRecords
<1>6. \A d \in Emails : StoreKeepsPromise(d)' /\ CooldownKept(d)'
  BY <1>3, <1>4 DEF VerifyRight, IInv, StoreKeepsPromise, CooldownKept, Redeemable
<1> QED BY <1>5, <1>6 DEF IInv

-----------------------------------------------------------------------------
LEMMA ProfileInv ==
  ASSUME IInv, NEW c \in Calls, FindProfile(c) \/ SaveProfile(c) \/ ProfileFails(c)
  PROVE  IInv'
<1>1. CASE FindProfile(c)
  <2>1. profile[call[c].email] \in Profiles
    BY <1>1 DEF FindProfile, At, IInv, TypeOK
  <2>2. Answer(c, "profile_missing") \/ Answer(c, "verified") \/ Goto(c, "verify.save")
    BY <1>1, <2>1 DEF FindProfile, Profiles
  <2>3. CallsTyped'
    <3>1. call[c].email \in Emails /\ call[c].code \in Codes
      BY <1>1 DEF FindProfile, At, IInv, TypeOK
    <3>2. {"profile_missing", "verified"} \subseteq Replies /\ "verify.save" \in Labels
      BY DEF Replies, Labels
    <3> QED BY <2>2, <3>1, <3>2, CallTypes DEF IInv, TypeOK, CallsTyped
  <2> QED BY <1>1, <2>3, OnlyCallsMove DEF FindProfile, IInv, TypeOK, CallsTyped
<1>2. CASE SaveProfile(c) \/ ProfileFails(c)
  <2>1. profile' \in [Emails -> Profiles]
    BY <1>2 DEF SaveProfile, ProfileFails, IInv, TypeOK, Profiles
  <2>2. Answer(c, "verified") \/ Answer(c, "error")
    BY <1>2 DEF SaveProfile, ProfileFails
  <2>3. CallsTyped'
    BY <2>2, CallTypes DEF IInv, TypeOK, CallsTyped, Replies
  <2> QED BY <1>2, <2>1, <2>3, OnlyCallsMove DEF SaveProfile, ProfileFails
<1> QED BY <1>1, <1>2

LEMMA RestInv ==
  ASSUME IInv, Tick \/ Restart \/ (\E e \in Emails : Register(e)) \/ UNCHANGED vars
  PROVE  IInv'
<1>1. CASE Tick
  <2>1. TypeOK'
    BY <1>1 DEF Tick, IInv, TypeOK
  <2>2. \A e \in Emails : Redeemable(sent[e])' => Redeemable(sent[e])
    BY <1>1, CodesAssumption DEF Tick, IInv, TypeOK, Mails, Redeemable
  <2> QED BY <1>1, <2>1, <2>2 DEF Tick, IInv, StoreKeepsPromise, CooldownKept
<1>2. CASE Restart
  <2>1. NoMail \in Mails /\ Idle \in CallRecords /\ Idle.pc = "idle"
    BY DEF NoMail, Mails, Idle, CallRecords, Labels
  <2>2. TypeOK'
    BY <1>2, <2>1 DEF Restart, IInv, TypeOK, CallRecords, Replies
  <2> QED BY <1>2, <2>2 DEF Restart, IInv, StoreKeepsPromise, CooldownKept, Redeemable, NoMail
<1>3. CASE \E e \in Emails : Register(e)
  BY <1>3, OnlyCallsMove DEF Register, IInv, TypeOK, CallsTyped, Profiles, CallRecords
<1>4. CASE UNCHANGED vars
  BY <1>4, OnlyCallsMove DEF vars, IInv, TypeOK, CallsTyped, CallRecords
<1> QED BY <1>1, <1>2, <1>3, <1>4

LEMMA NextInv == IInv /\ [Next]_vars => IInv'
<1> SUFFICES ASSUME IInv, [Next]_vars PROVE IInv'
  OBVIOUS
<1>1. ASSUME NEW c \in Calls, Request(c) PROVE IInv'
  <2>1. ASSUME NEW e \in Emails, VerifyMissing(c, e) PROVE IInv'
    BY <2>1, CallTypes, OnlyCallsMove DEF VerifyMissing, IInv, TypeOK, CallsTyped, Replies
  <2> QED BY <1>1, <2>1, VerifyExpiredInv, SendInv, VerifyWrongInv, VerifyRightInv DEF Request
<1>2. ASSUME NEW c \in Calls, Handler(c) PROVE IInv'
  <2>1. ASSUME MailFails(c) PROVE IInv'
    <3>1. CASE Prod
      BY <2>1, <3>1, CallTypes, OnlyCallsMove DEF MailFails, IInv, TypeOK, CallsTyped, Replies
    <3>2. CASE ~Prod
      BY <2>1, <3>2, DeliverInv DEF MailFails
    <3> QED BY <3>1, <3>2
  <2> QED BY <1>2, <2>1, DeliverInv, StartCooldownInv, ProfileInv DEF Handler, MailSent
<1> QED BY <1>1, <1>2, RestInv DEF Next

LEMMA Invariant == Spec => []IInv
BY InitInv, NextInv, PTL DEF Spec

-----------------------------------------------------------------------------
(* The maps, the handlers and the users rows keep their types; a stored    *)
(* code always has an attempt left.                                        *)
THEOREM TypeCorrect == Spec => []TypeOK
<1>1. IInv => TypeOK
  BY DEF IInv
<1> QED BY <1>1, Invariant, PTL

(* Whatever sends and guesses of an address overlap, the code of its       *)
(* newest mail works until it expires, is used or is guessed away.         *)
THEOREM PromiseKept == Spec => []NewestMailWorks
<1>1. IInv => NewestMailWorks
  <2> SUFFICES ASSUME IInv, NEW e \in Emails, Redeemable(sent[e])
               PROVE  codes[e] # None /\ codes[e].code = sent[e].code /\ ~Expired(codes[e])
    BY DEF NewestMailWorks
  <2>1. codes[e] # None /\ codes[e].code = sent[e].code /\ codes[e].expiresAt = sent[e].at + Ttl
    BY DEF IInv, StoreKeepsPromise
  <2>2. now <= sent[e].at + Ttl /\ sent[e].at + Ttl \in Nat /\ now \in Nat
    BY CodesAssumption DEF Redeemable, IInv, TypeOK, Mails
  <2> QED BY <2>1, <2>2 DEF Expired
<1> QED BY <1>1, Invariant, PTL

(* A code is accepted only while its mail is redeemable, and a mail goes   *)
(* out only when the last answered send is a cooldown ago.                 *)
THEOREM PassesEarned == Spec => PassesAreEarned
<1> DEFINE Earned(c) == At(c, "idle") =>
      /\ call'[c].pc = "verify.profile" =>
           Redeemable(sent[call'[c].email]) /\ call'[c].code = sent[call'[c].email].code
      /\ call'[c].pc = "send.mail" =>
           (sent[call'[c].email].answeredAt # None =>
              now >= sent[call'[c].email].answeredAt + Cooldown)
<1>1. ASSUME IInv, [Next]_vars, NEW c \in Calls, At(c, "idle"), call'[c].pc # "idle"
      PROVE  \E e \in Emails, code \in Codes : Send(c, e, code) \/ VerifyRight(c, e, code)
  <2> DEFINE Passed == \E e \in Emails, code \in Codes : Send(c, e, code) \/ VerifyRight(c, e, code)
  <2>1. call'[c] # call[c] /\ call'[c] # Idle
    BY <1>1 DEF At, Idle
  <2>2. ASSUME NEW d \in Calls, NEW e \in Emails, NEW code \in Codes,
               Send(d, e, code) \/ VerifyRight(d, e, code)
        PROVE  Passed
    <3>1. d # c => call'[c] = call[c]
      BY <1>1, <2>2 DEF Send, VerifyRight, Start, IInv, TypeOK
    <3> QED BY <2>1, <2>2, <3>1
  <2>3. ASSUME NEW d \in Calls, Request(d) PROVE Passed
    <3>1. \A e \in Emails : ~VerifyMissing(d, e) /\ ~VerifyExpired(d, e)
      BY <2>1 DEF VerifyMissing, VerifyExpired, Reject
    <3>2. \A e \in Emails, code \in Codes : ~VerifyWrong(d, e, code)
      BY <2>1 DEF VerifyWrong, Reject
    <3> QED BY <2>2, <2>3, <3>1, <3>2 DEF Request
  <2>4. ASSUME NEW d \in Calls, Handler(d) PROVE FALSE
    <3>1. profile[call[d].email] \in Profiles \/ ~At(d, "verify.profile")
      BY <1>1 DEF At, IInv, TypeOK
    <3>2. \/ \E r : Answer(d, r)
          \/ \E l : Goto(d, l) /\ ~At(d, "idle")
      BY <2>4, <3>1 DEF Handler, MailSent, MailFails, Deliver, StartCooldown, FindProfile,
         SaveProfile, ProfileFails, At, Profiles
    <3>3. ASSUME NEW r, Answer(d, r) PROVE FALSE
      BY <1>1, <2>1, <3>3 DEF Answer, IInv, TypeOK
    <3>4. ASSUME NEW l, Goto(d, l), ~At(d, "idle") PROVE FALSE
      BY <1>1, <2>1, <3>4 DEF Goto, At, IInv, TypeOK
    <3> QED BY <3>2, <3>3, <3>4
  <2> HIDE DEF Passed
  <2>5. CASE Tick \/ Restart \/ (\E e \in Emails : Register(e)) \/ UNCHANGED vars
    BY <2>1, <2>5 DEF Tick, Restart, Register, vars
  <2> QED BY <1>1, <2>3, <2>4, <2>5 DEF Next, Passed
<1>2. ASSUME IInv, NEW c \in Calls, NEW e \in Emails, NEW code \in Codes, At(c, "idle"),
             call'[c].pc # "idle", Send(c, e, code)
      PROVE  Earned(c)
  <2>1. ~CoolingDown(e) /\ Start(c, "send.mail", e, code)
    BY <1>2 DEF Send, At
  <2>2. call'[c].email = e /\ call'[c].pc = "send.mail"
    BY <1>2, <2>1 DEF Start, IInv, TypeOK
  <2>3. sent[e].answeredAt # None => now >= sent[e].answeredAt + Cooldown
    BY <1>2, <2>1, CodesAssumption DEF CoolingDown, IInv, TypeOK, Mails, CooldownKept
  <2> QED BY <2>2, <2>3
<1>3. ASSUME IInv, NEW c \in Calls, NEW e \in Emails, NEW code \in Codes, At(c, "idle"),
             VerifyRight(c, e, code)
      PROVE  Earned(c)
  <2>1. call'[c].email = e /\ call'[c].pc = "verify.profile" /\ call'[c].code = code
    BY <1>3 DEF VerifyRight, Start, IInv, TypeOK
  <2>2. /\ codes[e] # None /\ codes[e].code = code /\ ~Expired(codes[e])
        /\ codes[e].attempts < MaxAttempts /\ code # None
    BY <1>3, CodesAssumption DEF VerifyRight, IInv, TypeOK
  <2>3. Redeemable(sent[e]) /\ sent[e].code = code
    BY <1>3, <2>2, CodesAssumption DEF IInv, TypeOK, StoreKeepsPromise, Redeemable, Expired,
       Mails, Records
  <2> QED BY <2>1, <2>3
<1>4. IInv /\ [Next]_vars => [\A c \in Calls : Earned(c)]_vars
  BY <1>1, <1>2, <1>3 DEF At
<1> QED BY <1>4, Invariant, PTL DEF Spec, PassesAreEarned
=============================================================================
