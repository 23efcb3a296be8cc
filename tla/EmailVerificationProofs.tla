------------------------ MODULE EmailVerificationProofs ------------------------
(***************************************************************************)
(* The properties of EmailVerification for any codes, slots, times and     *)
(* number of attempts: the types, that the code of the newest mail works   *)
(* and that a guess is evaluated only against that code.                   *)
(*                                                                         *)
(* Nothing but the calls themselves keeps two of them apart, so the        *)
(* invariant says what holds while none overlaps another: the row is the   *)
(* one its handler read, until the handler has written it.                 *)
(***************************************************************************)
EXTENDS EmailVerification, TLAPS

(* What every handler has decided to write, also one that overlaps others. *)
CallInv(c) ==
  LET me == call[c] IN
  /\ At(c, "idle") => me.op = "none"
  /\ ~At(c, "idle") =>
       /\ me.op \in {"send", "miss", "hit"} /\ me.rec \in Rows /\ me.row \in 0..Len(rows)
       /\ me.op # "send" => me.row # 0
       /\ me.op = "send" =>
            me.rec.expireAt = me.rec.lastSentAt + Ttl /\ me.rec.left = MaxAttempts /\ ~me.rec.used
  /\ At(c, "mail") => me.op = "send"
  /\ At(c, "write") /\ me.row # 0 => me.loaded \in Rows

(* A handler no other overlaps holds the newest row as it is.              *)
AloneInv(c) ==
  LET me == call[c] IN
  (alone /\ ~At(c, "idle")) =>
    /\ ~Busy(c)
    /\ ~At(c, "mail") =>
         /\ me.row = Len(rows)
         /\ me.op = "miss" => me.rec = Miss(Newest)
         /\ me.op = "hit" => me.rec = Hit(Newest)
    /\ At(c, "write") /\ me.row # 0 => me.loaded = Newest
    /\ At(c, "mail") => rows # <<>> /\ Newest = me.rec

(* The newest row is what the newest mail said, less the guesses since.    *)
MailInv ==
  mail.code # None =>
    /\ rows # <<>> /\ Newest.code = mail.code /\ Newest.expireAt = mail.at + Ttl
    /\ Newest.left = MaxAttempts - mail.wrong /\ (Newest.used <=> mail.accepted # 0)

IInv == TypeOK /\ MailInv /\ \A c \in Calls : CallInv(c) /\ AloneInv(c)

CallTypes == [pc : {"idle", "load", "write", "mail"}, op : Ops, row : Nat,
              rec : Rows \cup {None}, loaded : Rows \cup {None}]
MailTypes == [code : Codes \cup {None}, at : Nat, wrong : Nat, accepted : Nat]

-----------------------------------------------------------------------------
(* Rows and what a save writes of them                                     *)

(* A row is a function of its columns.                                     *)
LEMMA RowColumns ==
  ASSUME NEW r \in Rows
  PROVE  /\ r = [f \in Columns |-> r[f]]
         /\ r["code"] \in Codes /\ r["expireAt"] \in Nat /\ r["left"] \in 0..MaxAttempts
         /\ r["used"] \in BOOLEAN /\ r["lastSentAt"] \in Nat
BY DEF Rows, Columns

LEMMA ColumnsRow ==
  ASSUME NEW r, r = [f \in Columns |-> r[f]], r["code"] \in Codes, r["expireAt"] \in Nat,
         r["left"] \in 0..MaxAttempts, r["used"] \in BOOLEAN, r["lastSentAt"] \in Nat
  PROVE  r \in Rows
BY DEF Rows, Columns

(* An UPDATE of some columns leaves a row, and leaves the entity in full   *)
(* when the row is the one that was loaded.                                *)
LEMMA WrittenRow ==
  ASSUME NEW rec \in Rows, NEW loaded \in Rows, NEW row \in Rows
  PROVE  Written(rec, loaded, row) \in Rows /\ (loaded = row => Written(rec, loaded, row) = rec)
<1> DEFINE w == Written(rec, loaded, row)
<1>1. w = [f \in Columns |-> w[f]] /\ \A f \in Columns : w[f] = rec[f] \/ w[f] = row[f]
  BY DEF Written
<1>2. w \in Rows
  <2> HIDE DEF w
  <2> QED BY <1>1, RowColumns, ColumnsRow DEF Columns
<1>3. loaded = row => \A f \in Columns : w[f] = rec[f]
  BY DEF Written
<1>4. loaded = row => w = [f \in Columns |-> rec[f]]
  BY <1>1, <1>3
<1> QED BY <1>2, <1>4, RowColumns

(* What send and verify put into the entity.                               *)
LEMMA Decided ==
  ASSUME TypeOK
  PROVE  /\ \A code \in Codes :
              LET r == FreshRow(code) IN
              /\ r \in Rows /\ r.code = code
              /\ r.expireAt = r.lastSentAt + Ttl /\ r.left = MaxAttempts /\ ~r.used
         /\ \A row \in Rows :
              /\ row.left > 0 => Miss(row) \in Rows
              /\ Miss(row).code = row.code /\ Miss(row).expireAt = row.expireAt
              /\ Miss(row).left = row.left - 1 /\ (Miss(row).used <=> row.used)
         /\ \A row \in Rows :
              /\ Hit(row) \in Rows /\ Hit(row).code = row.code
              /\ Hit(row).expireAt = row.expireAt /\ Hit(row).left = row.left /\ Hit(row).used
<1>1. ASSUME NEW code \in Codes
      PROVE  LET r == FreshRow(code) IN
             /\ r \in Rows /\ r.code = code
             /\ r.expireAt = r.lastSentAt + Ttl /\ r.left = MaxAttempts /\ ~r.used
  BY EmailAssumption DEF TypeOK, FreshRow, Rows
<1>2. ASSUME NEW row \in Rows
      PROVE  /\ row.left > 0 => Miss(row) \in Rows
             /\ Miss(row).code = row.code /\ Miss(row).expireAt = row.expireAt
             /\ Miss(row).left = row.left - 1 /\ (Miss(row).used <=> row.used)
  BY EmailAssumption DEF Miss, Rows
<1>3. ASSUME NEW row \in Rows
      PROVE  /\ Hit(row) \in Rows /\ Hit(row).code = row.code
             /\ Hit(row).expireAt = row.expireAt /\ Hit(row).left = row.left /\ Hit(row).used
  BY DEF Hit, Rows
<1> QED BY <1>1, <1>2, <1>3

-----------------------------------------------------------------------------
LEMMA InitInv == Init => IInv
<1> SUFFICES ASSUME Init PROVE IInv
  OBVIOUS
<1>1. TypeOK
  BY DEF Init, TypeOK, Idle, NoMail, Ops, Replies
<1>2. MailInv
  BY DEF Init, MailInv, NoMail
<1>3. \A c \in Calls : CallInv(c) /\ AloneInv(c)
  BY DEF Init, CallInv, AloneInv, At, Idle
<1> QED BY <1>1, <1>2, <1>3 DEF IInv

(* A step of one slot: beside a slot that runs alone all others are idle.  *)
LEMMA SlotMoves ==
  ASSUME IInv, NEW c \in Calls, now' = now, rows' \in Seq(Rows), Len(rows') >= Len(rows),
         NEW me \in CallTypes, call' = [call EXCEPT ![c] = me],
         reply' \in [Calls -> Replies], mail' \in MailTypes, alone' \in BOOLEAN,
         alone' => ~Busy(c), MailInv', CallInv(c)', AloneInv(c)'
  PROVE  IInv'
<1>1. TypeOK'
  BY DEF IInv, TypeOK, CallTypes, MailTypes
<1>2. ASSUME NEW d \in Calls \ {c} PROVE CallInv(d)' /\ AloneInv(d)'
  <2>1. call'[d] = call[d] /\ CallInv(d) /\ rows \in Seq(Rows)
    BY DEF IInv, TypeOK
  <2>2. CallInv(d)'
    BY <2>1 DEF CallInv, At
  <2>3. AloneInv(d)'
    BY <2>1 DEF AloneInv, Busy, At
  <2> QED BY <2>2, <2>3
<1> QED BY <1>1, <1>2 DEF IInv

(* A slot that was alone goes on alone.                                    *)
LEMMA StaysAlone ==
  ASSUME IInv, NEW c \in Calls, ~At(c, "idle"), alone
  PROVE  ~Busy(c)
BY DEF IInv, AloneInv

LEMMA AnswerTypes ==
  ASSUME IInv, NEW c \in Calls, NEW r \in Replies, Answer(c, r)
  PROVE  /\ Idle \in CallTypes /\ call' = [call EXCEPT ![c] = Idle]
         /\ reply' \in [Calls -> Replies] /\ CallInv(c)' /\ AloneInv(c)'
<1>1. Idle \in CallTypes /\ Idle.pc = "idle" /\ Idle.op = "none"
  BY DEF Idle, CallTypes, Ops
<1>2. call'[c] = Idle /\ call' = [call EXCEPT ![c] = Idle] /\ reply' \in [Calls -> Replies]
  BY DEF Answer, IInv, TypeOK
<1> QED BY <1>1, <1>2 DEF CallInv, AloneInv, At

LEMMA DeclineInv ==
  ASSUME IInv, NEW c \in Calls, NEW r \in Replies, Decline(c, r)
  PROVE  IInv'
<1>1. TypeOK' /\ MailInv'
  BY DEF Decline, history, IInv, TypeOK, MailInv, Newest
<1>2. \A d \in Calls : CallInv(d)' /\ AloneInv(d)'
  BY DEF Decline, history, IInv, CallInv, AloneInv, At, Busy, Newest
<1> QED BY <1>1, <1>2 DEF IInv

LEMMA SaveInv ==
  ASSUME IInv, NEW c \in Calls, NEW op \in {"send", "miss", "hit"}, NEW rec \in Rows,
         Save(c, op, Len(rows), rec), mail' = mail,
         op = "send" => rec.expireAt = rec.lastSentAt + Ttl /\ rec.left = MaxAttempts /\ ~rec.used,
         op # "send" => rows # <<>>,
         op = "miss" => rec = Miss(Newest), op = "hit" => rec = Hit(Newest)
  PROVE  IInv'
<1> DEFINE me == [pc |-> "load", op |-> op, row |-> Len(rows), rec |-> rec, loaded |-> None]
<1>1. rows \in Seq(Rows) /\ rows' = rows /\ Len(rows) \in Nat /\ now' = now
  BY DEF IInv, TypeOK, Save
<1>2. /\ me \in CallTypes /\ me.pc = "load" /\ me.op = op /\ me.row = Len(rows) /\ me.rec = rec
  BY <1>1 DEF CallTypes, Ops
<1>3. call' = [call EXCEPT ![c] = me] /\ call'[c] = me
  BY DEF Save, IInv, TypeOK
<1> HIDE DEF me
<1>4. reply' \in [Calls -> Replies] /\ mail' \in MailTypes /\ MailInv'
  BY <1>1 DEF Save, IInv, TypeOK, MailTypes, Replies, MailInv, Newest
<1>5. alone' \in BOOLEAN /\ (alone' => ~Busy(c))
  BY DEF Save
<1>6. CallInv(c)'
  BY <1>1, <1>2, <1>3 DEF CallInv, At
<1>7. AloneInv(c)'
  <2>1. Busy(c)' <=> Busy(c)
    BY <1>3 DEF Busy, IInv, TypeOK
  <2> QED BY <1>1, <1>2, <1>3, <1>5, <2>1 DEF AloneInv, At, Newest
<1>8. rows' \in Seq(Rows) /\ Len(rows') >= Len(rows)
  BY <1>1
<1> QED BY <1>1, <1>2, <1>3, <1>4, <1>5, <1>6, <1>7, <1>8, SlotMoves

LEMMA DecideInv ==
  ASSUME IInv, NEW c \in Calls, NEW code \in Codes, Send(c, code) \/ Verify(c, code)
  PROVE  IInv'
<1>1. TypeOK /\ rows \in Seq(Rows)
  BY DEF IInv, TypeOK
<1>2. CASE Send(c, code)
  BY <1>1, <1>2, Decided, SaveInv DEF Send
<1>3. CASE Verify(c, code)
  <2>1. rows # <<>> /\ Newest \in Rows /\ Newest.left > 0
    BY <1>1, <1>3 DEF Verify, Guessable, Newest
  <2> QED BY <1>1, <1>3, <2>1, Decided, SaveInv DEF Verify
<1> QED BY <1>2, <1>3

LEMMA SaveLoadInv ==
  ASSUME IInv, NEW c \in Calls, SaveLoad(c)
  PROVE  IInv'
<1> DEFINE l == IF call[c].row = 0 THEN None ELSE rows[call[c].row]
           me == [call[c] EXCEPT !.pc = "write", !.loaded = l]
<1>1. /\ call[c] \in CallTypes /\ rows \in Seq(Rows) /\ call[c].row \in 0..Len(rows)
      /\ CallInv(c) /\ AloneInv(c) /\ At(c, "load")
  BY DEF SaveLoad, At, IInv, TypeOK, CallInv, CallTypes
<1>2. (call[c].row # 0 => l \in Rows /\ l = rows[call[c].row]) /\ l \in Rows \cup {None}
  BY <1>1
<1> HIDE DEF l
<1>3. /\ me \in CallTypes /\ me.pc = "write" /\ me.op = call[c].op /\ me.row = call[c].row
      /\ me.rec = call[c].rec /\ me.loaded = l
  BY <1>1, <1>2 DEF CallTypes
<1>4. call' = [call EXCEPT ![c] = me]
  BY <1>1 DEF SaveLoad, CallTypes, l
<1> HIDE DEF me
<1>5. call'[c] = me /\ UNCHANGED <<now, rows, reply, mail, alone>>
  BY <1>4 DEF SaveLoad, history, IInv, TypeOK
<1>6. reply' \in [Calls -> Replies] /\ mail' \in MailTypes /\ MailInv' /\ alone' \in BOOLEAN
  BY <1>5 DEF IInv, TypeOK, MailTypes, MailInv, Newest
<1>7. CallInv(c)'
  BY <1>1, <1>2, <1>3, <1>5 DEF CallInv, At
<1>8. AloneInv(c)'
  <2>1. Busy(c)' <=> Busy(c)
    BY <1>4 DEF Busy, IInv, TypeOK
  <2> QED BY <1>1, <1>2, <1>3, <1>5, <2>1 DEF AloneInv, At, Newest
<1>9. alone' => ~Busy(c)
  BY <1>1, <1>5, StaysAlone DEF At
<1>10. rows' \in Seq(Rows) /\ Len(rows') >= Len(rows)
  BY <1>1, <1>5
<1> QED BY <1>3, <1>4, <1>5, <1>6, <1>7, <1>8, <1>9, <1>10, SlotMoves

LEMMA SaveWriteInv ==
  ASSUME IInv, NEW c \in Calls, SaveWrite(c)
  PROVE  IInv'
<1> DEFINE me == call[c]
           sent == [me EXCEPT !.pc = "mail"]
<1>1. /\ me \in CallTypes /\ rows \in Seq(Rows) /\ me.row \in 0..Len(rows) /\ me.rec \in Rows
      /\ me.op \in {"send", "miss", "hit"} /\ CallInv(c) /\ AloneInv(c) /\ At(c, "write")
      /\ me.op # "send" => me.row # 0
      /\ me.row # 0 => me.loaded \in Rows
      /\ mail \in MailTypes /\ now' = now /\ alone' = alone /\ alone \in BOOLEAN
  BY DEF SaveWrite, At, IInv, TypeOK, CallInv, CallTypes, MailTypes
<1>2. /\ rows' \in Seq(Rows) /\ Len(rows') >= Len(rows)
      /\ alone => rows' # <<>> /\ rows'[Len(rows')] = me.rec
  <2>1. CASE me.row = 0
    <3>1. rows' = Append(rows, me.rec)
      BY <2>1 DEF SaveWrite
    <3> QED BY <1>1, <3>1
  <2>2. CASE me.row # 0
    <3> DEFINE w == Written(me.rec, me.loaded, rows[me.row])
    <3>1. rows' = [rows EXCEPT ![me.row] = w] /\ rows[me.row] \in Rows /\ me.row \in 1..Len(rows)
      BY <1>1, <2>2 DEF SaveWrite
    <3>2. w \in Rows /\ (me.loaded = rows[me.row] => w = me.rec)
      BY <1>1, <2>2, <3>1, WrittenRow
    <3>3. alone => me.row = Len(rows) /\ me.loaded = rows[me.row]
      BY <1>1, <2>2 DEF AloneInv, At, Newest
    <3> HIDE DEF w, me
    <3>4. rows' \in Seq(Rows) /\ Len(rows') = Len(rows) /\ rows'[me.row] = w
      BY <1>1, <3>1, <3>2
    <3> QED BY <1>1, <3>1, <3>2, <3>3, <3>4
  <2> QED BY <2>1, <2>2
<1>3. mail' \in MailTypes /\ MailInv'
  <2>1. CASE ~alone \/ me.op = "send"
    <3>1. mail' = NoMail /\ NoMail \in MailTypes /\ NoMail.code = None
      BY <1>1, <2>1 DEF SaveWrite, Counted, NoMail, MailTypes
    <3> QED BY <3>1 DEF MailInv
  <2>2. CASE alone /\ me.op = "miss"
    <3>1. mail' = [mail EXCEPT !.wrong = @ + 1]
      BY <2>2 DEF SaveWrite, Counted
    <3>2. /\ mail' \in MailTypes /\ mail'.code = mail.code /\ mail'.at = mail.at
          /\ mail'.wrong = mail.wrong + 1 /\ mail'.accepted = mail.accepted
      BY <1>1, <3>1 DEF MailTypes
    <3>3. me.rec = Miss(Newest) /\ Newest \in Rows
      BY <1>1, <2>2 DEF AloneInv, At, Newest
    <3>4. Newest' = me.rec /\ rows' # <<>>
      BY <1>2, <2>2 DEF Newest
    <3> HIDE DEF me
    <3>5. /\ me.rec.code = Newest.code /\ me.rec.expireAt = Newest.expireAt
          /\ me.rec.left = Newest.left - 1 /\ (me.rec.used <=> Newest.used)
      BY <3>3, Decided DEF IInv
    <3>6. mail.code # None => Newest.left - 1 = MaxAttempts - (mail.wrong + 1)
      BY <1>1, EmailAssumption DEF IInv, MailInv, MailTypes
    <3>7. MailInv'
      BY <3>2, <3>4, <3>5, <3>6 DEF IInv, MailInv
    <3> QED BY <3>2, <3>7
  <2>3. CASE alone /\ me.op = "hit"
    <3>1. mail' = [mail EXCEPT !.accepted = @ + 1]
      BY <2>3 DEF SaveWrite, Counted
    <3>2. /\ mail' \in MailTypes /\ mail'.code = mail.code /\ mail'.at = mail.at
          /\ mail'.wrong = mail.wrong /\ mail'.accepted = mail.accepted + 1
      BY <1>1, <3>1 DEF MailTypes
    <3>3. me.rec = Hit(Newest) /\ Newest \in Rows
      BY <1>1, <2>3 DEF AloneInv, At, Newest
    <3>4. Newest' = me.rec /\ rows' # <<>>
      BY <1>2, <2>3 DEF Newest
    <3> HIDE DEF me
    <3> QED BY <1>1, <3>2, <3>3, <3>4, Decided DEF IInv, MailInv, MailTypes
  <2> QED BY <1>1, <2>1, <2>2, <2>3
<1>4. alone' => ~Busy(c)
  BY <1>1, StaysAlone DEF At
<1>5. CASE me.op # "send"
  <2>1. PICK r \in Replies : Answer(c, r)
    BY <1>1, <1>5 DEF SaveWrite, Replies
  <2> QED BY <1>1, <1>2, <1>3, <1>4, <2>1, AnswerTypes, SlotMoves
<1>6. CASE me.op = "send"
  <2>1. /\ sent \in CallTypes /\ sent.pc = "mail" /\ sent.op = "send" /\ sent.row = me.row
        /\ sent.rec = me.rec /\ sent.loaded = me.loaded
    BY <1>1, <1>6 DEF CallTypes
  <2>2. call' = [call EXCEPT ![c] = sent] /\ reply' = reply
    BY <1>6 DEF SaveWrite, Goto
  <2> HIDE DEF sent
  <2>3. call'[c] = sent /\ reply' \in [Calls -> Replies]
    BY <2>2 DEF IInv, TypeOK
  <2>4. CallInv(c)'
    BY <1>1, <1>2, <1>6, <2>1, <2>3 DEF CallInv, At
  <2>5. AloneInv(c)'
    <3>1. Busy(c)' <=> Busy(c)
      BY <2>2 DEF Busy, IInv, TypeOK
    <3> QED BY <1>1, <1>2, <1>4, <2>1, <2>3, <3>1 DEF AloneInv, At, Newest
  <2> QED BY <1>1, <1>2, <1>3, <1>4, <2>1, <2>2, <2>3, <2>4, <2>5, SlotMoves
<1> QED BY <1>5, <1>6

(* The mail: from here on its code is promised.                            *)
LEMMA MailSentInv ==
  ASSUME IInv, NEW c \in Calls, MailSent(c)
  PROVE  IInv'
<1> DEFINE me == call[c]
<1>1. /\ me.rec \in Rows /\ rows \in Seq(Rows) /\ At(c, "mail") /\ Answer(c, "sent")
      /\ me.rec.expireAt = me.rec.lastSentAt + Ttl /\ me.rec.left = MaxAttempts /\ ~me.rec.used
      /\ alone => rows # <<>> /\ Newest = me.rec
      /\ UNCHANGED <<now, rows, alone>> /\ alone \in BOOLEAN
  BY DEF MailSent, At, IInv, TypeOK, CallInv, AloneInv
<1>2. mail' \in MailTypes /\ MailInv'
  <2>1. CASE ~alone
    <3>1. mail' = NoMail /\ NoMail \in MailTypes /\ NoMail.code = None
      BY <2>1 DEF MailSent, NoMail, MailTypes
    <3> QED BY <3>1 DEF MailInv
  <2>2. CASE alone
    <3>1. mail' = [NoMail EXCEPT !.code = me.rec.code, !.at = me.rec.lastSentAt]
      BY <2>2 DEF MailSent
    <3>2. mail' = [code |-> me.rec.code, at |-> me.rec.lastSentAt, wrong |-> 0, accepted |-> 0]
      BY <3>1 DEF NoMail
    <3>3. Newest' = me.rec /\ rows' # <<>>
      BY <1>1, <2>2 DEF Newest
    <3> HIDE DEF me
    <3>4. me.rec.code \in Codes /\ me.rec.lastSentAt \in Nat
      BY <1>1 DEF Rows
    <3>5. mail' \in MailTypes
      BY <3>2, <3>4 DEF MailTypes
    <3> QED BY <1>1, <3>2, <3>3, <3>5, EmailAssumption DEF MailInv
  <2> QED BY <2>1, <2>2
<1>3. alone' => ~Busy(c)
  BY <1>1, StaysAlone DEF At
<1> QED BY <1>1, <1>2, <1>3, AnswerTypes, SlotMoves DEF Replies

LEMMA FailsInv ==
  ASSUME IInv, NEW c \in Calls, Fails(c)
  PROVE  IInv'
<1>1. /\ rows' \in Seq(Rows) /\ Len(rows') >= Len(rows) /\ now' = now /\ mail' \in MailTypes
      /\ alone' \in BOOLEAN /\ MailInv' /\ alone' = alone
  BY DEF Fails, history, IInv, TypeOK, MailTypes, MailInv, Newest
<1>2. Answer(c, "error") /\ "error" \in Replies /\ ~At(c, "idle")
  BY DEF Fails, Replies
<1> QED BY <1>1, <1>2, StaysAlone, AnswerTypes, SlotMoves

LEMMA NextInv == IInv /\ [Next]_vars => IInv'
<1> SUFFICES ASSUME IInv, [Next]_vars PROVE IInv'
  OBVIOUS
<1>1. CASE Tick \/ UNCHANGED vars
  <2>1. TypeOK' /\ MailInv'
    BY <1>1 DEF Tick, vars, history, IInv, TypeOK, MailInv, Newest
  <2>2. \A d \in Calls : CallInv(d)' /\ AloneInv(d)'
    BY <1>1 DEF Tick, vars, history, IInv, CallInv, AloneInv, At, Busy, Newest
  <2> QED BY <2>1, <2>2 DEF IInv
<1>2. ASSUME NEW c \in Calls, SendSilently(c) \/ SendTooSoon(c) \/ VerifyRefused(c) PROVE IInv'
  BY <1>2, DeclineInv DEF SendSilently, SendTooSoon, VerifyRefused, Replies
<1> QED BY <1>1, <1>2, DecideInv, SaveLoadInv, SaveWriteInv, MailSentInv, FailsInv DEF Next

(* Every reachable state has the inductive invariant.                      *)
LEMMA Invariant == Spec => []IInv
BY InitInv, NextInv, PTL DEF Spec

-----------------------------------------------------------------------------
(* Types of the rows, the handlers and their answers; a row's attempts     *)
(* never drop below zero, although overlapping guesses read the same count *)
(* (email-verification.service verify).                                    *)
THEOREM TypeCorrect == Spec => []TypeOK
<1>1. IInv => TypeOK
  BY DEF IInv
<1> QED BY <1>1, Invariant, PTL

(* The code of the newest mail works until it expires, is used or is       *)
(* guessed at too often, whatever fails, as long as no calls overlap       *)
(* (email-verification.service send and verify).                           *)
THEOREM PromiseKept == Spec => []NewestMailWorks
<1>1. IInv => NewestMailWorks
  <2> SUFFICES ASSUME IInv, Redeemable PROVE Guessable /\ Newest.code = mail.code
    BY DEF NewestMailWorks
  <2>1. /\ rows # <<>> /\ Newest.code = mail.code /\ Newest.expireAt = mail.at + Ttl
        /\ Newest.left = MaxAttempts - mail.wrong /\ ~Newest.used
    BY DEF IInv, MailInv, Redeemable
  <2>2. mail.wrong \in Nat /\ mail.at \in Nat /\ now \in Nat
    BY DEF IInv, TypeOK
  <2>3. mail.wrong < MaxAttempts /\ now <= mail.at + Ttl
    BY DEF Redeemable
  <2> QED BY <2>1, <2>2, <2>3, EmailAssumption DEF Guessable
<1> QED BY <1>1, Invariant, PTL

(* A guess that overlaps nothing is evaluated against the code of the      *)
(* newest mail and only while that is redeemable, so a code is used once   *)
(* and guessed at MaxAttempts times at most (email-verification.service    *)
(* verify).                                                                *)
THEOREM GuessesEarned == Spec => GuessesAreEarned
<1> DEFINE Earned(c) ==
      (At(c, "idle") /\ call'[c].op \in {"hit", "miss"} /\ alone' /\ mail.code # None)
      => Redeemable /\ call'[c].rec.code = mail.code
<1>1. ASSUME IInv, [Next]_vars, NEW c \in Calls PROVE Earned(c)
  <2> SUFFICES ASSUME At(c, "idle"), call'[c].op \in {"hit", "miss"}, mail.code # None
               PROVE  Redeemable /\ call'[c].rec.code = mail.code
    OBVIOUS
  <2>1. /\ call[c].op = "none" /\ MailInv /\ rows \in Seq(Rows)
        /\ mail \in MailTypes /\ call \in [Calls -> CallTypes] /\ now \in Nat
    BY <1>1 DEF IInv, CallInv, TypeOK, MailTypes, CallTypes
  <2>2. PICK code \in Codes : Verify(c, code)
    <3>1. call'[c] # call[c]
      BY <2>1
    <3>2. ~Tick /\ ~UNCHANGED vars
      BY <3>1 DEF Tick, vars
    <3>3. ASSUME NEW d \in Calls, SendSilently(d) \/ SendTooSoon(d) \/ VerifyRefused(d) PROVE FALSE
      BY <3>1, <3>3 DEF SendSilently, SendTooSoon, VerifyRefused, Decline
    <3>4. ASSUME NEW d \in Calls, SaveLoad(d) \/ SaveWrite(d) \/ MailSent(d) \/ Fails(d) PROVE FALSE
      <4>1. d # c
        BY <3>4 DEF SaveLoad, SaveWrite, MailSent, Fails, At
      <4>2. ~SaveLoad(d)
        BY <2>1, <3>1, <4>1 DEF SaveLoad
      <4>3. ~SaveWrite(d)
        <5>1. SaveWrite(d) => call[d].op \in {"send", "miss", "hit"}
          BY <1>1 DEF SaveWrite, IInv, CallInv, At
        <5> QED BY <2>1, <3>1, <4>1, <5>1 DEF SaveWrite, Goto, Answer
      <4>4. ~MailSent(d) /\ ~Fails(d)
        BY <2>1, <3>1, <4>1 DEF MailSent, Fails, Answer
      <4> QED BY <3>4, <4>2, <4>3, <4>4
    <3>5. ASSUME NEW d \in Calls, NEW code \in Codes, Send(d, code) PROVE FALSE
      BY <2>1, <3>1, <3>5 DEF Send, Save
    <3>6. PICK d \in Calls, code \in Codes : Verify(d, code)
      BY <1>1, <3>2, <3>3, <3>4, <3>5 DEF Next
    <3>7. d = c
      BY <2>1, <3>1, <3>6 DEF Verify, Save
    <3> QED BY <3>6, <3>7
  <2>3. Guessable /\ Newest \in Rows
    BY <2>1, <2>2 DEF Verify, Guessable, Newest
  <2>4. call'[c].rec.code = Newest.code
    <3>1. PICK rec \in {Miss(Newest), Hit(Newest)}, op \in {"miss", "hit"} :
            Save(c, op, Len(rows), rec)
      BY <2>2 DEF Verify
    <3>2. call'[c].rec = rec
      BY <2>1, <3>1 DEF Save
    <3> QED BY <1>1, <2>3, <3>1, <3>2, Decided DEF IInv
  <2>5. Redeemable
    BY <2>1, <2>3, EmailAssumption DEF Guessable, Redeemable, MailInv, MailTypes, Rows
  <2> QED BY <2>1, <2>3, <2>4, <2>5 DEF MailInv
<1>2. IInv /\ [Next]_vars => [\A c \in Calls : Earned(c)]_vars
  BY <1>1
<1> QED BY <1>2, Invariant, PTL DEF Spec, GuessesAreEarned
=============================================================================
