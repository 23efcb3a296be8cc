------------------------------- MODULE Delivery -------------------------------
(***************************************************************************)
(* Delivery memberships (modules/delivery), beside the accounts whose      *)
(* tokens open their routes.  signup asks whether the user exists, then    *)
(* whether he is a member, and then inserts: three statements between      *)
(* which the other slots run.  userId is unique in the table.              *)
(***************************************************************************)
EXTENDS Accounts

VARIABLES members, \* accounts with a delivery_memberships row
          signup,  \* the signup each slot runs, if any
          joined   \* for the properties: signups answered "isMember"

allVars == <<vars, members, signup, joined>>

NoSignup == [pc |-> "idle", who |-> None]
SignupReplies == Replies \cup {"refused", "already", "member", "nonmember"}

DeliveryInit ==
  /\ Init
  /\ members = {}
  /\ signup = [c \in Calls |-> NoSignup]
  /\ joined = [a \in Addresses |-> 0]

Free(c) == At(c, "idle") /\ signup[c] = NoSignup

Respond(c, r) ==
  /\ reply' = [reply EXCEPT ![c] = r]
  /\ UNCHANGED <<users, tokens, call, history>>

Proceed(c, step, a) ==
  /\ signup' = [signup EXCEPT ![c] = [pc |-> step, who |-> a]]
  /\ UNCHANGED <<members, joined>>
  /\ Respond(c, "none")

Finish(c, r) ==
  /\ signup' = [signup EXCEPT ![c] = NoSignup]
  /\ Respond(c, r)

InStep(c, step) == signup[c].pc = step
Me(c) == signup[c].who

(* getMembership: one SELECT by the user of the token.                     *)
Membership(c, a) ==
  /\ Free(c) /\ a \in tokens
  /\ Respond(c, IF a \in members THEN "member" ELSE "nonmember")
  /\ UNCHANGED <<members, signup, joined>>

(* signup: does the user exist, not deleted? ...                           *)
Signup(c, a) == Free(c) /\ a \in tokens /\ Proceed(c, "exists", a)

(* He does not, or the address given, which need not be his account's, is  *)
(* not of the university.                                                  *)
SignupRefused(c) ==
  /\ InStep(c, "exists")
  /\ Finish(c, "refused")
  /\ UNCHANGED <<members, joined>>

SignupExists(c) == InStep(c, "exists") /\ Live(Me(c)) /\ Proceed(c, "member", Me(c))

SignupAlready(c) ==
  /\ InStep(c, "member") /\ Me(c) \in members
  /\ Finish(c, "already")
  /\ UNCHANGED <<members, joined>>

SignupNew(c) == InStep(c, "member") /\ Me(c) \notin members /\ Proceed(c, "insert", Me(c))

Join(c) ==
  /\ InStep(c, "insert") /\ Me(c) \notin members
  /\ members' = members \cup {Me(c)}
  /\ joined' = [joined EXCEPT ![Me(c)] = @ + 1]
  /\ Finish(c, "member")

(* The unique key refuses the row, a transport longer than the column does,*)
(* or a statement fails: nothing catches it.                               *)
SignupFails(c) ==
  /\ signup[c] # NoSignup
  /\ Finish(c, "error")
  /\ UNCHANGED <<members, joined>>

DeliveryStep(c) ==
  \/ SignupRefused(c) \/ SignupExists(c) \/ SignupAlready(c) \/ SignupNew(c)
  \/ Join(c) \/ SignupFails(c)
  \/ \E a \in Addresses : Membership(c, a) \/ Signup(c, a)

DeliveryNext ==
  \/ \E c \in Calls : DeliveryStep(c)
  \/ /\ \/ \E c \in Calls : AuthStep(c) \/ (Free(c) /\ AuthCall(c))
        \/ \E a \in Addresses : Expire(a) \/ SoftDelete(a)
     /\ UNCHANGED <<members, signup, joined>>

DeliverySpec == DeliveryInit /\ [][DeliveryNext]_allVars

-----------------------------------------------------------------------------
(* Types of the accounts, the memberships and the calls (user.entity,      *)
(* delivery-membership.entity).                                            *)
DeliveryTypeOK ==
  /\ AccountsTypeOK
  /\ reply \in [Calls -> SignupReplies]
  /\ members \subseteq Addresses
  /\ signup \in [Calls -> [pc : {"idle", "exists", "member", "insert"},
                           who : Addresses \cup {None}]]
  /\ joined \in [Addresses -> Nat]

(* Of all signups of a user, also overlapping ones that all found no row,  *)
(* one at most is answered isMember, and his row is there from then on; no *)
(* one is told so whose account was never there.                           *)
OneSignup ==
  \A a \in Addresses :
    joined[a] <= 1 /\ (joined[a] = 1 => a \in members /\ users[a] # None)

(* However calls overlap and fail, and although each checks first and      *)
(* inserts later: nobody wins the same account, or the same membership,    *)
(* twice (the unique keys of user.entity and delivery-membership.entity).  *)
OneOfEach == OneRegistration /\ OneSignup
=============================================================================
