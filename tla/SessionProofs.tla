---------------------------- MODULE SessionProofs ----------------------------
(***************************************************************************)
(* The invariants of Session for any accounts, slots of logins and number  *)
(* of tokens: its types, and OneAccount.                                   *)
(*                                                                         *)
(* OneAccount is strengthened by what ties the pieces together: a running  *)
(* load carries the stored token, there is no session before it is done,   *)
(* and a friend screen that knows its user asks with the session's token.  *)
(***************************************************************************)
EXTENDS Session, TLAPS

(* A screen that is not there holds nothing.                               *)
ClosedIsEmpty == ~friends.open => friends = Closed

LoadCarriesStored ==
  /\ load.pc \in {"stored", "asking"} => load.token = disk
  /\ load.pc = "asking" => load.header = disk
  /\ load.pc # "done" => session = NoSession

SessionIsOneAccount == session.me = Account(session.token)

ScreenAsksAsItsUser ==
  /\ friends.me = None => friends.asks = {} /\ friends.list = None
  /\ friends.me # None =>
       /\ friends.me = session.me /\ disk = session.token
       /\ friends.asks \subseteq {disk}
       /\ friends.list \in {None, friends.me}

Untangled ==
  /\ disk \in {last, NoToken}
  /\ LoadCarriesStored
  /\ SessionIsOneAccount
  /\ session.token \in {disk, NoToken} \/ again
  /\ ScreenAsksAsItsUser

IInv == TypeOK /\ ClosedIsEmpty /\ (~tangled => Untangled)

-----------------------------------------------------------------------------
(* What a token names: an account or none, and none is named by NoToken.   *)
LEMMA AccountType ==
  ASSUME tokens \in Seq(Accounts)
  PROVE  /\ Account(NoToken) = None /\ \A t : Account(t) \in Someone
         /\ \A t \in Tokens : Account(t) \in Accounts
BY DEF Account, Tokens, NoToken, Someone

(* Issuing a token leaves what the others name.                            *)
LEMMA Issued ==
  ASSUME tokens \in Seq(Accounts), NEW a \in Accounts, tokens' = Append(tokens, a)
  PROVE  /\ tokens' \in Seq(Accounts)
         /\ Tokens' = Tokens \cup {Len(tokens) + 1}
         /\ \A t \in Held : Account(t)' = Account(t)
BY DEF Account, Tokens, NoToken, Held

LEMMA SameTokens ==
  ASSUME UNCHANGED tokens
  PROVE  /\ Tokens' = Tokens /\ Held' = Held
         /\ LoadType' = LoadType /\ Screens' = Screens
         /\ \A t : Account(t)' = Account(t)
BY DEF Account, Tokens, Held, LoadType, Screens

(* Nothing closed, unbuilt or empty is of a wrong type.                    *)
LEMMA NothingTyped ==
  /\ NoToken \in Held /\ None \in Someone
  /\ NoSession \in [token : Held, me : Someone]
  /\ Unbuilt \in LoadType /\ Closed \in Screens /\ ~Closed.open
  /\ NoLogin \in Slots /\ ~NoLogin.mounted /\ ~NoLogin.stored
BY DEF NoToken, NoSession, Unbuilt, Closed, NoLogin, Held, Someone, LoadType, Screens, Slots

LEMMA InitInv == Init => IInv
<1> SUFFICES ASSUME Init PROVE IInv
  OBVIOUS
<1>1. tokens \in Seq(Accounts) /\ Len(tokens) \in {0, 1}
  <2>1. CASE tokens = <<>>
    BY <2>1
  <2>2. CASE \E a \in Accounts : tokens = <<a>>
    BY <2>2
  <2> QED BY <2>1, <2>2 DEF Init
<1>2. disk \in Held
  BY <1>1 DEF Init, Tokens, NoToken, Held
<1>3. Account(NoToken) = None
  BY <1>1, AccountType
<1>4. TypeOK
  BY <1>1, <1>2, NothingTyped DEF Init, TypeOK
<1>5. ClosedIsEmpty /\ Untangled
  BY <1>3 DEF Init, ClosedIsEmpty, Untangled, LoadCarriesStored, SessionIsOneAccount,
       ScreenAsksAsItsUser, NoSession, Unbuilt, Closed
<1> QED BY <1>4, <1>5 DEF IInv

-----------------------------------------------------------------------------
(* The login page and the routes.  A login call whose page goes is one     *)
(* with a page that is not mounted.                                        *)
LEMMA Unmounted ==
  ASSUME NEW slot \in Slots
  PROVE  [slot EXCEPT !.mounted = FALSE] \in Slots /\ ~[slot EXCEPT !.mounted = FALSE].mounted
<1>1. CASE slot = NoLogin
  <2>1. NoLogin \in [who : {None}, mounted : {FALSE}, stored : {FALSE}]
    BY DEF NoLogin
  <2>3. [NoLogin EXCEPT !.mounted = FALSE] \in [who : {None}, mounted : {FALSE}, stored : {FALSE}]
    BY <2>1
  <2>4. \A r \in [who : {None}, mounted : {FALSE}, stored : {FALSE}] : r = [who |-> r.who, mounted |-> r.mounted, stored |-> r.stored]
    OBVIOUS
  <2> QED BY <1>1, <2>3, <2>4, NothingTyped DEF NoLogin
<1>2. CASE slot \in [who : Accounts, mounted : BOOLEAN, stored : BOOLEAN]
  BY <1>2 DEF Slots
<1> QED BY <1>1, <1>2 DEF Slots

LEMMA PageGone ==
  ASSUME TypeOK, GoTo("login") \/ GoTo("notfound")
  PROVE  /\ login' \in [Logins -> Slots] /\ \A l \in Logins : ~login'[l].mounted
         /\ friends' = Closed /\ page' \in {"login", "notfound"}
<1>1. \A l \in Logins : login[l] \in Slots
  BY DEF TypeOK
<1> QED BY <1>1, Unmounted DEF GoTo

LEMMA LoginInv ==
  ASSUME IInv, NEW l \in Logins, NEW a \in Accounts, Login(l, a)
  PROVE  IInv'
<1>1. Tokens' = Tokens /\ \A t : Account(t)' = Account(t)
  BY SameTokens DEF Login, history
<1>2. TypeOK'
  BY SameTokens, NothingTyped DEF IInv, TypeOK, Login, Slots, history
<1> QED BY <1>1, <1>2, AccountType DEF IInv, TypeOK, Login, history,
      ClosedIsEmpty, Untangled, LoadCarriesStored,
      SessionIsOneAccount, ScreenAsksAsItsUser

LEMMA LoginAnsweredInv ==
  ASSUME IInv, NEW l \in Logins, LoginAnswered(l)
  PROVE  IInv'
<1> DEFINE t == Len(tokens) + 1
<1>1. tokens \in Seq(Accounts) /\ login[l].who \in Accounts
  BY DEF IInv, TypeOK, LoginAnswered, Slots
<1>2. /\ tokens' \in Seq(Accounts) /\ Tokens' = Tokens \cup {t}
      /\ \A u \in Held : Account(u)' = Account(u)
  BY <1>1, Issued DEF LoginAnswered
<1>3. TypeOK'
  <2>1. Held \subseteq Held' /\ t \in Held' /\ t \in Tokens'
    BY <1>2 DEF Held
  <2>2. load' \in LoadType' /\ friends' \in Screens'
    BY <2>1 DEF IInv, TypeOK, LoginAnswered, LoadType, Screens
  <2>3. session' \in [token : Held', me : Someone]
    BY <2>1 DEF IInv, TypeOK, LoginAnswered
  <2>4. login' \in [Logins -> Slots]
    <3>1. login[l] \in [who : Accounts, mounted : BOOLEAN, stored : BOOLEAN]
      BY DEF IInv, TypeOK, LoginAnswered, Slots
    <3> QED BY <3>1 DEF IInv, TypeOK, LoginAnswered, Slots
  <2>5. friends.open' => page' = "shell"
    BY DEF IInv, TypeOK, LoginAnswered
  <2>6. \A k \in Logins : login'[k].mounted = login[k].mounted
    BY DEF IInv, TypeOK, LoginAnswered, Slots
  <2> QED BY <1>2, <2>1, <2>2, <2>3, <2>4, <2>5, <2>6 DEF IInv, TypeOK, LoginAnswered
<1>4. ClosedIsEmpty'
  BY DEF IInv, ClosedIsEmpty, LoginAnswered
<1>5. ASSUME ~tangled' PROVE Untangled'
  <2>1. ~tangled /\ login[l].mounted /\ load.pc \notin {"stored", "asking"}
    BY <1>5 DEF LoginAnswered, IInv, TypeOK
  <2>2. friends = Closed
    BY <2>1 DEF IInv, TypeOK, ClosedIsEmpty
  <2>3. SessionIsOneAccount'
    BY <1>2, <2>1 DEF IInv, TypeOK, Untangled, SessionIsOneAccount, LoginAnswered
  <2>4. LoadCarriesStored'
    BY <2>1 DEF IInv, Untangled, LoadCarriesStored, LoginAnswered
  <2>5. session'.token \in {disk', NoToken} \/ again'
    <3>1. CASE load.pc = "done"
      BY <3>1 DEF LoginAnswered
    <3>2. CASE load.pc # "done"
      BY <2>1, <3>2 DEF IInv, Untangled, LoadCarriesStored, LoginAnswered, NoSession
    <3> QED BY <3>1, <3>2
  <2> QED BY <2>2, <2>3, <2>4, <2>5 DEF Untangled, ScreenAsksAsItsUser, LoginAnswered, Closed
<1> QED BY <1>3, <1>4, <1>5 DEF IInv

LEMMA LoginHomeInv ==
  ASSUME IInv, NEW l \in Logins, LoginHome(l)
  PROVE  IInv'
<1>1. Tokens' = Tokens /\ \A t : Account(t)' = Account(t)
  BY SameTokens DEF LoginHome, history
<1>2. TypeOK'
  <2>1. login' \in [Logins -> Slots]
    BY NothingTyped DEF IInv, TypeOK, LoginHome
  <2>2. friends.open' => page' = "shell"
    BY DEF IInv, TypeOK, LoginHome
  <2>3. \A k \in Logins : login'[k].mounted =>
          page' = "login" /\ \A j \in Logins : login'[j].mounted => j = k
    BY NothingTyped DEF IInv, TypeOK, LoginHome
  <2> QED BY <2>1, <2>2, <2>3, SameTokens DEF IInv, TypeOK, LoginHome, history
<1> QED BY <1>1, <1>2, AccountType DEF IInv, TypeOK, LoginHome, history,
      ClosedIsEmpty, Untangled, LoadCarriesStored,
      SessionIsOneAccount, ScreenAsksAsItsUser

LEMMA LoginDeniedInv ==
  ASSUME IInv, NEW l \in Logins, LoginDenied(l)
  PROVE  IInv'
<1>1. Tokens' = Tokens /\ \A t : Account(t)' = Account(t)
  BY SameTokens DEF LoginDenied, Closed, history
<1>2. TypeOK'
  <2>1. \A k \in Logins : login[k] \in Slots
    BY DEF IInv, TypeOK
  <2>2. login' \in [Logins -> Slots] /\ \A k \in Logins : ~login'[k].mounted
    BY <2>1, NothingTyped, Unmounted DEF LoginDenied
  <2> QED BY <2>2, SameTokens, NothingTyped DEF IInv, TypeOK, LoginDenied, history
<1> QED BY <1>1, <1>2, AccountType DEF IInv, TypeOK, LoginDenied, Closed, history,
      ClosedIsEmpty, Untangled, LoadCarriesStored,
      SessionIsOneAccount, ScreenAsksAsItsUser

LEMMA LoginFailsInv ==
  ASSUME IInv, NEW l \in Logins, LoginFails(l)
  PROVE  IInv'
<1>1. Tokens' = Tokens /\ \A t : Account(t)' = Account(t)
  BY SameTokens DEF LoginFails, history
<1>2. TypeOK'
  BY SameTokens, NothingTyped DEF IInv, TypeOK, LoginFails, history
<1> QED BY <1>1, <1>2, AccountType DEF IInv, TypeOK, LoginFails, history,
      ClosedIsEmpty, Untangled, LoadCarriesStored,
      SessionIsOneAccount, ScreenAsksAsItsUser

LEMMA RoutesInv ==
  ASSUME IInv, Home \/ Logout
  PROVE  IInv'
<1>1. Tokens' = Tokens /\ \A t : Account(t)' = Account(t)
  BY SameTokens DEF Home, Logout, GoTo, Closed, history
<1>2. TypeOK'
  BY SameTokens, NothingTyped, PageGone DEF IInv, TypeOK, Home, Logout, history
<1> QED BY <1>1, <1>2, AccountType DEF IInv, TypeOK, Home, Logout, GoTo, Closed, history,
      ClosedIsEmpty, Untangled, LoadCarriesStored,
      SessionIsOneAccount, ScreenAsksAsItsUser

-----------------------------------------------------------------------------
(* The friend screen and the load of the session.                          *)
LEMMA OpenFriendsInv ==
  ASSUME IInv, OpenFriends
  PROVE  IInv'
<1>1. Tokens' = Tokens /\ \A t : Account(t)' = Account(t)
  BY SameTokens DEF OpenFriends, Built, Closed, history
<1>2. TypeOK'
  BY SameTokens, NothingTyped DEF IInv, TypeOK, OpenFriends, Built, Closed, LoadType, Screens, history
<1> QED BY <1>1, <1>2, AccountType DEF IInv, TypeOK, OpenFriends, Built, Closed, history,
      ClosedIsEmpty, Untangled, LoadCarriesStored,
      SessionIsOneAccount, ScreenAsksAsItsUser

LEMMA CloseFriendsInv ==
  ASSUME IInv, CloseFriends
  PROVE  IInv'
<1>1. Tokens' = Tokens /\ \A t : Account(t)' = Account(t)
  BY SameTokens DEF CloseFriends, Closed, history
<1>2. TypeOK'
  BY SameTokens, NothingTyped DEF IInv, TypeOK, CloseFriends, history
<1> QED BY <1>1, <1>2, AccountType DEF IInv, TypeOK, CloseFriends, Closed, history,
      ClosedIsEmpty, Untangled, LoadCarriesStored,
      SessionIsOneAccount, ScreenAsksAsItsUser

LEMMA LoadInv ==
  ASSUME IInv, LoadStart \/ AskMe
  PROVE  IInv'
<1>1. Tokens' = Tokens /\ \A t : Account(t)' = Account(t)
  BY SameTokens DEF LoadStart, AskMe, history
<1>2. TypeOK'
  <2>1. load' \in LoadType
    BY DEF IInv, TypeOK, LoadStart, AskMe, LoadType
  <2> QED BY <2>1, SameTokens DEF IInv, TypeOK, LoadStart, AskMe, history
<1>3. UNCHANGED <<tokens, disk, session, friends, history>>
  BY DEF LoadStart, AskMe
<1>4. LoadCarriesStored => LoadCarriesStored'
  BY <1>3 DEF IInv, TypeOK, LoadType, LoadCarriesStored, LoadStart, AskMe
<1> QED BY <1>1, <1>2, <1>3, <1>4 DEF IInv, history, ClosedIsEmpty, Untangled,
      SessionIsOneAccount, ScreenAsksAsItsUser

LEMMA MeAnsweredInv ==
  ASSUME IInv, MeAnswered
  PROVE  IInv'
<1>1. Tokens' = Tokens /\ \A t : Account(t)' = Account(t)
  BY SameTokens DEF MeAnswered, Hears, NoSession, history
<1>2. TypeOK'
  <2>1. Account(load.header) \in Someone /\ load.token \in Held
    BY AccountType DEF IInv, TypeOK, LoadType
  <2>2. friends' \in Screens /\ friends'.open = friends.open
    BY <2>1 DEF IInv, TypeOK, MeAnswered, Hears, Screens
  <2>3. load' \in LoadType
    BY DEF IInv, TypeOK, MeAnswered, LoadType
  <2> QED BY <2>1, <2>2, <2>3, SameTokens DEF IInv, TypeOK, MeAnswered, history
<1>3. ClosedIsEmpty'
  BY DEF IInv, ClosedIsEmpty, MeAnswered, Hears
<1>4. ASSUME ~tangled' PROVE Untangled'
  <2>1. ~tangled /\ Untangled
    BY <1>4 DEF IInv, MeAnswered, history
  <2>2. /\ session = NoSession /\ load.token = disk /\ load.header = disk
        /\ friends.me = None /\ friends.asks = {} /\ friends.list = None
    BY <2>1 DEF Untangled, LoadCarriesStored, ScreenAsksAsItsUser, MeAnswered, NoSession
  <2>3. Account(disk) \in Accounts
    BY <2>2, AccountType DEF IInv, TypeOK, MeAnswered, Authenticates
  <2>4. disk' = disk /\ session' = [token |-> disk, me |-> Account(disk)]
    BY <2>2 DEF MeAnswered
  <2>5. LoadCarriesStored' /\ SessionIsOneAccount' /\ disk' \in {last', NoToken}
    BY <1>1, <2>1, <2>4 DEF IInv, TypeOK, LoadType, Untangled, LoadCarriesStored,
         SessionIsOneAccount, MeAnswered, history
  <2>6. ScreenAsksAsItsUser'
    <3>1. CASE friends' = friends
      BY <3>1, <2>2 DEF ScreenAsksAsItsUser
    <3>2. CASE friends' = [friends EXCEPT !.me = Account(disk), !.asks = {disk}]
      BY <3>2, <2>2, <2>3, <2>4, SessionAssumption DEF ScreenAsksAsItsUser, IInv, TypeOK, Screens
    <3> QED BY <3>1, <3>2, <2>2 DEF MeAnswered, Hears
  <2> QED BY <2>4, <2>5, <2>6 DEF Untangled
<1> QED BY <1>2, <1>3, <1>4 DEF IInv

LEMMA MeRefusedInv ==
  ASSUME IInv, MeUnauthorized \/ MeFails
  PROVE  IInv'
<1>1. Tokens' = Tokens /\ \A t : Account(t)' = Account(t)
  BY SameTokens DEF MeUnauthorized, MeFails, SignOut, Unauthorized, GoTo, NoSession, Closed, history
<1>2. TypeOK'
  <2>1. load' \in LoadType
    BY DEF IInv, TypeOK, MeUnauthorized, MeFails, SignOut, LoadType
  <2> QED BY <2>1, SameTokens, NothingTyped, PageGone
       DEF IInv, TypeOK, MeUnauthorized, MeFails, SignOut, Unauthorized, history
<1> QED BY <1>1, <1>2, AccountType DEF IInv, TypeOK, LoadType, Screens, MeUnauthorized, MeFails, SignOut, Unauthorized, GoTo, NoSession, Closed, history,
      ClosedIsEmpty, Untangled, LoadCarriesStored,
      SessionIsOneAccount, ScreenAsksAsItsUser

LEMMA ReloadInv ==
  ASSUME IInv, Reload
  PROVE  IInv'
<1>1. Tokens' = Tokens /\ \A t : Account(t)' = Account(t)
  BY SameTokens DEF Reload, history
<1>2. TypeOK'
  BY SameTokens, NothingTyped DEF IInv, TypeOK, Reload, Screens, history
<1> QED BY <1>1, <1>2, AccountType DEF IInv, TypeOK, Reload, history,
      ClosedIsEmpty, Untangled, LoadCarriesStored,
      SessionIsOneAccount, ScreenAsksAsItsUser

LEMMA ListInv ==
  ASSUME IInv, NEW t \in friends.asks, ListArrives(t) \/ ListFails(t)
  PROVE  IInv'
<1>1. Tokens' = Tokens /\ \A s : Account(s)' = Account(s)
  BY SameTokens DEF ListArrives, ListFails, Identified, history
<1>2. TypeOK'
  <2>1. Account(t) \in Someone
    BY AccountType DEF IInv, TypeOK
  <2>2. friends \in Screens
    BY DEF IInv, TypeOK
  <2>3. /\ [friends EXCEPT !.asks = @ \ {t}, !.list = Account(t)] \in Screens
        /\ [friends EXCEPT !.asks = @ \ {t}] \in Screens
    BY <2>1, <2>2 DEF Screens
  <2>4. friends' \in Screens
    BY <2>3 DEF ListArrives, ListFails
  <2>5. UNCHANGED <<tokens, live, disk, session, load, login, page, others, history>>
    BY DEF ListArrives, ListFails
  <2>6. friends.open
    BY DEF IInv, ClosedIsEmpty, Closed
  <2>7. friends'.open
    BY <2>2, <2>6 DEF ListArrives, ListFails, Screens
  <2> QED BY <2>4, <2>5, <2>6, <2>7, SameTokens DEF IInv, TypeOK, history
<1>3. ClosedIsEmpty'
  <2>1. friends.open /\ friends \in Screens
    BY DEF IInv, TypeOK, ClosedIsEmpty, Closed
  <2>2. friends'.open
    BY <2>1 DEF ListArrives, ListFails, Screens
  <2> QED BY <2>2 DEF ClosedIsEmpty
<1>4. ASSUME ~tangled' PROVE Untangled'
  <2>1. ~tangled /\ Untangled
    BY <1>4 DEF IInv, ListArrives, ListFails, history
  <2>2. /\ friends.me # None /\ friends.me = session.me /\ disk = session.token
        /\ t = disk /\ friends.me = Account(t)
    BY <2>1 DEF Untangled, ScreenAsksAsItsUser, SessionIsOneAccount
  <2>3. /\ friends'.me = friends.me /\ friends'.asks \subseteq friends.asks
        /\ friends'.list \in {Account(t), friends.list}
    <3>1. friends \in Screens
      BY DEF IInv, TypeOK
    <3> QED BY <3>1 DEF ListArrives, ListFails, Screens
  <2>4. ScreenAsksAsItsUser'
    BY <2>1, <2>2, <2>3 DEF Untangled, ScreenAsksAsItsUser, ListArrives, ListFails
  <2> QED BY <1>1, <2>1, <2>4 DEF Untangled, LoadCarriesStored, SessionIsOneAccount,
        ListArrives, ListFails, history
<1> QED BY <1>2, <1>3, <1>4 DEF IInv

LEMMA OthersInv ==
  ASSUME IInv, \/ OtherAsks
               \/ \E t \in others : OtherEnds(t) \/ OtherDenied(t)
  PROVE  IInv'
<1>1. Tokens' = Tokens /\ \A s : Account(s)' = Account(s)
  BY SameTokens DEF OtherAsks, OtherEnds, OtherDenied, history
<1>2. others' \subseteq Held
  BY DEF IInv, TypeOK, OtherAsks, OtherEnds, OtherDenied
<1>3. CASE UNCHANGED <<login, page, friends>>
  <2>1. UNCHANGED <<tokens, live, disk, session, load, login, page, friends, history>>
    BY <1>3 DEF OtherAsks, OtherEnds, OtherDenied
  <2>2. TypeOK'
    BY <1>2, <2>1, SameTokens DEF IInv, TypeOK, history
  <2> QED BY <1>1, <2>1, <2>2 DEF history, IInv, ClosedIsEmpty, Untangled, LoadCarriesStored,
        SessionIsOneAccount, ScreenAsksAsItsUser
<1>4. CASE \E t \in others : OtherDenied(t)
  <2>1. UNCHANGED <<tokens, live, disk, session, load, history>> /\ GoTo("notfound")
    BY <1>4 DEF OtherDenied, Unauthorized
  <2>2. TypeOK'
    BY <1>2, <2>1, SameTokens, NothingTyped, PageGone DEF IInv, TypeOK, history
  <2> QED BY <1>1, <2>1, <2>2, AccountType DEF IInv, TypeOK, GoTo, Closed, history,
        ClosedIsEmpty, Untangled, LoadCarriesStored,
        SessionIsOneAccount, ScreenAsksAsItsUser
<1> QED BY <1>3, <1>4 DEF OtherAsks, OtherEnds

LEMMA ExpireInv ==
  ASSUME IInv, NEW t \in live, Expire(t)
  PROVE  IInv'
<1>1. Tokens' = Tokens /\ \A s : Account(s)' = Account(s)
  BY SameTokens DEF Expire, history
<1>2. TypeOK'
  BY SameTokens, NothingTyped DEF IInv, TypeOK, Expire, history
<1> QED BY <1>1, <1>2, AccountType DEF IInv, TypeOK, Expire, history,
      ClosedIsEmpty, Untangled, LoadCarriesStored,
      SessionIsOneAccount, ScreenAsksAsItsUser

LEMMA RestartInv ==
  ASSUME IInv, Restart
  PROVE  IInv'
<1>1. Tokens' = Tokens /\ \A t : Account(t)' = Account(t)
  BY SameTokens DEF Restart, NoSession, Unbuilt, Closed
<1>2. TypeOK'
  BY SameTokens, NothingTyped DEF IInv, TypeOK, Restart
<1> QED BY <1>1, <1>2, AccountType DEF IInv, TypeOK, Restart, NoSession, Unbuilt, Closed,
      ClosedIsEmpty, Untangled, LoadCarriesStored,
      SessionIsOneAccount, ScreenAsksAsItsUser

-----------------------------------------------------------------------------
LEMMA NextInv == IInv /\ [Next]_vars => IInv'
<1> SUFFICES ASSUME IInv, [Next]_vars PROVE IInv'
  OBVIOUS
<1>1. CASE \E l \in Logins : \/ \E a \in Accounts : Login(l, a)
                             \/ LoginAnswered(l) \/ LoginHome(l)
                             \/ LoginDenied(l) \/ LoginFails(l)
  BY <1>1, LoginInv, LoginAnsweredInv, LoginHomeInv, LoginDeniedInv, LoginFailsInv
<1>2. CASE Home \/ Logout \/ OpenFriends \/ CloseFriends
  BY <1>2, RoutesInv, OpenFriendsInv, CloseFriendsInv
<1>3. CASE LoadStart \/ AskMe \/ MeAnswered \/ MeUnauthorized \/ MeFails
  BY <1>3, LoadInv, MeAnsweredInv, MeRefusedInv
<1>4. CASE Reload \/ \E t \in friends.asks : ListArrives(t) \/ ListFails(t)
  BY <1>4, ReloadInv, ListInv
<1>5. CASE (\E t \in live : Expire(t)) \/ Restart
  BY <1>5, ExpireInv, RestartInv
<1>6. CASE OtherAsks \/ \E t \in others : OtherEnds(t) \/ OtherDenied(t)
  BY <1>6, OthersInv
<1>7. CASE UNCHANGED vars
  <2>1. Tokens' = Tokens /\ \A t : Account(t)' = Account(t)
    BY <1>7, SameTokens DEF vars
  <2>2. TypeOK'
    BY <1>7, SameTokens DEF vars, history, IInv, TypeOK
  <2> QED BY <1>7, <2>1, <2>2 DEF vars, history, IInv, ClosedIsEmpty, Untangled, LoadCarriesStored,
        SessionIsOneAccount, ScreenAsksAsItsUser
<1> QED BY <1>1, <1>2, <1>3, <1>4, <1>5, <1>6, <1>7 DEF Next

LEMMA Invariant == Spec => []IInv
BY InitInv, NextInv, PTL DEF Spec

(* The session, its load and the screens stay in their types.              *)
THEOREM TypeCorrect == Spec => []TypeOK
<1>1. IInv => TypeOK
  BY DEF IInv
<1> QED BY <1>1, Invariant, PTL

(* Unless a login's answer meets a running load or a page that is gone,    *)
(* the newest login stays stored, the session is of the stored token until *)
(* somebody logs in after the load, and a friend screen that knows its     *)
(* user is the stored token's (OneAccount), for any number of accounts,    *)
(* logins and tokens.                                                      *)
THEOREM AccountSafety == Spec => []OneAccount
<1>1. IInv => OneAccount
  BY DEF IInv, OneAccount, Untangled, SessionIsOneAccount, ScreenAsksAsItsUser
<1> QED BY <1>1, Invariant, PTL
=============================================================================
