------------------------------- MODULE Session -------------------------------
(***************************************************************************)
(* Who the app takes the user for: the login page, the token that          *)
(* SharedPreferences keep under session.v1, the session provider that      *)
(* turns it into a SessionState once per process, and the friend screen,   *)
(* which learns its user from the provider but asks with the stored token. *)
(* lib/core/session/session_provider.dart, core/network/http_client.dart,  *)
(* features/auth/login_screen.dart and login_service.dart, and             *)
(* features/friend/friend_screen.dart, against the guards of the API.  Of  *)
(* the other screens it has the requests that may be refused.              *)
(*                                                                         *)
(* A step is the code between two awaits that let other events in: an      *)
(* await of the loaded preferences or of a finished future does not.       *)
(* Tokens are numbered as they are issued and name an account.  Nothing    *)
(* but logins writes session.v1, and nothing writes the old key, so a      *)
(* stored session is its token; the refresh token is never stored.         *)
(*                                                                         *)
(* A login only stores its token.  Nothing calls setTokenAndFetchMe after  *)
(* one, as its comment (line 76) has it: the session is the one loaded, of *)
(* whoever was stored then, until the process ends.                        *)
(***************************************************************************)
EXTENDS Integers, Sequences

CONSTANTS Accounts,
          Logins,     \* slots of login calls on the way
          MaxTokens,  \* bound: tokens issued in a behaviour
          None        \* no account

ASSUME SessionAssumption ==
  /\ MaxTokens \in Nat \ {0}
  /\ None \notin Accounts

VARIABLES tokens,   \* the account each issued token names
          live,     \* tokens that have not expired
          disk,     \* the token in session.v1, or NoToken
          session,  \* the provider's SessionState
          load,     \* loadFromStorage and setTokenAndFetchMe
          login,    \* what each slot logs in, is its page still mounted, and
                    \* is its token stored?
          page,     \* the route shown
          friends,  \* the FriendScreen
          others,   \* tokens of the requests other screens have under way
          last,     \* for the properties: the token of the newest login
          tangled,  \* for the properties: did a login's answer come while a
                    \* load ran, or after its page was gone?
          again     \* for the properties: did one come after the load?

history == <<last, tangled, again>>
vars == <<tokens, live, disk, session, load, login, page, friends, others, history>>

NoToken == 0
Tokens == 1 .. Len(tokens)
Account(t) == IF t \in Tokens THEN tokens[t] ELSE None

NoSession == [token |-> NoToken, me |-> None]
Unbuilt == [pc |-> "unbuilt", token |-> NoToken, header |-> NoToken]
Closed == [open |-> FALSE, me |-> None, asks |-> {}, list |-> None]
NoLogin == [who |-> None, mounted |-> FALSE, stored |-> FALSE]

(* The app starts, with the token an earlier run of it stored, or without. *)
Init ==
  /\ tokens \in {<<>>} \cup {<<a>> : a \in Accounts}
  /\ live = Tokens
  /\ disk = Len(tokens)
  /\ session = NoSession
  /\ load = Unbuilt
  /\ login = [l \in Logins |-> NoLogin]
  /\ page = "login"
  /\ friends = Closed
  /\ others = {}
  /\ last = disk
  /\ tangled = FALSE /\ again = FALSE

(* appRouter.go: every screen of the page left is disposed of.             *)
GoTo(route) ==
  /\ page' = route
  /\ friends' = Closed
  /\ login' = [l \in Logins |-> [login[l] EXCEPT !.mounted = FALSE]]

(* _onUnauthorized of main.dart goes to /login; no route has that path.    *)
Unauthorized == GoTo("notfound")

-----------------------------------------------------------------------------
(* The login page: isLoading disables its button while its call runs.      *)
Login(l, a) ==
  /\ page = "login"
  /\ login[l] = NoLogin
  /\ ~\E k \in Logins : login[k].mounted
  /\ Len(tokens) < MaxTokens
  /\ login' = [login EXCEPT ![l] = [who |-> a, mounted |-> TRUE, stored |-> FALSE]]
  /\ UNCHANGED <<tokens, live, disk, session, load, page, friends, others, history>>

(* Answered with a token: it is stored wherever the user is by then.       *)
LoginAnswered(l) ==
  LET t == Len(tokens) + 1 IN
  /\ login[l] # NoLogin /\ ~login[l].stored
  /\ Len(tokens) < MaxTokens
  /\ tokens' = Append(tokens, login[l].who)
  /\ live' = live \cup {t}
  /\ disk' = t
  /\ last' = t
  /\ tangled' = (tangled \/ ~login[l].mounted \/ load.pc \in {"stored", "asking"})
  /\ again' = (again \/ load.pc = "done")
  /\ login' = [login EXCEPT ![l].stored = TRUE]
  /\ UNCHANGED <<session, load, page, friends, others>>

(* ... and once setString has returned, a mounted page goes home.          *)
LoginHome(l) ==
  /\ login[l].stored
  /\ page' = IF login[l].mounted THEN "shell" ELSE page
  /\ login' = [login EXCEPT ![l] = NoLogin]
  /\ UNCHANGED <<tokens, live, disk, session, load, friends, others, history>>

(* A wrong password is a 401 as well, and takes the page away.             *)
LoginDenied(l) ==
  /\ login[l] # NoLogin /\ ~login[l].stored
  /\ page' = "notfound" /\ friends' = Closed
  /\ login' = [k \in Logins |-> IF k = l THEN NoLogin
                                ELSE [login[k] EXCEPT !.mounted = FALSE]]
  /\ UNCHANGED <<tokens, live, disk, session, load, others, history>>

LoginFails(l) ==
  /\ login[l] # NoLogin /\ ~login[l].stored
  /\ login' = [login EXCEPT ![l] = NoLogin]
  /\ UNCHANGED <<tokens, live, disk, session, load, page, friends, others, history>>

(* The router's error page has a button to the route '/', the login page.  *)
Home ==
  /\ page = "notfound"
  /\ GoTo("login")
  /\ UNCHANGED <<tokens, live, disk, session, load, others, history>>

(* The settings' logout only goes to the login page.                       *)
Logout ==
  /\ page = "shell"
  /\ GoTo("login")
  /\ UNCHANGED <<tokens, live, disk, session, load, others, history>>

-----------------------------------------------------------------------------
(* The friend screen listens to the provider, which its first listener     *)
(* builds; build schedules loadFromStorage, once per process.              *)
Built == IF load.pc = "unbuilt" THEN [load EXCEPT !.pc = "start"] ELSE load

(* Bug: the screen takes over the session it finds.                        *)
OpenFriendsAtOnce ==
  /\ page = "shell" /\ ~friends.open
  /\ load' = Built
  /\ friends' = IF session.me = None THEN [Closed EXCEPT !.open = TRUE]
                ELSE [open |-> TRUE, me |-> session.me, asks |-> {disk}, list |-> None]
  /\ UNCHANGED <<tokens, live, disk, session, login, page, others, history>>

(* The listener hears of changes only, not of the session there is.        *)
OpenFriends ==
  /\ page = "shell" /\ ~friends.open
  /\ load' = Built
  /\ friends' = [Closed EXCEPT !.open = TRUE]
  /\ UNCHANGED <<tokens, live, disk, session, login, page, others, history>>

CloseFriends ==
  /\ friends.open
  /\ friends' = Closed
  /\ UNCHANGED <<tokens, live, disk, session, load, login, page, others, history>>

(* loadFromStorage; setTokenAndFetchMe stores the token it just read.      *)
LoadStart ==
  /\ load.pc = "start"
  /\ load' = IF disk = NoToken THEN [load EXCEPT !.pc = "done"]
             ELSE [load EXCEPT !.pc = "stored", !.token = disk]
  /\ UNCHANGED <<tokens, live, disk, session, login, page, friends, others, history>>

(* HttpX.get('/auth/me') reads the stored token for its header.            *)
AskMe ==
  /\ load.pc = "stored"
  /\ load' = [load EXCEPT !.pc = "asking", !.header = disk]
  /\ UNCHANGED <<tokens, live, disk, session, login, page, friends, others, history>>

(* AuthGuard('jwt') and JwtStrategy.                                       *)
Authenticates(t) == t \in live

(* Bug: the screen does not hear of the session.                           *)
HearsNothing(me) == friends

(* The screen's listener: its user, and on the first news a reload.        *)
Hears(me) ==
  IF ~friends.open THEN friends
  ELSE IF friends.me = None THEN [friends EXCEPT !.me = me, !.asks = {disk}]
  ELSE [friends EXCEPT !.me = me]

(* The session is set and stored: the token the load began with, and the   *)
(* user of the one it asked with.                                          *)
MeAnswered ==
  /\ load.pc = "asking" /\ Authenticates(load.header)
  /\ session' = [token |-> load.token, me |-> Account(load.header)]
  /\ disk' = load.token
  /\ friends' = Hears(Account(load.header))
  /\ load' = [load EXCEPT !.pc = "done"]
  /\ UNCHANGED <<tokens, live, login, page, others, history>>

(* signOut                                                                 *)
SignOut ==
  /\ session' = NoSession
  /\ disk' = NoToken
  /\ load' = [load EXCEPT !.pc = "done"]
  /\ UNCHANGED <<tokens, live, others, history>>

MeUnauthorized ==
  /\ load.pc = "asking" /\ ~Authenticates(load.header)
  /\ SignOut
  /\ Unauthorized

(* Twenty seconds without an answer, no network: signed out, too.          *)
MeFails ==
  /\ load.pc = "asking"
  /\ SignOut
  /\ UNCHANGED <<login, page, friends>>

-----------------------------------------------------------------------------
(* _reload, from the button in the bar; without a user it only shows the   *)
(* spinner.  Reloads may overlap.                                          *)
Reload ==
  /\ friends.open /\ friends.me # None
  /\ friends' = [friends EXCEPT !.asks = @ \cup {disk}]
  /\ UNCHANGED <<tokens, live, disk, session, load, login, page, others, history>>

(* CurrentUserId: without an id the answer is a 400.                       *)
Identified(t) == Account(t) # None

(* The friends of whom the asking token names, expired or not: the guard   *)
(* of the friends routes does not look at its expiry.                      *)
ListArrives(t) ==
  /\ t \in friends.asks /\ Identified(t)
  /\ friends' = [friends EXCEPT !.asks = @ \ {t}, !.list = Account(t)]
  /\ UNCHANGED <<tokens, live, disk, session, load, login, page, others, history>>

ListFails(t) ==
  /\ t \in friends.asks
  /\ friends' = [friends EXCEPT !.asks = @ \ {t}]
  /\ UNCHANGED <<tokens, live, disk, session, load, login, page, others, history>>

-----------------------------------------------------------------------------
(* The requests of the other screens, which outlive them: an answer or a   *)
(* failure is theirs alone, a 401 is everyone's.                           *)
OtherAsks ==
  /\ page = "shell"
  /\ others' = others \cup {disk}
  /\ UNCHANGED <<tokens, live, disk, session, load, login, page, friends, history>>

OtherEnds(t) ==
  /\ others' = others \ {t}
  /\ UNCHANGED <<tokens, live, disk, session, load, login, page, friends, history>>

OtherDenied(t) ==
  /\ ~Authenticates(t)
  /\ others' = others \ {t}
  /\ Unauthorized
  /\ UNCHANGED <<tokens, live, disk, session, load, history>>

-----------------------------------------------------------------------------
Expire(t) ==
  /\ t \in live
  /\ live' = live \ {t}
  /\ UNCHANGED <<tokens, disk, session, load, login, page, friends, others, history>>

(* The app is killed and started again: the preferences remain.            *)
Restart ==
  /\ session' = NoSession
  /\ load' = Unbuilt
  /\ login' = [l \in Logins |-> NoLogin]
  /\ page' = "login" /\ friends' = Closed
  /\ others' = {}
  /\ last' = disk /\ tangled' = FALSE /\ again' = FALSE
  /\ UNCHANGED <<tokens, live, disk>>

Next ==
  \/ \E l \in Logins :
       \/ \E a \in Accounts : Login(l, a)
       \/ LoginAnswered(l) \/ LoginHome(l) \/ LoginDenied(l) \/ LoginFails(l)
  \/ Home \/ Logout \/ OpenFriends \/ CloseFriends
  \/ LoadStart \/ AskMe \/ MeAnswered \/ MeUnauthorized \/ MeFails
  \/ Reload \/ \E t \in friends.asks : ListArrives(t) \/ ListFails(t)
  \/ OtherAsks \/ \E t \in others : OtherEnds(t) \/ OtherDenied(t)
  \/ \E t \in live : Expire(t)
  \/ Restart

Spec == Init /\ [][Next]_vars

(* The load goes on by itself: its request is answered or times out.       *)
FairSpec == Spec /\ WF_vars(LoadStart) /\ WF_vars(AskMe)
                 /\ WF_vars(MeAnswered \/ MeUnauthorized \/ MeFails)

-----------------------------------------------------------------------------
Held == Tokens \cup {NoToken}
Someone == Accounts \cup {None}
LoadType == [pc : {"unbuilt", "start", "stored", "asking", "done"},
             token : Held, header : Held]
Slots == {NoLogin} \cup [who : Accounts, mounted : BOOLEAN, stored : BOOLEAN]
Screens == [open : BOOLEAN, me : Someone, asks : SUBSET Held, list : Someone]

(* Types of the session, the load and the screens that wait for it; no     *)
(* screen outlives the route that shows it (session_provider, app_router). *)
TypeOK ==
  /\ tokens \in Seq(Accounts) /\ live \subseteq Tokens
  /\ disk \in Held /\ last \in Held
  /\ session \in [token : Held, me : Someone]
  /\ load \in LoadType
  /\ login \in [Logins -> Slots]
  /\ page \in {"login", "shell", "notfound"}
  /\ friends \in Screens
  /\ others \subseteq Held
  /\ tangled \in BOOLEAN /\ again \in BOOLEAN
  /\ friends.open => page = "shell"
  /\ \A l \in Logins : login[l].mounted =>
       page = "login" /\ \A k \in Logins : login[k].mounted => k = l

(* Whom the app takes the user for, unless a login's answer met a running  *)
(* load or a page that was gone (then the load or the late answer stores   *)
(* an older token over a newer one).  The newest login stays the stored    *)
(* one until it is dropped.  A session names the user of its own token,    *)
(* which is the stored one as long as nobody logs in after the load:       *)
(* nothing renews the session then, and another's token is stored beside   *)
(* it.  Even so the friend screen never takes one account's session and    *)
(* asks with another's token: a screen that knows its user has the stored  *)
(* token's, and the list it shows is of that user.                         *)
OneAccount ==
  ~tangled =>
    /\ disk \in {last, NoToken}
    /\ session.me = Account(session.token)
    /\ session.token \in {disk, NoToken} \/ again
    /\ friends.me # None => friends.me = session.me /\ session.token = disk
    /\ friends.list \in {None, friends.me}

(* Whoever opens the friend screen while the session is being loaded does  *)
(* not wait for ever: it gets its user, is left, or the token is dropped.  *)
FirstVisitSettles ==
  (friends.open /\ load.pc \in {"start", "stored", "asking"})
    ~> (friends.me # None \/ ~friends.open \/ disk = NoToken)
=============================================================================
