# KU멍가게: a TLA+ model of the marketplace and its chat

KU멍가게 is a marketplace for the students of one university: a Flutter app
(`src/lib`) in front of a NestJS API over TypeORM and MySQL
(`src/kumeong-api/src`). The API is one Node process, so the code between two
`await`s runs undisturbed; between them the statements of every other request
run. Nearly every handler that writes is "read, decide, write" over several
`await`s, mostly without a transaction, and that is where its hard behaviour is.
The app keeps copies of what the server told it, and changes them when answers
arrive, in whatever order they do.

The modules here model those parts statement by statement, TLC checks them on
small instances, and TLAPS proves the safety of eight of them, and two
refinements, for every value of their constants.

## 1. The system

`app.module.ts` wires Users, Auth, Products, UniversityVerification, Friends,
Chats, System, Favorites and Delivery; `main.ts` adds a WebSocket server.

| Component | State | Operations | Correct means |
|---|---|---|---|
| Friends (`features/friends`) | `friendRequests` (unique per direction), `friends` (unique per pair), `userBlocks`, FRIEND rooms | send (by id, by e-mail), accept, reject, cancel, unfriend, block, unblock, list | a friendship comes only from a pending request that the one asked accepts; friends have a room; every call is answered |
| University codes (`features/university`, `core/verify`) | an in-memory map: code, expiry, attempts; cooldowns in the same map | send, verify | the newest mailed code works until it expires, is used or is guessed away; nothing else does |
| E-mail codes (`modules/auth/services/email-verification`) | one table row per mail sent to an address | send, verify | one-time codes, a bounded number of guesses |
| Auth, Users (`modules/auth`, `modules/users`) | `users`; stateless tokens | register, login, refresh, reset (development), mark as verified, lookup | one account per address; a row holds what its calls were answered; a login agrees with it |
| Delivery (`modules/delivery`) | one membership row per user | sign up, get | nobody joins twice |
| Products (`modules/products`) | `products`, softly deleted | create, update, remove, show, list by pages | an update changes what it was given; a walk through the pages shows everything once, unless the listing changes under it |
| Chats (`features/chats`) | `chatRooms`, `chatMessages` (AUTO_INCREMENT seq), `chatReads` | open a friend room, post, list since a seq, mark read | the two of a pair meet; everything posted can be listed; read cursors only move forward |
| WebSocket server (`main.ts`) | sockets per room, in the process | join on connect, leave, broadcast a post | whoever fetches on an open socket misses nothing |
| Migrations (`migrations`, `typeorm.config.ts`) | schema, table of executed migrations | run, revert | what is recorded is applied; a run completes unless something it cannot get past is there |
| Favorites (`modules/favorites`, `state/favorites_store.dart`) | `favorites`; the app's optimistic set | toggle, list | at most one row per user and product; the app ends with the server's answer |
| App session (`core/session`, `core/network`, the login page) | stored token, session, user of the friend screen | log in, load once per process, refuse, log out | the newest login stays the stored one; the session is of the stored token until someone logs in after the load; a friend screen never shows one account's friends as another's, and learns its user |
| Chat gateways (`features/chat/data`) | last seq, guard, requests in flight | poll, load history, dispose | nothing passed by that was not handed over or left behind by a load from the start of the room |
| App screens (`lib/features`) | lists and flags per screen | load, reload, act, leave | what is shown is what the server held, repaired by a refresh |

How they interact: the app calls the API over HTTP with a 20 s timeout and no
retry, so an answer may be lost after the work was done. `accept` in Friends
creates the chat room in a second transaction on a second connection of the same
pool, and opening a chat creates one too. University verification marks the
`users` row that registration created (or did not yet create). A post in Chats
broadcasts to the sockets of `main.ts`, but the friend chat screen has none and
loads when asked. A 401 anywhere in the app changes its route, and with it
disposes of every screen whose requests are still under way.

`PROJECT.json` lists every component with what is and is not modelled, and every
hazard with the line where it bites and the properties aimed at it.

## 2. The plan

Done, in this order:

1. **Friends** with its abstract promise, and its proofs.
2. **UniversityCodes**, then **EmailVerification**.
3. **ChatRoom** (the server's side of a room), with two clients in front of it,
   each extending it: **FriendChat** (a screen) and **ChatGateways** (polling).
4. **Favorites**: the server's toggle and the app's optimistic copy.
5. **Accounts** and, extending it, **Delivery**; **Products**.
6. **Migrations**.
7. **Realtime**: rooms, sockets and posts together.
8. **Session**: who the app takes the user for; its proofs.

The proofs followed in the order Friends, Session, Realtime, UniversityCodes,
Accounts with Delivery, EmailVerification, Favorites, ChatGateways, FriendChat,
Products, Migrations; section 5 says what they establish.

Left, in the order of their worth:

1. *Sign-up*: the two sign-up screens in front of UniversityCodes and Accounts.
2. *Lists of the app*: the requests screen, unread badges, the cards of the
   heart screen.

The bounds of the runs stay small in the same way throughout: two users, two
overlapping calls, two or three messages or codes, a clock of a few ticks; the
proofs remove the bounds.

## 3. The modules

### FriendRelation, Friends, FriendsAlone, FriendsProofs, MCFriends

`FriendRelation` is the abstract promise: directions asked, pairs that are
friends. `Spec` is the strict one (strangers only, one open request per pair);
`LooseSpec` lets requests cross, but a friendship still comes only out of a
request being accepted.

`Friends` runs each handler of `friends.controller.ts` in a slot of `Calls`. A
slot's `pc` names the statement it is about to run; one action is that statement
with the code up to the next `await`, its early returns included. `req`,
`friends`, `blocks` and `rooms` are the tables as committed. `accept`'s
transaction keeps its writes back until `AcceptCommit`; the row locks it holds
are `HoldsRequest` and `HoldsFriend`, and a statement that may wait for one first
takes a connection of the pool and then waits with it. `ensureFriendRoom` inside
`accept` needs a second connection, as in the code. A wait for a row lock ends
(`LockWaitTimesOut`, InnoDB's `innodb_lock_wait_timeout`: an error, a rollback, the
connection free again); a wait for a connection does not. `HandlerFails` fails any
statement. `block` always fails in its first statement, because it soft-deletes
an entity without a delete-date column; rows of `userBlocks` therefore exist only
if something else wrote them, and `SeedBlocks` allows for that.

`FriendsAlone` adds one history variable, `alone`: no two calls have overlapped so
far and nobody was asked by e-mail (which looks at neither blocks nor the
opposite request). `StrictWhileAlone` is the refinement of the strict promise for
as long as that is so: it holds of the initial state, of every step that keeps
`alone`, and friends have an ACCEPTED request until it ends.

Not modelled: ids and names of users (validation is done before the first
statement), and what the answers say.

### UniversityCodes, UniversityCodesProofs, MCUniversityCodes

The store's methods are synchronous, so a step is what runs between the mailer
and the database statements. `codes` and `cooldown` are the one map of the
service (the cooldown keys cannot collide with an address); `profile` is the
`users` row; `Restart` empties the process. `sent` is a history variable: the
last mail since the process started and what became of its code. In the run the
process is a production one (`Prod`), where a failed mail answers an error.

### EmailVerification, EmailVerificationProofs, MCEmailVerification

The same feature with a table. TypeORM's `save` is two statements: a SELECT of
the row by its key and an UPDATE of the columns that differ from the entity in
hand; so `Save`, `SaveLoad` and `SaveWrite` are separate steps and a stale entity
can put old values back. `alone` is a history variable: no two calls have
overlapped since the send of the newest row began.

### Accounts, Delivery, DatabaseProofs, MCDelivery

`Accounts` is the `users` table with the calls of `auth.service.ts` and
`users.service.ts`. A row keeps the columns the calls disagree about: password,
verified, deleted. register is look, hash, insert; login is read, compare; reset
and mark are TypeORM saves of an entity read before an `await`. A password and
its hash are one value, a token is the account it names. Deletion
(`SoftDelete`) is external: the column and its effect on every finder are in the
code, no route sets it.

`Delivery` EXTENDS it with the membership table and the three statements of
`signup`; a slot serves a call of either kind. `told`, `clean` and `wins`,
`joined` are history: what the answers say is stored, whether the row was written
since a slot read it, how often one was told he won.

### Products, MCProducts, ListingProofs

`update` is find, load (of save) and write of the columns that differ, `remove`
find and write. Of the columns an update may be given the model keeps the two that
matter to the listing: `status`, which takes a product out of it or back, and
`title`, which it may be ordered by. `walk` is a client that walks through the
pages of the listing, in either direction by `createdAt` or by title (`walk.by`;
a request by price falls back to `createdAt`, see section 6): each page is the
SELECT of its rows and the SELECT of their number, and the walk ends where the
answer says there is no further page. `shrunk`, `grown` and `moved` are history:
did something leave the listing meanwhile, enter it, or change its place within
it? So is `walk.start`, the products listed when the walk began; it counts until
one of them leaves or moves. The reads that change nothing (show, a listing
without a walk) are not actions. A product is created with the time of the newest
one or a tick later.

### Migrations, DatabaseProofs

The four classes of `src/migrations` as lists of guarded statements, run or
reverted by the TypeORM command of `npm run mig:run`. The transaction around a
run ends with its first DDL statement, as MySQL has it, so what was done stays
done when a later statement fails or the process dies. `SchemaInit` ranges over the
databases a first run may meet: the messages table there or not, with the indexes
and keys its history may have given it. The tests and `DO 0` branches that decide
nothing are part of the statement they guard.

### ChatRoom, FriendChat, MCFriendChat, ListingProofs

`ChatRoom` holds `chatMessages` of one room. An INSERT is three steps: the id and
`createdAt` are drawn (`Post`), the seq is drawn (`Insert`), the row commits
(`Commit`); so ids, seqs and commits come in three different orders, as they do
under InnoDB. The model numbers messages in the order `ORDER BY createdAt, id`
gives (the clock does not run backwards). `SeqFromDate` is above every seq, which
is the one fact about milliseconds that matters. `MaxInserts` bounds the INSERTs
under way at a time. `marks` are `markReadTo` calls
between choosing their target and the upsert.

`FriendChat` EXTENDS it with one `_FriendChatPageState`: `shown`, `ids`,
`screenFetching` are its fields (`_messages`, `_messageIds`, `_fetching`), `req` the load in flight, `sends` the posts that await
their answer, `timers` the 20 ms delays, first in first out because they are all
equally long. Other devices post through `DevicePosts`. What the screen showed
when it asked (`req.had`) and `calm` are history. Its definitions carry the
prefix `Screen` where ChatGateways has one of the same name, because one module
proves about both.
The screen's read marks go to `/read_cursor`, which the server does not have: they
change nothing and are left out; the cursors are moved by other callers of
`PUT /read`. The 500 ms during which a second refresh is ignored only delay the
user, and are a Refresh that comes later.

### ChatGateways, MCChatGateways, ListingProofs

`RestChatGateway` in front of the same ChatRoom: the periodic tick with its guard
`fetching`, `history()` beside it, failures, `dispose`. It selects by seq, the
server orders by createdAt, and it goes on from the seq of the last row; `late`
and `InOrderOf` say for which messages the three orders agree. A request from the
start of the room brings the newest N only. What the first load left behind that
way is `before`; what a later one left behind without anybody having been given it
is `jumped`, and that is lost: `_lastSeq` goes on behind it. Only `history()` asks
from the start again once something was handed over, and `looked` says whether it
did. The limit of a tick (100) and that of a history load (50) are one
`FetchLimit`.

### Realtime, RealtimeProofs, MCRealtime

How two friends' devices come together: the FRIEND rooms of a pair (the unique
key never conflicts, so every opening and every accept inserts one; the SELECT
with LIMIT 1 picks the least id), the sockets of `main.ts`, and posts between
their INSERT and their broadcast. A socket that broke stays in its room until its
'close' event; `Restart` empties the rooms of sockets and ends every request. The
devices are clients of this API; the app of this repository has no screen that
opens such a socket (section 6). `caughtUp` is history.

### Favorites, FavoritesProofs, MCFavorites

One user's `favorites` table and FavoritesStore. `rows` counts the rows of each
product, since nothing makes them unique. A toggle is a slot of `Calls`: its tap
(`TapHome`, `TapHeart`, or another device), the statements of
`FavoritesService.toggle`, and `Answered`, where the screen applies the answer or
rolls back. The two screens differ in their guards: the heart screen asks
`isPending`, the home screen sends its request whatever the store said. A screen
that has been left (`Leave`) applies the answer, throws in its next `setState`,
and rolls back in the handler. `Reopen` starts the app again with the set it had
saved. Loads replace the set by the listing as the server served it; a failed one
by nothing. The listing joins `products`, an entity with a delete-date column, so
TypeORM leaves removed products out of it; a removed product may come back
(`ProductReturns`), as Products shows.

`solo`, `tangled` and `calm` are history, explained in the module. Not modelled:
the counts of likes (no table holds them), the paging of the listing (the app
asks for up to 200 and gets up to 100), the cards of the heart screen.

### Session, SessionProofs, MCSession

The app's idea of who is logged in, in its four places: the token under
`session.v1` (`disk`), the provider's `SessionState` (`session`, `load`), the
login calls under way (`login`), and the friend screen (`friends`), which takes
its user from the provider's announcements but asks with the stored token. A
step is the code between two `await`s that let other events in; so a login is
answered, which stores its token (`LoginAnswered`), and goes home once `setString`
has returned, if its page is still there (`LoginHome`). `others` are the requests
of the other screens, of which only the 401 matters here. `GoTo` disposes
of the screens of the route that is left, `Unauthorized` is what every 401 does,
`Restart` keeps `disk` only. Tokens are numbered as they are issued; `Expire`
ends one. The two guards of the API differ and so do `MeAnswered` (a live token)
and `ListArrives` (any token with an id). `last`, `tangled` and `again` are
history: the newest login; whether a login was answered while the session was
loading or after its page was gone; whether one was answered after the load.

## 4. The runs

| Run | Instance | Question and answer |
|---|---|---|
| `friends_concurrent` | 2 users, 2 calls, any operation, failures, a seeded block or none, 2 connections (291 348 states) | whatever overlaps or fails: an accept holds its request from check to commit; friends have a room; a friendship is consented to; the loose promise is implemented, the strict one until calls overlap; every call is answered |
| `friends_pool` (violation) | 3 users, accepts of two pairs at once, 2 connections | both accepts wait for ever for the connection of `ensureFriendRoom`; their locks are of different rows, so no lock wait timeout ends it |
| `university_codes` | 1 address, 2 codes, 2 calls, clock 0..4 | the newest mail's code works; an accepted code was mailed, is fresh and is used once |
| `email_codes` | 2 codes, 2 calls, clock 0..2, failures | after any disorder, calls that no longer overlap find one-time codes with bounded guesses |
| `accounts` | 1 address, 2 passwords, 2 calls, failures, expiry, a deletion | nobody wins an account or a membership twice; a row holds what the last calls were answered; a login agrees with it |
| `products` | 2 products, 2 titles, 2 calls, page limit 1, newest first or by ascending title, at most 1 call beside a walk (1 250 899 states) | an update changes what it was given unless overtaken; a walk misses or repeats something only if a product left or entered the listing meanwhile or, by title, was moved in it by an update |
| `migrations` | every first database, 2 crashes | what is recorded is applied; a run completes exactly when nothing it cannot get past was there |
| `chat` | 3 messages, 2 INSERTs at a time, loads of 2, 1 reader, 2 marks at a time (1 777 750 states) | others' messages are shown once and one's own at most twice; a quiet refresh repairs the screen; a refresh keeps what it should; what was read stays read |
| `chat_gateways` | 3 messages, 2 INSERTs at a time, loads of 1, 1 failure (176 208 states) | what polling has passed and was stored in order was handed over, or lies before the first load, or was lost between that and a later load from the start of the room, for which only `history()` asks; everything else is reached in the end |
| `realtime` | 2 devices, 3 rooms, 2 messages, 2 sockets (2.2 million states) | who fetches on an open socket misses nothing afterwards; openings of the chat converge |
| `favorites` | 1 product, 2 toggles, 2 loads, failures (188 694 states) | a second row needs overlapping toggles; a toggle that ran alone ends with the app and the server agreeing; a quiet refresh repairs everything |
| `session` | 2 accounts, 2 logins, 3 tokens (534 646 states) | unless a login meets the load or outlives its page: the newest login stays stored until it is dropped; the session is of one token, the stored one until someone logs in after the load (section 6: nothing renews it then); a friend screen that knows its user has the stored token's, and lists that user's friends; the first visit to the friend screen settles |

Why the bounds are enough. Two users are every pair there is, since no friends
handler looks at a third; what handlers of different pairs share is the pool, and
`friends_pool` has a third user for that. Two overlapping calls give every interleaving of two
handlers, and the proofs cover more. Two codes tell "this code" from "another",
`MaxAttempts = 2` has a guess that counts and a guess that removes, and the clock
runs past two lifetimes. Accounts do not meet except in the unique key of an
address, so one address with two calls has every race; two passwords tell the old
from the new. Two products with a limit of one make two pages, a row that moves
from one to the other by what happens to the other product or by a new title, and
an empty last page; the listings are newest first and by ascending title, and
an update is given no column or one; the proof has all directions and any columns. Three messages with loads of two
(or of one, for the gateway) make a load that leaves something out, and every
order that two overlapping INSERTs can give ids, seqs and commits; three at once
are for the proof. Two marks at a time in `chat` overlap each other and the posts,
between the choice of their target and the upsert. Three rooms let an opening find a room
with an id below and above the one shown, two sockets a reconnection beside the
old socket's close. Products do not interact in Favorites except through a load,
which replaces them all; three toggles with one load were tried with the same
result. Three tokens are an old one, that of a login that outlived its page, and
a newer one; the proof removes that bound.

`chat` and `chat_gateways` let a behaviour end when the messages run out
(`CHECK_DEADLOCK FALSE`): the bound stops it, not the system. `friends_pool` does
so too, because the deadlock is what it shows, as the liveness property it
breaks.

**Fairness.** `WatchedSpec` in the runs of Friends (like `Friends!FairSpec`)
assumes strong fairness of each call's steps. The code justifies it: InnoDB
grants a row lock to its waiters in order, the pool's queue is first in first
out, and Node runs every callback that is ready; a step that is enabled again and
again is therefore taken. The end of a lock wait is one of these steps; a wait for
a connection has no end of its own. Nothing is assumed of clients: a call may never arrive.
`ChatGateways!Spec` assumes weak fairness of the gateway's own steps: its timer
fires, its request ends, at the latest by its timeout; requests do not fail for
ever, which `MaxFailures` says. `Session!FairSpec` assumes weak fairness of the
three steps of the load: its scheduled start, its request, and the request's end,
an answer or the 20 s timeout. `FriendChat!ScreenSpec` assumes weak fairness of answers
and of timers; the properties checked there are safety properties and do not
depend on it.

**Mutants.** Every property of a passing run is paired in `PROJECT.json` with a
changed definition, written next to the original as `Bug: ...`, that a plausible
slip in the code would amount to, and that the property detects.

## 5. What is proved

Eight modules of proofs, checked by tlapm to the last leaf. Each has an
invariant `IInv` that is inductive (ListingProofs has three and DatabaseProofs
two, one for each component), and the properties follow from it. None of
the properties is inductive by itself: they speak of moments when nothing is
under way, or of steps, and what carries them from one such moment to the next is
what a handler, a request or a screen knows in between.

The constants are as general as their `ASSUME`s: any users, addresses, products,
rooms; any number of slots, so any number of overlapping calls; any pool, limits
and lifetimes. Bounds of the runs (`MaxMessages`, `MaxTime`, ...) are constants
too, so a theorem holds for each value of them. The assumptions that are there for
a proof only say that a filler is not a value: `None` is no code, address or
record of the kind the variable holds otherwise (a `null` is no row); and that
the slots of Favorites are finitely many.

**FriendsProofs** (`FriendsAssumption`)

- `TypeCorrect`, `AcceptSafety`, `RoomSafety`: the invariants of
  `friends_concurrent`; `Consent`: its action property.
- `LooseRefinement`: Friends implements `FriendRelation!LooseSpec`.
- `StrictRefinement`: `WatchedSpec => StrictWhileAlone`, for any number of users,
  calls and failures. While no calls overlap and nobody is asked by e-mail, every
  step is one of the strict `FriendRelation` or changes nothing it sees, and a
  friends row is backed by an ACCEPTED request.
- `UpsertSafety` (at most one transaction holds a friends row) and
  `BlockHonoured` (no request becomes PENDING across a block by `sendRequest`),
  which no run checks besides.

`IInv` is: the types; for each call, what it knows at its statement (`CallInv`: an
accept that is past its check still has a PENDING request of which its caller is
the one asked and between users not blocked, a call at its last statement has a
room); that a request row has one holder; that a friends row has one; that friends
have rooms. The argument is the lock's: only the holder of a request row may
change its status, so what the holder checked stays true (`Frame` states this
once, and each action's lemma uses it). For the strict refinement `AloneInv` adds
what the reads outside any lock found (`Knows`: a send that looked finds its pair
not friends and the opposite request not PENDING, a decision its request PENDING);
nothing protects these but that the call is the only one that runs, which the
lemma `MovesAlone` derives from `alone'`.

`BlockHonoured` rests on blocks only ever being removed while the API runs: with
a `block` that worked, the check in `sendRequest` could be overtaken.

**SessionProofs** (`SessionAssumption`)

- `TypeCorrect` (the types, that no screen outlives its route and at most one
  login page is mounted), `AccountSafety` (`OneAccount`, of `session`).

`OneAccount` is not that everything is always of one account: after a logout and
another login the session stays the first account's beside the second one's token
(section 6). What it says is who may differ from whom, and when: the stored token is
the newest login's or none; the session names the user of its own token, which is
the stored one or none unless a login was answered after the load (`again`); and
even then a friend screen that knows its user has the session of the stored token
and lists no one else's friends. All of that is for behaviours in which no login
was answered while the load ran or after its page was gone (`tangled`).

It says nothing of the load under way or of the listings asked for.
`IInv` adds, while nothing is tangled, that a load carries the stored token and
asks with it (`LoadCarriesStored`), that there is no session before the load is
done, and that a friend screen that knows its user has asked only with the
session's token, which is still the stored one (`ScreenAsksAsItsUser`); and
always, that a screen that is not there holds nothing (`ClosedIsEmpty`). The login
that would break this while a friend screen knows its user cannot be answered to a
mounted page, since the page would have to be shown at the same time; that is what
the types' last conjuncts are for.

**RealtimeProofs** (`RealtimeAssumption`)

- `TypeCorrect`, `NothingMissed` (`JoinThenFetch`), `RoomsDescend`
  (`RoomsOnlyDescend`).

`JoinThenFetch` speaks of fetches that have landed. `IInv` adds what holds of the
one in flight (`FetchCovers`: once answered, its list, what was read and what is
on the wire cover the stored messages, or a broadcast is still to come), which
rests on the numbering of sockets (`SocketsInv`: one that connects is in no room
yet) and on posts knowing whether their row is stored (`PostsInv`). That openings
converge needs the least id of a set of rooms to exist, by well-foundedness
(`LeastRoom`). TLC checked `IInv` on the 2.18 million states of the run.

**UniversityCodesProofs** (`CodesAssumption`)

- `TypeCorrect`, `PromiseKept` (`NewestMailWorks`), `PassesEarned`
  (`PassesAreEarned`).

`IInv` relates the history of mails to the two maps at every step of the handlers
(`StoreKeepsPromise`: a stored code is the one last mailed, with the time and the
guesses the mail has left, and while a mail is redeemable its code is stored;
`CooldownKept`). That holds in spite of overlapping calls because the store's
methods are synchronous.

**DatabaseProofs** (`AccountsAssumption`, `MigrationsAssumption`)

- of Delivery: `TypeCorrect` (`DeliveryTypeOK`), `AnswersStored`
  (`StoredAsAnswered`), `OneOfEachHolds` (`OneOfEach`), `LoginsAgree`
  (`LoginAgrees`);
- of Migrations: `SchemaTypes` (`SchemaTypeOK`), `AppliedHolds`
  (`RecordedIsApplied`), `RunsEnd` (`RunsUnlessBlocked`), for any number of runs
  that die: all that the run `migrations` checks.

`StoredAsAnswered` needs to know what a save is about to write: `SlotInv` says
that as long as nobody wrote the row since it was read (`clean`), the entity in a
handler's hands is that row with the one column the call was asked to write, and
`told` already knows the rest. `Won` ties the answers "created" to the rows, which
the unique keys keep. TLC checked `IInv` on the 92 232 states of the run.

`MigrationsInv` follows a command through its script. `RecordsInv`: what is
recorded is always a beginning of the list (`Prefixes`), so the pending migrations
are the rest of it, in order, and a revert takes the last. `CommandInv`: every
statement behind the current step has had its effect (`Effected`), and no
statement of a script undoes an earlier one (`ProperScripts`), so a migration is
applied when its row is written (`ScriptApplies`); the statements of a later
migration leave the earlier ones applied (`AppliedKept`, `ScriptTouches`).
`BlockedInv` carries `Obstacle` from the start of a run to its end: at every step,
the run was bound to fail just when something it cannot get past is still `Ahead`
of it. That rests on `SchemaShape` (`FailsBlocked`: a key of AutoMigration's
tables is only there with all of them; indexes come with their table). TLC checked
`MigrationsInv` with three crashes (6349 states).

**EmailVerificationProofs** (`EmailAssumption`)

- `TypeCorrect`, `PromiseKept` (`NewestMailWorks`), `GuessesEarned`
  (`GuessesAreEarned`).

Nothing but luck keeps two calls of this service apart, so `IInv` says what holds
while none overlaps another (`AloneInv`): the row in the handler's hands is the
newest one as it is stored, until the handler has written it. TLC checked it on
5.75 million states (three ticks of the clock).

**FavoritesProofs** (`FavoritesAssumption`)

- `TypeCorrect`, `OneRow` (`OneRowUnlessTangled`), `SoloAgrees`
  (`SoloToggleAgrees`), `QuietRefreshHeals` (`RefreshHeals`).

`IInv` adds, of a toggle that runs alone, that no other of its product is in
flight and that the rows are as its find, delete or insert left them (`SoloInv`);
that an untangled product has at most one row and only such toggles (`TangleInv`);
that a quiet load was served what the server still holds (`CalmInv`); and, for the
bound in the types, that rows and toggles that may still insert one are never more
than there are slots (`Room`, with the library's theorems on cardinalities). TLC
checked it with three toggles of one product and two loads (5.28 million states).

**ListingProofs** (`ChatAssumption`, `GatewayAssumption`, `ScreenAssumption`,
`ProductsAssumption`)

- of ChatGateways: `TypeCorrect`, `NothingPassedOver` (`NothingSkipped`);
- of FriendChat: `ScreenTypeCorrect` (`ScreenTypeOK`), `OthersOnce`
  (`OthersShownOnce`), `QuietRefreshHeals` (`RefreshHeals`), `RefreshKeepsOld`
  (`RefreshKeeps`), `ReadNeverUnread` (`ReadStaysRead`): all that the run `chat`
  checks;
- of Products: `ProductsTypeCorrect` (`ProductsTypeOK`), `UpdatesKeepTheRest`
  (`UpdateKeepsTheRest`), `WalksShowAll` (`WalkShowsAll`): all that the run
  `products` checks.

`InOrderProps` is the lemma about `ORDER BY`: the listing of a finite set of
messages with different ids has each of them once, by ascending ids. The proof
counts how many are older (`RankOnto`: the counts are exactly 0 .. n - 1). From
it `SinceProps` says what a limited load leaves out: only what is after its last
message, and `NewestProps` what the newest N are: every message is among them, or
older than all of a full load. The lemmas it rests on speak of any finite set
under a strict order (`RankProps`, `RankedProps`), so that the filter of `_reload`,
which keeps the new messages in their places, is read off the same way
(`NewOnesProps`). `GatewayInv` says of `_lastSeq` and of each request, from the moment it is
asked until it is taken over, that everything in order up to its last seq is in
its list, or left behind by it, or handed over, or before the first load, or lost to
a later one from the start (`Covered`); and that this stays
so whatever is stored meanwhile, since a message that appears with a smaller seq
is late (`CoveredStays`). The types need that ids and seqs are never given twice
and that there are seqs enough (`RoomInv`). TLC checked it on the 176 208 states of the
run.

`ScreenInv` is what the screen relies on. `TwiceInv`: a message shown twice is
one's own and its send has been answered, so the next answer to a send can only
make a first one a second, never a third. `LoadInv`, from the request to the
landing: the list names no message twice, and of what was shown at the request,
each is in the list or older than all of a full one. `CalmInv`: during a quiet load
the list is the newest messages as the table still holds them. `FieldsInv`: the
delay after a landed load is the only one of its kind, and nothing is requested
until it ends; without that, `_fetching` would be reset under a load in flight.
`ScreenTypeOK`'s `ids = ShownIds` is part of the induction, since `_reload` leaves out
what is in `ids`. TLC checked `ScreenInv` on the 1.78 million states of the run.

The pages of the products are cut out of the same kind of list: a listed product
stands behind as many as are `Before` it (`ListingProps`), and a page holds exactly
those whose number of predecessors it asks for (`PageShows`). `ProductsInv` follows
that number, `Ahead`, through a walk: it does not fall while nothing leaves the
listing and does not grow while nothing enters it (`PlacesMove`). That needs that no
product changed in the column of the listing, which a walk by `createdAt` gets from
the writes (none changes it) and a walk by title from `walk.moved`, after which
nothing more is claimed. So what was listed at the start is shown or still ahead
of the places asked for, and what was shown is behind them (`WalkInv`); at the last
page nobody is ahead any more (`PagesEnough`, the arithmetic of
`Math.ceil(total / limit)`). For `UpdateKeepsTheRest` it says what a save holds
between its statements (`SavingInv`): while nobody wrote the row, the columns it will
write turn the row into the merged one. TLC checked `ProductsInv` on the
1 250 899 states of the run.

**Only model-checked**

- `EveryCallAnswered`, `PollsCatchUp`, `FirstVisitSettles`, and the other liveness
  properties: liveness under fairness is out of the prover's reach.

## 6. Where the code and its comments part

With a run: `friends_pool` (quoted in `PROJECT.json`, `findings`).

In the models, as the code has it; a property says what holds nevertheless:

- two overlapping verifies accept one e-mail code twice
  (`email-verification.service.ts:138`); GuessesAreEarned covers calls that do
  not overlap;
- a reject that overlaps an accept overwrites ACCEPTED by REJECTED while the
  friends row stays (`friends.service.ts:282`);
- two users who ask each other at the same time both get PENDING, where
  `friends.service.ts:85` expects the second to be answered with the first
  (allowed by `LooseSpec`, refused by `Spec`);
- `block` never takes effect: its first statement (`friends.service.ts:323`)
  soft-deletes an entity that has no delete-date column, which TypeORM refuses;
- the e-mail path of a friend request checks no block, and one after a rejected
  request is answered PENDING with no id (`friends.service.ts:178-193`);
- `ensureFriendRoom` is called idempotent (`friends.service.ts:394`), and inserts
  a room each time;
- `appendText` answers a seq in milliseconds (`chats.service.ts:190`), every
  listing one of the database, so the reload after a send
  (`friend_chat_screen.dart:252`) never brings anything;
- leaving a screen before a toggle is answered undoes the answer in the app
  (`heart_screen.dart:192`, `home_screen.dart:259`), until the next load;
- "taps in a row are ignored" (`favorites_store.dart:127`) holds on the heart
  screen only: the home screen ignores what `toggleOptimistic` answers;
- an update that overlaps a removal brings the product back, where
  `products.service.ts:96` says removed products cannot be updated;
- overlapping sends of university codes within one cooldown all send mail: the
  cooldown starts after the mail is out;
- codes live in the process: a restart forgets them;
- `up` of the clean-up migration drops the old index before it creates the new
  one, where the comment of its `down` (lines 63-64) explains why the order
  matters; `EnsureMsgIndex` and `DropDupFkConv` say "no table, nothing to do", and
  yet their statements fail without the table; `Auto` cannot be resumed after a
  crash between two of its statements;
- the friend screen hears only of changes of the session
  (`friend_screen.dart:79`): on a second visit, or if the load came to nothing,
  it shows its spinner until the app is restarted, where `app_router.dart:226`
  recommends that it read the user from the provider. Taking the session the
  screen finds is not the repair by itself: after another login it would show one
  account's friends as another's (that is the mutant of OneAccount);
- "right after a login: store the token, load me, settle the session" says
  `session_provider.dart:76` of `setTokenAndFetchMe`, which no login calls: only the
  load does, once per process. After a logout and another login the stored token is
  the second account's and the session still the first one's, until the app is
  restarted (`again`);
- a login whose answer meets a running load is overwritten by the older token
  (`session_provider.dart:92`), and one that is answered late, when its page is gone,
  stores its token over that of a newer login; both are what `tangled` is about;
- a failed or refused `/auth/me` drops the stored token, of whatever login; to
  `FirstVisitSettles` that is an end of the waiting, to the user it is a spinner;
- `history('0')`, asked for again after the first load, moves `_lastSeq` to the end
  of the newest N (`chat_gateway_rest.dart:58-72`), over messages that came after
  the first load and that no poll asks for any more (`jumped`); nothing in `lib`
  creates a `RestChatGateway`;
- a walk through the products by title can miss one or show it twice without any
  product coming or going, when an update gives one another title
  (`products.service.ts:64`; `walk.moved`);
- on a 401 `main.dart:24-27` means to show the login page and goes to `/login`,
  a path no route has (`app_router.dart:82` has `/`);
- logging out in the settings keeps the token (`settings_screen.dart:224`);
- the guard of the friends routes accepts tokens that have expired.

Noted while reading, outside the models:

- the chat screen says it guarantees the read cursor when it is left
  (`friend_chat_screen.dart:386`), through a route that does not exist;
- `listFriends` joins rooms by `pairMinId` and `pairMaxId`, which no INSERT
  writes, so a friend's room and unread count are never found;
- no screen opens a socket the server accepts: `ChatWsClient` names no room, and
  is closed with 1008 (`main.ts:121-124`); frames lack the id `WsChatGateway`
  reads; `ChatRoomFacade` subscribes after its fetch and loses what comes between;
- the query DTO of products allows sorting by `price` and not by `priceWon`, the
  service by `priceWon` and not by `price` (`query-product.dto.ts:8`,
  `products.service.ts:25-31`): a request by price is answered by `createdAt`, one by
  `priceWon` is refused;
- `data-source.ts` looks for migrations in a directory that does not exist, and
  says they run at every start;
- `register` drops the token that university verification issues, so a user
  verified before registering is never marked.

## 7. Not modelled

Layout, navigation beyond the routes of Session, formatting, translations;
request validation and error mapping (a validated request, an answer "error");
the content of messages, products and mails; the cryptography of tokens and
passwords; screens that work on sample data (chat list and room, trade, payment,
delivery progress, alarms); the sign-up screens, the requests screen and the
unread badges of the friend list, which are left in the plan; `ChatWsClient`,
`WsChatGateway` and `ChatRoomFacade`, which nothing creates; and code that no
module wires (`friend-requests`, `user-blocks`, `notifications`,
`ws/realtime.server.ts`). Security is not a subject of these models.
