# A TLA+ model of the Localful server

Localful is a local-first content store. The repository has three packages:
`projects/server` (an Express and websocket server over PostgreSQL and Redis),
`projects/local` (the client library) and `projects/common` (schemas shared by
both). Most of the state several actors fight over is on the server; of the client
library it is the two tokens of a device, which any number of calls read and write.
This project models both.

## The system

| component | state it keeps | operations | interacts with |
|---|---|---|---|
| Token sessions (`token.service.ts`, `auth.service.ts`) | data store: `cid-<sid>` counter, `bl-<sid>` blacklist entry | login, refresh, logout, validation of a token | data store, users table, events |
| Access control (`access-control.service.ts`, `permissions.ts`) | none | authenticate a request, check roles and ownership | token sessions, users table |
| Sync websocket server (`sync.service.ts`, `sync.websockets.ts`) | data store: tickets; memory: `#sockets`, `#rooms` | request a ticket, upgrade, messages `ticket` and `subscribe`, server events | data store, vaults table, events, the `ws` library |
| Server settings (`server.service.ts` and its database service) | rows of `settings` | read, populate the default, update | the trigger `delete_older_rows`, registration |
| Users, vaults | rows, with a cascade from users to vaults | create, update, delete | settings, events |
| Items and versions | rows | create, list, delete, delete a version | vaults, events |
| Email verification | signed action tokens, `verified_at`, `first_verified_at` | request (also by the listener of a registration), verify | users, mail |
| Events service | listeners | dispatch, synchronous | everything above |
| Local client (`server-client.ts` and its storage) | access token in memory, refresh token in local storage | query with refresh and retry | token sessions |

What is hard about it:

* Every handler is an async function on one event loop. Code between two awaits
  on I/O is atomic, and everything else interleaves: a counter is read in one
  command and written in another, an upgrade waits for the purge of the socket
  it replaces, a subscribe waits for one query per vault.
* What keeps these apart is data in Redis with expiry times, and objects keyed by
  session id rather than by connection.
* The settings table relies on a trigger that sees only what is committed, while
  inserts overlap.
* Rules are checked against the claims of a token and against rows that were looked
  up some queries earlier; the statement then goes by id to whatever row there is. Ids
  of vaults, items and versions are chosen by clients and can be used again.
* The process ends when the listener of a registration rejects, with every handler in it.

What makes each component correct:

* Token sessions: one live refresh token per session; a rotated token stays dead;
  a logout is final and survives the expiry of its blacklist entry; a deleted user
  gets no new tokens; the store does not end a session before its tokens end.
* Sync: the socket store, the rooms and the connections agree; rooms are
  authorised; no open connection escapes the store, because that is what logout
  and account deletion act on; events reach every stored device; logout and
  deletion disconnect in the end.
* Settings: a replaced setting never comes back, the table never empties, and
  nobody registers before an administrator allows it.
* Vaults, items, versions: no row is left without what it hangs from, nothing ever
  passes from one user to another, and a statement acts on what is the requester's (two
  of the seven do not keep to this, see below).
* Accounts: an address is verified after a mail to it, nothing changes for an account
  before it was sent one, and a token says what the row says when it is signed.
* Client: a login lasts until it is given up or the page reloaded, a page that is opened
  again gets a new access token for the refresh token it finds (which the code does not
  keep to, see below), a logout lasts until the next login, and every call ends.

## Modules

| module | models |
|---|---|
| `Sessions` | token pairs, counters and blacklist; login, refresh, logout and guarded requests, account deletion, failing commands and a dying process, time |
| `Sync` | tickets, connections, socket store, rooms, message handlers, writes by other requests and the events they cause, process crash |
| `Settings` | settings rows, overlapping insert transactions with the trigger, default population, registration gate |
| `AccessControl` | the role table and the rules, as operators without state |
| `Content` (extends `AccessControl`) | vaults, items and versions with their keys and cascades, and the requests that create, read, list, change and delete them, query by query |
| `Rotation`, `Switchboard`, `RegularRegister`, `Ownership` | what `Sessions`, `Sync`, `Settings` and `Content` promise, as abstract specifications |
| `Accounts` (extends `AccessControl`) | rows of users, their verification, mails, roles and the claims of access tokens |
| `Client` | the tokens of a device under concurrent calls of `ServerClient` |
| `SessionsProofs`, `SyncProofs`, `SettingsProofs`, `ContentProofs`, `AccountsProofs`, `ClientProofs` | inductive invariants, refinements and theorems of the module each is named after |
| `AccessControlProofs` | theorems about the rules, which `ContentProofs` and `AccountsProofs` rest on |
| `MCSessions`, `MCSync`, `MCSettings`, `MCContent`, `MCAccounts`, `MCClient` | symmetry and small constant values for TLC |

Each module is about one part and assumes of the others only what it names: `Accounts`
lets any token that was ever signed be presented, which is more than `Sessions` allows;
`Sync` and `Content` let requests be made with tokens that outlive what they say; `Settings`
is what decides whether `Accounts.Register` may happen. What holds under these wider
assumptions holds of the parts together.

Definitions whose comment starts with `Slip:` are not part of any specification.
Each is a plausible mistake in the definition it stands before, kept to
show that a property notices it.

### Sessions

A handler runs in a request slot `r`; `pc[r]` is the await it stands before,
`tok[r]` the pair it presented or is making, `seen[r]` the counter value it goes
on with. The two tokens of a pair carry the same `sid`, `cid` and time of
signing, so a pair is one record, and which of its tokens was presented is
`op[r]`: `access` presents the access token, the other two the refresh token.

| action | code |
|---|---|
| `Login` | `AuthService.login` up to `createUUID` in `createNewTokenPair` |
| `StoreCounter`, `Sign` | the `SET` of `createNewTokenPair` and `getRefreshedTokenPair`, then `_getTokenPair` and the response |
| `Present`, `ReadBlacklist`, `ReadCounter` | `jsonwebtoken.verify` and the two reads of `_validateCustomAuthClaims` |
| `FindUser`, `RereadCounter` | `refresh`: the row of the user, then the second read of the counter |
| `Ban` | `logout`: `blacklistSession` with the expiry of the presented token |
| `Fail` | a command or query fails and the handler rejects, or the process dies and every handler with it; what was written stays |
| `DeleteUser`, `Tick` | `UsersService.delete`; one second passes |

`_parseTokenExpiry` returns milliseconds, which the data store takes for seconds;
both are kept (`MsPerSecond`), so a counter outlives its tokens by a wide
margin. `orderly` is a history variable. It becomes false for a session when a
refresh or logout starts while another one of the same session is in progress, or
when the clock expires a token between its `verify` and the reads that follow.
The code does nothing to prevent either, and what it then does
is shown by `rotation_race` and `logout_race`; the other properties say what holds
for every session to which neither has happened.

`Rotation` knows of each session whether it keeps to the contract, whether it has been ended,
and which tokens were granted for it and are valid; `Sessions!R` is it with the orderly
sessions, those of them with a blacklist entry, the pairs signed for them and the
refresh tokens `Honoured` now. `TokensRotate` is `R!Spec`: a token is granted only while no other
is valid, what lapses never becomes valid again, and after the end of a session nothing is valid
and nothing granted. In the code a token lapses when another request stores the
next counter, when its time is up or when its session is blacklisted; none of the three, and no
entry that expires in the data store, is ever undone.

### Sync

A connection is a value of `Conns` with a state and the ticket it was opened with;
`SidOf` is `ws.connectionData`. `validating` is an upgrade that waits for its
ticket, `replacing` one that waits for the purge of the old socket (the purge
takes effect at once; what waits is the continuation), `closing` a connection
after `close()`, which can still deliver what its peer sent.
Message handlers waiting for I/O are records in `subscribing` and
`revalidating`. A write by another request puts its event into `pending`, and
`Dispatch` is what runs when its answer arrives: the listeners of
the events service run synchronously, and everything the controller does for an
event is free of I/O, so sending, disconnecting and deleting rooms is one step.
A room that has no members is the same as one that does not exist: every use in
the code tests for it and skips it.

`vaults` says whose each vault is. Clients choose the ids, so a vault that was deleted
may come back under another owner; the history variable `recycled` keeps the ids this can
happen to. A session that was checked for a vault before its deletion joins the room
after it, and stays there whoever owns the id by then: `RoomsAreAuthorised` says that this is
the only way to be in the room of somebody else's vault.

`FrameDelivery` says what a `message` listener gets. As shipped it is `"buffer"`:
the library delivers Buffers, `safeParse` of an object schema rejects each of
them, and every message purges the socket of its session. To verify the handlers
behind the parser too, `"object"` delivers parsed messages. Whatever a run or
theorem shows under only one of the two says so.

`overlapped` is a history variable: two upgrades of a session were in progress
together. Who may act on what: any session may write to any
user and vault at any time, since administrators may, and since a request that was authenticated
before a logout or a deletion goes on after it; this is more than the access rules
allow, and so safe for the invariants. `loggedIn` is a history variable too, which the
liveness property reads.

`Switchboard` is about sessions whose upgrades do not overlap. It knows which of their
connections are open (`lines`), which connections are over (`spent`), and the orders to
disconnect that stand, each with the sessions it names; `Sync!W` takes for these the pending
`logout` and `user-delete` events. `SessionsHaveOneLine` is `W!Spec`: a session is connected
only when it has no line, a connection that is over is never a line again, and an order is
executed only by a step after which none of its sessions has a line. It is the safety that
`LogoutDisconnects` and `DeletionDisconnects` rest on, without their fairness.

### Settings

An insert is a transaction of its own: `Begin` takes `created_at` (the
time the transaction begins), `Sweep` is the trigger with what is committed at that
moment, `Commit` makes the insert and the deletions visible together, `Abort` is
any failure. No two transactions are taken to begin in the same microsecond. The
history variables are `known` (rows committed when the insert began),
`superseded` (rows known to an insert that has since been committed) and `opened` (an
administrator has enabled registration).

`RegularRegister` is a register with several writers: a write that ends has replaced, for
good, the values it found when it began, and leaves its own; one that is cancelled leaves
no trace. `Settings!G` is it with the committed rows as the values a read may take and `known` as
what a write found, and `SettingsAreRegular` is `G!Spec`. The settings are no more than
regular: of two updates that overlap both rows may remain, and reads take the older one,
which may be the one that was answered first.

### AccessControl, Content and Ownership

`AccessControl` holds the permissions of the two roles and `validateAccessControlRules`, cut
at its await: `Permitted` is decided by the claims of the token, and `ReadsTarget` says whether
the row of the other user is read afterwards.

In `Content` a request starts with its first lookup and the rules (`Receive`, for any of the
eleven operations in `Rights`), may read the target user (`ReadTarget`), and then executes
what `First` names for it: one of the inserts, updates and deletions, or for `deleteItem` the
two statements `MarkDeleted` and `DeleteVersions`, for `deleteVersion` the second lookup
`GetItem` and then `UpdateVersion`. `call[r]` is what the handler keeps across its awaits.
Nothing is in a transaction, so `Fail` may follow any of these. `DeleteUser` is the deletion of an
account with its cascade. What the queries really do is kept: `getVersion` joins `items` on a
condition that is always true, so any item's owner may answer for the version
(`VersionOwners`); the first statement of `deleteItem` updates `vaults`; the count of
`getItems` is always rejected by the database. Names, keys, types and encrypted
data are not told apart, and times are reduced to whether they are set.

`Ownership` knows only which thing belongs to whom: things vanish, any number at once, and
appear one at a time with an owner. `Content!O` is it under the mapping `belongings`, which
gives each row the owner of the vault it hangs from, and `ContentNeverChangesHands` is
`O!Spec`: no step of the tables makes something pass from one user to another, or makes
two things appear.

`recycled` is a history variable: ids of rows that were deleted. A request that looked a row up
before its deletion executes its statement after the id is in use again. Of the
seven statements that change or remove something or insert into it, five act on the row the
rules were checked for, and
`StatementsAreEntitled` says of these that a re-used id is the only way for anybody but an
administrator to act on somebody else's row. The other two act on something else, and
need no re-used id for it:

* `MarkDeleted`, the first statement of `deleteItem`, updates the vault that has the id of the
  item, whoever owns that vault;
* `UpdateVersion` follows a check in which any item's owner may have answered for the
  version, and the owner of the item that has the version's id.

`ScopesAreKept` says it of all seven, and the run `scopes` shows that it does not hold.
`ContentNeverChangesHands` holds all the same: marking a row leaves its owner as it is.

### Accounts

A row is the address, the two verification times and the role. Stages of a handler are named in
`Call`.

| action | code |
|---|---|
| `Register`, `Insert` | `UsersService.create` before and after hashing the password, with the event and the token |
| `Login`, `Refresh`, `Sign` | the rows read by `AuthService.login` and `refresh`, and the signature some awaits later |
| `Receive`, `ReadTarget`, `Update`, `UpdateName`, `Delete` | `UsersService.update` (with an address, or of the name alone) and `delete`: the rules against the claims, perhaps the row of somebody else, then the statement by id |
| `Listen`, `RequestEmailVerification`, `SendEmail` | `requestEmailVerification`, by the `USER_CREATE` listener or by request, up to and after the mail server |
| `BeginVerification`, `VerifyUser` | `verifyEmail`: the row, the token and the time; then the update by id and the new tokens |
| `SetRole` | an operator changes a role in the database; no handler does |
| `Fail`, `Crash` | a handler rejects; the process ends, which a rejecting listener makes happen |

What a change asks for is the new address, `OldEmail` for an update of the name alone, or
`NoEmail` for a deletion. Names are not kept: nothing depends on them.

History variables: `moved` (accounts whose address was changed), `served` (accounts a change was
executed for, of the name as well), and in a handler that signs, `overtaken` (the row changed after it was read).

`VerificationComesFirst` is about every change, `ChangesAreAuthorised` about changes of an address
and deletions. The latter speaks of the moment of the statement: tokens outlive what they claim, so
all that is left of the check of the claims is that such a token was once signed, and of the
check of the target that the account has been verified at some time, which no later change of
its row undoes.

### Client

`access` and `refresh` hold `missing`, `undefined` (what an error answer has where the token
would be) or `token`. Each call of `query`, `refresh`, `login` or `logout` runs in a slot and every
await lets the others go on. What the storage really does is kept: `saveRefreshToken` stores a
bare string, `loadRefreshToken` parses it as JSON, fails, and removes it, so that a refresh or a
logout empties the storage and finds no token; and `fetch` resolves for every answer, so
the branches that look for an error response in an exception never run. `Settle` ends a call at
its answer or at a network failure. The access token is in memory and the refresh token in
local storage, so `Reload`, which may happen at any moment, loses the first, keeps the second, and ends every call
under way. A page may be opened with any of the three values in the storage, those of an
earlier refresh that failed included.

`device` is a history variable: what became of the last login or logout. A login is `in`
while no call that writes tokens overlapped it; after a reload the page is `opened`,
if there was a token in the storage. The first query of an opened page, a refresh the
application asks for, and any overlap of a login with a refresh or a logout, make it
`unsettled`, where no property speaks of it. `LoginLasts` says that a login keeps both its
tokens in the page it was made in, whatever number of queries it serves, and that an opened page
keeps its refresh token until some call needs it. The first query does: it finds no access token,
and its refresh empties the storage and gets no token in return, so that in the code as it is one
query after a reload ends the login. `LogoutLasts` does not exclude
refreshes that overlap the logout, of any number of calls, nor reloads.

## Runs

| run | instance | outcome |
|---|---|---|
| `sessions` | 1 user, 1 session, 2 requests, access life 1, refresh life 2, clock up to 3, counter up to 3 | holds: `TypeOK`, `OneLivePair`, `LogoutIsFinal`, `NoRefreshAfterLogout`, `CounterNeverFallsBack`, `DeletedUserStaysOut`, `CounterOutlivesTokens`, `TokensRotate` |
| `rotation_race` | the same, clock up to 1 | `OldTokensAreRejected` is violated |
| `logout_race` | as `sessions` | `LoggedOutTokensAreBlacklisted` is violated |
| `sync_shipped` | 1 user, 2 sessions, 1 vault, 2 tickets, 3 connections, buffers, 2 pending events | holds: `TypeOK`, `RoomsAndSocketsAgree`, `OpenSocketIsTracked`, `UserEventsReachEveryDevice`, `SessionsHaveOneLine` |
| `sync_handlers` | 2 users, 1 session, 2 vaults, 2 tickets, 2 connections, objects, 1 handler in flight, 1 pending event | holds: `RoomsAndSocketsAgree`, `RoomsAreAuthorised`, `OpenSocketIsTracked` |
| `sync_liveness` | 1 user, 2 sessions, 2 tickets, 2 connections, buffers, 2 pending events, fairness, no symmetry | holds: `LogoutDisconnects`, `DeletionDisconnects` |
| `one_connection` | 1 session, 2 tickets, 3 connections | `OneConnectionPerSession` is violated |
| `settings` | 3 requests, 4 inserts | holds: `TypeOK`, `StaleSettingsAreGone`, `RegistrationNeedsAdministrator`, `SettingsStay`, `SettingsAreRegular` |
| `content` | 2 requests, 2 users of whom one is an administrator, 2 ids for all tables, 4 rows inserted | holds: `TypeOK`, `ReferentialIntegrity`, `StatementsAreEntitled`, `ContentNeverChangesHands` |
| `scopes` | the same with 1 request, 3 rows inserted | `ScopesAreKept` is violated |
| `accounts` | 2 requests, 2 accounts, 3 addresses, 3 changes, 2 verifications after the administrator's | holds: `TypeOK`, `VerificationFollowsMail`, `VerificationComesFirst`, `FirstVerificationIsFirst`, `NewTokensAreCurrent`, `ChangesAreAuthorised` |
| `client` | 3 calls at a time, reloads, fairness, no symmetry | holds: `TypeOK`, `LoginLasts`, `LogoutLasts`, `CallsSettle`, `CallsAdvance` |

Why the bounds are enough to be interesting:

* `sessions`: no two sessions share a key, so one suffices. Two requests make
  every race the code has (refresh with refresh, refresh with logout, either with
  expiry); the clock runs past the end of a first refresh token and of the blacklist entry
  written for it while a second, later token is still alive. Counter values up to 3
  give three generations, which a fall-back of the counter needs.
* `sync_*`: an overlap needs two connections of a session that are being opened,
  and the first of the violations a third one that was there before. Two sessions of
  one user are what makes user rooms and `disconnect-user` more than one step; two
  users and two vaults are what authorisation needs. With one message handler in flight
  the checks of one subscribe still interleave with every write, event and upgrade;
  that several handlers change nothing is proved.
* `settings`: three overlapping inserts allow one that began first to commit last with
  another in between.
* `content`: with two ids for the rows of three tables ids coincide between tables, which
  `deleteItem` and `deleteVersion` depend on; four inserts make a full hierarchy and one row
  again under an id of the first. Two requests let one delete what the other has looked up.
* `accounts`: the administrator and one account that registers; three addresses make room for a
  change to a free and to a taken one; three changes are an insert, an update and a
  verification, in any order with a deletion or a change of role.
* `client`: two calls that refresh while a third logs in or out. Each slot is used again any
  number of times, and the page reloaded any number of times.

The bounds are `MaxNow`, `MaxCounter` (rotation stops there), `MaxHandlers`,
`MaxPending`, `MaxClock`, `MaxRows`, `MaxChanges`, and the finite supplies of session ids,
tickets and connections, each of which is used at most once. When all of
these are used up a behaviour may end, which is why the runs do not check for
deadlock; the server itself has no final state and no two of its handlers wait for
each other.

Fairness is assumed in two places. `Sync!FairSpec` has weak fairness of `Dispatch(e)` for each
event: once a write was made, its answer arrives and the continuation runs, or the
process dies and its connections with it. Node runs continuations whose
promise has settled, and the database driver settles each query with an answer or an
error. `Client!Fairness` has weak fairness of the next step of each call that has begun:
the browser runs what is due, and a fetch settles in the end, with an answer or an
error. Nothing is assumed of anybody starting a call, and nothing of the server's clients: peers
need not close, send or answer.

### Where code and documentation disagree

* `rotation_race`: `getRefreshedTokenPair` is a read followed by a write. Of several
  refreshes in flight together the slowest writes an old value back, and a token
  older than the newest is accepted (`docs/server/authentication.md:27`).
* `logout_race`: a refresh that passed validation before a logout signs after it; its
  tokens outlive the blacklist entry (`docs/server/authentication.md:8`).
* `one_connection`: overlapping upgrades leave two open connections
  (`docs/server/reference-websocket.md:72`).
* `scopes`: the first statement of `deleteItem` updates `vaults` instead of `items`, under the id of
  the item. A plain user who has an item under the id of somebody else's vault marks that
  vault as deleted by deleting the item, while `permissions.ts:19` says of a plain user's
  permissions "Scopes limited to the current user".

Also seen while modelling, part of the modules, and without a run of their own:

* The `ws` library hands Buffers to `message` listeners and nothing decodes them: no message
  is ever recognised, and each one closes the socket of its session (`FrameDelivery`).
* Purging goes by session id, so a message or a ticket check of one connection closes the
  connection that replaced it; tickets are not consumed and in effect never expire.
* Default settings populated by a request that found the table empty can replace an
  administrator's first update.
* A verification token names its user only: after a change of the address it verifies the new
  one. `requestEmailVerification` does reject, which from the listener ends the process.
* A session can stay in the room of a deleted vault whose id is then used again.
* Since that statement finds no vault under the id of most items, the deletion of an item answers
  404 for an item that is there, removes its versions all the same, and leaves it, against the
  comment at `items.database.service.ts:212`.
* The owner of any item answers for a version, since the join of `getVersion` is always true, and
  `deleteVersion` then looks an item up under the version's id (`items.service.ts:166`): who owns
  an item with that id deletes somebody else's version, which is the other way to break
  `ScopesAreKept`. For a version whose id no item has, the deletion always fails. So does
  listing items.
* The first query of a page that was opened with a stored refresh token sends a promise in its
  place, and loading it removes it: the query is retried without an access token, against the
  comment at `server-client.ts:48`.
* The client saves the `undefined` of the error answer, and never refreshes on a rejected
  query. A refresh that overlaps a login writes over what the login stored.

## Proofs

The theorems hold for every value of the constants that satisfies the named assumptions
(`Sessions`: `LifeAssumption`, `NoPairAssumption`; `Sync`: `SyncAssumption`; `Settings`:
`ClockAssumption`, `NoRowAssumption`; `Content`: `AdminsAssumption`, `MaxRowsAssumption`,
`NobodyAssumption`, `NoCallAssumption`, `NoRowAssumption`; `Accounts`: `BoundsAssumption`,
`EmailAssumption`, `NoRowAssumption`, `NoCallAssumption`; `Client` needs none): any number of
requests, users, sessions, connections, rows and calls, and any token lifetimes.

* **Sessions** (`SessionsProofs`). `OneLivePair` and its companions are not inductive:
  they say nothing about handlers. `IInv` adds to the types that each handler stands
  at a step of its own operation (`ControlInv`), and for each orderly session
  (`SessionInv`) that it has one writer at most (`SoleWriter`), that its pairs are
  numbered up to the counter, one for each number (`Generations`), that what a
  writer has read is still so: the counter is the one its token names, its `seen` is the
  next, or the counter itself with no pair of that number signed yet
  (`FreshKnowledge`), that a token under validation has not expired (`Unexpired`),
  and that a blacklist entry lasts as long as any pair the counter still names, with
  no writer past the blacklist (`Ended`). The frame lemma
  disposes of every step of other sessions. From it: `OneLivePairHolds`,
  `LogoutIsFinalHolds`, `NoRefreshAfterLogoutHolds`, `CounterNeverFallsBackHolds`.
  `DeletedUserStaysOutHolds` needs only the types and `ControlInv`.
  `CounterOutlivesTokensHolds` assumes that the clock, in seconds, stays below the refresh
  lifetime in milliseconds, as it does for nineteen years of running with the lifetime
  shipped: then the
  expiry of every counter that was stored is out of reach (`ExpiryInv`), however long a
  handler takes from the `SET` to the signature. With the unit the data store expects
  it would not hold. `SessionsRotate`, the refinement of `Rotation`, makes the same assumption,
  since a counter that expired would let the tokens of its session lapse and a new one start
  over. Its core is `NothingComesBack`: a pair that is not honoured now is not honoured after
  any step, because the counter does not fall back, a blacklist entry outlasts the tokens it is
  there for, and time only passes. Each action is then a `Grant` (the signature, of the
  next number and after every other token lapsed), an `End` (the blacklist entry) or a `Lapse`.
* **Sync** (`SyncProofs`). Types come first, with the fact that a connection keeps
  its session. Every step is then put into one of a few forms
  (`MemorySteps`: sessions are purged, a connection is stored, rooms change), so that
  each part of the invariant is proved once per form. The invariant adds to the three
  safety properties that the vaults a subscribe handler has checked belong to its user or
  have been deleted since (`ChecksAreOwned`, by the ways a step may change the owner of a
  vault, `VaultsStep`), and that a session that never overlapped has at most one
  upgrade in progress, and no stored socket once that upgrade has purged it
  (`UpgradesAlone`). `UserEventsReachEveryDeviceHolds` assumes
  `FrameDelivery = "buffer"`: then no handler subscribes, and every session with a
  socket is in the room of its user. `SessionsHaveOneLineHolds` is the refinement of
  `Switchboard`: by the same forms no step but `Establish` opens a connection and none reopens one
  (`OnlyEndingStep`), so that a step hangs lines up and does nothing else to them
  (`HangUpStep`); when `Establish` opens one, `UpgradesAlone` and `OpenSocketIsTracked` give
  that its session has none; and the dispatch of an order purges the stored sockets of its
  sessions, which by `OpenSocketIsTracked` are all they have open (`DispatchStep`).
* **Settings** (`SettingsProofs`). A row that was superseded is gone
  because the insert that knew it began later, so that its trigger deletes it. The
  invariant says that creation times tell rows apart and lie in the past (`CreatedAt`),
  that what an insert knew is older than its row and, while still committed, among its
  victims once the trigger ran (`KnownAreVictims`), that victims are older than the row
  (`VictimsAreOlder`), and which rows can be enabled before an administrator acted (`GateInv`).
  `SettingsStayHolds` follows from every commit adding its own row, which its victims,
  all strictly older, do not include. `SettingsAreRegularHolds` is the refinement of
  `RegularRegister`, one lemma for the beginning, the end and the failure of a transaction
  (`BeginRefines`, `CommitRefines`, `AbortRefines`): `KnownAreVictims` gives that a commit
  removes all it found, and `StaleSettingsAreGone` that nothing removed returns.
* **AccessControl** (`AccessControlProofs`). `OnlyAdministratorsActForOthers`,
  `AdministratorsMayDoWhatUsersMay` and `SettingsAreForAdministrators`, from the role table
  with its inheritance resolved, for any requester, resource, action and target.
* **Content** (`ContentProofs`). `ReferentialIntegrity` is inductive with the types.
  `ContentIsOwned` proves the refinement: with integrity, a deletion only shrinks `belongings`
  (`DropShrinks`), an insert adds exactly the row it makes, since a row that was not there had
  nothing hanging from it (`InsertVaultGrows`, `InsertItemGrows`, `InsertVersionGrows`), and every
  other statement leaves the owners alone (`SameOwners`); so every step is a `Vanish`, an `Appear`
  or a stutter. `StatementsEntitled`, of the five statements
  on the row that was checked (`OnCheckedRow`), needs `CallsEntitled`: a handler past the rules is an
  administrator's, or what it looked up was its requester's and still is, is gone, or has an id
  that was used before.
* **Accounts** (`AccountsProofs`). One invariant for each property: `MailInv` (a token that
  claims verification, or a verification on its way, has a mail behind it), `AddressInv` (for
  accounts that never moved, mails sent and on their way carry the address of the row),
  `CurrentInv` (which is `NewTokensAreCurrent`, inductive with the types), `TimeInv` (a
  handler that verifies and found a first verification took a later time than that, and than
  any handler that found none) and `AdmissionInv` (what a call on its way to a change was
  admitted by is still so: the tokens stay, and an account that was verified keeps its first
  verification or is gone for good, `ConfirmedStays`, which needs `TimeInv`). A few lemmas say
  what starting a handler and overtaking one can do to each. `ChangesAreAuthorised` is an action
  property: `ChangesAreAdmitted` finds the admitted call behind every change of an address
  and every deletion.
* **Client** (`ClientProofs`). `IInv` adds to the types what each call that may still write a token
  knows of the last login (`Joined`) and the last logout (`Left`); a reload leaves no call, and
  what it finds in the storage decides which of the two it begins with. `CallsAdvanceHolds` shows that
  each step of a call lowers `StepsLeft`, with any number of others beside it: the part of
  `CallsSettle` that does not depend on fairness.

Every invariant and every action property of the runs, and each of the four refinements, is
proved. Only model-checked: `LogoutDisconnects`, `DeletionDisconnects` and `CallsSettle` (liveness
under fairness is out of the prover's reach; the safety they rest on is proved, as said
above). The violated properties are of course not
theorems.

## Not modelled, and why

* Cryptography, password hashing, the mail server, reading the environment: pure functions or
  I/O. HTTP routing, request and response schemas, error mapping: no state after start-up.
* The data of users, vaults and items, which the server stores encrypted and never looks into.
* `purgeItem` and `purgeVersion`, which nothing calls, and `getVersionsByFilters`, a stub.
* Item and version events: nothing listens to them.
* Redis and PostgreSQL beyond what is used: single commands are atomic, Redis does not
  lose data, and transactions are read committed with one statement each. The migration
  runner, the connection pool, `ping` and `flushall` are left out.
* Several pages of one browser that share the stored refresh token: `Client` has one page at a
  time, with any number of calls in it.
* The connection expiry of a ticket: the code stores it and never reads it.
* The IndexedDB wrapper, the vault keys kept in memory, and
  `local-network.ts` and `network.ts`, which hold no logic yet.

## Plan

All components with a protocol of their own are modelled and proved about. What is left, in
order:

1. `SessionsSync`: tickets handed out and logouts made by the handlers of `Sessions`, with the
   window between blacklisting and disconnecting. `Sync` takes a logout as one step with
   an event to follow, which allows every order of the two that the composition would.
2. Abstract specifications of `Accounts` (the life of an account: registered, mailed, verified,
   moved, gone) and of the room side of `Sync`.
3. `Client` with the server of `Sessions`, once the client sends its refresh token.
