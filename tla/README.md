# A formal model of the Secure Enterprise RESTful API

This directory holds TLA+ modules that model the API under `src/`, TLC
configurations that check them on small instances, and proofs that TLAPS checks
for every value of the constants. `PROJECT.json` maps each definition to the
lines it models and lists the runs, the mutants that show each property can
fail, the divergences from the documentation, the hazards and the theorems.

## The system

Express instances without state of their own serve a REST API over one
PostgreSQL (through Prisma) and one Redis. A request passes the logger, the rate
limiter, `authenticate`, `authorize` and `validate`, then a controller calls a
service; whatever throws ends in `errorHandler`. Node.js runs a handler without
interruption between two `await`s, so that requests interleave at the awaits:
each awaits a statement of PostgreSQL, a command of Redis, or bcrypt.

| component | state it keeps | operations | what makes it correct |
|---|---|---|---|
| AuthService (`modules/auth`) | rows of `refresh_tokens`, `users.password_hash`, keys `blacklist:<jti>` | register, login, refreshTokens, logout, changePassword, (me) | a refresh token is spent once; rotation loses no session; what is revoked stays revoked; logout and changePassword end sessions; an access token is refused after logout; registration is all or nothing |
| UserService (`modules/users`) | rows of `users` | getUserById, updateUser, deleteUser; getUsers, getAuditLogs | emails and usernames are unique; deletion leaves no token; tokens are issued for the account as it is |
| middleware | `req.user`, from the access token's claims | authenticate, authorize, validate, errorHandler | a token is refused once expired or logged out; an error becomes the documented status |
| PostgreSQL schema | `users`, `refresh_tokens`, `audit_logs` | unique indexes, foreign key, cascade, transactions | what the services rely on |
| RateLimiter | counters `rl:global:*`, `rl:auth:*` in Redis | count a request in its window | what is let through in any interval is bounded, over all instances; a refused client is let through again |
| server lifecycle (`server.ts`, `config/`) | the HTTP server, two clients, a 10 s timer | bootstrap, gracefulShutdown on four events | shutdown ends, in the right order, and cuts no client off on its clean way; requests end while Redis is away |
| user listing | none | filters, page and count | page and total agree; a walk through the pages misses no user and meets none twice |
| audit log | `audit_logs` | getAuditLogs | nothing writes the table |
| logging, Swagger, configuration, build | none | none | not modelled |

Components meet in shared state only: AuthService writes the blacklist that
`authenticate` reads; UserService changes the rows that AuthService's handlers
have read and are about to act upon; the cascade of a deletion removes tokens
that rotations are about to revoke.

What is hard in this code, and what the properties are for:

* every handler is *read, await, write* without a lock or a version: two
  rotations of one token, a rotation or a login against logout, changePassword,
  deactivation or deletion (`auth.service.ts:141`, `:205`, `:230`, `:264`);
* bcrypt takes hundreds of milliseconds between login's read and its insert;
* an instance can die between two statements, and a response can be lost after
  its transaction has committed;
* a transaction is READ COMMITTED: `updateMany` revokes what its own snapshot shows,
  and tokens are committed beside it (`auth.service.ts:270`);
* four lifetimes guard two kinds of token: `exp` of both JWTs, the row's
  `expiresAt` and the blacklist key's TTL; two are configuration and two are
  constants (`auth.service.ts:31-32`, `env.ts:21-22`);
* transactions lock rows in different orders (`auth.service.ts:204`, `:264`,
  `user.service.ts:87`, `:106`);
* Redis may leave at any moment, with commands waiting, counted and not answered, or
  with the shutdown's own `QUIT` among them (`redis.ts:10`, `:37`);
* the shutdown can be entered again while it is under way (`server.ts:35-46`);
* a page and its total are two snapshots, and pages are cut from a table that changes
  (`user.service.ts:45`).

## The modules

Four systems are modelled apart, since they meet in no state that a property
relates: the API over its tables, one server's life, the list's pages, and the row
locks.

```
ApiState          constants, tables, tokens, requests; constraints of the tables
  AuthService       register, login, refreshTokens, logout, changePassword
  UserService       getUserById, updateUser, deleteUser
  Middleware        arrival, authenticate, errors, responses, crashes, time
    Api               their composition: Init, Next, Spec, TypeOK, ApiInv
      ApiHistory        history variables, the properties, the refinement mapping
        MCApi             instances for TLC
        ApiProofs         ApiInv; revocation and logout
          HistoryProofs     effects of the writes, requests in flight; accounts
            SessionProofs     sessions and issued tokens
              LedgerProofs      the refinement
TokenLedger       what tokens and accounts promise, without requests or statements

RateLimiter       two fixed windows in Redis and the client's connection to it
  Server            an instance: bootstrap, requests, shutdown, exit, restart
    MCServer
    LimiterProofs     the limiters' steps and the bound they keep
      ServerProofs      the server's invariant, its exit, the bound on bursts

UserListing       getUsers, page by page, against writes
  MCListing, ListingProofs

TxLocks           row locks of the transactions
  MCLocks, LocksProofs
```

### The API

**State.** `users` and `refreshTokens` are the two tables; a key maps to a row, to
`Absent` before its insertion and to `Deleted` after its deletion, since keys are
never used twice. `blacklist[k]` is when the Redis key expires (0 if it was never
set). `jwt[k]` are the claims of a signed pair: every place in the code that signs
an access token signs a refresh token with it, and the two have different
secrets, so that one number stands for both and a client may present either.
`held` is what the clients have received; requests present held tokens or
strings that are none (`None`), which fail verification. `pc[r]` names the statement a
request has to execute next, `req[r]` holds its input, what it has read, and
finally its response.

**Actions.** One action is a statement the handler awaits with the code up to the
next await. `Receive` takes the request to its first statement (for a
bearer route through `verifyAccessToken`, for a refresh through
`verifyRefreshToken`, and on the public routes after `validate`); `Authenticate` is the GET on the blacklist with the role
check, the schema refusal and the rest of the chain, which await nothing of the
stores. `RegisterFind`/`RegisterCreate`, `LoginFind`/`LoginCompare`/`LoginCreate`,
`RefreshFind`/`RefreshUser`/`RefreshCommit`, `LogoutRevoke`/`LogoutBlacklist`,
`PasswordFind`/`PasswordUpdate`/`PasswordRevoke`/`PasswordCommit`, `GetUser`, `UpdateFind`/`UpdateWrite` and
`DeleteFind`/`DeleteWrite` are the statements of the services, with each of their
error exits. `StoreError` is a statement that fails (500), `Drop` an instance that
dies or is cut off by the shutdown timer, `Respond` a response that arrives,
`Tick` the time. A body or path that the route's schema refuses is a request with
`malformed` set: it is answered 422 where that route validates, before anything on
the public routes and after the role check on the others. `RefreshFind` and `RefreshUser`
are the two SELECTs that Prisma makes of `findUnique` with `include`.

**Abstractions.**

* The transaction of a rotation, the nested create of a registration and every single statement
  are one action each, at their commit: they write by key, and others see none or all of
  it. changePassword's transaction is not: its `updateMany` selects by predicate, with a
  snapshot of its own, and others commit tokens before its COMMIT. It is three actions.
  `PasswordUpdate` takes the lock of the user's row (`Locked`: other writes to the row
  wait, inserts of tokens do not, since their foreign key asks for a lock that an update of
  the hash does not exclude), `PasswordRevoke` selects, and `PasswordCommit` shows both writes.
  A selected row that another transaction has revoked meanwhile stays revoked, as `updateMany`
  leaves it. A rotation of a selected row before COMMIT is one that locked the row first.
  A transaction that fails or is cut off in between has written nothing. Deadlocks between row locks, which PostgreSQL resolves by
  aborting one transaction, appear as `StoreError`; which there are is the subject of
  `TxLocks`.
* A failing statement has no effect. A commit whose answer is lost is the
  statement followed by `Drop`.
* PostgreSQL, Redis and Node.js share one clock, which advances by units between
  any two steps. Redis keeps its keys until they expire: that
  `--appendonly yes` can lose the last second of a crash is left out.
* The `email` claim, the user agent, the IP address, names of responses and all
  wording are left out. bcrypt is `Digest`: what it keeps of a password. Salts are
  left out, so that a user who returns to an old password has the old hash.
* PasswordFind holds the read and bcrypt's comparison, and RegisterFind the read and the
  hashing, since no other step distinguishes them: the values used later are the
  request's own input and constants. login's comparison is a step of its own,
  because login goes on to use the row it read.
* Register and login need unused numbers in `UserId` and `Pair`. These are the bounds
  of an instance; where none is left the request can only fail or be dropped.

**The ledger.** `TokenLedger` has five variables (the state of accounts and tokens, each
token's owner and parent, and the tokens marked late) and six steps: Enroll, OpenSession,
Rotate, Revoke, RevokeAll, Close. A change of the tables is one of them or none, whatever
requests are in flight. A token that enters may be marked late; only a late token may
replace a revoked one, and only a late token may outlive `RevokeAll`. `ApiHistory` maps the
tables to it (`AccountState`, `TokenState`, `TokenOwner`; the parent is in `lineage`) and
instantiates it twice: `Strict`, the documented ledger, in which no token is late, and
`Lenient`, in which those are that `lineage` says were inserted late.

### The server

`Server` is one process. `conn` are the client's open connections, `chain[c]` is
what the request on c has still to pass: limiters, then the handler, which is one
step here. `Count(c)` is the limiter's command with its answer, `CountUnheard(c)` one that
Redis ran and the connection lost, `CountElsewhere` the same client on another
instance. `GracefulShutdown(i)` is a call of the function, for a signal or an error;
`closing[i]` is what it waits for: connections, then `disconnectDatabase`, then
`disconnectRedis`. `link` is the Redis client: up, down (ioredis retries, and after
`MaxRetries` failures rejects what waits: `RejectWaiting`), or ended by a `QUIT` whose
answer was lost (`QuitUnheard`), after which it rejects everything. A quit while the
connection is down and no command is queued resolves at once (`QuitUnconnected`); otherwise
it waits. After any error the limiters' store (rate-limit-redis) loads its script and sends
the command once more: `sending[c]` is "script", "load" or "again", so that `RejectWaiting`
ends a request only in its second round. `ScriptUnknown(c)` is Redis not knowing the script, or
the rejected promise of an earlier request's load. A rejected
quit is an unhandled rejection and calls `gracefulShutdown` again. `Exit` is
`process.exit` or a kill, `Restart` is `restart: unless-stopped`.

`RateLimiter` has the keys of one client: other clients have keys of their own, and
nothing relates them. `hits` is counted up to one more than the maximum, above which
nothing depends on it. `admitted` is a history of what was let through by age.
A window of 0 is excluded by assumption, although `env.ts` accepts it.
Requests that a limiter never sees (`GET /health`, those that the CORS check or the body
parser refuses) pass to the handler at once. The loading of scripts at start, whose failure is
an unhandled rejection, is folded into `GracefulShutdown` and `Killed`; the commands a
handler itself sends to Redis, into `Respond`.

### The listing

A client asks for page 1, 2, ... until `totalPages`, and others write in between.
`ListPage` is `findMany`, `ListCount` is `count`: two snapshots. `PossiblePages` is what
LIMIT and OFFSET may return, defined without an order of execution: the skipped
users, then the page, then the rest, where users with the same key may be
anywhere among themselves and differently for each statement. `search` is the set
of usernames that contain it; email is a unique column like username and is left out.

### The locks

`TxLocks` has for each operation the locks of its first and of its second
statement, in PostgreSQL's modes, taken one by one in any order. `Deadlock(S)` is a
minimal set of transactions each of which waits for another of the set. A registration
waits only for index entries and nobody who waits waits for it, so that it is left out.
`changePassword` locks the unrevoked tokens of its user; the model locks all, which
can only add cycles. PostgreSQL's wait for the transaction that changes an index entry
is mode `Name`. The queue of waiting transactions is left out: it changes who is
served first.

## The properties

The history variables of `ApiHistory` record the ancestry of each refresh token
(`lineage`: parent, session, the password hash the session was opened with, whether it is
late), the completed logouts (`loggedOut`), the sessions that were ended (`ended`) and the
requests in flight that another one overtook (`overtaken`). A request is overtaken when
another one writes the row of the user that it has read or answers with tokens for, or
revokes the live token whose row it has read; no other write counts. A token is late if an
overtaken request inserts it, if it comes between the selection of a change of its user's
password and the COMMIT, or if it descends from a late one. The variables constrain nothing:
`Record` gives each of them a next value by an expression that always has one, so
that every step of `Spec` is still possible. (That it adds no behaviour either is
lemma `HistoryRecords`.)

The documentation promises that tokens are rotated, that logout revokes the session
and that changePassword forces a new login everywhere. The code keeps this for
requests that do not overlap, and not for those that do. Both halves are stated:

| promise | one request at a time | overlapping requests |
|---|---|---|
| a refresh token is spent once | `RotationSingleUse` holds | `ForksWereOvertaken`: of two successors one is late |
| logout ends the session | `EndedSessionsStayEnded` holds | fails (run `logout_race`); a session that is live after its end has a late token: `EndedSessionsWereOvertaken`; what is revoked itself stays so: `RevocationIsFinal` |
| changePassword ends all sessions | `SessionsUseCurrentPassword` holds | fails (run `password_race`); survivors are late: `StaleSessionsWereOvertaken` |
| no token is lost in rotation | `SessionSurvivesRotation` holds for both | |
| a login or refresh issues for the account as it is | `IssueIsCurrent`: for every request that was not overtaken | |

`StrictLedger` and `OverlapLedger` say the same as a refinement: all that overlapping
requests can do to the tables beyond the documented ledger is done with late tokens.

There is no property of a rotation's time against the stored expiry: the check at
`auth.service.ts:181` and the signing that follows it are one step, so that a property of the
`iat` would repeat the guard, and the commit itself may come after the expiry.

The rest hold whatever overlaps: `LogoutIsFinal`, `LoggedOutIsRefused`,
`UniqueIdentity`, `NoOrphanSession`, `AccountHasSession` and the types.

Of the server: `BurstBound` (in any interval as long as a window at most 2 max - 1
hits are let through, counted by whichever instance: the window starts with its first
hit, so that one late in a window and a full next window are the worst),
`LimitLifts` (a refused client that keeps asking is not refused for ever),
`RequestsEnd` (after two rounds of retries at most), `ShutdownEnds`, `CleanExit` (code 0 only without connected clients) and
`ServerInv` (no counter without expiry, a timer exactly while shutting down).

Of the listing: `NoneMissed` and `NoneRepeated` name the only causes for which a walk
misses a user who was there all the time, or meets one twice: another one left or
came before them in the order, or shared their sort key (`createdAt` is the default
and not unique). `PageMatchesTotal`: page and total agree without a write between.

Of the locks: `KnownDeadlocks`. The deletion of a user can deadlock with the rotation of
one of its tokens, and renames with each other; no other deadlock exists.

## The runs

All explore all reachable states of their instance, with deadlock checking on except
in the listing, where a walk that has arrived at its last page is over. The first
five and the violations run `MCApi` under `HSpec`.

| run | instance | checks |
|---|---|---|
| sequential | 1 slot, 4 pairs, 3 passwords of which two agree in their first 72 bytes | RotationSingleUse, EndedSessionsStayEnded, SessionsUseCurrentPassword, StrictLedger |
| concurrent | 2 slots, 2 pairs, 2 passwords, the user an administrator; login, refresh, logout, changePassword, getUserById, deleteUser | RevocationIsFinal, OverlapLedger |
| password | 2 slots, 3 pairs, 2 passwords; login, refresh, changePassword | StaleSessionsWereOvertaken, SessionSurvivesRotation, ForksWereOvertaken, EndedSessionsWereOvertaken, IssueIsCurrent |
| clocked | 2 slots, 2 pairs, clock 0..3, lifetimes of 2; login, refresh, logout, me | LogoutIsFinal, EndedSessionsWereOvertaken, LoggedOutIsRefused |
| admin | 2 slots, 2 users, 2 usernames, 2 emails, 2 pairs; register, login, refresh, updateUser, deleteUser | TypeOK, UniqueIdentity, NoOrphanSession, AccountHasSession, IssueIsCurrent |
| server | 1 connection, 2 overlapping shutdowns, a global limit of 1 and an auth limit of 2, windows of 1 and 2 units, a timer of 1, 1 retry, 1 loss of the connection | ServerInv, BurstBound, CleanExit, LimitLifts, RequestsEnd, ShutdownEnds |
| listing | 4 users (2 with the same createdAt, 1 to come), 4 names, 16 queries, 2 writes, time 1..2 | NoneMissed, NoneRepeated, PageMatchesTotal |
| locks | 4 transactions, 2 users, 3 tokens | KnownDeadlocks |
| reuse (violated) | as sequential | ReuseInvalidatesSession |
| logout_race (violated) | 2 slots, 3 pairs; login, refresh, logout | EndedSessionsStayEnded |
| password_race (violated) | as password | SessionsUseCurrentPassword |
| ttl_mismatch (violated) | 1 slot, clock 0..4, access lifetime 3, blacklist TTL 1 | LogoutIsFinal |

**Why the bounds are enough.** A slot is reused when its request is over, so that one
slot serves any number of successive requests and two slots give every overlap of
two. The races here are between a reader that has not written yet and one
writer; two slots give that overlap, and only more than two requests in flight at
once are left out. Three pairs give a login, a rotation and a second rotation of the same
token (a fork), four a chain of rotations beside a second session. Two pairs suffice
in `concurrent`: a rotation whose token is revoked or deleted between its two statements. In `clocked`
a lifetime of 2 and a clock up to 3 let a token be used fresh, on its last
valid unit, and expired, with a tick between any two statements. In `admin`
the administrator's name is the lower case one that `register` needs: a registration
conflicts with it until the account is renamed to the other case or deleted, and two
renamings, or a renaming and a registration, can then meet. In the instances without time `MaxClock` is 0, so that nothing
expires there. `Slots` makes the two request slots symmetric; nothing
distinguishes them. The requests of a run are limited by `Ops` to the operations
its properties are about; in `admin` the bodies of PATCH are `AdminPatches`, one
for each field.

In `server` the auth limit of 2 makes 2 max - 1 = 3 differ from max and from 2 max, and the
two windows end at different times. Two calls of `gracefulShutdown` give every overlap of
two, and a rejected quit enters a third time by reusing its call. One loss of the
connection may hit a count, a load or the quit, and while it lasts retries are exhausted
any number of times; a second loss (301,000 states instead of 132,000) and a second connection,
with limits of 1 and one call of the shutdown, were checked once and change nothing. In `listing` pages of one
and two users over up to four give first, middle, last and partial pages; two
writes may both fall between two pages, or one of them between page and
count; three were checked once. In `locks` the deadlocks need two
transactions, and two more that could close a longer cycle find none; `OnlyKnownDeadlocks`
proves it for any number.

**The four violations** are disagreements between the documentation and the code,
listed with their quotations in `PROJECT.json`. `reuse`: a revoked token is
refused, and its session goes on. `logout_race` and `password_race`: RefreshFind and RefreshUser
(or LoginFind), then the revocation or changePassword's selection, then RefreshCommit (or
LoginCreate) of a live token. `ttl_mismatch`: the blacklist TTL is a constant that a comment asks to
match the configuration. Five further divergences
have no run: GET /users/:id is documented as one's own profile for anyone but an
administrator, and answers everyone with any profile (`GetUser`), changePassword does not blacklist the access token, nothing writes the
audit log, `isActive` does not filter the listing, and a write between page and count
makes them disagree, although a comment promises an "ACID read" (`PageMatchesTotal`
needs its condition `quiet`: without it TLC finds this write).

**Fairness.** The properties of the API, the listing and the locks are safety
properties: a client need not send another request and an instance may die at any
time. `Server` has weak fairness of

* `Tick` and `TimerFires`: time passes, and Node.js runs a timer that is due. The event
  loop reaches its timers between two rejections of the Redis client, since each
  attempt to reconnect waits for a delay of `retryStrategy`;
* `RetryFails` and `EndedRejects`: an attempt to reconnect succeeds or fails, and a
  client that has ended rejects what it is given;
* `Count(c)`, `LoadScript(c)` and `Respond(c)`: a connected Redis answers, and handlers end: each of their
  statements is answered or fails, which PostgreSQL and Prisma see to.

There is none of Redis coming back, of signals, of clients that hang up, of
`disconnectDatabase` or of the restart: `ShutdownEnds` rests on the timer alone. The
bound `MaxOutages` is why a request cannot lose its connection for ever before
`Count` answers: with unboundedly many losses at the worst moments `RequestsEnd`
would need a Redis that stays.

## The proofs

Every theorem holds for any sets of users, tokens, requests, operations, connections,
limits and lifetimes that satisfy the modules' assumptions: on types
(`ConstantsAssumption`, `LimiterAssumption`, `ServerAssumption`, `LocksAssumption`,
`ListingAssumption`, with a finite table at the start), that
the null values are none of the values they stand beside (`NullsAssumption`,
`LineageAssumption`), and that the users at the start differ in email and username
(`SeedAssumption`). TLC evaluates them in the runs.

`ApiProofs`:

* `ApiInvariant`: `Spec => []ApiInv`, and from it `TypeCorrect` and `OrphanFree`;
* `RevocationFinal`: `HSpec => RevocationIsFinal`;
* `LogoutFinal` and `LogoutRefuses`: if `ACCESS_TOKEN_TTL >= AccessTTL`, then
  `HSpec => []LogoutIsFinal` and `HSpec => LoggedOutIsRefused`. The hypothesis is
  the comment at `auth.service.ts:30`; `ttl_mismatch` shows it is needed.

The types are not inductive alone: `LoginCreate` inserts under `req[r].pair`, so that
this has to be a signed pair. `ApiInv` adds what a request holds at each label
(`RequestOK`), that a signed pair waiting to be inserted is in no row and belongs to
one request (`FreshOK`), and that rows point to existing users
(`NoOrphanSession`, without which `Refreshable` would read the row of no user).
Inserting must not overwrite a row: this is what makes revocation final, and it rests
on `FreshOK`. The proof has one lemma per action. Reads and
answers leave the tables alone and share the lemmas `ReadPreserves`, `AnswerMoves` and
`StepPreserves`; the writes share `InsertPreserves` and `RevokePreserves`.
`LogoutIsFinal` rests on `LogoutInv`: the clock is never behind an `iat`, and a
logged out token's key expires no earlier than the token. It is preserved because
`LogoutBlacklist` sets the key to the present time plus the TTL, so that a
second logout can only extend it.

**Requests in flight (`HistoryProofs`).** The properties of sessions compare what a
request has read with what is there when it writes. `FlightInv` says what a
request that nobody overtook may rely on: the user it has read is as it was, the
token it is about to spend is live, and in any case the claims it has signed are
those it read. It is inductive because `Record`
puts into `overtaken` exactly the requests for which a step breaks it. The lemmas on
each write's effect, which it rests on, also give `IdentitiesUnique` (the unique indexes
are looked at when a row is written) and `AccountsHaveSessions` (a user's tokens are
deleted only with the user).

**Sessions (`SessionProofs`).** Lemma `SessionSteps` reduces every step to one of
`Nothing`, `Begins`, `Continues`, `EndsOne` or `EndsAll`, and `Removes`, with its effect on
rows, lineage, `ended` and accounts; the rest of the module does not look at
handlers again. `SessionInv` adds to the properties themselves that lineage is written
once and with the row, that a parent is never live again (`LineageOK`), that
the rows of a session have one owner (`SessionOwner`: why changePassword, which
revokes by owner, ends whole sessions), that between the selection and the COMMIT of a change
of password every live token of the user is selected or late (`SweepInv`, the
argument that `updateMany` misses nothing else), and that a session with two live tokens, or
with one after its end, has a late one (`DoublesOK`: without a late one the token that
logout or changePassword revokes is the session's only live one). From it follow
`SessionsSurvive`, `ForksNeedOvertaking`, `StaleNeedOvertaking`, `EndedNeedOvertaking` and
`IssuesAreCurrent`, for any number of requests. `PromisesKeptUntilLate` puts three of them as
what the documentation says: `HSpec => [](NobodyLate => ...)` with single use, ended
sessions that stay ended and no session on an old password. `NobodyLate` is a state of
the tables, not a restriction on requests: they overlap as they like, and the promises
hold up to the first token that is inserted late.

**The refinement (`LedgerProofs`).** The five cases are steps of the ledger:
`LedgerImplemented` (`HSpec => OverlapLedger`), and `StrictLedgerImplemented`
(`HSpec /\ []NobodyLate => StrictLedger`): a behaviour without a late token keeps the
documented ledger, whatever overlaps in it. The run `sequential` checks `StrictLedger`
without that hypothesis, since with one slot nobody is overtaken.

**The limiters (`LimiterProofs`, `BurstsBounded` in `ServerProofs`).** `BurstBound` counts a set,
`Passed`: the hits of one window's length that were let through. `WindowInv` divides it by
the present window's first hit into `Current` and `Earlier`. An open window has let
through at most as many as it has counted and at most `Max`; of the window before it fewer
than `Max` are in sight, because the hit that opened it has aged out before the next
window could open. That hit may itself not have been let through (Redis counted
it, and the answer was lost), and then the window has one hit less to give: the last
conjunct of `OpenOK`, without which the invariant is not inductive. `AgeingShrinks` is the
argument for `Expire`: subtracting a unit is an injection from the hits of now into those of
a unit ago. `StepAtCounters` reduces a step of the server to a hit, an unheard
increment, an expiry, or nothing.

**The server (`ServerProofs`).** `ServerSafe` and `ExitWaitsForClients`. `ServerInv` is
inductive; its last conjunct, that a call past `server.close` has no connection
left, is what `CleanExit` needs, and holds because nobody connects to a server that is
closing.

`MeasuresOnlyFall` is what can be proved next to the three liveness properties:
the time left to a limiter's window, the time left to the shutdown timer, what a request
has still to pass and the rounds of its limiter's command never grow, and a tick takes a unit
from the first two. What is left to
fairness is that ticks, answers and retries come.

**The listing (`ListingProofs`).** Lemma `PageHolds` says exactly which users LIMIT and
OFFSET can return: a user that shares its sort key with nobody is on the page if and
only if the number of users before it, `Cardinality(Ahead(u))`, is at least `Skip` and less
than `PageEnd`, whatever the ties of the others. `MissInv` says that a user not met yet has
a number of at least `Skip`, and after its page was read without it at least
`PageEnd`, which the count then exceeds, so that there is a next page; `RepeatInv` that a user
who was met has a number below `Skip`. A write lowers the number of a user with
an unchanged key only if that user goes into `lost`, and raises it only if it goes into
`gained` (`WriteMovesUsers`). A page
that is asked for again starts from the same `Skip`. From `ListingInv` follow
`WalkMissesNone`, `WalkRepeatsNone`, `PageFitsItsTotal` and, with what is true before the
first write (`NoWriteInv`), `QuietWalkExact`: without writes and ties the pages are a
partition of the users that match. Cardinalities need finite sets: the table is
finite at the start (`ListingAssumption`), and each write adds at most one row to it.

**The locks (`LocksProofs`).** `LocksExclude`, and from it `OnlyKnownDeadlocks`. In a
minimal deadlock each transaction holds a lock that another waits for and still waits
itself, so that it is between its two statements (`HoldAndWait`): rotating,
sweeping the tokens of a user whose row it holds, or renaming. By the modes, what
blocks a rotation is the deletion of its token's user, what blocks a
sweep is a rotation (two sweeps of one user would hold its row in conflict), what
blocks a rename is one of those that hold a user row, and a changePassword that waits for a
rotation would have it wait for no one; a rotation and a deletion already close a cycle,
which minimality makes the whole set, and what remains are renames alone.

Only model-checked: the liveness properties `LimitLifts`, `RequestsEnd` and
`ShutdownEnds`, since TLAPS proves no ENABLED, which fairness is made of. Every
safety property of the passing runs has a theorem. TLC has checked the inductive
invariants `WindowInv` and `ListingInv` on the instances of `server` and `listing` (and the
first also with a limit of 0 and with a limit and window of 3) before they were proved.

## Not modelled

Logging, Swagger, security headers, the details of CORS and body parsing, parsing of the
environment, the build: their behaviour is that of libraries, or there is none. The
audit log's listing reads a table that nothing writes. The handler in `Server` is one
step: its statements are in `Api`, where `Drop` is the exit that cuts it. An `Api` whose
Redis is the one of `Server` would add no question: a command that fails there is
`StoreError` here.

What could follow: the order of the middleware for each route as data; a bound on how
long an old access token keeps a role that its user has lost; the row locks' queue.
