# A verification of X-clone's backend

TLA+ models of the services of this repository that exist as code: the identity service
(`backend/services/identity`), the gateway in front of it (`backend/gateway`) and the libraries
they share (`backend/libs`). TLC checks the models on small instances; TLAPS proves the theorems
of the `*_proofs` modules for every value of the constants.

Paths below are relative to the repository's root.

## 1. Inventory

| Component | State it keeps | Operations | Modules |
|---|---|---|---|
| Login and refresh sessions (`services/identity/src/application/{login,refresh-session}.use-case.ts`, `drizzle-session.repository.ts`) | Postgres tables `identity.sessions` and `identity.refresh_tokens`; locals of the calls under way | Login, Refresh | `TokenChain`, `RefreshSession`, `HonestClient` |
| Snowflake ids (`libs/snowflake`) | `#lastTimestamp`, `#sequence` of each instance | constructor, `next()` | `Snowflake` |
| Accounts and profiles (`register-user`, `get-profile`, `update-profile` use cases, `drizzle-{user,profile}.repository.ts`) | tables `identity.users`, `identity.credentials` | Register, GetProfile, UpdateProfile; the rules for their texts (`domain/{handle,profile}.ts`) | `Directory`, `Accounts`, `ProfileText`, `AccountTexts` |
| Access tokens (`hs256-access-token-issuer.ts`, gateway `hs256-access-token-verifier.ts`, `access-token.guard.ts`) | none: a signed token carries it all | issue, verify, guard a route | `AccessToken` |
| Gateway (`gateway/src`) | the gRPC channel and its calls under way | one HTTP route per RPC, a 5 s deadline each, gRPC status to problem details | `Gateway`; a client of it in `HonestClient` |
| Migration runner (`apply-migrations.ts`, `migrate.ts`) | table `schema_migrations` | apply what is pending | `MigrationLog`, `Migrations` |
| Problem details and protocol libraries | none | pure conversions | the two tables of statuses and the members of a problem, in `Gateway` |
| Column types | none | pure conversions | not modelled |
| Password hashing | none | hash, verify | a nondeterministic outcome in `RefreshSession` |
| Wiring and configuration | constants of the process | start | not modelled |
| Go services, frontend, load tests | empty or placeholders at this commit | | not modelled |
| Compose files, database bootstrap, telemetry, scripts | | | not modelled |

### How they interact

    client --HTTP--> gateway --gRPC, 5 s deadline--> identity --pg pool--> Postgres
                        |                               |
                        verifies access tokens          issues them; ids from a Snowflake
                        on its own                      generator in each process

* A call of the identity service is one asynchronous function on a single-threaded event loop. Calls
  interleave at every `await`; they share nothing in memory but the id generator and the pool.
* What they do share is in Postgres: rows, row locks, transactions at READ COMMITTED.
* The gateway may stop waiting for a call that goes on. It never asks identity about a session: an
  access token is good until it expires.
* A client that loses an answer is told to try again; one that gets a 401, to log in again.

### What is hard

* **Concurrency**: two refreshes of one token; a refresh racing the revoke another one started; two
  registrations of one handle; overlapping profile updates; two migration runners.
* **Stale reads**: `findByTokenHash` reads without a lock and `rotate` acts some awaits later; the
  clock is read before the waits.
* **Partial failure and crashes** between statements, between COMMIT and answer.
* **Lost answers and retries**, for which single-use tokens are unforgiving.
* **Deployment**: migration runners that overlap or stop half-way.
* **Limits**: the pool, the 4096 ids of a millisecond.
* **Clocks** that stop, jump or run backwards; seconds on one side and milliseconds on the other.
* **Texts** that are trimmed, folded, counted and stored in an order that matters, and a handle that becomes a
  display name by another way than display names do.

What makes each part correct:

* *Sessions*: a session is a chain of tokens that neither forks nor loses its end; each token is exchanged
  at most once; a token presented twice ends the session, and nothing else does; a revoked session never
  grows; its lifetime is absolute; an answer is never ahead of what is committed; every call ends.
* *Snowflake*: no id twice; ids of one instance increase; a clock that runs backwards is refused.
* *Accounts*: one account per handle, each with credentials; the loser of a race is told so; a
  profile update changes the fields it names and no other, and concurrent ones do not undo each other; what is
  stored can be shown, and sent back as it was read; a call that waits for another one ends.
* *Access tokens*: never accepted past the expiry the client was told, nor refused before its last second; none
  outlives the end of its session by more than one token lifetime, though nothing withdraws it.
* *Gateway*: every request is answered; a status claims neither an effect that did not happen nor the absence of
  one that did or may still; what was written for us stays here; a read follows the writes its client
  was told of.
* *Migrations*: each applied once, in order, wholly or not at all; a runner that succeeds leaves nothing of
  its image unapplied, and reports what it applied.

The hazards are listed line by line in `PROJECT.json`, with the property that covers each one.

## 2. Plan

In the order of importance; all of it is done but what section 6 leaves out.

1. `TokenChain`, the promise; `RefreshSession`, the statements that keep it; its safety, liveness and
   refinement; `HonestClient`, what a well-behaved caller sees of it.
2. `RefreshSession_proofs`: type correctness, the strengthened invariant, the action properties and the
   refinement.
3. `Snowflake`, with clocks and restarts.
4. `Snowflake_proofs`: uniqueness and order for every field width.
5. `Directory`, the promise of registration and profiles; `Accounts`, the statements that keep it; and
   `Accounts_proofs`: every safety property of it, and the refinement.
6. `AccessToken`: issue in identity, verify in the gateway; seconds against milliseconds; a token beyond
   its revoked session. `AccessToken_proofs`: acceptance ends with the session and at the told expiry.
7. `Gateway`: deadline against answer, composed with `Accounts` and with the error mapping; `Gateway_proofs`.
8. `MigrationLog`, `Migrations`: runners that race, fail and crash; `Migrations_proofs`.
9. `ProfileText`: the rules for handles, display names and bios as operators over sequences of character
   kinds; `AccountTexts`: `Accounts` with texts in its columns; `AccountTexts_proofs`.
10. `ReplayDetection_proofs`: that a replay ends the session and nothing else does, and the contract of
    `HonestClient`; `ReadsFollowWrites` in `Gateway_proofs`.
11. What locks are held for, in all three transactional components; that a replay is punished, not only
    detected; what remains of the refuted claim about clients.

## 3. Modules

### `TokenChain`: what login and refresh promise

Three variables: `chain` (the session each token belongs to), `spent`, `revoked`; three steps: `Open` a
session with its first token, `Exchange` an unspent token of a live session for a new one, `Revoke`.
These are the three writing methods of the port `domain/ports/session-repository.ts`, each as one step.

### `RefreshSession`: how they keep it

One action for each statement sent to Postgres and for each stretch of code between two awaits. `pc[r]` is
the await request `r` is at; `tok`, `sess`, `found`, `now`, `next` are the locals of `execute`. `Goes` is a step that
only moves its call on; `Decides` is one of `execute` after the lookup, which reads the clock and then branches.

| Code | Points of `pc` | Actions |
|---|---|---|
| `LoginUseCase.execute` | `lookUp`, `verify`, `create` | `CallLogin`, `LookUp`, `RejectLogin`, `Login` |
| `create` of the repository | `insertFirst`, `commitLogin` | `InsertSession`, `InsertFirstToken`, `CommitLogin` |
| `RefreshSessionUseCase.execute` | `find`, `decide`, `rotate`, `reuse` | `Present`, `Find`, `FindSpent`, `FindExpired`, `Mint`, `MintThrows` |
| `rotate` of the repository | `lock`, `spend`, `insert`, `commit`, `leave` | `BeginRotation`, `LockSession`, `SpendToken`, `InsertNextToken`, `CommitRotation`, `LeaveRotation` |
| `revoke` of the repository | `revoke`, `revoking`, `revoked` | `BeginRevoke`, `UpdateSession`, `CommitRevoke` |
| `issueTokens`, the gRPC controller | `committed`, `granted`, `lost`, `rejected`, `failed` | `Answer`, `Reject`, `Fail` |

* **Tables.** `expiresAt`, `revokedAt`, `owner`, `spentAt`, `createdAt` are columns as committed. A write
  shows at COMMIT; until then it is known only to its own transaction, and its values are the locals the
  statement was given, so they need no variable. A rollback is therefore a change of `pc` alone.
* **Locks.** `SharesSession`, `UpdatesSession` and `UpdatesToken` say who holds a row lock; each is a
  stretch of `pc`. `LockSession` (SELECT ... FOR SHARE) waits for an update of the row and sees its
  result; `SpendToken` and `UpdateSession` wait for lock holders and evaluate their WHERE again, which is
  what READ COMMITTED does.
* **Pool.** A transaction holds a connection from BEGIN to COMMIT, lock waits included. Starting one needs
  `ConnectionFree`.
* **Failures.** `Fail` can strike at any await on Postgres; at `committed` and `revoked` it is the
  acknowledgement of a COMMIT that took effect which is lost. `Crash` ends every call under way. `Answer`
  may be lost.
* **Abstractions.** A token stands for its string, hash and row. Credentials are a choice: the row never
  changes, so a login matches or does not. The clock does not run backwards here. A call runs once; a
  retry is another call.

Mutants of the code (a comment starting with *Fault*) stand next to the action they change; no
specification uses them. They show that each property can fail.

### `HonestClient`

`RefreshSession` driven by one client that does what `auth.controller.ts` tells it: no call before the last one was
answered, the newest token only, log in again after a 401, try again after anything else.

| Code | Actions |
|---|---|
| the client, and `IdentityGrpcClient.login`, `refresh` | `LogIn`, `CallRefresh` (`Send`) |
| the handlers of `IdentityGrpcController` | `Arrive`, which is `CallLogin` or `Present` |
| `CALL_TIMEOUT_MS` of `IdentityGrpcClient.call`, the channel | `GiveUp` |
| everything identity does | `Serve`, `Around` |

* **Answered is not ended.** The gateway answers 504 after five seconds and 503 when the channel breaks, whatever
  identity does with the call (`givenUp`). The client may then repeat it while the first one is on its way
  (`sent`) or under way, and either may come first at any point after that. `Serve` drops an answer nobody waits for.
* `Unheard` are the calls whose outcome the client never learns: given up, answered INTERNAL, cut off or lost.

### `AccessToken`: what identity signs and the gateway believes

Extends `RefreshSession`: the calls that end with tokens are the ones whose answer carries an access token.

| Code | Operators |
|---|---|
| `issueTokens`, `Hs256AccessTokenIssuer.issue` | `Issuers`, `IssuedAt`, `AccessExpiresAt`, `NumericDate`, `Header`, `Payload`, `Sign`, `Issue` |
| `Hs256AccessTokenVerifier.verify`, `readClaims` | `SignatureMatches`, `Expired`, `ClaimsHold`, `Verifies` |
| `AccessTokenGuard.canActivate` | `Principal`; its 401 is a `Refuse` of `Gateway` |

* **No state.** A token is a function of the locals of its call and of the secret, so no variable holds it. `endedAt` is
  history: the clock when a session's revocation was committed, which is later than the reading the row holds.
* **The reading of the clock** a token is issued with is the one `execute` took before it waited for connections
  and locks, and a call may be answered long after; both properties rest on that.
* **Two units.** `Second` is the number of milliseconds in one unit of `exp`: issuing rounds down, verifying
  multiplies back.
* **Abstractions.** HMAC-SHA256 is ideal: a signature is its key and its text. `sub` is the account of the session's row
  and goes with `sid`. A text is its three decoded segments:
  the code compares signatures over the encoded text before it decodes anything, so a token identity issued is
  read back as it was signed.

### `Snowflake`

Each instance has a host clock that may be set to any time at any moment, its two private fields, and a call
that may be in the busy-wait. `next()` is synchronous and so is one step - `IssueInNewMillisecond`,
`IssueInSameMillisecond`, `Refuse` - except when the sequence wraps: then `WaitForNextMillisecond` enters
the loop, `KeepWaiting` and `StopWaiting` are its reads of the clock. `Boot` is the constructor, with its
epoch check, and `Crash` ends the process; the fields do not survive. `issued` is a history variable: the
ids in the order of issue, with the fields they encode. `Id` computes the number itself.

`SteadySpec` adds `RunsApart`: two runs of one instance do not issue in the same millisecond, and the later
run does so later. The code cannot check it; without it the restart of an instance can repeat ids, as the
run `snowflake_restart` shows in the form the documentation denies it, and nothing but a restart can
(`RestartsAloneRepeat`). Within a run nothing is assumed of the clock.

### `Directory`: what registration and the profile promise

A map from account ids to the handle each answers to, whose password opens it, its display name and its bio.
`Register` adds an account whose handle nobody answers to, with its credentials; `Change` alters the
fields it names.

### `Accounts`: how they keep it

Built like `RefreshSession`: one action for each statement and each stretch between two awaits.

| Code | Points of `pc` | Actions |
|---|---|---|
| `RegisterUserUseCase.execute` | `exists`, `hash`, `create` | `CallRegister`, `CheckHandle`, `Hash`, `HashThrows` |
| `create` of the user repository | `insertUser`, `insertCredentials`, `commit`, `rollback` | `BeginCreate`, `InsertUser`, `InsertCredentials`, `CommitCreate`, `RollBackCreate` |
| `UpdateProfileUseCase.execute`, `update` of the profile repository | `update`, `updateRow`, `updating` | `CallUpdate`, `BeginUpdate`, `UpdateRow`, `CommitUpdate` |
| the gRPC controller | `committed`, `changed`, `registered`, `updated`, `lost`, `rejected`, `taken`, `failed` | `RejectInput`, `Answer`, `Fail` |

* **The unique index.** `handle` is CITEXT: `Fold` says which spellings are one handle. An uncommitted INSERT
  holds its entry (`Claims`); another of the same handle waits for the end of that transaction and is a
  violation if it committed. `CheckHandle` sees committed rows alone and holds nothing.
* **The row lock.** `UpdatesRow`: an UPDATE of a profile waits for another of the same row. What SET names
  is what the patch holds.
* **Passwords.** `secret` says which registration's password hash is stored, which is all that
  tells two passwords apart here.
* **Abstractions.** `GetProfile` and the handle lookup of `Login` are single reads of a committed row and
  change nothing. What the validators accept is a set of values, and what they refuse is `RejectInput`.
  `UpdateProfile` finds no row only for an account that does not exist, and nothing deletes one. Ids do
  not repeat: `Unique` of `Snowflake_proofs`, for one run of a generator.

### `ProfileText` and `AccountTexts`: what may be stored, and what is

`ProfileText` has no state. A text is a sequence of characters, and there is one character of each kind that
the rules tell apart: letters in both cases, a digit, the underscore; what `trim` takes off, the no-break space and
the byte order mark included; controls; invisible characters; a letter of another script and one of two UTF-16 units.

| Code | Operators |
|---|---|
| `assertValidHandle` | `IsHandle` |
| `normalizeDisplayName`, `normalizeBio` | `NormalizeDisplayName`, `NormalizeBio` |
| `countCharacters`, `hasControlCharacters`, `INVISIBLE_CHARACTERS` | `CountCharacters`, `HasControlCharacters`, `Invisible` |
| `trim`, `replace` of CR LF | `Trim`, `FoldLineEndings` |

A character here is a code point, which is what `countCharacters` counts. `TAB`, `CR` and `LF` are both whitespace and
controls, and the byte order mark is both whitespace and invisible: the overlaps are where the order of the
steps shows.

`AccountTexts` is `Accounts` with texts: its spellings, names and bios are what gets past these operators from a
set of typed texts, and what does not is `RejectInput`. The handle a registration asked for becomes the display name without
going through `normalizeDisplayName`, as in `register-user.use-case.ts:38`.

### `Gateway`: a deadline in front of `Accounts`

Extends `Accounts`: each request is an HTTP request too, with one identity call behind it.

| Code | Actions |
|---|---|
| body parser, `AccessTokenGuard`, the `parse...Body` functions | `Refuse` |
| the controllers, `IdentityGrpcClient.call` | `Forward` |
| the handlers of `IdentityGrpcController` | `Arrive`, `ReadProfile`, `Identity` |
| `toRpcException`, the callback in `call`, `toProblemDetails` | `Reply` |
| `CALL_TIMEOUT_MS`, the channel | `TimeOut`, `Disconnect` |
| the end of the gateway's process | `Stop` |

* **A call and its request end apart.** `call[r]` is where the call is, `open` who still waits for one. A call
  whose request was answered 503 or 504 may still be received, run and commit; its answer is then dropped.
* **Two tables.** `RpcException` is identity's (error class to gRPC code), `Status` the gateway's (gRPC code to
  HTTP status). A response is its status and which of `detail` and `field` its problem has.
* **Identity** is `Accounts` with every interleaving, failure and crash it has. `Arrive` is `CallRegister`,
  `CallUpdate` or `RejectInput` of the same request; everything else `Accounts` does is `Identity`. An update is for the
  account of the access token. `ReadProfile` is `GetProfile`'s SELECT.
* **Abstractions.** Logins and refreshes are answered any way their use cases can end, without their tables, which
  `RefreshSession` has. `before[r]` is a history variable: the requests that had been answered 200 or 201 when `r` was made.

### `MigrationLog`: what the migration runner promises

The ids recorded and the statements in effect; one step, `Apply`, which takes the next migration whole.

### `Migrations`: how it is kept by runners that race

Any number of runs of `migrate.js`, each of an image of its own age, over a database at any version.

| Code | Points of `pc` | Actions |
|---|---|---|
| `readMigrations` | `idle` | `Start` |
| `CREATE TABLE IF NOT EXISTS schema_migrations` | `find`, `create` | `FindTable`, `CreateTable` |
| `SELECT id`, and the loop as far as the first `BEGIN` | `read` | `Read` |
| `BEGIN`, the statements, `INSERT`, `COMMIT` | `begin`, `apply`, `commit` | `Begin`, `RunStatement`, `Record`, `Commit` |
| `applied.push`, and the loop as far as the next `BEGIN` | `committed` | `NextMigration` |
| the `catch` | `clash`, `undo` | `RollBack` |
| the end of the process | `done`, `clashed`, `failed`, `crashed` | `Crash`, `Fail` |

* **The catalogue.** DDL is transactional: `schema` and `recorded` are what is committed, and `ran[r]` how far the
  open transaction of `r` has come. A statement waits for another open transaction that has run it
  (`Writes`), and clashes with one that committed it. `CREATE TABLE IF NOT EXISTS` looks and creates in two
  steps, and a runner that lost between them is refused.
* **Abstractions.** A migration is its place in the directory and a number of statements, each of which
  cannot take effect twice: the ones in `migrations/` are CREATE TABLE, CREATE INDEX and ALTER TABLE ADD, and in
  `0002_sad_pepper_potts.sql` an INSERT ... SELECT and a DROP COLUMN as well. What two runners can do to each other is
  decided at the first statement, and each file begins with a CREATE TABLE. Files are only ever added at the end. That a clash is told apart from other failures is the model's: the code throws
  either, and the property about clashes needs to know.

## 4. Runs

| Run | Asks | Bounds | Result |
|---|---|---|---|
| `refresh_safety` | the eleven properties of sessions, below | 4 calls, 2 sessions, 4 tokens, 2 connections, lifetime 1, clock 0..1 | holds |
| `refresh_live` (`AccessToken`) | `EveryCallEnds`, `AccessEndsWithTheSession`, `ToldExpiryHolds` | 4 calls, 1 session, 4 tokens, 2 connections, lifetime of the session 1 and of an access token 3, clock 0..1, a second of 2 | holds |
| `client_retry` | "nobody honest presents a spent token" | 3 calls | **violated** |
| `client_contract` | the client is signed out only by a retry of a call it did not hear of | 4 calls, 2 sessions, 4 tokens, 2 connections, lifetime 1, clock 0..1 | holds |
| `accounts_safety` (`AccountTexts`) | the ten properties of accounts, below | 3 calls, 2 ids, 2 connections; 5 typed handles of which 3 are accepted, for 2 handles; 7 typed names, 4 typed bios; limits of 2 and 3 characters | holds |
| `gateway_safety` | `StatusIsTrue`, `ReadsFollowWrites` | 3 requests to register, read and update, 2 ids, 2 spellings of one handle, 1 new bio | holds |
| `gateway_live` | `GatewayTypeOK`, `ServerErrorsSayNothing`, `EveryRequestIsAnswered` | 2 requests on any route, 2 ids, 1 handle, 1 new display name | holds |
| `gateway_refresh` | a rejected refresh has neither detail nor field | 1 request | **violated** |
| `migrations_runners` | the seven properties of migrations, below | 3 runners, 2 migrations of 2 and 1 statements, images and databases of every version | holds |
| `snowflake_safety` | `TypeOK`, `NoIdIssuedTwice`, `IdsIncrease` | 2 instances, 2 slots a millisecond, times -1..1, 2 starts each, 4 ids | holds |
| `snowflake_spin` | a clock set back makes the generator throw | 2 ids | **violated** |
| `snowflake_restart` | ids never come from an earlier millisecond | 2 starts, 3 ids | **violated** |

**Why the bounds are enough.** Conflicts about a session are between two calls that use it: an exchange
against an exchange, an exchange against a revoke, a revoke against a revoke. Four calls allow a login, two
calls that conflict, and a further call that meets the outcome, over fewer connections than there are calls,
so that the pool is exhausted while locks are waited for. Two sessions show that one does not disturb the
other. A lifetime of 1 and a clock that moves once put every clock reading before, at or
after the deadline. For the generator, two slots make the third id of a millisecond the one that wraps;
node ids 0 and 1 are neighbours, so a carry out of the sequence would be another instance's id; -1 is the
one time before the epoch that the code treats in a way of its own. Sizes beyond these are what the
theorems are for.

For liveness and access tokens, four calls over two connections are a login and three that use its session. That is what it
takes for every wait to occur: for a connection at the lookup, the rotation and the revoke, of a rotation for a revoke
and for another one's token, of a revoke for a rotation and for another revoke. A replay that revokes
while a rotation waits for its answer is among them. The clock moves once: what it may do beyond that is for the theorems. A second of two units puts expiries on and inside a second, and a
token is read at every time up to `Horizon`, past the last at which one can be accepted.

For texts, the typed ones are each there for a step: too short, too long, as long as allowed after trimming alone, a line
ending that folds, a CR that stays, an invisible character inside and at an end, nothing left after trimming. The
limits are small because only the comparison with them is in the code.

For accounts, three calls allow two registrations that race for a handle, spelled alike or not, and an update of the
one that wins, or a registration and two updates of its profile that overlap. An INSERT waits for another call's entry, an
UPDATE for another UPDATE of its row, and a third call for a connection while the two of them have one each. Two ids are
enough for two accounts, since a registration that finds its handle taken needs none.

Where liveness is checked, calls and ids are used in the order of their numbers: they are interchangeable, and symmetry is
not sound there. `MCSpec` says so in the step (`InOrder`) and keeps the fairness of `FairAccessSpec` and `FairSpec`.

For the client, four calls are a login, a call that is given up or breaks, its retry, and one more, which a rotated or a
spent token is presented with.

For the gateway, three requests are a write that was answered, one whose client was given up on and which is still under
way, and the read between them; two spellings of one handle tell folding from comparing. What the tables do with
an outcome is a matter of one request, so two on every route are enough for the shape of the responses.

For migrations, three runners are two that race and a third that finds what they leave; the
first migration has two statements, so that a runner can stop between them, and the second shows the order.

**Properties of `RefreshSession`**

* `OneHead`: a session has exactly one unspent token - no fork, no loss.
* `AnswersAreDurable`: whatever a client holds is committed, in the session the answer names.
* `ReplayEndsTheSession`: of two answered presentations of a token at most one got a successor, and then
  the session is revoked, whichever call came first. (A revoke that fails is answered INTERNAL and
  leaves the session live: the property speaks of rejections.)
* `RevokedOnlyOnReplay`: a session is revoked only if one of its tokens was presented by two calls.
* `AbsoluteLifetime`: rotation never extends a session.
* `SomeCallCanProceed`: while calls are under way one of them waits for nothing: no circular wait for rows and connections.
* `OnlyLocksHoldACallUp`: a call under way can go on if and only if it does not wait for a connection or a row lock:
  no point of the code is left without a way on, and no statement gets past a lock.
* `RowsAreKept`: columns are written once; of several revokes the first committed time stays.
* `NothingJoinsARevokedSession`: a rotation commits before the revoke or adds nothing.
* `ImplementsChain`: the refinement. A session is opened at `CommitLogin`, a token exchanged at
  `CommitRotation`, a session revoked at `CommitRevoke`; every other step is a stutter.
* `EveryCallEnds`: liveness.

**Properties of `AccessToken`**

* `AccessEndsWithTheSession`: no token is accepted a token lifetime after its session was revoked or reached its
  deadline - the answer to a rotation that was under way when the session was revoked included.
* `ToldExpiryHolds`: a token is never accepted at or after the expiry its answer named, and never refused before
  it but in its last second.

**Properties of `Accounts`**

* `OneAccountPerHandle`: whatever races between the check and the insert, one account answers to a handle.
* `CredentialsBelong`: accounts and credentials come together, and the password that opens an account is
  the one sent with the registration of its handle.
* `AnswersAreTrue`: a registration that was answered stands; one told that its handle is taken lost to
  another account that answers to it.
* `UpdatesStand`: what an answered update asked for is there, or another update's wish in its place.
* `ImplementsDirectory`: the refinement. An account is registered at `CommitCreate` and changed at
  `CommitUpdate`; every other step is a stutter.
* `StoredTextsArePresentable` (`AccountTexts`): a stored display name is one line, not empty, with nothing to trim and nothing
  hidden in it, also while it is the handle; a stored bio has no line breaks but line feeds; both fit their columns.
* `SomeCallCanProceed`: a call that waits for an index entry or a row waits for one that can go on, and when the pool is
  exhausted somebody in it can.
* `ReadBackChangesNothing` (`AccountTexts`): what a client reads it may send back: it is accepted, and stored as it was.
* `EveryCallEnds`: liveness. A call that arrived ends, although an INSERT waits for whoever has inserted the
  same handle, an UPDATE for whoever updates the row and either for a connection, and although these may fail at any
  statement.

**Properties of `Gateway`**

* `StatusIsTrue`: of registrations and updates, a 2xx is for what took effect; a 4xx for what has had no effect and never
  will. (A refresh answered 401 may have revoked its session: that is `RefreshSession`'s.) Only a 5xx
  leaves the client in doubt, and there it must, since the call may go on.
* `ReadsFollowWrites`: a profile read after a registration or an update was answered shows it, or another update's
  wish in its place, however the handle is spelled and whatever else is under way.
* `ServerErrorsSayNothing`: a failure of ours carries no detail; a field is named only in a 400 or a 409.
* `EveryRequestIsAnswered`: liveness, though identity may never answer.

**Properties of `Migrations`**

* `SuccessMeansUpToDate`: every migration of the image of a runner that succeeded is applied, whoever did it.
* `ReportsAreTrue`: what a runner reports it applied is recorded, was not there when it looked, and is reported by
  no other.
* `OnlyRacesClash`: while nothing fails, a runner fails only because another committed the same work after it looked.
* `SomeRunnerCanProceed`: no two runners wait for each other's open transactions, and none leaves one behind.
* `ImplementsLog`: the refinement. A migration is applied at `Commit`; every other step is a stutter.
* `EveryRunnerEnds`: liveness, with runners failing and crashing: none waits for ever on a transaction another left.

**Fairness.** `FairSpec` of `RefreshSession` asks for weak fairness of each call's own steps: the event loop runs a callback
that is ready, and Postgres answers a statement whose locks are free. Nothing is assumed of
arrivals, failures or the clock. Weak fairness is enough because a call that waits for a row stays
enabled once the last holder is gone: requests run once, so holders run out. `FairSpec` of `Migrations` is the
same for each runner's own steps, and that of `Accounts` for each call's: none of them asks for `Fail`, so that a call
which waits is not rescued by a failure of its own. `FairGatewaySpec` asks for the deadline's timer alone, and nothing of
identity, of the network or of clients.

**Deadlock** is checked in every run. `Finished` is the step of a service with nothing left to do.

### Where documents and code disagree

* `client_retry`. `docs/concepts/access-and-refresh-tokens.md:275`: "Nobody honest presents `A` after it was
  exchanged". `auth.controller.ts:99`: a 5xx means "try again". A client whose rotation committed
  and whose answer did not arrive has only `A` to try again with, and is signed out for it. (`client_contract` and
  `SpentOnlyUnheard` say what is true instead.)
* `gateway_refresh`. `docs/04-api-contracts.md:112`: "Every rejected refresh is the same `401`, byte for byte, with no
  `detail` and no `field`". `toRpcException` passes the error's message on
  (`identity.grpc-controller.ts:187`), and `toProblemDetails` (`grpc-problem-details.ts:82`) makes it the detail:
  the answer has `"detail": "invalid refresh token"`. It is the same for every rejected refresh, and names no field.
* `snowflake_spin`. `errors.ts:5-8` rules out waiting out a clock that moved backwards, because such a wait is
  unbounded; the loop at `snowflake-generator.ts:95` does just that when the clock is set back after
  the loop was entered.
* `snowflake_restart`. `docs/concepts/snowflake-ids.md:143` promises a throw rather than a millisecond reissued;
  the memory of spent milliseconds ends with the process.

## 5. Theorems

`tlapm` checks every proof; nothing is assumed beyond the named `ASSUME`s of the modules.

**`RefreshSession_proofs`** - from `NoSessionAssumption`, `NoTokenAssumption`, `TimeAssumption` (the null values
are not ids; the lifetime is positive), for any sets of requests, sessions and tokens.
`OneHead` is not inductive: that a rotation leaves one head depends on the token it spends being the
head *at COMMIT*, and so on the row locks. The invariant `IInv` adds to `TypeOK`, `OneHead` and
`AnswersAreDurable`

* `CallsSound`: what a call's locals say about the rows at each point - the session found owns the token
  presented, the minted token is not stored yet;
* `MintedApart`: no two calls have minted the same token or session;
* `LocksSound`: at most one call is past the spending of a token, and then it is unspent; while a
  call shares a session that session is not revoked, and nobody updates it;
* `RowsSound`: a token's owner is a session that exists, a spent token is stored.

Each conjunct has its lemma (`TypeStep`, `CallsStep`, ...), one step per action; `RowWriters` and `Ledgers` say once
which actions touch the rows at all. From `IInv`: `TypeCorrect`, `NoForkNoLoss`, `AnswersHold`, `RowsKept`,
`RevocationIsFinal` and `Refinement`. `LifetimeIsAbsolute` needs a second invariant about clock readings
(`TimesSound`): a token's creation time lies between its session's login and its expiry.

*Waiting.* `NoDeadlock`: of the calls that hold a connection, one that waits for a row waits for a call behind an UPDATE or a
FOR SHARE, and among those some call waits for nothing; a call that waits for a connection waits for one that has
one. It needs no invariant: who holds a lock is read off `pc`. `StepsRunOut` gives every point the number of moves
left (`Remaining`, eleven at first) and shows that every move lowers it. `PoolIsRespected` counts the pool.

*Liveness.* `ServedInTurn` says that a call which is free to go on again and again does go on: `SF_vars(Step(r))` with its
enabling condition, `UnderWay(r) /\ ~Waits(r)`, written out, since the prover cannot expand ENABLED;
`OnlyLocksHoldACallUp` lets TLC confirm that a call under way is enabled where it does not wait. It is strong fairness, because there may be
infinitely many calls and then a free lock can be taken again and again before it is one's turn; Postgres and
the pool serve their waiters in turn. `CallsComeToTheirEnd` then follows from the locks inwards: a call at `insert`,
`commit`, `leave` or `revoking` waits for nothing and leaves (`ReadyPointLeft`); so token rows come free
(`SpendLeft`), session rows that are being updated do (`LockLeft`), transactions end, connections come free
(`ConnectionComesFree`) and calls that wait for one go on. Only the UPDATE of a revoke is left out: FOR SHARE locks do not exclude one
another, so rotations that overlap without end could keep it waiting, in Postgres too.
`RotationsPause` says that they do not - finitely many calls cannot - and with it `EveryCallIsServed` is `EveryCallEnds`.

*What the locks are for.* The COMMIT of a rotation checks nothing, and yet the token it spends must still be unspent and
its session live. `LockedRowsStay` says of every step, whoever takes it, that from its UPDATE on nobody else spends the
token a rotation is spending, that from its FOR SHARE on nobody revokes its session, and that no token joins a session
whose revoke is being committed. `Accounts_proofs` has the same theorem of the index entry and the profile's row, and
`Migrations_proofs` has `OpenWorkIsAlone`: while the transaction of a runner has run a statement of a migration, no other
runner applies any of it.

**`ReplayDetection_proofs`** - from the same assumptions. `RevokedOnlyOnReplay` and `ReplayEndsTheSession` speak of every call that
ever ran, and `IInv` of rows and calls under way. `RInv` closes the gap: it makes the calls account for the rows. It adds

* `SpentByACall`: a spent token has a *spender*, a call past its COMMIT that presented it and whose successor token is stored
  in the same session;
* `SuspectsSound`: a call on its way to `rejectAsReuse` has a spent token or a revoked session in its hands;
* `TurnedAwaySound`: a refresh that was rejected had its session revoked or its deadline passed;
* `ExchangedOnce`: no two calls have exchanged one token;
* `ReachedSound`: what a call has not read yet it does not have.

`Movements` says once how a call gets from one place to the next. Who commits a revoke holds a spent token, so there is a
spender, and it is another call. From it follow `NoOneElseIsSignedOut` and `ReplayIsDetected`.

Those two speak of calls that were answered. `ReplaysArePunished` speaks of what must happen: a call that is about to
look up an exchanged token (`PresentsSpent`) comes to the point where its session is over - its own revoke is committed,
or the session was revoked before - or it breaks on the way. It follows the call from await to await
(`NoWayRoundTheRevoke`) and needs the fairness of `EveryCallIsServed`, since the UPDATE of a revoke is what may wait.

`HonestClient` narrows the callers down to one that keeps to the contract. A token is *carried* by a call that presents it or
will when it arrives. `ClientInv` adds to `IInv` and `RInv`

* `OnlyRetries`: of two calls that carry one token, one is unheard; and so is every call but the latest that carries the token
  the client keeps, which is why its next call may carry it too;
* `KeepsTheNewest`, `NotHeardOf`: the token it has just been given was never carried, because a token in an answer still to
  come is in nobody's hands;
* `OnTheirWay`, `OnlyTokensOfItsOwn`: what is on its way is one message per call that has not arrived, with a token of
  the client's;
* `SignedOutByARetry`: behind each revoked session there are two such calls.

It says nothing of the order in which the two reach identity, and cannot: the call that is heard may be the second to be
sent and the first to arrive, and then it is the given-up one that revokes. From it follow

* `SignedOutOnlyUnheard`: the client is signed out only where two calls of its own presented one token, one of them
  exchanged it, and one of them was never heard of: the spender is another call that carried the token;
* `SpentOnlyUnheard`: what is true of the claim that `client_retry` refutes. It does present exchanged tokens,
  and each time the exchange was by another call of its own and one of the two was never heard of.

**`AccessToken_proofs`** - from `AccessTimeAssumption` and those of `RefreshSession`, for every lifetime and every unit of `exp`. The
arithmetic of the two services is one lemma each way. `SignedInTime` is the invariant behind `AccessEnds`: the reading
of a call that signs was taken before its session's deadline, and no later than the session's revocation took
effect. The second half is why the row lock of `rotate` matters to a service that never looks at the row: a rotation
commits before the revoke of its session does, and its reading is older than its commit. `ExpiryIsAsTold` is the arithmetic. `AccessRefines` lets
every theorem about `RefreshSession` be cited here, and `EveryIssueEnds` is one.

**`Snowflake_proofs`** - for any set of node ids in range, any field widths, and clocks set to any time in any step. The
core is arithmetic: `Id` is a positional number, so equal ids have equal fields and a later slot has a larger id
(`BitsApart`, `IdFollowsSlot`, `IdGivesBackSlot`). The invariant says of each running instance that the slots it has
issued are at or before the one its fields name (`Accounted`); while it waits, strictly later milliseconds are the only
ones it can issue from. It holds of `Spec`, with no assumption about clocks or restarts, and so do `TypeCorrect`, `Increasing`,
which is about one run, and `RestartsAloneRepeat`: what two runs of an instance can do to each other is all that can go
wrong. `SteadySpec` rules that out, and then `Unique` holds.

**`Accounts_proofs`** - from `FoldAssumption` and `ValuesAssumption`, for any sets of calls, ids and spellings and any
folding. `OneAccountPerHandle` is not inductive: that `CommitCreate` adds no second account depends on what
`InsertUser` saw some steps earlier still being so. `IInv` adds

* `CallsSound`: what a call's locals say at each point - a registration under way has a minted id that no
  row has yet;
* `MintedApart`: no two registrations have one id;
* `ClaimsSound`: a claim is on a handle that no account answers to, and no two calls claim one
  handle - the promise of the unique index, and the step from the stale check to the commit;
* `RowsSound`: the columns of an account are filled together;
* `ChangesStand`: `UpdatesStand` from the commit of an update on, not only from its answer.

From `IInv` follow `TypeCorrect`, `HandlesAreUnique`, `CredentialsMatch`, `RegisterAnswersTruly`, `NoLostUpdate` and
`Refinement`. `NoDeadlock` and `EveryCallIsServed` are as for sessions, and simpler: all locks here exclude one another,
so `ServedInTurn` alone brings every call to its end. One transaction holds an index entry to its commit and
waits for nothing after it has it (`HandleComesFree`), one update of a row at a time waits for its own commit
alone (`UpdatesApart`, `RowComesFree`), and `ConnectionComesFree` does the rest.

**`AccountTexts_proofs`** - from `LimitsAssumption` and `TextAssumption`, for any typed texts over the characters of `ProfileText` and any limits with
`HandleMax <= NameMax`. `TrimShape` and `TrimFix` say what trimming leaves and that it leaves a solid text alone; `FoldKeepsTheRest` and `FoldFix` the
same of line endings; `NameShape`, `NameFix`, `BioShape`, `BioFix` put them together, and `HandleIsName` shows a handle to be a display name that
normalising would return. That folding keeps every character but the CRs takes an induction over the length of a text:
`Counting` is induction for sets of numbers, from the least element every set of positions has (`LeastPosition`), and `RanksAreAll`
uses it to show that the kept positions can be numbered off. With `RowTexts` (the
columns hold accepted texts, from `IInv`) `StoredArePresentable` and `ReadBackIsHarmless` follow.

**`Migrations_proofs`** - from `StatementsAssumption`, for any number of runners and migrations of any
length. None of the properties is inductive: that a `Commit` applies the *next* migration depends on what the
runner read at its start, some migrations ago. `IInv` adds

* `DatabaseSound`: what is recorded is a prefix of the list, and its statements are exactly what is in effect;
* `RunnersSound`: the migrations before the one a runner is at are recorded; once it has run a statement
  of that one, nobody has committed it;
* `WritersApart`: two open transactions that have run a statement are in different migrations - the
  catalogue's promise, and the reason why no two runners commit one migration;
* `ReportsApart`: a migration committed and not yet reported is in no report.

`GoesOn` says where the loop goes next, `CommitsNext` that a commit is of the first migration missing. From `IInv`
follow `TypeCorrect`, `SuccessIsUpToDate`, `ReportsHold`, `ClashesAreRaces`, `NoDeadlock` and `Refinement`. For `NoDeadlock`, `WritersApart`
is what counts: whoever is waited for has run a statement of the migration, and the one who waits has not.
`RunnersGoForward` orders a runner's places by migration, stage and statement, and shows that it only ever climbs.

**`Gateway_proofs`** - from the assumptions of `Accounts` and `RoutesAssumption`, for any number of requests and any of the
routes. `StatusIsTrue` is not inductive: that a 4xx stays true depends on where its call is, and that the call has
no more steps. `GInv` adds to the `IInv` of `Accounts`

* `CallsFit`: a call that has not arrived has done nothing, one of another route never does, and an update
  is for the account it was asked for;
* `AnswersFit`: what each status says of the call's place; a response given is `Proper`, that is, it says what
  its status allows.

`ProblemOf`, `ServerProblem`, `RefusalOf` and `SuccessOf` work the two tables out once; `GatewayStep` maps every step of the
gateway to one of `Accounts` or none, and `IdentityMoves` says which places of a call are final. From it follow
`DrivesAccounts` (so each theorem about `Accounts` holds behind the gateway), `GatewayTypeCorrect`, `StatusesAreTrue` and
`ServerErrorsAreBare`.

`ReadsFollow` proves `ReadsFollowWrites` with one more invariant, `ReadsFit`: the requests in `before[q]` have succeeded, a profile is
answered 200 or 404 only once its row is read, and from that moment on what was read `Follows` each of them. At the read
this is `OneAccountPerHandle` and `ChangesStand` of `Accounts`; afterwards it is kept because a request that has succeeded
keeps its account (`SettledKept`) and a call that has an account keeps it and its patch (`IdsKept`).

`EveryoneIsAnswered` proves `EveryRequestIsAnswered` from `DeadlinesFire`, the weak fairness of `FairGatewaySpec` with the condition of
`TimeOut`, that the request is open, written out. `GivenUpCallsEnd` is what `DrivesAccounts` makes of `EveryCallIsServed`: behind
the gateway calls end as they do without it, the given-up ones included.

**Only model-checked**

* `OnlyLocksHoldACallUp`, which is about ENABLED. What getting past a lock would do is ruled out by `LockedRowsStay`.
* The liveness properties under the fairness their runs state with WF: `EveryCallEnds`, `EveryRunnerEnds`,
  `EveryRequestIsAnswered`. The theorems prove `EveryCallEnds` and `EveryRequestIsAnswered` from a fairness with its
  condition written out.
* `EveryRunnerEnds` has no such theorem: its loop is over any number of migrations of any length, and that it ends takes
  an induction over behaviours, which the prover does not have. `RunnersGoForward` and `NoDeadlock`
  are the parts of the argument that it can check.

Every other property of a passing run is the statement of a theorem.

## 6. Not modelled

* The contents of tokens, hashes, names and messages; logging and wording; argon2's cost; the ORM's building of SQL text;
  the type mapping of ids; configuration, which is read once at the start; deployment.
* The rule for passwords, which asks for a length, a letter and a digit, and whose result nobody reads back: a password
  that breaks it is `RejectInput`.
* What a clock set back under live sessions does to their lifetimes: nothing in the code bounds it. Two instances with
  one node id: nothing in the code can tell.
* The health endpoints, which answer a constant; the Go services, the frontend and the load tests, which hold no
  behaviour at this commit.
* The generator of the diagrams under `docs/diagrams`, compose files, telemetry and scripts: tools around the system, no part of it.

The hazards without a property say in `PROJECT.json` why they have none.
