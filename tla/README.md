# Verification of bread-golang-boilerplate

TLA+ models of the parts of this service where requests, goroutines, processes
and failures meet, the TLC runs that check them on small instances, and TLAPS
proofs of what matters most for instances of every size. Every definition is
translated from the Go source; `PROJECT.json` names the lines of each one.

## How the service is modelled

The API is a set of stateless Go processes over MongoDB and Redis. A request is
a goroutine that makes a few database calls, one after another, and holds what
it has read in local variables. Nothing locks across calls. So in every module

- one call to MongoDB, Redis, a broker or the file store is one atomic step;
- what a request has read is in its locals (`req`, `rel`, `op`, `call`), possibly stale;
- any other request can run between two calls of one request;
- a call can fail, a client can leave and a process can die between two calls
  (`Fault`, `Abort`, `Crash`), after which nothing is undone. `MaxFaults` bounds how often;
- a request that is refused without having written anything is no step.

In the realtime hub, where a mutex protects the state, what a mutex encloses is
one step, and each goroutine is scheduled by itself.

Times are abstracted to what the code tells apart: a lock is in the future or
past, a code, a session or a cached value expires at any moment. Only `RateLimit`
counts ticks, and `Analytics` days. Histories (marked `history:` in the
declarations) record what happened, for the properties; no guard reads one, except
that `MobileOTP` draws a code never issued before.

A definition that follows a comment `Bug for comparison` is what a plausible
mistake would make of the next one. No behaviour of the models uses it; it is
there so that every property can be shown to notice one.

## Inventory

| component | state it keeps | operations | works with | hard behaviour | correct when | module |
|---|---|---|---|---|---|---|
| Auth and sessions (`modules/auth`, `shared/middleware/auth.go`, `pkg/jwt`) | `session:<sid>` keys in Redis; signed tokens at clients | Register, Login, Refresh, Logout, LogoutAll, the check of each request | User, Role | overlapping refreshes, a logout during a refresh, stale documents behind claims, dropped errors | a revoked session stays revoked; claims never exceed a grant; a deleted user gets no session | `AuthSession`, `SessionLifecycle` |
| OAuth sign-in (`github.handler.go`) | the link of an account to an identity; Apple's key set | both callbacks | Auth, User | lookups whose errors are dropped, callbacks that cross | an identity keeps its account | `SocialSignIn` |
| User (`modules/user`) | `users` | create, update, block, unblock, delete, passwords, count failures, lock | Auth, Role | check-then-insert, partial updates completed with what was read, requests by deleted administrators | names are unique; the lists of an account are those asked for; a deleted account is final but for its counter | `UserAdmin`, `AuthSession` |
| Role and permissions (`modules/role`) | `roles` | seeding, resolution, gates | User, Auth | three writers of one collection | withdrawals win over grants; one document per role, with one id | `Permissions`, `Bootstrap` |
| Mobile verification (`modules/mobile`) | `otp:<e164>` in Redis, `user_mobiles` | SendOTP, VerifyOTP, SetPrimary, Delete | SMS provider | read-modify-write of the attempt counter, clear-then-mark, expiry | a code allows few guesses and is accepted once; one primary number | `MobileOTP` |
| Passkeys (`modules/passkey`) | ceremonies in Redis, credentials and their counters | begin and finish registration and login, delete | User | a ceremony read and deleted in two calls, counters written blindly | one answer per ceremony, counters grow | `Passkey` |
| API keys (`modules/apikey`) | `api_keys` with a lookup prefix | Create, Validate, Revoke | Audit | prefix checked before the insert, entries written after the fact | an active key validates; the trail follows the keys | `ApiKeys` |
| Feature flags (`modules/featureflag`) | `feature_flags`, a Redis cache | IsEnabled, Upsert, the seed | Redis | a cache fill that races an update | a stale value needs a race, a failure or the seed script, and lives one TTL | `FlagCache` |
| Rate limiter (`shared/middleware/ratelimit.go`) | a counter per caller in Redis | one script | | the expiry of the window, failing open | nobody is refused below the limit, no stretch as long as a window serves more than twice of it | `RateLimit` |
| Realtime hub (`pkg/realtime`, `modules/realtime`) | topics, buffered channel and closed flag of each client | Subscribe, Unsubscribe, UnsubscribeAll, Publish, WebSocket and SSE handlers | Notification and IoT publish | publish against disconnect, slow clients, goroutine clean-up, write timeout | no gap in a subscription, order per publisher, no leak, publishers never wait | `RealtimeHub` |
| Notification (`modules/notification`) | `notifications`, devices, preferences | Send, Broadcast, devices, preferences, inbox | Job queue, hub, FCM | devices that change hands during a fan-out, rows nobody can decode, stale tokens | a push reaches who holds the device; what was switched off stays off | `Notification` |
| Job queue and workers (`pkg/queue`, `pkg/worker`, `apps/worker*`) | broker queues, offsets, unacknowledged deliveries | enqueue, dispatch, acknowledge, retry, commit, start, stop | Notification, email | crash between a handler and its acknowledgement, failed jobs, unacknowledged publishing, silent mail servers, shutdown | a job that a broker has kept is run, and not too often | `JobQueue`, `JobContract` |
| App versions (`modules/appversion`) | one policy per platform, artefacts in the store | Release, Upsert, Check, download link | Storage | store-then-commit-then-evict, overlapping releases, a floor that refuses devices | an advertised build exists; codes grow; who is refused gets in again | `AppRelease`, `VersionGate` |
| Pagination, grouping, export (`shared/pagination`, `shared/export`) | none: a query, its pages | the three kinds of list, the export | Audit | windows put together from several reads | the pages are the list, up to what comes between the reads; a sheet is whole or refused | `ListPages` |
| Analytics (`modules/analytics`) | cached reports | every report | Redis | counts that are read apart or fail | a part is within its whole, up to what was added meanwhile; no error passes for a zero that the code returns | `Analytics` |
| Process lifecycle (`apps/api`) | connections of a process | boot, serve, shut down | all | order and deadline of shutdown | a request in flight is served; a stop ends | `ApiProcess` |
| IoT telemetry (`modules/iot`, `pkg/mqtt`) | readings, the link to the broker | simulate, receive | hub | one client id for all instances, repeated messages | a reading is stored once | `ApiProcess` |
| Seed and migration (`scripts/`) | the first documents and indexes | seed, migrate | Role, User, flags | runs beside booting instances | twin and dangling roles only by overlapping runs, owners' changes stay | `Bootstrap`, `FlagCache` |
| Audit and activity | `audit_logs`, `activity_logs` | record, list | all | best-effort writes | as its callers | `ApiKeys`, `ListPages` |
| Storage, email, SMS | files; none | upload, delete, send | | partial uploads, an error after delivery | as its callers | in `AppRelease`, `JobQueue` |
| Tenants, health, metrics, i18n, validation, configuration, web client | | | | | | not modelled |

## Modules

### Permissions
The permission vocabulary, the seeded roles and `effectivePermissions`. Lists are
sets, because a gate only asks for membership.

### AuthSession
`user` is the `users` collection, `redis` the set of existing keys (a pair of
prefix and identifier, so that a key built wrongly is visible), `token` the
claims signed under each `sid`, `held` the sessions whose tokens reached a
client, `req` the requests. A login is `LoginFind`, then either
`IncrementPasswordAttempts` and perhaps `LockAccount`, or `IssueTokenPair`,
`RecordLogin`, `Respond`. A refresh is `RefreshCheck` (EXISTS), `RefreshFind`
(FindByID), `RefreshRevoke` (DEL), `IssueTokenPair`, `Respond`. An authenticated
request is `AccessCheck` followed by `Serve`, `Logout` or `LogoutAll`. The
administrator's operations are one document write each, any combination
`UserService.Update` may write; how it comes by the combination is in `UserAdmin`.
`LogoutAll` deletes what the code deletes: it scans `user_sessions:<uid>:*`, a
prefix nothing writes. Passwords and two-factor codes are a choice between right
and wrong; JWT expiry can only refuse.

### SessionLifecycle
What a session store promises whoever holds a token: an identifier is opened once,
for one user, and never again after it was closed. `AuthSession` implements it
under `Life` (live when the key exists, unissued before a token was signed,
closed otherwise) and `Owner`; the property is `StoreSpec`.

### UserAdmin
`users` is the collection, `claims` the token each account acts with (stale as
tokens are), `links` the password-reset tokens in Redis, `op` the requests. A
request passes `Admits` (the claims, the route, the gates), reads its target, and
then writes: `Completed` is the pair of lists that `UserService.Update` validates
and writes, the given list with the other as read. `Create` is `CheckEmail`,
`CheckUsername`, `InsertUser`, whose unique indexes are `Duplicate`. The
clause `deletedAt: nil` is in `Update`, which every writer uses but
`IncrementPasswordAttempts`: a login that fails counts on its account by the id
alone, deleted or not. `TargetFor` guards administrators in the two password
routes, and lets a request pass when the role cannot be read.

### MobileOTP
`otp` is the record under each number's key, `mobile` the document of each number.
A code is a model value drawn once. `VerifyOTP` reads the record, and by it and
the guess goes on to `Discard`, `Miss` (writes the record it read back, one
attempt higher) or `Consume` and `Upsert`. `SetPrimary` is `ClearPrimary` and
`MarkPrimary`.

### SocialSignIn
A callback is `Callback` (the exchange), `FindByGoogleID`, `FindByEmail`, `Link` or
`Create`, `Issue`; a lookup that fails goes on as one that found nothing. Beside it people
move their e-mail address at GitHub, register with a password and are
deleted. `AppleCallback` ends at the key set: the code fetches it and parses
nothing, so every sign-in with Apple is refused.

### Passkey, ApiKeys, FlagCache, RateLimit
`Passkey`: a ceremony is a record under the key of its user and kind; finishing one
is `GetSession`, `DelSession` and then `CreatePasskey`, or `FindPasskey` and
`UpdateSignCount`. The service is modelled; today's routes reach its sign-in half
only without a user. `ApiKeys`: `Begin`, `Roll` (one count per drawn prefix),
`Insert`, `RecordCreate`, and `Validate`, which compares with the first row its
lookup returns. `FlagCache`: a reader is `Get`, `FindOne`, `Fill`, an update
`FindOneAndUpdate`, `Bust`. `RateLimit`: the script is one step, `Tick` passes time.

### RealtimeHub
`topics` is `Hub.topics`, `send` and `closed` are the fields of `chanClient`,
`loop` is `wsReadPump` (or the end of the stream handler with its deferred
calls), `pump` is `wsWritePump` (or the stream's select loop), `pub` holds the
locals of `Publish`: the snapshot still to be offered the event and the clients
that refused it. `peer` and `expired` are the environment: a peer reads, stalls or
is gone; the HTTP server's write deadline passes for a stream, never for a
hijacked WebSocket.

### Notification
`op` is a call of Send or Broadcast, going through its recipients one by one:
`FindPreferences`, then the channel (`ReadTokens`, `SendMulticast`,
`DeactivateStale`; `SendEmail`; `SendInApp`), then `Record`. A preferences row has an
`id` that the UUID codec can read or not: the upsert of `UpdatePreferences`
makes one it cannot.

### JobQueue
One module for the three backends: `route` is what the router made of the
settings at start-up, `place` where each job is, `log`, `cursor` and `committed`
the Kafka partitions. A Redis job that fails is retried `MaxRetry` times and
archived (`RetryOrArchive`), a RabbitMQ job is discarded, a Kafka message
committed. `Enqueue` answering "ok" is not a broker keeping the job: the Kafka
writer asks for no acknowledgement (`LoseKafka`), and the exchange drops what
no queue is bound for. `Hang` is a mail server that falls silent during a run.
`Stop` tells a worker to end, `Exit` is its return from Start (never, for RabbitMQ),
`Crash` and `Kill` are the process dying, `Disconnect` the broker
closing a channel nobody dials again. A run cut by `Exit`, `Crash`, `Kill` or
`Disconnect` may have sent its mail (`MailsLeft`).

### JobContract
What a job queue promises whoever enqueues a job, whatever is behind it: the job is
`absent` when no broker took it, else `owed`; while it is owed, and only then, a
handler may run it, again if it failed or its acknowledgement was lost; it can be `over`
only after a run, or after more than `Patience` runs of it were cut short. Nothing leads
back from `over`. `JobQueue` implements it under `Phase`
(what `place` says; for a message in a Kafka log, whether one of its occurrences is
past `committed`), `Runs` (runs that returned, handled or failed), `broken` and
`MaxRetry`; the property is `ContractSpec`. A step of the contract is a step of many
jobs, as the end of a process is.

### AppRelease, VersionGate
`policy` is the document of one platform, `storage` the build under each key,
`rel` the locals of each release job. A job is `Read` (with the monotonicity
check), `StoreArtifact`, `Commit` (the whole `FindOneAndUpdate`, written from what
was read) and one `Evict` per key it retired (`None` where the key is still referred to). `Upsert` is the administrator's. CI uploads
under one file name, so the storage key is a function of the version, and a version
released again overwrites its file, as `buildKey` has it. A job that failed can be
run again. `VersionGate` extends it with devices: `Ask` is a request with the
version headers, `Follow` the stable link, `Install` the package installer.

### ListPages, Analytics
`ListPages` binds a query (`Ask`), makes its reads one step each (`Count`,
`Find`, `GroupCounts`; `ReadLeaves`, `ReadRows`; or the export), answers, and
follows `hasNext`, while entries are appended. The window of the group-paged
list is `PlanWindow`; `Shown` and `Above` say without pages what the list is, and
`first` remembers at which page a walk began.
`Strangers` are rows that came to stand under another group's header because an entry
was appended between the two reads; `late` counts those entries.
`Analytics` makes each count of each report a step, among the writes it counts,
and keeps the result in `cache`. `CountFails` is the error of one: dropped, and a zero,
or returned (`FailsAsAWhole`).

### Bootstrap, ApiProcess
`Bootstrap`: every boot (`CreateSlugIndex`, `EnsureRole` per role), the seed script
(`SeedRole`, `SeedUser`) and the migration write the same two collections; an
upsert is a lookup and a write unless a unique index makes it one.
`ApiProcess`: `phase` is where a process is between boot and exit, `open` what it
is connected to, `link` and `subscribed` its side and the broker's side of MQTT. Requests
arrive only while serving; `Drained` is the wait of `server.Shutdown`, `TimedOut` the 30 seconds of `main`.

### Composition
`VersionGate` extends `AppRelease`; `UserAdmin` and `AuthSession` extend
`Permissions`. Four modules put parts side by side that share no state: the
variable `focus` is chosen at the start and says which part a behaviour follows,
while the others rest (their variables are `None` or stay as they began).
Nothing is lost by this, as no step of one part can enable, disable or change a
step of another; each graph is the sum and not the product of its parts. Where
the parts do meet (the claims of a token in the gates of `UserAdmin`, the queue
of `Notification`), the meeting is in the module.

| module | parts | instance for TLC |
|---|---|---|
| `SignIn` | `MobileOTP` (from `WarmInit`), `SocialSignIn` | `MCSignIn` |
| `Records` | `RealtimeHub`, `Notification`, `UserAdmin`, `Bootstrap` | `MCRecords` |
| `Service` | `AppRelease`, `VersionGate`, `ApiProcess` | `MCService` |
| `Access` | `AuthSession`, `Passkey`, `ApiKeys`, `FlagCache`, `RateLimit`, `ListPages`, `Analytics` | `MCAccess` |

`SignIn`, `Records`, `Service` and `Access` have parameters and assumptions on them; the
theorems are about these. Their MC modules give the values and the bounds of one
instance (`MaxReleasing`, `Gated`, `Contended`, ...). `MCAuthSession`, `MCMobileOTP`,
`MCRealtimeHub` and `MCJobQueue` do so for one component and define the
symmetry of its identifiers.

## Runs

| run | instance | shows |
|---|---|---|
| `auth_sessions` | 1 user, 4 sessions, 2 requests, 1 fault, threshold 2 | a removed session never returns (`RevokedStaysRevoked`); a refresh token has at most as many successors as there are overlapping requests and failed DELs (`RotationFanout`); `AuthSession` implements `SessionLifecycle` (`StoreSpec`) |
| `access`, claims | 1 user, 2 sessions, 2 requests, 2 grants, 1 fault | no token carries more than a grant its user had while the request ran, also after a failed role lookup (`ClaimsWithinGrant`); none is minted for a user already deleted (`NoSessionForDeleted`) |
| `access`, lockout | counter up to 6, threshold 2, 2 requests, 1 fault | how far concurrent failures run past the threshold before the first lock (`LockoutSlack`) |
| `access`, passkey | 1 credential, 2 ceremonies, 2 answers, 1 signature each | a challenge is accepted again only by requests that read it together (`ReplayBudget`); the signature count falls only when a credential is used twice at once (`CountNeverBack`) |
| `access`, keys | 2 keys, 2 prefixes, 1 caller, 1 revocation | an active key is refused only if its prefix was drawn twice at once; the audit trail follows the keys (`KeysAnswer`) |
| `access`, flags | 1 flag, 2 readers, 2 updates, 3 versions | the cache is behind only after a race, a failure or the seed script (`StaleOnlyIfRaced`) |
| `access`, rate | limit 2, window of 3 ticks, 4 requests a tick | nobody is refused below the limit; no 3 ticks serve more than twice of it (`WindowHolds`), which is what a fixed window gives |
| `access`, pages | 3 entries, 2 columns, 2 values, 1 append, every mode of the query | the pages a client is led through are the list, with one row at most under a foreign header per entry that came between the reads (`PagesAreTheList`); an export is whole or refused (`NoTruncatedExport`) |
| `access`, reports | 2 users, 1 passkey, 1 number, 2 days, 2 changes, 1 failed call | a part of a report is within its whole, up to what was added while it was read, whatever part failed, and an error the code returns is in no report (`PartsWithinWhole`) |
| `sign_in`, mobile | 2 users, 3 numbers, 2 requests, 1 code, 2 attempts, 1 fault | exact budgets of guesses and acceptances (`CodeBudget`) and of primary numbers (`PrimaryBudget`) |
| `sign_in`, social | 2 people, 2 accounts, 2 callbacks, one moved address or failing lookup | a session for no account only after a dropped error; an identity keeps its account, and is linked to two only by callbacks that overlap (`IdentityKeepsAccount`) |
| `records`, hub | a WebSocket, a stream, 2 topics, 2 publishers of 1 event, buffer 1 | no silent gap and no leaked client (`SubscribersSound`); nothing is sent on a closed channel (`NothingSentAfterClose`) |
| `records`, notices | 2 users, 1 device, 2 calls, at most one of them a broadcast, 2 changes | what was switched off by a row that can be read stays off; a push reaches who holds the device (`NoticesReachTheRight`) |
| `records`, admin | an administrator, a user and a free document, 3 requests of 16 kinds (two are logins), 1 fault | names are unique and an account has the lists asked for (`AccountsSound`); nothing of a deleted account changes but its counter, once per failed login under way (`DeletedIsFinal`) |
| `records`, boot | 2 instances and 2 seed runs of 2 releases of the roles, the migration, boots and failures 2 together | two documents of one role come only from overlapping seed runs, and a seeded account refers to a role that is not there only if its seed run failed to write the role or found it made by somebody else, as after a boot (`SeedsMatch`); seeding keeps what owners changed (`SeedingKeeps`) |
| `connections` | one connection of either kind, 2 publishers of 2 events | order per publisher (`PublisherOrder`); Publish returns and a lost connection is cleaned up (`NobodyIsHeldUp`); a WebSocket that reads gets its events (`SocketDelivery`) |
| `service`, store | 4 builds, one mandatory, one policy-only; 2 kept artefacts, 2 jobs at once, 1 fault | an advertised build whose key was written once is in storage with its digest; orphaned files stay, and are bounded by failures and overlaps (`StorageKept`); codes grow and floors are carried without overlap (`PolicyKept`) |
| `service`, gate | 3 of the builds, 1 device | a device that is refused gets in again (`RefusedGetsIn`) |
| `service`, process | 2 instances of the API, 2 calls, 2 boots, 1 lost connection to the broker, 1 failed insert | a request in flight is served and a reading stored once (`ServedOnce`); a stop ends (`StopEnds`) |
| `jobs` | 2 jobs (mail, promotional), 5 settings of the router, prefetch 1, 2 tries of the Kafka writer, retries 2 and 1, 2 restarts | a job that a broker has kept is lost only by a run that returned, or by more cut runs than asynq retries, and is not done too often (`JobsAccountedFor`); each backend implements `JobContract` (`ContractSpec`); it is run in the end unless a lost connection or a silent mail server holds its worker for good (`EventuallyRun`) |
| `auth_logout_all` | 2 sessions, no fault | **violated**: LogoutAll revokes nothing |
| `mobile_attempts` | 1 number, 2 requests, no fault | **violated**: more guesses than the maximum |
| `hub_sse` | one stream, 1 event | **violated**: an event counted as delivered never reaches an open stream |
| `jobs_stop` | 2 jobs on RabbitMQ alone | **violated**: a worker told to stop goes on consuming |
| `notification_optout` | the instance of `records` | **violated**: a push goes out on a channel that was switched off |

The violated properties are quotations of the repository's comments and
documentation; `findings` in `PROJECT.json` quotes them at their lines. Where a
promise fails, the passing property beside it says what does hold: `CodeBudget`
for `MaxAttemptsPerOTP`, `SocketDelivery` for `CountedIsReceived`,
`EventuallyRun` for `ConsumesUntilStopped`, `NoticesReachTheRight` for
`OptOutHonoured`.

### Bounds and why they are enough
- Two requests are what every race of `AuthSession`, `MobileOTP`, `Passkey`,
  `ApiKeys`, `FlagCache` and `SocialSignIn` needs: each is between a read of one
  request and a write of another. The budgets (`RotationFanout`, `CodeBudget`,
  `PrimaryBudget`, `LockoutSlack`, `ReplayBudget`) are stated in the number of
  requests. `UserAdmin` takes three requests one after another, so that two can
  overlap and a third see what they left.
- One fault makes every error path reachable at every point; budgets count faults.
- Four sessions allow a refresh token two successors and a further refresh of one
  of them, the least in which a rotated session could be revived. Two are enough
  for claims, where the grants vary instead. In `auth_sessions` the constraint
  `CountedAlone` stops where a wrong password is counted beside a session, which
  the lockout part of `access` has (`WithinLockout`, one session at most).
- `AttemptCap` bounds the counter in the guard of a failing login. In `access` it
  is above the largest value the property allows an unlocked account.
- `OtpMaxAttempts` and the lockout threshold are 2, the least with a count between none and all.
- A channel of one event is full after one; three clients would only repeat two,
  since clients never meet except in `topics`. `connections` starts where all other
  connections have come and gone (`LoneSpec`), and the mobile part of
  `sign_in` where numbers may have been verified (`WarmInit`): states the program
  reaches, chosen to keep graphs small.
- Four release jobs reach a full retired list, its trimming and an eviction, with
  one more release in between. `InTurn` fixes what CI publishes; in which order,
  how often and how interleaved the jobs run is free, `MaxReleasing` at a time.
  The gate part has one build less and the device instead.
- Two restarts of a worker reach a second redelivery of a job; a third is the same again.
  `Attempts`, ten in the Kafka library, is 2: a job is in the log once or more than once.
- One passkey that is `BackedUp` is enough: the rates compare one part with the whole at a time.
- Three entries are the least with a group of two and a page in the middle; every
  grouping, page size, set of exceptions and export in `Requests` is walked.
- In the notices part calls by e-mail, in-app and silently run alone (`Contended`): what
  they race with are the changes of preferences and devices, which stay free. Of two calls at once
  one is a broadcast at most.

Sessions, codes, builds and jobs are used up and connections do not come back:
the bounded systems stop, so all runs have `CHECK_DEADLOCK FALSE`. That
something stops that should not is what the liveness properties are for.

### Fairness
Each assumption is what the Go scheduler, the broker or a retrying client gives; nothing
is assumed of users, administrators, crashes or faults.

- `RealtimeHub`: weak fairness of one goroutine each: a publisher inside
  `Publish` (`Send` never blocks, its select has a default), the reading goroutine
  after its connection failed and its deferred calls, the writing goroutine, the ping or
  keep-alive that notices a dead peer, and the server's timer. A
  peer may stall for ever, and the liveness properties say so.
- `JobQueue`: weak fairness of a worker's fetch, handler and acknowledgement, and of the
  supervisor that starts a dead worker again and kills one that does not end after `Stop`.
  A run whose mail server fell silent (`Hang`) is not enabled to finish, so fairness does not
  help it: `EventuallyRun` names the jobs it holds up (`HeldBack`).
- `ApiProcess`: weak fairness of the steps of the shutdown (`Closing`), with its 30 seconds.
- `VersionGate`: strong fairness of asking again while refused (the app asks at
  every start, releases may come between), weak of following the link and
  installing, and of a release job that has begun.

## Proofs

The theorems hold for any number of users, requests, clients, jobs, builds,
instances, faults and so on; a run shows the property on its instance. All are
safety: `Spec => []P`, `Spec => [][A]_vars`, or that one specification implements
another. A module `XProofs` is about `X`; `SignInProofs` and `ServiceProofs` begin with
the theorems of `MobileOTP` and of `AppRelease`, which those of the composition
cite, and `AccessLemmas` holds what `AccessProofs` needs of passkeys, reports and lists.

| module | theorem | states |
|---|---|---|
| `AuthSessionProofs` | `TypeCorrect` | `TypeOK` |
| | `RevocationIsFinal` | `RevokedStaysRevoked` |
| | `ClaimsAreGranted` | `ClaimsWithinGrant` |
| | `DeletionStopsSessions` | `NoSessionForDeleted` |
| | `RotationIsBounded` | `RotationFanout` |
| | `LockoutIsBounded` | `LockoutSlack` |
| | `Refinement` | `StoreSpec`: `AuthSession` implements `SessionLifecycle` |
| `SignInProofs` | `OTPTypeCorrect` | `TypeOK` of `MobileOTP` |
| | `PrimaryIsBounded` | `PrimaryBudget` |
| | `AcceptIsBounded` | `AcceptBudget`, the half of `CodeBudget` about acceptances |
| | `CodeIsBounded` | `CodeBudget` |
| | `SignInTypeCorrect` | `TypesOK` |
| | `IdentitiesKeepAccounts` | `IdentityKeepsAccount` |
| | `PhonesAreBounded` | `PrimaryBudget` and `CodeBudget` from `WarmInit` |
| `RealtimeHubProofs` | `HubTypeCorrect` | `TypeOK` of `RealtimeHub` |
| | `ClosedChannelsDrain` | `NothingSentAfterClose` |
| | `SubscribersAreSound` | `SubscribersSound` |
| | `PublishersInOrder` | `PublisherOrder` |
| `RecordsProofs` | `RecordsTypeCorrect` | `TypesOK` |
| | `NoticesAreSound` | `NoticesReachTheRight` |
| | `AccountsAreSound` | `AccountsSound` |
| | `DeletedStayDeleted` | `DeletedIsFinal` |
| | `SeedsAreSound` | `SeedsMatch` |
| | `SeedingIsSafe` | `SeedingKeeps` |
| `ServiceProofs` | `ReleaseTypeCorrect` | `TypeOK` of `AppRelease` |
| | `DecisionsStand` | `PolicyKept` |
| | `ArtefactsKept` | `StorageKept` |
| | `ServiceTypeCorrect` | `TypesOK` |
| | `RequestsAreServed` | `ServedOnce` |
| | `ReleasesBesideDevices` | `StorageKept` and `PolicyKept` with devices beside |
| `JobQueueProofs` | `QueueTypeCorrect` | `TypeOK` |
| | `JobsAreAccountedFor` | `JobsAccountedFor` |
| | `QueueKeepsContract` | `ContractSpec`: `JobQueue` implements `JobContract` |
| `AccessProofs` | `AccessTypesCorrect` | `TypesOK` |
| | `SessionsAreSafe` | `ClaimsWithinGrant`, `NoSessionForDeleted` and `LockoutSlack` beside the other parts |
| | `ChallengesAreSpent` | `ReplayBudget` |
| | `SignCountsOnlyGrow` | `CountNeverBack` |
| | `ActiveKeysAreAnswered` | `KeysAnswer` |
| | `FlagsAreFresh` | `StaleOnlyIfRaced` |
| | `LimitHolds` | `WindowHolds` |
| | `ExportsAreWhole` | `NoTruncatedExport` |
| | `ListsAreWalked` | `PagesAreTheList` of every list that is not paged by groups |
| | `ReportsAddUp` | `PartsWithinWhole` |

`Invariant`, `SignInInvariant`, `RecordsInvariant`, `ServiceInvariant` and
`AccessInvariant` state the inductive invariants; `LogKept` that of the Kafka log.

### Why the invariants are what they are
Hardly a property is inductive by itself.

- `AuthSession`. That a removed key never returns needs every key to be of a
  minted session (`MintedInv`), as only an identifier never minted is written. That
  claims stay within a grant needs each request's copy of the access fields to be a
  grant of its user since the start (`LocalsInv`) and the history of those to contain
  today's (`SeenInv`). That nothing is minted for a deleted user needs deletion to be
  for good and such a request to be stuck before its lookup (`OrphanInv`). The bound
  on rotation counts, while the key lives, the successors and those about to be
  minted against the failed DELs alone, and only after its end against the requests in
  flight (`FanoutInv`). The bound on the lockout keeps apart the failures that will lock
  the account and those that counted blindly (`SlackInv`).
  Four lemmas say once what a step can do to a session, a request, an account and a
  grant (`SessionStep`, `RequestStep`, `AccountStep`, `GrantStep`); the conjuncts of
  `Inv` are then proved from these instead of from twenty-three actions each.
- `MobileOTP`. A primary number is paid for by the request that marks it
  (`PrimaryInv`). A code belongs to one number (`HomesInv`); an acceptance is paid for by a
  request that read the code before it was deleted, or by a wrong guess whose write
  brought it back (`AcceptInv`, which counts differently while the code is stored and
  after). The bound on guesses counts the rows a code can
  go through: a `Row` says for each count how many requests would find the code at or below
  it, or write it back from there. Nobody comes to hold a lower count, every wrong guess
  written back takes the row below what it was, and `GuessInv` keeps what was tried, with
  the rows still below, under `Lineups`, a cardinality in place of the recursion that would define it.
- `SocialSignIn`. That a callback found nobody is true only of the past. `SearchInv`
  and `LinkInv` say when it still is: unless another callback of the identity was under
  way, and those are in the books (`CrossedInv`).
- `RealtimeHub`. The strengthening is what each goroutine holds (`PublicationSound`,
  `PumpSound`, `LoopSound`), and for the order of events that nothing in a client's
  stream (received, being written, buffered) is ahead of its publisher (`StreamSound`).
- `Notification`. `DevicesSound`: an active device is its holder's, and a call's tokens were
  held by its recipient since it began. `OptOutsPending`: who opted out before a call is not
  its recipient.
- `UserAdmin`. `GrantsPending`: what a request is about to write was valid when it was
  completed; `ListsPending`: on a row no two changes crossed on, what was read is what was last
  asked for.
- `Bootstrap`. `IndexFirst`: an instance writes roles only under the index; `SeedsSettled`: a
  seed run has settled every role it is past.
- `AppRelease`. `SInv` says of a key written once that nobody names it before its
  upload is committed and that no job is about to evict it once it is advertised; `BInv` counts
  orphans against failures and overwritten policies.
- `ApiProcess`. `HeldInv`: a request in flight keeps its process from closing anything.
  `OnceInv` and `ResentInv`: a reading waits in one inbox or was stored once, and is sent again
  only over a connection on which nobody subscribed.
- `JobQueue`. `PlaceSound`, `RedisSound`, `RabbitSound` relate where a job is to the counts of its
  runs, backend by backend. Kafka needs the log: a message behind the cursor was run (`LogRun`), is
  there at most once per try of the writer (`OccursSound`), and each pass over it ended with a stop or a crash
  (`KafkaSound`). For the contract, `PhaseFits` says what a phase is place by place and
  `OverIsRun` that what is over was run or given up. That nothing comes back from `over`
  rests on `CommittedStep`: what is committed stays committed, is behind what was run
  (`LogRun`), and a message occurs later in the log only if it was appended there while
  it was owed.
- `Passkey`. A challenge is worth one use while its session is stored and nobody is about to
  delete it; from then on requests in flight use up what was counted as shared (`BudgetInv`).
  It needs that a challenge is stored under one key only (`SessionInv`). `CountInv`: the
  count that a sign-in read is the stored one, unless another overlapped.
- `ApiKeys`. `OverlapInv`: calls of Create under way together are in the books (`during`), and
  two keys come to one prefix only by such calls, the second stored or about to be.
- `FlagCache`. `FreshInv`: while no update is between its two steps, what is cached *and* what
  a reader is about to cache is the stored version or excused by a race.
- `RateLimit`. `WindowFine`: the window that runs began when its key was set; since then at most
  what it counted was let through, and before it one other window at most was charged, each failure
  a limit more. Sums over ages are cardinalities of sets of tokens (`Upto`), which lemmas can add up.
- `Analytics`. `Underway`: a report is at one of nine points, and at each the next count,
  less what was added since, is within the whole that was read before it, if that was read;
  and no count that is returned as an error is among those that failed (`Honest`).
- `ListPages`. `PagesInv` says what was read before each answer, `WalkInv` that the pages so
  far are the first rows of the list. Most of it is about `InOrder`: elements of a finite set
  under a strict total order have one place each, and a page is a slice of them.

The attempts showed three things about the models. The outcomes of a RabbitMQ or Redis
worker that dies were cases of a CASE whose guards overlapped, of which the prover, unlike TLC,
may take any; they exclude each other now. A job that evicts must know how many keys it goes
through, those it keeps included, to bound what a failure leaves behind. And the
premise of `WalkIsTheList` asked whether a query can be asked from its first page, not whether
the walk at hand was: false once clients ask one query from two pages. `first` now says where
a walk began.

### Assumptions
All are named, sit in the module that declares the constants, and are evaluated
by TLC in the runs: `AuthAssumption`, `MobileAssumption`, `SocialAssumption`, `HubAssumption`,
`NoticeAssumption`, `AdminAssumption`, `BootAssumption`, `ReleaseAssumption`,
`ServiceAssumption`, `JobAssumption`, `RateAssumption`, `FlagAssumption`, `KeyAssumption`,
`PasskeyAssumption`, `ReportAssumption`, `PageAssumption`. They say

- that bounds are numbers, that `None` is no identifier, and that sets of requests
  and clients are finite and, where one counts the others, not empty;
- that inputs have passed the code's validators: what administrators may write passes
  `validatePermissionGrant`, requests are of the declared types, a build is a `ReleaseInput`;
- of the accounts there at the start (`Seeded`), that they have different addresses and names
  and valid permissions, which the unique indexes and the validator give them;
- of the seed's lists, that they are not empty and that a seeded account has a seeded role;
- of the settings, that a rate limit, its window and the rolls of a key are at least 1 and that
  the default page size is one a client may ask for;
- that a report is one the service has and a query what its endpoint can bind.

### What stays model-checked
- Liveness (`NobodyIsHeldUp`, `SocketDelivery`, `RefusedGetsIn`, `StopEnds`, `EventuallyRun`):
  fairness is ENABLED, which the prover does not handle.
- Of `PagesAreTheList` the group-paged lists: what `Slots`, `FoldLeft` and `SelectSeq` compute is
  defined by recursion over the tree of groups, and the prover has no induction over data. `access`
  walks every such query on its instance, and `NoOrphanRows` there is about them alone.
- The runs that expect a violation: a counterexample is the proof.

## Observations

What modelling showed beside the findings. The first five contradict something the
repository says, as the findings do. No run is about them; the property that holds
instead is named.

- `src/README.md:58` ("sliding-window counter per IP via Redis") and
  `src/docs/feature-parity.md:38` ("Redis sliding window") announce one limit for any window.
  `ratelimit.go` counts fixed windows, and `ratelimit_test.go:44-47` calls a sliding one a
  bug: a caller gets the limit at the end of one window and again at the start
  of the next. `WindowHolds` has twice the limit for that reason.
- `appversion.service.go:306-309` calls an orphaned file "harmless, evicted by the next
  release". Eviction goes through `prev.APKKey` and the retired keys, where an orphan is
  not: it stays, unless its version is released again and overwrites it. `StorageKept`
  bounds how many there are, not how long they stay.
- `mongogrouppaging.go:242-243` and the comment of `grouppaging_test.go:427` have it that a row
  is never paired with the wrong header. They think of rows that go away between the
  reads; one that comes in between shifts those behind it, and the last of a group
  stands under the next header. `PagesAreTheList` allows one per header and such entry.
- `rabbitmq.go:8-9,208` say that a failed job is dead-lettered, `queue.go:64-66` that it is not
  committed and may be retried or dead-lettered. No queue is declared with a dead-letter
  exchange, and Kafka commits the message: a failed run is the end of the job.
  `JobsAccountedFor` counts it as a run and no more.
- `src/README.md:715-716` says that with the workers down "jobs queue up on a broker
  nobody is listening to, with no error raised". Before the first RabbitMQ worker has bound the
  queue they do not queue up; the exchange drops them. `JobsAccountedFor` and
  `EventuallyRun` are about jobs that were kept.
- The Kafka writer leaves `RequiredAcks` at its zero value (`kafka.go:54-59`), which asks
  for no acknowledgement: `Enqueue` returns nil for messages that no broker stored.
- The lock is decided from the counter read before the increment (`user.service.go:340`):
  two failures that overlap can reach the threshold with nobody locking.
  `LockoutSlack` bounds how far this goes.
- An eviction that is late deletes the artefact of a version released again meanwhile;
  `StorageKept` speaks of keys written once.
- A release that is not mandatory clears `forceUpdate` (`appversion.service.go:333`), and then
  the floor it carries forward refuses nobody.
- `SMTPSender.Send` sets no deadline and ignores its context (`smtp.go:48-66`): one silent mail
  server stops the single loop of the Kafka worker until somebody restarts it.
- `IncrementPasswordAttempts` has no `deletedAt: nil` (`user.repository.go:146`): the failed
  logins that read an account count on it after its deletion.
- The guards against an actor without the wildcard (`guardAssignableRole`, `targetFor`) never
  refuse anyone today: `adminMw` admits the role admin alone, which always has it.
- The rate limiter lets everyone pass while Redis does not answer.
- Sign-in with Apple fetches Apple's keys, parses none and refuses every token.
- Nothing calls the e-mail verification and password-reset tokens of `auth_helpers.go`, `SendWelcome` or
  `IsEnabledForRole`; the handlers of identified passkey login are stubs. `VersionCheckResponse.SHA256`
  is never set.

## Plan

Done: all modules above, their runs, and the proofs of every safety property that the runs
check, the group-paged list excepted. Left:

1. The group-paged list, if its planner can be said without recursion.
2. Commands to IoT devices and their acknowledgement; two-factor enrolment.

## Not modelled

- Tenants: no code creates a tenant or gives an account one; its list is an instance of `ListPages`.
- Health, metrics, i18n, validation and response envelopes: functions of one request with no state.
- Configuration, errors, identifiers, database access, the middleware that logs and recovers:
  constants of the models, or part of every step.
- The web client and the e-mail templates: they hold no state the service relies on.
- Cryptography, bcrypt, TOTP, JWT and WebAuthn signatures, and the external providers (GitHub, Apple,
  FCM, SMS, SMTP, S3): a choice between success and failure.
- Version strings that cannot be parsed: `Check` lets them pass; the models have codes only.
