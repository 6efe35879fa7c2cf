# Verification of go-api-base

TLA+ models, TLC runs and TLAPS proofs about the Go REST API in `src/` (Echo,
PostgreSQL through GORM, Redis). The code under `src/internal` is the
reference: every definition is translated from it, and `PROJECT.json` names the
lines each one stands for (`map`), the hazards of the code and the properties
aimed at them (`hazards`), and for every property a plausible bug that breaks it
(`mutants`; a mutated operator stands before the operator it replaces).

    tlc -workers 2 -config MCContent.cfg MCContent.tla   # one run; module and cfg of each: PROJECT.json
    tlapm JobQueueProofs.tla                             # one module of proofs

## 1. The system

One process (`cmd/api/main.go`) serves HTTP and runs the background workers; any
number of such processes may share one PostgreSQL and one Redis. Components
talk to each other through rows in PostgreSQL, keys in Redis, Go channels inside
a process, and direct calls. Almost nothing runs in a transaction: an operation
is a sequence of statements and Redis commands, and whatever else the system
does may happen between two of them. That is where the hard behaviour is, so the
models take **one statement, one Redis command (or pipeline) or one channel
operation as one action**.

| Component | State | Operations | What is hard | What makes it correct |
|---|---|---|---|---|
| Background jobs: `repository/job.go`, `service/job*.go` | a JSON record per job, one set per status, a sorted set as queue (Redis); a channel, pollers, workers | submit, cancel, resubmit, poll, claim, complete, fail, reap, stop | several round trips per operation, stale copies, crashes, stop while busy | one executor per job; no job lost; index and record agree; the status machine; every job settles |
| Webhook deliveries: `service/webhook*.go`, `repository/webhook.go` | delivery rows, a Redis sorted set | dispatch, deliver, retry, replay, reap, retention | row and queue are written apart, no claim by status, crash between steps | one holder per delivery, bounded requests, accepted once, stuck ones recover |
| Webhooks: `http/handler/webhook.go` | webhook rows with secrets | register, update, delete, dispatch, replay | the row is read twice and saved whole | secrets fit URLs, events go where they are wanted |
| Event bus: `domain/webhook_events.go`, shutdown in `main.go` | a bounded channel, handlers | publish, dispatch, drain, stop | full buffer, publish while draining | order, no accepted event lost |
| Email: `service/email*.go`, `repository/email_queue.go` | queue rows | queue, claim, send, fail, provider callbacks | several workers read the same rows, crash between claim and send | sent at most once, status tells the truth, nothing starves |
| Sessions: `service/auth.go`, `repository/{refresh,password_reset}_token.go` | refresh tokens in families, reset tokens | login, refresh, logout, sessions, reset | rotation and reuse detection across overlapping requests | a reset ends old sessions, one live token per login, a reused token ends its family |
| Two-factor: `service/two_factor*.go`, `repository/user.go` | columns of the users row, recovery codes | set up, enable, disable, regenerate | whole-row saves undo each other | enabled means verified; the last password stands; codes fit the status |
| Accounts and API keys: `service/{user,api_key}.go` | users by address, keys | register, create, delete, revoke, look up | look and insert apart, goroutines after the response | one user per address, one revocation |
| OAuth: `service/oauth_*.go` | state entries, linked accounts, providers | start, callback, link, unlink | one-time state, concurrent callbacks | flows stay apart, a method to log in remains |
| Organizations: `service/organization.go` | rows, members, policies | create, invite, change role, remove | rows and policies are written apart | roles follow members, the owner keeps access |
| Roles and permissions: `service/{role,permission,user}.go` | five tables | assign, attach, override, effective permissions | FirstOrCreate, two queries for one answer | the last decision stands, reported was effective |
| Permission cache: `permission/*.go` | policies in PostgreSQL and in memory, decisions cached in Redis, pub/sub | enforce, change, invalidate, rewrite | stale decisions, lost messages | changes are stored, stale decisions run out |
| Idempotency keys: `http/middleware/idempotency.go` | lock and record in Redis, row | look up, lock, execute, store | concurrent duplicates, a lock that expires, a recycled context | executed once, replayed faithfully |
| Rate limiters: `http/middleware/*rate_limit.go`, `service/*_rate_limiter.go` | counters and windows in Redis | allow | check and count apart | the limit is kept |
| Audit: `service/audit.go` | a bounded channel | record, insert, stop | full buffer, stop while writing | accepted entries are written |
| WebSocket hub: `service/websocket_*.go` | clients, rooms, counted subscriptions, presence | connect, join, leave, publish, disconnect, shut down | channels closed while others send, two locks and Redis after both | no send on a closed channel, registries agree |
| Media versions: `service/media_version.go` | the media row, version rows, files | upload, restore, delete, edit, serve | number taken from an old read, row and file written apart | numbers in order, listed versions have files, contents differ |
| Media and conversions: `service/media.go`, `conversion/worker.go`, `storage` | media rows, files, a Redis list, locks | upload, delete, sign, convert | lock that expires, crash between two stores | one job per conversion, no file without an owner |
| Export and import: `service/{export,import}_*.go`, `service/format_*.go` | job rows, files | request, run, cancel, reap; encode, validate, decode | crash while processing, status overwritten | claimed once; what is exported can be imported |
| Content: comments, news, tags, feature flags, settings, invoices, searches | rows | create, update, publish, attach, delete, list | stale saves, counters beside rows, paging over changing rows | each module's promises |
| What users are told: notifications, activity feed, analytics | rows, counters, channels | send, record, mark, follow, aggregate, chart | a limit checked apart, cycles that overlap, late workers | nobody left out, marks add up, days counted once |
| Caches, logging, configuration, SSRF filter, request and response types | | | formatting and validation | not modelled |

## 2. Modules

| Module | Stands for | Checked in |
|---|---|---|
| `JobLifecycle` | abstract specification: what the queue promises about one job. The table `CanTransitionTo` of `domain/job.go` is a definition, every step but one is a transition of it, and the exception (`Bury`, two transitions in one write) is named | `queues` |
| `JobQueue` | Redis repository, pollers, workers, stop, crash, restart; implements `JobLifecycle` (`ImplementsLifecycle`) | `queues` (`MCQueues`), `jobs_panic`, `jobs_exhausted` |
| `JobRecovery` | reaper, Cancel, Resubmit, listings; extends `JobQueue`, the actions of both interleave | `workers` (the reaper), `accounts` (requests) |
| `EventBus`, `WebhookDelivery`, `WebhookSystem` | the bus and the order of the shutdown; deliveries; DispatchEvent as a handler of the bus, which composes the two | `queues`, `webhook_replay` |
| `Requests` | what all requests to the API have in common: slots, errors, the end of a request. Extended by every module below that has requests | |
| `AuthSessions`, `Idempotency`, `AuditLog`, `ExportJobs` | sessions and resets; idempotency keys; audit log; exports | `traffic` (`MCTraffic`), `idempotency_replay` |
| `Organizations`, `AccessControl`, `UsersAndKeys`, `OAuthLogin`, `TwoFactor` | members and policies; roles and direct permissions; users by address and API keys; log-in by a provider; the users row and its second factor | `accounts` (`MCAccounts`), `key_lookup` |
| `EmailQueue`, `PermissionCache`, `ImportJobs`, `Conversions` | what has to get on by itself: emails, stale decisions, imports, conversions | `workers` (`MCWorkers`) |
| `WebSocketHub`, `RateLimits`, `Formats` | connections; limiters; the files of exports and imports | `gateway` (`MCGateway`) |
| `MediaVersions`, `Comments` (with tags), `News`, `Settings` (with feature flags), `Webhooks`, `Invoices`, `Searches` | what the users of an organization write | `content` (`MCContent`) |
| `Notifications` (with the activity feed), `Analytics` | what users are told of it | `gateway`, `metrics_conflict` |
| `JobQueueProofs` | theorems about `JobQueue` and `JobRecovery` | |
| `WebhookProofs` | about `WebhookDelivery`, `EventBus`, `WebhookSystem` | |
| `TrafficProofs` | about `AuthSessions`, `Idempotency`, `ExportJobs`, `AuditLog` | |
| `AccountsProofs` | about `TwoFactor`, `AccessControl`, `UsersAndKeys`, `OAuthLogin`, `Organizations` | |
| `WorkersProofs` | about `ImportJobs`, `PermissionCache`, `EmailQueue`, `Conversions`, and the step `MCWorkers` puts together | |
| `WebSocketHubProofs` | about `WebSocketHub` | |
| `SwitchesProofs` | about `Settings`, `Webhooks`, and what `MCContent` makes of them | |
| `ContentProofs` | about `MediaVersions`, `Comments`, `News`, `Invoices`, `Searches`, and `MCContent`, which puts them together; extends `SwitchesProofs` | |

**How an MC module composes components.** Components that share no state are
checked in one run: a variable `scope`, chosen in the initial state, says which
component a behaviour is about, and the others stay as they are. The state space
is the sum of those of the components, never their product. `Budget` bounds
the requests of each. Where components do share state (reaper and queue, bus and
deliveries, users and two-factor settings, versions and edits of a medium) they
interleave in one module.

**How state and actions correspond.** A variable is a table, a Redis key, a
channel, or what a goroutine carries between two steps. A goroutine or a request
has a `pc`, called after the *next* call it will make (`"claim"`, `"post"`,
`"resetrevoke"`), and the values it has read. In the modules that extend
`Requests`, `req` maps each slot to the request in it: `HandleX` is the part of
the HTTP handler and the service up to the first statement that changes
something, each later statement is an action of its own, `Finish` ends the
request, and `Abort` lets any request in progress end with an error, at any of
its statements, as a failed statement, a cancelled context or a crash would.
`Stumble` is a failed statement after which the code goes on. Reads have no
action: what a client is shown is an operator named after the function
(`GetMembers`, `ListUnreadByUser`, `GetDashboard`), and the properties speak
about what it shows. History variables (`clobbered`, `overlapped`, `told`,
`marked` ...) are marked as such in the modules and read by properties only.

- **Jobs.** `job` is the record, `idx` the sets, `queue`/`due` the sorted set
  (a score has passed or not), `poll` what a poller has popped, `jobCh` the
  channel, `pc`/`at`/`rec` a worker, its job and the copy it read. SetProcessing
  is `ClaimRead`, `ClaimWrite`, `ClaimIndex`; SetFailed is `RetryWrite`,
  `RetryIndex`, `RetryEnqueue`; SetDead is `BuryWrite`, `BuryIndex`. In
  `JobRecovery`, `Age` says that a record has been in `processing` longer than the
  threshold; with `Punctual` a record only grows old after its worker is gone.
- **Webhooks.** `row` is webhook_deliveries, `ready`/`later` the entries of the
  sorted set with a score that has passed or not, `fresh` a delivery whose row
  is written and whose entry is not, `posts` and `hits` count the requests sent
  and accepted. `Webhooks` has the rows of the webhooks and which row was shown
  which secret.
- **Event bus.** `pub` is each publisher, `ch` the buffer, `disp` the dispatch
  goroutine, `stage` the shutdown; `racing` remembers a Publish that overlapped
  the cancellation. In `WebhookSystem` a handler is the creation of the row and
  the entry, while the bus waits.
- **Sessions.** `tok` and `rst` are the two token tables. A token knows its
  family and, for the properties, its login (`root`), the password it was
  created under and whether its creation overlapped what should have ended it
  (`late`). `stale` marks a request that has read what somebody changed since.
- **Accounts.** `members` are the rows, `stored` the policies in the database,
  and each instance has a memory of its own; `direct` are user_permissions;
  `address` says who has an address, the deleted included; a flow of OAuth is
  its state entry, and an identity a name at a provider; `userRow` is the users
  row, `unused` the number of recovery codes.
- **Workers.** `mail` is email_queue, `actor` what a worker or a direct send is
  doing; `policy`, `known`, `cached` one decision in its three places; imports
  are rows and importers with the copy they read; a conversion is in one of
  `spawned`, `queue`, `polled`, `jobCh`, `handling`, `later` or `converted`.
- **Hub.** The rooms, clients and reference counts are the maps under the two
  locks, `regs`, `unregs` and `casts` the channels, `hub` the hub's goroutine
  between two steps, `wire` what travels through Redis, `count` and `online` the
  presence of the user. A message of a client is handled by `HandleMessage` and
  answered (`Answered`), beside whatever the hub does.
- **Files.** `Formats` has no requests: a catalogue of entities is written by the
  encoder of a format, edited once or not at all, checked as an import is checked
  and decoded. Lines and fields are records; JSON and CSV differ in headers, in
  what a missing field is, and in the order their types are found in.
- **Content.** Rows are functions or sequences of records with `deleted`;
  a request holds the copy it read, and `Save` writes all of it, as gorm's does.
- **Time** is counted where the code compares it: `hour` in `Analytics`
  (`DayLength` hours a day), a clock of milliseconds in `Invoices`; elsewhere a
  lapse is an action (`LockExpires`, `Expire`, `Age`, `GrowOld`).

## 3. Runs

Bounds are constants of the modules and `Budget` of the MC modules. Where a run
counts faults, requests or attempts, the count is what makes the state space
finite: the properties do not mention it except as "while nothing failed".

| Run | Properties | Bounds, and why they do |
|---|---|---|
| `queues` | `SingleExecution`, `StoresAgree` (`NothingLost`, `IndexAgrees`), `ImplementsLifecycle`, `EveryJobSettles`; `DeliveredOnce`, `DeliveriesSettle`; `BusKeepsOrder`, `EventsArrive` | jobs: 2 jobs, 2 pollers, 2 workers, limits 1 and 3, 2 faults: two of everything that competes, a limit that is exhausted at once and one that is retried. Deliveries: one (deliveries share only the rate limit, a free choice here), 2 workers, 3 attempts, 3 faults, 2 replays. Bus: 3 events, of which the webhook wants one, a buffer of 1: it is full, and an event waits behind another; one fault. The safety part is proved for all values |
| `jobs_panic`, `jobs_exhausted`, `webhook_replay`, `idempotency_replay`, `key_lookup`, `metrics_conflict` | one property each, violated | see section 6 |
| `accounts` | `RolesFollowMembers`, `DecisionsHold`, `KeysHold`, `ProvidersLoginSafely`, `UserRowHolds`, `ClaimableJobsTravel` (with `JobsAreShownToTheirOwner`) | 2 requests at a time, 3 to 7 in all; 2 users; 2 instances; 2 roles, one of them of the system; 2 keys; 2 providers with one name each and 2 codes; 2 secrets, a reset, codes by two; one error. In organizations the fourth request and the error exclude each other, and so do the third request of OAuth and a second code with an error. Jobs: 1 job, 2 workers, steps of any length, an owner and a stranger; two of a Cancel or Resubmit, a reset and a fault |
| `traffic` | `SessionsFollowPassword`, `OneLiveTokenPerLogin`, `ReuseEndsTheLogin`, `ResetTokensHold`, `ExecutionsAccounted`, `EntriesAccounted`, `ExportsAccounted` | 2 overlapping requests, 3 refresh tokens (a login and two rotations), 2 reset tokens, a password change or an error; 2 operations under one key with 3 requests and a lapse; 4 entries through a buffer of 2; 2 exports and 2 workers; one error in each of these |
| `workers` | `EmailsAccounted`, `ChangesAreStored`, `ImportsTakenOnce`, `FilesAccounted`, `SingleCustody`, `WaitingEnds`, `ListedStuckJobsRecover` | 2 emails, 2 workers and a direct send, 2 attempts, a fault; 2 instances, 2 policy changes or a reload; 1 import, 2 workers, the reaper, 3 requests; 1 medium with 2 conversions, 2 converters, 2 attempts, a channel of 1; 2 jobs, 2 workers, 2 faults, 4 resets, steps within the threshold; no symmetry, as there is liveness |
| `gateway` | `SendStaysOpen`, `RegistriesAgree`, `GoneConnectionsAreReleased`, `TrafficIsChecked`, `UsersAreTold` (`NotesHold`, `ActivitiesHold`, `DaysAreCountedOnce`) | 2 connections of one user, a room, buffers of 1 (so that they overflow), 2 references; one of a message, a failed command and a lost call; 5 calls at limits of 2 and 3, or 4 and an error; 3 types of entities, catalogues of 3 or of 2 and an edit, imports of 2, so that one is too many. Notes: 3 requests on 2 users, or 2 and an error, a limit of 1, so that it is reached. Feed: 2 events and 3 requests, or 2 requests, an event and an error, a channel of 2. Metrics: 3 cycles that may overlap, days of 1 hour and 5 hours in all, a backlog of 2 days, a retention of 1: days pass between any two queries of a cycle. Dashboard: 2 requests on the preferences and two hidden or shown categories |
| `content` | `NumbersInOrder`, `LiveHasFile`, `ContentsDiffer`, `CurrentIsLive`, `ContentHolds`, `SwitchesHold`, `NewsMovesAlong` | 2 overlapping requests each, 3 or 4 in all (without bound on the versions: 3 uploads of 2 contents instead, the third or an error), 2 or 3 rows, one error |

Where the table says "or", a conjunct of the MC module's next-state relation keeps
the two out of one behaviour, so that two of everything fit into the time; that both
at once do no more harm is, but for what `TrafficIsChecked` and `UsersAreTold` say, what the
theorems of section 5 show.

Three or four requests are enough for what overlaps here: two that cross, one
before that makes the row, one after that sees what is left.

What the excuses in the properties mean. Where the code lets two overlapping
requests undo each other, the property is not given up but restricted: a
history variable (`late`, `stale`, `clobbered`, `crossed`, `mixed`, `overlapped`,
`racing`, `contended`, `tangled`, `shared` ...) is set by exactly the overlap that
is to blame, and the run shows that nothing else breaks the property. The
overlaps themselves are described in section 6. So a run does not catch the overlap
itself going wrong: that it does go wrong is known and listed, under `hazards` and in section
6, and what is checked is that it is the only thing that does.

`CHECK_DEADLOCK FALSE` is in every cfg because every bound lets the system stop,
and because a process may rightly stay stopped.

## 4. Fairness

Liveness is checked under weak fairness of what the Go scheduler and the clock
give: each poller, worker, dispatch and reaper goroutine takes its next step
when it can (`WorkerRun(w)`, `CourierRun(c)`, `Poll`/`Send`, `HandleCreate`,
`ReaperRun`, `Worker(w)`, `ImporterStep(w)`, `ImportReaperStep`, `ConversionStep`), time passes (`BecomeDue`,
`BecomeReady`, `Age`, `GrowOld`, `Expire`), and a process that died is restarted
(`Restart`, `StartWorkers`, `StartAgain`). `Age` in `JobRecovery` is strong: the
clock is not reset by what other goroutines do, although a step of a worker
disables the action for a moment. `GrowOld` is fair for an import no worker is
at. No fairness is assumed for requests, errors, crashes, stops, or the answers
of endpoints and mail servers. `WorkerRun` is fair as a whole, so that a worker
goes on but may fail every time. In runs with a `scope` the fair steps of the
other components are never enabled, so their fairness says nothing.

## 5. Proofs

TLAPS proves, for every value of the constants that satisfies the named
assumptions of the module:

**`JobQueueProofs`** (assumptions: the bounds are natural numbers, limits are
positive, `None` is no job, pollers are not workers).
`SingleCustody` is not inductive: whether a worker's write can make a job
claimable depends on the copy it holds. The inductive invariant is

    IInv == TypeOK /\ SingleCustody /\ AbsentIsNowhere /\ CopyIsFresh /\ AttemptsFit

`AbsentIsNowhere` keeps a first submission from adding a second reference;
`CopyIsFresh` says that what a worker read is still what is stored (it follows
from custody being single, and custody needs it, as a stale retry would queue a job
someone else has); `AttemptsFit` ties the counter to the status.
Each conjunct has a lemma `Next...` with one step per action. From `Invariance`
follow `CustodyIsSingle`, `ExecutionIsSingle` and
`DeadLettersAreSingleAttempts`; `RecordSteps` lists what a step can do to a
record, and gives `CompletedStays` and `LifecycleIsImplemented`: initial states map
to initial states and every step to a step of `JobLifecycle` or a stutter. `JobLifecycle`
takes its transitions from the table of the domain, so that the theorem says where the
repository, which mostly does not ask the table, keeps to it (everywhere but in `Bury`).

**`JobQueueProofs`, `JobRecovery`** (also: `Strangers` are clients). `StoresAgree`
follows from `IInv` and the places of one job: between two round trips the one
party that has custody of it knows what it has left to do. For the reaper and the
requests, `RecoveryInv` is `RecoveryTypeOK`, `Undisturbed`, `StrangersAskInVain`
and, while nothing failed, `WillBeSeen` of every claimable job: it is on the queue, in
somebody's hands, or about to be put there by a request that wrote the record.
The theorems are `StoresAgreeAlways` and `ClaimableJobsAlwaysTravel`.

**`WebhookProofs`** (assumptions: positive attempts and buffer, `NoDelivery` and
`NoEvent` are none of theirs, every delivery is of an event). `DeliveryInv` adds to
`DeliveredOnce` that a row tells who holds it (`RowTellsHolder`), that requests
sent fit its counter (`AttemptsCount`) and that one still to be retried has
attempts left (`RetriesAreLeft`): a row that the reaper takes up is in nobody's
hands, and whoever has one may send it once more. `BusInv` adds that once the
context is cancelled only a Publish that overlapped that still sends. The theorems are `DeliveredOnceAlways`, `DeliveredIsFinalAlways` (an action
property), `BusAlwaysKeepsOrder`, `SystemImplementsDeliveries` (bus and deliveries
composed are steps of the deliveries or stutters) and, from it, `SystemIsSafe`.

**`TrafficProofs`, sessions** (assumptions: the bounds are natural numbers,
`NoToken` is no token). The inductive invariant is

    AuthInv == AuthTypeOK /\ Rooted /\ EndedIsKnown /\ ReuseEndsTheLogin
               /\ OldPasswordIsKnown /\ SessionsFollowPassword
               /\ OneSuccessor /\ OneLiveTokenPerLogin

`Rooted` says that the tokens of a family go back to one login; `EndedIsKnown`
that a request that still may create a token of a login that was ended knows it
is late; `OldPasswordIsKnown` the same of a changed password; `OneSuccessor` that
at most one request owes the successor of a login's live token. The theorems are
`AuthInvHolds`, `AuthTypesHold`, `PasswordChangeEndsSessions`,
`ReuseRevokesTheFamily` and `RotationKeepsOneToken`. The step lemmas
(`Revocations`, `OtherSteps`, `KeepSteps`) group the actions by what they do to
tokens, so that each conjunct treats a group once. `ResetInv` adds `SpentIsMarked`
(a token with which a password was set is marked, or its request is about to mark
it) and `NewestIsAlone` (a request that creates a token has used up the older
ones), and gives `ResetTokensAreSafe`.

**`TrafficProofs`, idempotency keys** (assumptions: the bounds are natural
numbers; slots and operations may be infinite, as finitely many requests begin).
`IdempotencyInv` adds to the types, for each operation, a sum: the times its
handler ran, the requests about to run it and the lock, if free, are at most one
more than the locks that expired and the commands that failed; and executions
and requests on their way are at most those that have begun, which the range of
the counter needs. The lemmas `QuietKeys`, `OneKeyedRequest` and `OneMoreOrLess` say
what a step of one request does to the two cardinalities. The theorem is
`ExecutionsAlwaysAccounted`.

**`TrafficProofs`, exports and audit log** (also: exports are finite, as the table
is; `NoExport` is none of them). `ExportJobsInv` adds that a worker has the export it works
on (`ExportersHaveJobs`), what requests carry, and per export: one maker
(`OneMaker`), one announcement at most (`ToldOnce`) and a file where work is done
(`WorkIsDone`); the theorem is `ExportsAlwaysAccounted`. `EntriesAccounted` speaks of the
rows of the table in the order in which the channel accepted them: a strictly
growing function leads from the rows to the places of the entries, and grows by
one place with an insert. `AuditInv` has with it that an entry is sent once
(`EntriesAreSentOnce`), that what failed was taken (`FailedWereTaken`), and that the
worker ends after Shutdown, with what came late (`EndsWhenDone`); the theorem is
`EntriesAlwaysAccounted`, about `TrafficSpec`.

**`AccountsProofs`** (assumptions: bounds, a positive number of codes, `SystemRoles`
are roles, `None` is neither user nor provider, `NoUser` is no user).
`TwoFactorInv` adds `CopyIsSound` to what `UserRowHolds` promises: a request that
has read the row and will save all of it holds what the row says, unless it is named
as one that was crossed. `DecisionsInv` adds that a reader has seen every change
but those made while it read (`ReadersAreUpToDate`), and a writer the row it looked
for (`WritersHaveSeen`). `OAuthInv` adds `FlowIsTakenOnce` (while the entry of a flow
is there nobody has got past it, and one callback at a time has it in hand),
`FlowsHaveBegun` (a new nonce has no flow), `CallbacksKeepTheirUser` and
`UnlinkersAreChecked` (who is about to unlink has another method, unless somebody
else of his unlinks). `UsersAndKeysInv` adds `OwnersExist` (the owner of a key, or of one about
to be inserted, was created) and `SaltsAreOld` (a stored salt was drawn for a request
that has begun, so that the next one differs from it). The theorems are
`UserRowAlwaysHolds`, `DecisionsAlwaysHold`, `ProvidersAlwaysLoginSafely`,
`KeysAlwaysHold`, and `KeysNeverAuthenticate`, the defect of `key_lookup` in full.

**`AccountsProofs`, organizations** (assumption: `Nobody` is no user). `OrganizationsInv` adds
to `OwnerIsServed` and `RolesAreFollowed`, the halves of `RolesFollowMembers`, what
requests carry (`RequestsCarry`: nobody takes a role back from the owner), that the
founder is inserted before anybody else (`FoundedFirst`) and that what the memory
of an instance allows is stored (`MemoryIsStored`). The theorem is
`RolesAlwaysFollowMembers`.

**`WorkersProofs`** (assumptions: bounds; imports and emails are finite, as the
tables are; `NoImport` and `NoEmail` are none of them; no path is both that of a medium and of a
conversion).
`ImportJobsInv` adds that a worker has the import it works on (`ImportersHaveJobs`).
`PermissionCacheInv` adds that whoever has read
the policies since the last change has read that one (`LoadsAreRecent`). `EmailInv` adds
`OneCarrier` (from its claim to the last word on it an email is with one actor),
`CarriersKnow` (who knows what the provider has said and finds the row as he left
it), `RowIsAccounted` and `StopsAreFaults`. `ConversionsInv` adds `UploadsAlone` (who
uploads a medium is alone with it, and its row is not there yet), `FilesAreOwned` (a
file has a row or a request about to insert it), `JobIsAccounted` and
`LocksAreOwned`. `JobIsAccounted` is the heart: the jobs of a conversion, summed over the
goroutines started, the list, what was polled, the channel, the goroutines at work and
the retries that wait, are one or none, and one until it is made or given up, as long
as nothing fails. A worker that finds a lock drops its job, so this needs
`LocksAreOwned`: a lock belongs to a job in hand or in the channel, and one about to be
released to a conversion that nobody is about to lock. The theorems are
`ImportsAlwaysTakenOnce`, `ChangesAreAlwaysStored`, `EmailsAlwaysAccounted` and
`FilesAlwaysAccounted`.

**`WebSocketHubProofs`** (assumptions: bounds, finitely many clients, `NoClient` and
`NoRoom` are no names). `HubInv` is

    HubInv == HubTypeOK /\ HandedOnce /\ RoomsAgree /\ SendStaysOpen
              /\ RestIsDone /\ CountFits /\ GoneIsKnown /\ RegistriesAgree

`HandedOnce` says that a client is registered once, `RoomsAgree` that a room
has no member that does not have the room, `RestIsDone` that the hub has rooms to release only while it
releases them, `CountFits` that references and presence are the
number of clients less what is on the way, `GoneIsKnown` that a connection that
ended is on its way to the hub. The theorems are `HubTypes`,
`SendStaysOpenAlways`, `RegistriesAlwaysAgree` and `GoneAreReleased`.

**`SwitchesProofs`, settings and flags** (assumptions: the keys of users are not those
of the system, and no user is called `system`; there is room for a flag, and a full
rollout and `NoGroup` are what their names say). `SettingsInv` adds to the types that a
row has its owner's keys only (`KeptIsOwn`), that it is what was acknowledged, unless
updates overlapped (`SentIsKept`), and that an update about to write has the
present row with its own keys in it (`MergedIsCurrent`). `FeatureFlagsInv` has one live row of a key
(`OneFlagIsLive`), what is stored as it was asked for (`WantedIsStored`) and what a
request knows of the row (`KnowsItsFlag`). The theorems are `SettingsAlwaysHold` and
`FlagsAlwaysHold`.

**`SwitchesProofs`, webhooks** (assumptions: bounds; no organization is called `global`).
`WebhooksInv` has what the rows are (`HooksAreSound`: the secret was made for the
URL, URLs are unique where they must be, a row is what was agreed unless requests
overlapped), that each delivery is of a webhook that wanted it (`SendingsAreWanted`),
the sum of replays answered and owed (`RepliesAreOwed`), and what a request knows
(`KnowsItsHook`): what it found stays wanted, and the copy it will save is the row
or the row is named as tangled. The theorems are `WebhooksAlwaysHold` and, of settings,
flags and webhooks together, `SwitchesAlwaysHold`.

**`ContentProofs`** extends `SwitchesProofs`, whose first lemmas (sequences of rows, sums of
events told and owed, sets) both use.

**`ContentProofs`, versions** (assumptions: the bounds are natural numbers, `Original`
is a content, `NoSum` is none). The inductive invariant is

    VersionInv == VersionTypeOK /\ Bounded /\ Ordered /\ LockHolds /\ FilesOwned
                  /\ LiveHasFile /\ ContentsKnown /\ ContentsDiffer
                  /\ CurrentIsKept /\ CurrentIsLive

`Bounded` and `Ordered` say that a request takes the number after one in use, so
that the numbers in use stay closed downwards: the type of `current` needs this
already. `LockHolds` says that, while nothing unusual happened, a number above the
current one belongs to an upload that read the current one and is about to
advance it, which the optimistic lock then cannot refuse. `FilesOwned` keeps a
file with one row or one request, and lets a request erase only what no listed
version needs. `ContentsKnown` says that the comparison an upload has made
stays true of the numbers up to the one it read: what is inserted later is above them, and
the second of two equal uploads finds its number taken. `CurrentIsKept` says
that nobody is on the way to take the current version away, but for the named
overlaps. `StepEffect` states once what each action does to its request; the
lemmas `Next...` go by it. The theorems are `VersionInvariant`, `VersionTypes`,
`NumbersStayInOrder`, `LiveVersionsHaveFiles`, `LiveContentsDiffer` and
`CurrentVersionIsLive`. All ten conjuncts were also model-checked on the
instance of the run `content`.

**`ContentProofs`, news** (assumptions: the bounds are natural numbers). `NewsInv`
adds to the types `RowsAreSound` (a published row has its time, and its slug is
no other row's), what requests know (`KnowsItsRow`: what one holds of a row is
the row, unless another wrote it meanwhile, and the status it will write was
reachable from there: `CopyFits`) and `EventsAreOwed` (for each row, what the bus
has heard and what requests still owe it are together what happened, less what
failed). Every action is one of four kinds of step (`GoesOn`, `Creates`, `Writes`,
`Tells`; lemma `NewsSteps`), so that each conjunct is treated four times and
not fifteen. The theorems are `NewsAlwaysHold` (one of the promises that
`ContentHolds` is made of) and `NewsAlwaysMovesAlong`, an action property.

**`ContentProofs`, comments and invoices** (assumptions: the bounds are natural numbers,
the clock has a first tick). `CommentsInv` and `InvoicesInv` are of one form: what is true of the
rows (`CommentsAreSound`: a reply is younger than the comment at the top it stands
under, a text is one its author sent; `InvoicesAreSound`: an amount is one that its owner or a
clerk sent, no number is given twice), that a row is what was last answered
unless it is named as mixed or entangled, and what a request knows: the copy it
will save is the row, or the row is so named. `AnnouncementsAreOwed` adds up the
events told and owed, as for the news. The theorems are `CommentsAlwaysHold` and
`InvoicesAlwaysHold`.

**`ContentProofs`, tags** (assumption: the bound is a natural number). `UsesAddUp` is
the sum that makes the counter right at every statement, and not only at rest:

    usage + (requests about to count) = (entities linked) + (requests about to discount)

of each live tag that nobody raced for, while nothing failed. A step moves one request from
one set to another and at most one link, or the counter by one, and each of these
keeps the sum (`BalancedLinks` and its neighbours, by `OneMoreOrLess`).
`NamesDiffer` is what the unique indexes keep. The theorem is `TagsAlwaysHold`.

**`ContentProofs`, searches** (assumptions: the default page is not larger than the largest,
bounds). A page is the rows whose place lies between two numbers, the place being how many rows
come before in the order of `OrderClause`, with the rows that the order does not tell apart put
in any way the database likes. That paging misses nothing rests on facts about finite
sets of numbers: where the order tells all rows apart no place is skipped
(`RanksAreTaken`), so that a page before another row is full (`PageIsFull`, a bijection from
the page to its places), and a row that is added, or edited in what the order does not look at,
only raises places (`RanksOnlyRise`), so that what is due is on a page to come or was seen
(`DueIsToCome`). All orders but the one by rank do tell rows apart (`RowsInOrder`); where one
does not, or an edit or a deletion takes a row out of its place, `shaken` says so: then a due
article may be missed, and the property speaks of the other cases only. Of saved searches, `SharingIsKnown` says that two overlapping requests of a
user are named, and `KnowsItsSearch` that otherwise the room that was counted is
still there and the copy still the row. The theorem is `SearchesAlwaysHold`.

Of these, the versions (`VersionsAreShown`) and the news together, `ContentAlwaysHolds` is what the
run `content` checks as `ContentHolds`.

Every inductive invariant was model-checked on the instance of its component's run
before it was proved.

**Only model-checked**: liveness (`EveryJobSettles`, `ListedStuckJobsRecover`,
`DeliveriesSettle`, `EventsArrive`, `WaitingEnds`), which is out of the prover's
reach. `TrafficIsChecked` sums a sequence (a batch of a limiter; the fields of a
file): what a recursive sum gives for every sequence is induction over data.
`UsersAreTold` is about
`Notifications` and `Analytics`, whose counts and averages are sums over a feed as well.
`RECURSIVE` is used in none of the modules.

## 6. What the models brought to light

Six runs expect a violation; each shows that the code does something else than
a text of the repository says, and `findings` quotes that text.

- `jobs_panic`: a poller that has popped a job when the worker is stopped may
  send on the closed channel and panic instead of returning (`job_worker.go:77`).
- `webhook_replay`: ReplayDelivery resets the row and puts nothing on the queue,
  so that a replayed delivery is picked up by nobody (`webhook.go:335`).
- `idempotency_replay`: the goroutine that stores a response reads the path from a
  context that may serve another request by then (`idempotency.go:236`): a key may
  be answered with the response of another operation.
- `jobs_exhausted`: SetFailed queues a retry that SetProcessing will refuse
  (`repository/job.go:251`, `:321`), so that a job with a limit above one runs once less
  than the limit and stays `failed`, where `domain/job.go:35-36` says `dead`.
- `key_lookup`: an API key is looked up by a hash with a new salt (`api_key.go:200`), so that
  a key that is neither revoked nor expired is refused, though `api_key.go:195` says that
  Validate validates it for authentication.
- `metrics_conflict`: the ON CONFLICT of `metric_event.go:50` names the columns of an index that
  is partial (migration 000025, line 23), and not its condition: PostgreSQL refuses every insert, and
  no event reaches the dashboard.

The rest are consequences of the code that the properties are worded around, or
that are left out of the models; each was seen in a trace or while translating.

*Code that is not wired up.* Neither `cmd/api/main.go` nor `http/server.go` starts the worker
of the background jobs or their reaper: jobs are submitted and cancelled, and none is run. Nobody publishes permission invalidations
(`invalidator.go:12-14`); nobody calls `Send` of the notifications; the
conversion worker is never handed to the service (`server.go:625`); main sets no
queue for exports, so that an asynchronous one stays "processing", nothing sets
`file_expires_at`, and `buildCursor` is a stub, so that every export is empty;
nothing inserts into `import_id_maps`; `Shutdown` of the audit log is not called;
the middleware of API keys is attached to no route and would find no key, as the
hash is salted; the middleware of idempotency guards GET routes only; no
migration creates the table of invoices; nothing issues the pending token that
Verify2FALogin and UseRecoveryCode ask for, and Login never asks for the second factor.

- *Jobs.* The last failure goes from `processing` to `dead` at once, which `CanTransitionTo`
  (`domain/job.go:97-98`) and the data model of spec 009 have in two steps; only SetCompleted
  asks the table. `EveryJobSettles` takes a job whose retries are used up for settled, whatever
  its status: that its status is the wrong one is what `jobs_exhausted` shows. The backoff is not waited for, as the pop ignores the score.
  Between the pop and the claim a job is only in memory. When a step takes longer
  than the threshold, the reaper may write its old copy over a completed record.
- *Webhooks.* A delivery popped and not yet marked is lost with its process. One
  that is rate-limited when it is created is never sent. The reapers of two
  processes requeue the same row twice. The new secret after a change of the URL
  is in no response. A replay by the path of another webhook is refused after
  it was written.
- *Event bus.* Its context is cancelled before the HTTP server drains
  (`main.go:634`): the events of the last requests are refused.
- *Sessions.* A Refresh that overlaps a password reset leaves a session alive;
  errors of MarkUsed and RevokeAllByUser are dropped in ResetPassword.
- *Users.* Every save writes the whole users row: a settings change that overlaps
  a password reset restores the old password. A deleted user keeps his address
  taken, and who registers it again gets an internal error. Who is created by an
  administrator gets no role. The limit on regenerating codes is commented out;
  GetStatus shows the code of a secret nobody stores.
- *OAuth.* Two unlinkings at a time leave no way to log in; a provider that was
  deleted or disabled still counts as one.
- *Permissions.* `permission:sync` and `seed` write back what they loaded, and
  changes in between are gone. Roles assigned by the handler of users are in SQL
  only and decide nothing. A decision cached after an invalidation stays till it expires.
- *Idempotency.* The hash of the body is never compared, against FR-003 of
  spec 019; the lock's five minutes make the record of 24 hours unreachable;
  errors returned by a handler are stored as an empty 200.
- *Exports and imports.* A synchronous export is "completed" before it is written. An
  asynchronous one never is: the worker stores the file, its path and an event that says so,
  and leaves the row in `processing` (`export_worker.go:232-241`), so that DownloadExport refuses
  it, against story 1.2 of spec 011. `ExportsAccounted` does not say that an export may be
  downloaded in the end.
  A CSV file of two types has two headers and is refused, as are values that
  begin with `=`, `+`, `-` or `@` and data nested too deep; types in an order the
  decoder does not accept pass the validation; one line that cannot be parsed
  switches the check for formulas off; an empty file is refused. An import that
  failed or was cancelled blocks the same file for good.
- *Conversions.* The queue is last in, first out (`worker.go:338` says otherwise).
  `processingJobs` is written without a lock. Links to a conversion are always
  refused, and links are signed with one key and may be checked with another.
- *Content.* An update to "published" announces nothing. The total of a filtered
  list counts what the reader is not shown. A creation cannot ask for a
  rollout of 0: the field of the request is no pointer and gorm puts 100 for a zero, so that
  `wanted` records such a creation as one that named none (`Unnamed`); an update can. Conditions restrict a
  full rollout, where section 6 of spec 013 answers it before the conditions and has these
  admit more: `FlagsAnswerAlike` says that the ways to ask agree, not that the answer is that of the spec.
  The first update of settings takes the defaults away. The usage counter of a
  tag drifts when a link is written and its counter is not. An invoice updated to
  "paid" tells nobody, and two in one millisecond are an internal error. A page
  size above the limit becomes the default. A text query is ordered by rank alone, without a
  tiebreaker (`search.go:392-394`): two articles of one rank may change places from page to page, and
  one is missed.
- *Told.* The unread filter of the feed is ignored, as is the organization in
  SoftDelete and MarkAsRead; FindByUserAndResourceIDs joins its conditions by OR;
  events with a struct for a payload or without a user are never recorded; a full
  channel holds the bus up. Each send renews the hour of the limit.
- *Analytics.* As no event is stored (`metrics_conflict`), what is checked of the aggregation is its
  periods: `DaysAreCountedOnce`. The current day is aggregated although `aggregation_worker.go:15` says "never",
  since the guard (`:237-243`) skips a period only if it also starts today; days are lost when the
  worker is late; rows of all organizations are doubled, as NULL never conflicts; the dashboard reads
  none of the rows the worker makes; the hourly series is all noughts unless it begins on the hour.
- *Email.* A send that fails with attempts left leaves the email in `processing`,
  from where nothing takes it, although `email_worker.go:263` logs "will retry" and FR-1.5 and NFR-2.2 of
  spec 004 ask for it. `EmailsAccounted` says what a status claims, not that there is a retry. The final failure counts its attempt twice.
- *Hub.* A message from Redis is published to Redis again (`websocket_redis.go:245`).
  Unregister is called twice per connection: the second may take the user offline
  who has another tab open. A late UNSUBSCRIBE may follow a new SUBSCRIBE. On
  shutdown nobody is marked offline.
- *Media versions.* After a restore every upload fails until the current version
  is the highest again. Restore and Delete of one version may leave a current
  version that is deleted. UpdateMetadata writes an old `current_version` back and
  brings a deleted item back to life. These are the overlaps that `contended`
  and `restored` name.

## 7. Plan

Done: the modules of section 2, in order of importance: what runs without a user
watching (jobs, webhooks, bus, email), what protects accounts (sessions,
two-factor, users, providers, permissions), what is shared by many goroutines (hub,
limits, keys, audit), what writes two stores (media, exports, imports), what
users write and are told.

Proved: the safety of jobs, webhooks, bus, sessions, keys of idempotency,
two-factor, permissions, users and API keys, log-in by providers, organizations, imports, exports,
emails, media and their conversions, hub, the audit log, and what users of an organization write: versions, comments, news,
tags, invoices, searches, settings, flags and webhooks (section 5).

Next: the counters and windows of `RateLimits`, the part of `Notifications`
that speaks of rows and not of sequences, and an abstract specification of a
channel that accepts, loses nothing and keeps order, which `AuditLog`, `EventBus` and
the activity feed share.

## 8. What is left out

*Not modelled*: caches, logging, configuration, the database set-up, the SSRF
filter, request and response types, the drivers of S3 and MinIO, SendGrid and
SES (no state of the application, or pure functions over text and addresses).

Of what is modelled:

- *Jobs*: the completion callback (one POST, lost with its process), Dequeue (no
  caller), Delete (tests only), expiry of keys.
- *Webhooks*: the signature, the processing set of Redis (never read); the
  limiter's answer is a free choice in `WebhookDelivery`, its window is in `RateLimits`.
- *Sessions, two-factor*: metrics, expired tokens (they change nothing),
  Verify2FALogin and UseRecoveryCode (they refuse everybody), TOTP itself.
- *Email*: rendering, bounces (only inserted), the Redis queue and
  ProcessDeadLetter (no caller), the providers other than SMTP (main.go uses none).
- *Hub*: authentication of a connection, names and authorization of rooms, several
  processes, a subscriber whose loop has not started.
- *Media*: MIME checks, the pixel work, audit entries, the storage's answer that
  a write failed although it was carried out.
- *Exports, imports*: the fields of each entity, the signature of a file, the
  clean-up of exports (it finds nothing).
- *Content, told*: texts, paging except in `Searches`, the permissions asked first
  (a user has them or not), weekly and monthly series, the number of active users.
