# Verification of go-modulith-template

TLA+ models of the parts of this repository in which several goroutines,
processes or requests share state, the TLC configurations that check them, and
proofs, checked by TLAPS, of their main invariants. Every definition is
translated from the Go or SQL code; `PROJECT.json` maps it to the lines it stands
for. Paths below are relative to the repository.

## The system

A modular monolith: `cmd/server` runs every module behind a gRPC server, an HTTP
gateway that calls that gRPC server, and a WebSocket endpoint; `cmd/worker` runs
the modules without servers; `cmd/auth` runs the auth module alone. Modules
register with `internal/registry` and talk through an in-process event bus, a
transactional outbox and a task queue. PostgreSQL is the only durable store; the
Valkey (Redis) cache is a stub so far.

### Inventory

| Component | State it keeps | Operations | What is hard, and what has to hold |
|---|---|---|---|
| Outbox (`internal/outbox`, started in `cmd/server/setup/server.go`) | table `outbox`; the batch and collected ids of one `Process` call | `Store` in the caller's transaction, `GetUnpublished`, `Process`, `MarkPublished` | several instances poll one table, restarts, failing updates: only committed events leave, none is lost silently, repetition is bounded |
| Task queue (`internal/queue/fallback.go`) | bounded channel, handlers, wait group | `Enqueue`, `Start`, `Shutdown` | full channel, loss at process end, a start that races the shutdown |
| Event bus (`internal/events/bus.go`) | per event name, a Go slice of handlers | `Subscribe`, unsubscribe, `Publish`, `Close` | slices shared between a publisher that holds no lock and an in-place removal |
| Notifier (`internal/notifier`), locales (`internal/i18n`) | two template sets; per message, the provider it has reached | `HandleMagicCodeRequested`, failover, `Add`, `Render` | a message is written after its request is gone; an answer may be lost after the message was sent |
| gRPC calls (`internal/authn`, `internal/audit`, `internal/telemetry`, `internal/authz`, `internal/errors`) | context values, audit goroutines | the interceptors of both servers around a handler | the order of the interceptors, records written after the answer, tokens and cookies that have to survive the gateway |
| WebSocket hub (`internal/websocket`) | clients, index by user, channels, sockets | upgrade, register, unregister, `Broadcast`, `SendToUser`, `Stop`, the pumps | channels that are closed by one goroutine and used by another, full buffers, shutdown |
| Circuit breaker, retry (`internal/resilience`), saga (`internal/saga`) | state, counters, deadline; attempt; steps done | `Execute`, `Reset`; `Retry`; `Execute`, `compensate` | results that arrive in a later period, trial slots, panics, compensations under a cancelled context and an open breaker |
| HTTP path (`internal/middleware/timeout.go`, `rate_limit.go`) | response, `wroteHeader`; limiters and counters | time out, limit | two goroutines and one response; a counter whose expiry is set by a call of its own |
| Cache, loader, invalidator (`internal/cache`) | entries with expiry, loads under way, subscriptions | get, set, delete, increment, load, invalidate | a load that stores what was just invalidated |
| Auth module (`modules/auth`), OAuth (`internal/oauth`) | users, magic codes, sessions, token blacklist, external accounts, OAuth states, pending changes, outbox rows | login, refresh, logout, revocation, registration, profile, contacts, callbacks, linking | handlers are sequences of statements with other handlers in between and failures that are only logged |
| Process lifecycle (`cmd/*`, `cmd/server/setup`, `internal/registry`) | resources, module hooks, servers | startup, signal, shutdown | order of starts and stops against running requests and tasks |
| Migrations (`internal/migration`) | schema version and dirty flag per module | up, down, nuke | a crash half way, one module of several failing, several processes at once |
| Configuration (`internal/config`), seeder (`internal/migration/seeder.go`, `modules/auth/resources/db/seed`) | the settings and their sources; users, roles, permissions | `Load`, `Validate`; the seed commands | passes that overwrite each other; statements without a transaction, run by several processes |
| Feature flags (`internal/feature`) | flags, their rules, a table per context | register, set, evaluate | the borders of a rollout, copies that share an array |

How they interact: a request passes the timeout middleware and the rate limiter, the
gateway, and the gRPC interceptors. Its handler writes business rows and an outbox
row in one transaction; the publisher goroutine of some `cmd/server` instance selects
unpublished rows and enqueues one task each; the queue worker starts a handler
goroutine, which relays the event to the bus; the bus starts one goroutine per
subscriber (notifier, WebSocket subscriber, cache invalidator, audit). The
WebSocket subscriber calls `Broadcast` and `SendToUser` of the hub from those
goroutines. The gateway calls the process's own gRPC server. On a signal the main
goroutine stops the queue, the hub, the HTTP server and the gRPC server in turn,
and then runs the modules' `OnStop`.

The remaining components (CORS and logging, telemetry, Swagger, tools, generated
code...) are listed in `PROJECT.json` with the reason they have no module.

## Modules

| Module | Models | Checked by | Proved in |
|---|---|---|---|
| `CommittedDelivery` | what the outbox pipeline promises, without its machinery | as the property `ImplementsPromise` of `outbox_live` | |
| `OutboxPipeline` | outbox, publisher, fallback queue, relay, bus goroutines, process restarts | `OutboxSafety`, `OutboxLive` | `OutboxPipelineProofs` |
| `EventBus` | the handlers of one event name as a slice over arrays | `Events` | `EventsProofs` |
| `Notifications` | the magic-code subscriber, the composite notifier, the templates | `Events` | `EventsProofs` |
| `CallChain` | a gRPC call through the interceptors of its binary and back | `Events` | `EventsProofs` |
| `CircuitBreaker` | the breaker and its callers | `Resilience` | `ResilienceSettingsProofs` |
| `AtomicSaga` | what a saga promises: all steps or none | as the property `ImplementsAtomicSaga` of `resilience` | |
| `ResilientSaga` | sagas whose steps are retried through that breaker; extends `CircuitBreaker` | `Resilience` | `ResilienceSettingsProofs` |
| `WebSocketHub` | handshake, hub goroutine, pumps, event handlers, stop | `Hub` | `HTTPProofs` |
| `AuthSessions` | magic codes, tokens, sessions, blacklist, the handlers over them, and the admin tasks that clean them up | `AuthSessions` | `AuthSessionsProofs` |
| `AuthStore` | the tables of accounts: SQL statements, and the methods of the repository over them | through `AuthAccounts` | |
| `AuthAccounts` | registration, profile and contacts, OAuth states and callbacks, links; extends `AuthStore` | `AuthAccounts` | `AuthAccountsProofs` |
| `ServerLifecycle` | the three binaries from `main` to exit | `Lifecycle` | `ServerLifecycleProofs` |
| `Migrations` | the migration runner in any number of processes on one database | `Migrations`, `MigrationsRollback` | `MigrationsProofs` |
| `CacheAside` | memory cache, single-flight loader, invalidator | through `RequestPath` | `HTTPProofs` |
| `RequestPath` | an HTTP request through timeout and limiter to a handler; extends `CacheAside` | `Requests` | `HTTPProofs` |
| `Configuration` | `Load` as passes over layers, and `Validate` | through `Seeding` | `ResilienceSettingsProofs` |
| `Seeding` | processes that load a configuration, and the seed commands; extends `Configuration` | `Settings` | `ResilienceSettingsProofs` |
| `FeatureFlags` | both flag managers | `Settings` | `ResilienceSettingsProofs` |

The third column names the TLC configurations. Each `MC...` module instantiates
its module for TLC: it defines the constants that are functions, and the symmetry
sets. `MCEvents` holds three modules that share no state (the bus, the notifier,
the call chain), and `MCSettings` two (seeding with the configuration, and the
flags): a behaviour chooses one of them and stays with it, so no product of their
states arises. A definition whose name has the form `Action_Change` is the action
with a plausible mistake in it, for checking that a property notices that mistake;
no specification uses it.

### How state and actions correspond to the code

*OutboxPipeline.* `row` is the fate of the transaction that calls `Store` and of
its row: open, aborted, unpublished, published. `createdAt` is the start of the
transaction, as `NOW()` is. One `Process` call is `Poll` (the `SELECT ... LIMIT`),
then `SkipMalformed` or `Publish` for each entry in order, then `MarkPublished` or
`MarkFails`; between any two of them other instances run. `Publish` is the
publisher function of `AndStartServers`, which enqueues and ignores a full queue.
`Dequeue`, `Relay`, `Handle` are the worker loop, the relay of
`modules/auth/module.go` and the goroutine the bus starts. `BeginShutdown`,
`LoopStops`, `Exit` are a graceful stop, `Crash` is none; both lose what memory
held (`Die`). `attempts`, `interrupted`, `delivered`, `dropped` are history.

*EventBus.* `mem` holds the backing arrays, `hdr` the slice header in the map.
`Subscribe` is Go's `append`, in place or into a new array. `Unsubscribe` holds
the write lock from `Unsubscribe` to `FinishUnsubscribe`, and a publisher that
reads the array in between gets the old or the new content of a slot (`Read`):
the data race of the code as a choice. `Snapshot`, `CallNext`, `Return` are
`Publish`. `CodeOf` is the code pointer by which unsubscribe finds a handler.

*Notifications.* `notices` is one call of the notifier per goroutine: the channel,
the locale its event carried, the provider it is at. `DetectLocale` chooses that locale:
the default for a request without `Accept-Language` or with one that cannot be parsed
(`Unparsable`), else the normalised first choice. `Accept` and `Fail` are the
answer of a provider; a failing one may have delivered. `Load` and `Add` are the
template manager over `html/template` (external), which refuses to parse anything
into a set that was executed once.

*CallChain.* `Chain` is the order of the interceptors; `Inward` is what the next one
does before it calls on, `Outward` what it does with the answer. `Sent` is what the
client presents, over gRPC or through the gateway, whose default matchers rename the
cookie header. `Log` is the goroutine the audit interceptor starts, and `EndProcess` may
come before it.

*CircuitBreaker.* A call is in flight between the critical sections of
`beforeRequest` and `afterRequest`, and `request` remembers whether it is a trial
of the current half-open period; a change of state ages it. `TimeoutPasses` is
the clock. `Panic` ends a call without `afterRequest`.

*ResilientSaga.* `saga[c]` is the place of `Saga.Execute`, of the `Retry` under it
and of its sleep; the call itself is one of the breaker, so that `CallSucceeds`,
`CallFails` and `Rejected` are `afterRequest` and `beforeRequest` with what `Retry`
and the saga do next. `effects` is what the remote service has done: a call that
fails may have had its effect. `Cancel` ends the caller's context, which the
compensations share.

*WebSocketHub.* `Handshake` and `AuthenticateRequest` are what `ServeHTTP` decides
before the upgrade; `Target` is what the event subscriber reads from a payload. The
hub goroutine's `select` is `Register`, `Unregister`, `BroadcastMessage`, `Shutdown`.
A connection has a reader (`ServeHTTP`, then `ReadPump`) and a writer. `SendToUser`
is `LookUp`, `BeginSend` and one `SendTo` per connection, because it releases the
read lock after the lookup and ranges over a map that the hub changes in place;
`maps` and `userClients` keep the identity of those maps. The read lock is held
while `sender[m] = "sending"`, and `Lock` is what the hub waits for.

*AuthSessions.* `call` is the place each handler has reached; every database call
of the code is a step, and may fail where the code goes on after a failure.
Tokens are named by the grant they were issued in, ages stand for the clock: 0
both tokens valid, 1 the access token expired, 2 the refresh token in the minute
of leeway, 3 beyond it. `retired` records what was committed as used up; `late`
and `reused` record what a handler was presented with. `RunAdminCommand` is one of
the two cleanup tasks, a statement each, run at any moment beside the handlers.

*AuthStore, AuthAccounts.* `AuthStore` has two layers, as the code: an operator per
SQL statement of `internal/db/store`, and the methods of `SQLRepository` over them,
whose answer is a row, `sql.ErrNoRows` or a database error (`Charge` pays for it out
of `MaxFailures`). `AuthAccounts` has the handlers: `call` is the request a handler
serves and the place it has reached; every statement that another handler could
come before is a step, and a cancelled request is `Abandon`. `tasks` are the
verification tasks on their way from `RequestEmailVerification` to their handler.
The providers are external: an identity is a member of a set, with the provider and
the e-mail address it reports. `owners`, `issued` and `uses` are history.

*Migrations.* `proc` is the place of a command of a binary: which command, at which
module, on the way to which version. golang-migrate is external and modelled from
how the runner uses it: `lock` is its advisory lock per module, held while it works
and lost with the session; `MarkDirty`, `RunScript`, `MarkClean` are the three
statements of one version, and a script takes effect as a whole or not at all;
its `Version` says there is none at version 0 whatever the dirty flag. `Take` is
`Up` or `Down` with its three outcomes: dirty, no change, something to do.
`DropSchema` and `DropTable` are the two statements of the fallback, without a
lock. `undone`, `raised`, `torn` and `rollbacks` are history: what excuses a
property.

*ServerLifecycle.* `Program` is the sequence of steps of each `main`, deferred
calls included, in the order in which they run, put together from one list per
function of the code; `at` and `progress` are the main goroutine's place. A failing
step of the startup goes to what was deferred so far (`Unwind`). Goroutines it
starts have their own actions and end with the process. `incidents` records failures
that excuse a property.

*CacheAside, RequestPath.* `server[r]` is the goroutine of net/http in the timeout
middleware, `handler[r]` the one that runs the rest. `BeginReply` and `Reply` are the
two statements of `WriteHeader` in the handler's goroutine, `TimeUp` and
`WriteTimeout` those of the middleware; `raced` is set when one pair falls into the
other. `flight` is the call singleflight has registered; `Load`, `Store` and `Finish`
are its loader. `version` is the data behind the key, and the goroutines of the
invalidator are `deliveries`. `overtaken` marks a load that read before an
invalidation that ran before it stored.

*Configuration, Seeding.* A process starts with four layers of entries: its
variables, `.env`, a YAML file, the seeds' YAML file. `Config` is `Load`: one
operator per pass over what the passes before left, and per setting the value and
the source it logs. `Possible` and `IsInput` say what variables and files can hold.
The reference it is compared with is the order that docs/ENVIRONMENT.md:7-15 promises
(`Priority`), and not the code: `MayDecide` gives a setting to the highest layer that
gives it a value, and lets another one have it only by a named departure of the code
from that order (`Hidden`, `Unheard`, `Bundled`, `Erased`). A departure excuses and does
not demand: a `Load` that followed the documentation would pass. A seed command then goes through the statements of
`SeedAll` and the auth module's seed one by one, over `rows`, `grants`, `users` and
`roles`; `Interrupt` ends it between two. `asked`, `torn` and `overlapped` are
history.

*FeatureFlags.* `flags` refer to their rules by an array, which a copy that was
handed out shares (`ChangeRule`). `Bucket` is the hash of a user modulo 100.
`IsEnabledFor` and `SQLIsEnabledFor` are the two managers' decisions.

## What the runs check

| Run | Instance | Distinct states | Question and answer |
|---|---|---|---|
| `outbox_safety` | 2 instances, 2 events, batch 2, queue of 1, 1 fault of any kind | 261,790 | Do only committed events leave the table; is every marked row in memory, handled or dropped in a known way; is an event handed over again only after an interrupted `Process`? Yes. |
| `outbox_live` | 1 instance, a malformed, an unrouted and an ordinary event, 1 fault | 45,992 | Does the pipeline implement `CommittedDelivery`; is every well-formed committed event marked, and handled unless the queue was full, a handler failed or the process ended? Yes. |
| `events` | 3 subscriptions with 2 publishers and a close; 2 messages, 3 providers for one of the channels, 2 additions of templates; 2 calls with genuine and forged tokens over gRPC and HTTP | 2,381,353 | Does an undisturbed publication call exactly the registered handlers, and none of them who had unsubscribed before (`PublicationsAreExact`)? Is a provider asked only after all before it refused, and does the message keep the language of its request (`MessagesArriveAsAsked`)? Does an added template render (`AddedRenders`)? Is every change that was made recorded with its caller (`AuditTrail`)? Yes, with the excuses the properties name. |
| `resilience` | 4 callers, one of them with sagas of 3 steps (one without compensation) and 2 attempts; 3 failures, 2 trials, 2 successes | 140,881 | Does the trial limit hold, whatever period results belong to; does no half-open or open period last for ever; does a saga end, with all of its steps in force or none but the excused? Yes, if no trial panics. |
| `hub` | 2 connections of one user and one that is refused, 3 messages, buffers of 1 | 152,947 | Is nothing sent on a closed channel, does the index agree with the clients, does `SendToUser` reach exactly the user's connections that stay; do broken connections leave, does `Stop` close registered clients, do senders return? Yes. |
| `auth_sessions` | a service with or without an outbox; 1 user with 2 contacts, 2 handlers, 2 codes, 3 grants (2 without an outbox), 1 revocation, 1 failure, admin tasks at any moment | 2,856,277 | Does a code or token buy nothing after its removal was committed; by how many is it exchanged before; is the code of a recorded login gone, and does only a failure leave a login unrecorded? Yes; at most as often as there are handlers and failures; yes. |
| `auth_accounts` | 2 contacts, 1 identity of a provider that reports the first, 2 handlers, 2 users, 2 OAuth states, 1 change or 2 failures | 4,135,965 | Does whoever is given tokens for an identity own it at some moment of the call; does an identity change its owner only through an unlink; by how many callbacks is a state used? Yes, yes, and by as many as there are handlers and failed deletions. |
| `lifecycle` | all binaries, 2 modules, 2 requests, 2 tasks | 56,952 | Does what an RPC needs outlive it; is an accepted HTTP request never refused by a gRPC server that went first; do tasks end before the shutdown goes on; are hooks paired and ordered; does a process that is told to exit do so? Yes, with the excuses the properties name. |
| `migrations` | 2 processes, 2 modules with 2 and 1 migrations, one of them with a down script that fails, 3 commands, 1 death or failing statement | 127,095 | Does the tracker tell the truth, does an up script run on the schema it was written for, does a process serve only over complete schemas, does every command end, and succeed if nothing failed or was rolled back? Yes, for modules that no drop has torn apart. |
| `migrations_rollback` | the same | violation | "don't return if we're trying to nuke everything" (internal/migration/migration.go:234): it does return, and the module counts as rolled back. |
| `requests` | 2 requests, cached data that change once, a counter with a limit of 2; limiter or cache in use | 110,145 | Is what was invalidated gone, but for a load that overtakes the invalidation, and is even that temporary; has an answer one author; does every request and every goroutine of the middleware end; is an address over its limit admitted again? Yes, with those excuses. |
| `settings` | every way two files, `.env` and the environment can mention a setting, or the settings that interact; 2 seeders that disagree, 3 launches, 1 interruption, registrations; 2 flags, users at the borders of the rollouts, 3 changes | 191,767 | Does every value of a loaded configuration come from the layer that the documented order says, and does the log name that layer, but for the departures that have a name; does a user who was seeded have a role, and only one that a seeder gave; does a seeder that was alone repair what others left; does nobody lose a feature when its rollout grows? Yes. |

Every property of a passing run has a mutation of a modelled definition
(`PROJECT.json`, "mutants") under which the same run finds it violated.


### Bounds, and why they are enough

The hazards need two actors or two of something, and the bounds give them that: two
instances on one table, two publishers on one array, two handlers with one token,
two connections of one user, so that the inner map is shared, emptied and
allocated again. Buffers of one place make "full" frequent; the batch of the
liveness run has room for one entry more than there are malformed ones, because as
many of those as a batch holds block it (Findings). Two handlers and two users are
the least that can contend for an identity, a contact or a state; one of the users
asks for one change (`MaxAsking`, `MaxChanges`), because contact changes reach the
identities only through the rows of `users`. In `auth_sessions` logouts carry access tokens and
refreshes refresh tokens (`Bearers`, `Refreshers`), although the code looks at the kind
of neither; the theorems hold for both kinds in both places. In the migrations a module of two
versions gives a rollback and a start an intermediate version to meet at, a module of
one follows it, and three commands let a process find what two others left; TLC also
finished three processes (3.29 million states) and four commands with two faults
(2.83 million) without a violation. Three subscriptions are the least with an element
in front of, and behind, the one that is removed, and they pass through arrays of
capacity 1, 2 and 4. Two messages over three providers have one in the middle of the
failover while another begins; two additions are an update of a template
(`MaxAdds`). The breaker has more callers than trial slots, so results of old periods
meet a full half-open period; one of them runs sagas, whose three steps have one
without a compensation between two that have one. Two requests are a leader and a
sharer of a load, a reader and a writer, or two that count the same address; one
write (`MaxWrites`) is what a load can overtake. Three launches of two seeders let one
repair what two that overlapped have left. `MaxSets` of three is a rollout that begins,
grows, and grows again. The configuration is varied one setting at a time, and together
where the code relates settings (the fields of a provider, the environment and its
seeds file); each of its patterns has one representative among the settings.

Faults are one per run, two in `auth_accounts`: the properties that allow for faults count them, and the
proofs cover any number. `MaxAged = 1` follows the clock of the first grant only: later
ones are issued while it ages, which is what lateness needs. Counters that only grow
(codes, grants, revocations, tasks, failures of the breaker) are bounded by constants in
the guards and named `Max...` or `...Cap`.

`CHECK_DEADLOCK FALSE` is used where the system may really come to rest (all
events handled, all connections gone, the bounds used up). The lifecycle is checked
for deadlock: the only terminal states are those of an exited process. So are the
sagas and the requests, which can always go on.

### Fairness

- `OutboxPipeline`: weak fairness of every goroutine that can run, of a transaction
  ending one way or the other, and of restarting a process that is gone. The ticker
  of `Publisher.Start` and the worker loop justify the former; the latter is the
  supervisor (the Deployment in deployment/helm restarts its pods). `BeginShutdown`,
  `Crash`, `Begin` and faults are never forced.
- `ResilientSaga`: the timeout of the breaker passes, calls return, sleeps end, the
  clients go on with their sagas and the other callers keep calling. `NoPeriodLasts`
  needs the last: the breaker leaves the open state only in a request. Nobody has to
  cancel or panic. That calls return is the caller's business in the code, which gives
  the function a context and no deadline.
- `WebSocketHub`: the hub, the pumps and the senders run when they can. Nobody has
  to connect, send, stop or disconnect. The random choice of Go's `select` takes a
  case that stays ready in the end.
- `RequestPath`: goroutines run when they can, the deadline of a request comes
  (`context.WithTimeout`), the loader returns, and expiry times pass. Nobody has to send
  requests, and the cleanup of the cache need not run.
- `Migrations`: strong fairness of the next statement of each command, because waiting
  for the lock is enabled only in between: PostgreSQL grants an advisory lock in the
  order of the requests, and the lock of a session that died is given up. Launches,
  deaths and failures are never forced.
- `ServerLifecycle`: main, the worker loop and the publisher run when they can, and
  handlers of tasks and RPCs return. The last is an assumption about handlers the
  code does not enforce: `GracefulStop` and the queue's wait have no deadline, so a
  handler that hangs keeps the process from exiting although `SHUTDOWN_TIMEOUT` is
  documented to bound it (docs/MODULITH_ARCHITECTURE.md:2709).
- The other modules are checked for safety only: what they do must not go wrong, and
  whether a handler goes on is up to the database or the client.

## What is proved

TLAPS checks these for every value of the constants that satisfies the modules'
assumptions: any number of instances, events, callers, handlers and failures.

- `OutboxPipelineProofs`: `TypeCorrect`; `CommittedOnly` (`OnlyCommittedLeave`);
  `NothingVanishes` (`PublishedIsAccountedFor`); `BoundedRepublication`
  (`RepublishOnlyAfterInterruption`); `RefinesPromise`, that every behaviour is one
  of `CommittedDelivery` as far as its steps go. The first is by cases on the actions.
  `CommittedOnly` rests on lemmas that say which events an action can bring into
  memory (`StepConserves`). `PublishedIsAccountedFor` is not inductive: the ids a
  `Process` call has collected must be accounted for before they are marked, which
  is `CollectedIsAccountedFor`. `RepublishOnlyAfterInterruption` needs
  `AttemptsBeforeVisit`: an entry still to be visited, or not marked at all, has
  cost one interruption for every attempt. `RefinesPromise` has one lemma per action:
  it maps to a step of the promise or to none, which uses the invariants before it.
- `ResilienceSettingsProofs`, of the breaker: `TypeCorrect`, `ClosedBelow`, `TrialLimit`
  and `NeverStuckHalfOpen`. The last two follow from `HalfOpenAccount`: in a half-open
  period every slot taken is a trial under way, a counted success, or leaked by a
  panic. `NeverStuckHalfOpen` assumes `SuccessThreshold <= MaxHalfOpenRequests`, as
  in the default configuration; the constructor does not demand it, and without it
  the breaker can be stuck.
- of the sagas: `SagaIsAtomic`, that every behaviour is one of `AtomicSaga` as far as
  its steps go (`SafeSpec`), and `SagasAreCallers`, that the breaker under them is the
  breaker of the theorems above. `SagaInv` says which steps are in force at each place:
  forward, those before the current one and perhaps that one; compensating, of those
  that have a compensation, only what is still to be undone or was reported failed,
  until a compensation fails. `CallsAreOwed`, that only a saga that runs and does not
  sleep has a call in the breaker, is what makes a late result belong to the current
  attempt. `SagasGetOn` is the part of a saga's termination that needs no fairness: no
  operation is attempted more than `MaxAttempts` times, and every step of a running saga
  brings it closer to its end (`Closer`: fewer phases, then steps, attempts, sleeps).
- of `Load`: `LoadFollowsLayers` (`LoadIsExplained`), for every input. Each pass has a
  lemma that says what it leaves of one setting; composed, they give a value
  and a source (`ConfigIs`); for each way a value can come about there is a layer that may
  decide it, with every layer above it silent or passed over by a named departure
  (`FileGives`, `VariableGives`, `ConfigExplained`). `ConfigsLoaded`, that a process keeps what its `Load` returned, is
  the invariant. It rests on `PlansAssumption`: what a layer can say of a setting.
- of the seeders: `SeededRolesHold` (`RolesAreSeeded`) and `SeedersHeal`
  (`SeedingHeals`). The first needs that a seeder past the lookup deals with a user that
  exists (`UsersExist`), so that no registration gets between DELETE and INSERT, and
  that the roles of whoever has been seeded are among those asked for even there
  (`RolesAreAsked`). `HealInv` adds where a seeder is in its loops, and what it has done
  by then: of rows and assignments whatever others do, because nothing removes them
  (`CatalogDone`), of users as long as it is alone (`UsersDone`, `Alone`). `SeedersHeal`
  assumes that no file gives one user two roles (`OneRoleEach`); the later role would
  replace the earlier one.
- of the flags: `NobodyLosesAFeature` (`NobodyFallsOut`): the bucket of a user is below
  a hundred and the same at both evaluations, and a statement touches one key of one
  table (`OneRowIsSet`).
- `EventsProofs`, of the bus: `PublicationsReachSubscribers` (`PublicationsAreExact`).
  The identity of the arrays is the invariant: the header reaches each active
  subscription once (`HeaderSound`); what a publisher has taken holds nobody who was
  gone (`SnapshotSound`), and as long as no removal disturbs it exactly the registered
  ones, because an append writes beyond its length or into an array of its own
  (`SnapshotExact`). It assumes that no two subscriptions share their code (`CodeOf`);
  with closures that do, it is false (Findings).
- of the notifier: `MessagesArrive` (`MessagesArriveAsAsked`) and `TemplatesRender`
  (`AddedRenders`). `MessageSound` says that a message which is being sent was refused
  by exactly the providers before the current one, and that whoever delivered it is
  among them: an error does not mean that nothing arrived. A provider is listed once
  per channel (`DistinctAssumption`).
- of the calls: `AuditIsComplete` (`AuditTrail`). `CallInv` follows a call inwards and
  outwards through the chain of its binary: what the context holds after each
  interceptor, which calls owe a record (`Owed`), and that a record written later has
  the caller and outcome of its call although tokens expire in between (`Recorded`).
- `HTTPProofs`, of requests and the cache: `TypeCorrect`; `AuthorIsOne` (`OneAuthor`);
  `InvalidationIsFinal` (`InvalidationHolds`). `Authorship` says what the response is at each pair of places
  of its two goroutines; for the cache, every value that is loaded, stored or returned
  is as new as the last invalidation, or marked as overtaken.
- of the WebSocket hub: `HubTypeCorrect`; `OpenWhileClient` (`NoSendOnClosed`);
  `Targeting` (`TargetingIsExact`). The first rests on where a connection's reader can
  be while it is registered: a channel is closed in the step that removes its client,
  and a connection registers once. The second needs the identity of the inner maps:
  no two users have the same, a map that was dropped is never filled again, and what a
  sender holds was its user's map and contains everybody it still owes a visit.
- `AuthSessionsProofs`: `TypeCorrect`; `SpentIsSpent` (`SingleUse`); `LoginsRecorded`
  (`LoginsAreRecorded`); `ForksAreBounded` (`ForksBounded`). The inductive invariant
  of the first is `WellFormed`: types, `RowsWereSent` (a code row and a stored event
  belong to a code that was sent) and `CallsSound` (what a handler holds exists).
  `LoginsAreRecorded` adds `RecordInv`: a login that reached its response without its
  event had the removal of its code fail, so that each code exchanged in that way has a
  failure of its own (`Unlogged`), and a code never comes back once the transaction that
  recorded a login has deleted it (`RecordedAreGone`). It covers a service without an
  outbox, of which the second half demands nothing.
  `SingleUse` adds `RemovalsHold`: a code that was retired is not in the table and a
  retired token is on the blacklist, so that a handler that is presented with it again
  can only be past its expiry. `ForksBounded` keeps an account per credential
  (`Account`): until it is retired, the grants it bought and the handlers a failed
  removal lets through are paid for by failures; from then on nobody new can present it,
  and grants and the handlers that still have it share one bound; this is where
  `Handler` has to be finite.
- `AuthAccountsProofs`: `OwnerGetsTokens` (`IssuedToOwner`); `OwnerStays`
  (`NeverReassigned`); `UsesBounded` (`StateUsesBounded`). The first needs that what a
  callback has read of an identity's owner is in `owners` at every place it can be at,
  and that whoever links an identity enters the history of all callbacks that hold it.
  The last counts: every use of a state beyond the first is by a handler still in its
  callback, or was paid for by a deletion that failed.
- `ServerLifecycleProofs`: `TypeCorrect`; `ResourcesOutlastWork` (`WorkHasResources`);
  `AcceptedFindServers` (`AcceptedIsServed`); `QueueIsQuiet` (`QuietAfterQueueStop`);
  `HooksInPairs` (`HooksArePaired`). The programs of the mains are concatenations, so
  the first lemmas compute which step is at which place. `ServerInv`, `AuthInv` and
  `IdleInv` then say for each main what holds from one place to another (no server
  before its start, nothing in flight after its drain, the database open in between),
  and `HooksInv` counts the calls of hooks at the two loops over the modules, for any
  number of them.
- `MigrationsProofs`: `TypeCorrect`; `TrackerTruth` (`TrackerIsTrue`); `ScriptsRunOnce`
  (`ScriptsMeetTheirSchema`); `ServesMigrated` (`ServingIsMigrated`), for any number of
  processes, modules, migrations, deaths and failures. None is inductive; `IInv` adds
  that who works on a module holds its lock and nobody else does (`LocksSound`), that
  schema and tracker are at each place of its work at the versions its next statement
  needs (`WorkInStep`), and that giving the lock back, or dying with it, leaves at most
  a dirty mark (`IdleInStep`). `ServeInv` adds that the modules a starting process has
  passed are at their latest version unless a rollback excuses them
  (`PassedAreLatest`), and that a rollback that still runs is already noted in the
  history of everybody it could catch (`DownIsNoticed`). Modules that a drop without
  the lock has torn are excused, as in the properties. `NoCircularWait` and
  `CommandsGetOn` are what `CommandsSucceed` rests on besides fairness: who is waited for
  waits for nobody, and every statement of a command brings it closer to its end
  (`Closer`: fewer modules, then stages, scripts, statements).

So every invariant and every action property that a run checks is stated by a theorem.
Model-checked only is liveness, which needs fairness and `ENABLED`
(`EventuallyPublished`, `NoPeriodLasts`, `ConnectionsAreReleased`, `SendersReturn`,
`ExitsWhenTold`, `CommandsSucceed`, `RequestsEnd`, `KeptForAWhile`), and with it the
liveness of the promises behind `ImplementsPromise` and `ImplementsAtomicSaga`; of sagas
and migrations the part of termination that needs neither is proved (above). What
`html/template`, golang-migrate and singleflight do is an assumption of the models.

The type invariant of `AuthAccounts` is a definition no run checks by name, because its
proofs do not need it; that of `EventBus` is a part of `BusInv`.

## Findings

One run ends in a violation, a disagreement of the code with its own comment, which
`PROJECT.json` quotes: a module counted as rolled back that was left as it is
(internal/migration/migration.go:239).

Noted while modelling, without a run of their own. Outbox, queue and bus:

- A full queue loses the event: `Enqueue` fails, the publisher function logs it and
  returns (cmd/server/setup/server.go:107), and the entry is marked, though
  docs/OUTBOX_PATTERN.md:322 says that failed events remain in the outbox.
  `ImplementsPromise` accounts for it as one of the named losses. docs/OUTBOX_PATTERN.md:23
  says events are not lost in a crash; a marked event in the in-memory queue is
  (`dropped` with reason "restart").
- A malformed outbox entry is skipped (internal/outbox/outbox.go:233) but never marked:
  it stays at the head of every batch, and as many of them as a batch holds block
  the table.
- An unsubscribe that overlaps a publication shifts the array it walks
  (internal/events/bus.go:85), so that it can miss a handler that stays registered,
  against the comment at line 93; `PublicationsAreExact` speaks of undisturbed ones.
  Unsubscribe compares code pointers, which closures of one function literal share:
  cancelling one of two `SubscribeKeys` registrations for one event removes the first of
  them. With a shared `CodeOf`, `RegisteredIsActive` fails. No binary calls `Bus.Close`.

Notifier, locales and calls:

- Updating a template fails once anything was rendered, and empties the template it
  was to replace (internal/notifier/template.go:108 says "adds or updates"); adding the
  first template of a set again loses the others.
- The payload docs/NOTIFICATION_SYSTEM.md shows, a `map[string]string`, is refused by the
  subscriber (internal/notifier/subscriber.go:37).
- Only `cmd/server` calls `i18n.Init`; in the other binaries the bundle is nil, so a
  translated message would panic there if an event reached the subscriber. `cmd/auth`
  has no publisher: its `RequestLogin` stores the events of its codes, as the outbox
  repository it is given makes it do (modules/auth/module.go:71), and only another binary
  on the same database sends them. Only the legacy `Initialize` makes a service without
  an outbox (modules/auth/module.go:203), and no binary calls it; `AuthSessions` has both.
- Cookies do not reach the services over HTTP: modules/auth/internal/service/service.go:475
  and :623 count on the gateway to pass `Set-Cookie` and `Cookie`, and the gateway has no
  matcher of its own (cmd/server/setup/gateway.go:27), so that grpc-gateway prefixes both,
  and `Accept-Language` as well.
- "Record metrics for all calls" (cmd/server/setup/server.go:53): the calls the
  interceptors before it refuse are not recorded. The goroutines of the audit log are
  waited for by nobody (`unlogged` in `AuditTrail`).
- `internal/authz` and `internal/errors` are used by no handler of the repository; `Wrap`
  loses the specific code of an error, and `CodeUserSuspended` becomes Internal.
- The verifier of the interceptor expects another issuer than the one the token
  service writes (internal/authn/jwt_verifier.go:69, internal/authtoken/jose.go:84).

Breaker, retry, saga, HTTP path and cache:

- A panic in the function given to `CircuitBreaker.Execute` loses a trial slot for
  the rest of the half-open period; when all are lost the breaker rejects every
  request until `Reset`. `HalfOpenIsTesting` excuses it as `leaked`; without that
  TLC reaches it in nine steps.
- With `MaxAttempts` of 0 or less `Retry` returns nil without calling the function.
- The handler that lost to the timeout goes on writing, and `wroteHeader` is set before
  the header is written, so that an answer can have two authors or none (`raced`); a
  panic in the timeout's goroutine ends the process, no recovery is above it.
- The context of the request that leads a load is the context of all that share it: its
  end fails them all. A load may store what was invalidated while it read.
- The Valkey cache of the binaries is a stub that always fails, so the central counter
  of the rate limiter is never used and lets everybody through to the local one.

WebSocket hub:

- A connection upgraded after `Hub.Stop` is never registered and stays open
  (`StopClosesAll` in `WebSocketHub`), and "Step 1: Stop accepting new connections" of
  `ShutdownServers` does nothing: both servers accept until their own shutdown.
- internal/websocket/handler.go:148-153 lists the query before the header, and the code
  takes the header first. An empty `user_id` in a payload hides its `userId` and makes
  the message a broadcast.

Auth module:

- The check of a contact, an identity or a state and the write that relies on it are
  separate statements throughout the auth module; unique indexes decide the races.
- Logout without `revoke_all` leaves the session row active, and `RefreshSession`
  never looks at sessions: a refresh token survives the revocation of its session.
  `ListSessions` compares a session's id with the jti of the access token: no session
  is ever reported as current. `RevokeAllSessions` revokes the caller's session too,
  though its comment excepts it (modules/auth/internal/service/service.go:1124).
- An OAuth state is deleted at the end of a callback, so overlapping callbacks share it
  (docs/OAUTH_INTEGRATION.md:268 says it is used once); `StateUsesBounded` says how
  often. The check that an unlink leaves a way to log in never applies, because a
  user always has a contact. Tokens and profile of an external account are updated by
  two statements.
- A user who registers with a phone alone is stored with a verified e-mail address, and
  `RequestEmailVerification` marks the e-mail address of such a user as verified too. A
  field that `UpdateProfile` leaves out becomes NULL. Nothing confirms a pending change.
- The cleanup statements of modules/auth/internal/repository/repository.go:829-847 name
  tables without the schema they are in.

Lifecycle, migrations, settings:

- `OnStop` is deferred only after the servers have started: when `OnStartAll` fails
  half way, the modules that did start are not stopped. `cmd/server` goes on without HTTP
  when its port is taken; failed startups exit with status 0.
- `just migrate-down <module>` rolls back everything of every module (justfile:463,
  docs/standards/JUST_COMMANDS_REFERENCE.md:161), and `DownAll` reports success when one
  module of several was rolled back. The down script of the auth module drops a function
  before the triggers that use it, so its rollback always ends in the fallback. An
  interrupted rollback leaves version 0 and dirty, which a later `migrate-down` passes by
  as nothing to do and every start refuses.
- `cmd/auth` keeps its tracker in `schema_migrations`, the other binaries in
  `auth_schema_migrations`, of the same schema; and nothing runs `migrations/shared`,
  which creates the outbox table.
- The order of precedence of docs/ENVIRONMENT.md:7-15 and of the comment on `Load`
  (internal/config/config.go:123-128) is not the one the binaries follow. "`.env` file -
  Overrides system environment variables" (docs/ENVIRONMENT.md:11) is false: `LoadDotenv`
  calls `godotenv.Load` (cmd/server/setup/config.go:18), which sets only what the system
  does not have, so that a variable of the system hides the entry of `.env`, even if it is
  empty. `TestLoad_PriorityOrder` (internal/config/config_test.go:119) does not see it: it
  sets the variables itself to what `.env` is meant to hold, and then looks only at
  settings that the YAML file or a default decides. A file cannot lower a flag or set a number to zero, a silent
  file resets the Valkey database, and a provider named in a file replaces that of the
  environment whole. Each departure has its name in `Configuration`; without any one of
  them TLC finds `LoadIsExplained` violated, `Hidden` by an empty `DB_DSN` of the system
  over one that `.env` gives. What Load logs departs as well: a variable that
  `CaptureSystemEnvVars` does not look at is marked as coming from `.env` (`Mistaken`).
- configs/seeds/dev.yaml has its `users` at the top level, where `AppConfig` does not look
  for them.
- Seeders that overlap can leave a user with two roles, although
  modules/auth/resources/db/seed/auth_seed.go:179 replaces it; the default timezone of a
  user whose seeder ended right after creating it is never set.
- A rollout of 0 per cent is everybody (internal/feature/flags.go:30 says otherwise), one
  of p per cent reaches p + 1 buckets of 100; the rules of a returned copy are the
  manager's (line 145 promises a copy); the SQL manager does not store percentage and
  rules; comparing two lists panics; and no migration creates `system_config`.

## What is not modelled, and why

Inside the modelled components: payloads, codes, signatures and clocks are
abstracted to identity, age or membership; the development bypass code of the
login; the content of responses and messages; ping periods and deadlines of sockets
(a socket may fail at any moment instead); the lengths of retry delays; `Hijack` in the
timeout middleware; the Redis build of the queue; health answers; the subcommands of
`cmd/server` other than migrating and seeding; exit codes; `RunForModule`,
`DownForModule`, `NukeModule` and `NukeAll`, which nothing calls; binaries of different
versions on one database. All binaries of `ServerLifecycle` have the same number of
modules, `cmd/auth` in fact one.

Components without a module are listed in `PROJECT.json` with their reason: a stub (the
Valkey cache, the Kafka bus), pure functions of one request (CORS, logging, headers), a
thin wrapper of a library (the Redis queue, telemetry), tools, generated code and
assets. The generated code is a large part of the repository's lines: of it, only the
statements of the auth module's tables are modelled, in `AuthStore`.

## Plan

What could follow, in order of what can go wrong:

1. A composition of `OutboxPipeline` with `ServerLifecycle`: what the order of the
   shutdown loses, and not only that what it loses is no more than a crash would lose.
2. The publications of `Notifications`, `CacheAside` and `WebSocketHub` over one
   `EventBus`, so that the handlers an overlapping unsubscribe misses have a consequence.
3. `cmd/auth` next to `cmd/server` on one database, with the two trackers, and binaries
   of different versions during a rollout.
4. More of the safety facts that the liveness only TLC checks rests on: measures, as for
   sagas and migrations, that the fair steps of the pipeline and the shutdown decrease.
