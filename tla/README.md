# TLA+ models of hono-decorator

Models of this TypeScript library: decorators that turn classes into Hono routes,
with a middleware pipeline, deduplication, caching, real-time channels, resilience,
rate limits, scheduling, dependency injection and graceful shutdown. TLC checks the
models on small instances; TLAPS proves the main invariants for every value of the
constants. `PROJECT.json` maps each definition to the lines it models.

Everything here runs in one JavaScript process per server instance: the code
between two `await`s is atomic, and operations interleave only at the awaits.
That is the granularity of every module: an action is one such segment.

## Inventory

| Component | State | Operations | Hard part | What makes it correct |
|---|---|---|---|---|
| HTTP route handler (`core/route-builder.ts` 847-1030) | static `inflight` map, `inflightCount` per route, idempotency store | lookup, replay, conflict, join, execute, reject, store, answer | concurrent duplicates, remote store that fails, crashes | answers belong to their request; only successes are replayed; an acknowledged success is stored; flights and slots do not leak |
| Route registration and pipeline (`registerRoute`, `respondToError`, `utils/app.ts`) | route table, middleware lists, the context of a request | build, match, middleware, rate limit, guards, validation, channel authorization, handler, filters | order of stages, errors inside error handling, two spellings of a path | a handler runs only behind what its decorators ask for; an error decides the response once; a route is reachable |
| Decorator metadata, OpenAPI, typed client (`decorators/*`, `openapi/generator.ts`, `utils/client.ts`) | a map per class, written at class definition | one writer per decorator; describe, document, build a URL | several decorators share a class's maps; the document is computed beside the chain | what is told of a route is what a request meets |
| Cache (`core/cache.ts`, `@Cache`, `@CacheInvalidate`) | entries with ttl | get, set, purge by prefix | a stale response stored after a purge; check-then-delete in Postgres | a mutation's purge hides what was cached before it |
| Circuit breaker, retry, timeout (`decorators/resilience.ts`, `decorators/interceptor.ts`) | `CircuitState` per instance and method | admit, fail fast, probe, count a failure, close, retry | calls that end out of order across the states of the circuit | the half-open flag has an owner; the open window is respected; calls end |
| In-memory channels (`channels/memory.adapter.ts`, `clients.ts`) | map of channel to Set of clients | subscribe, unsubscribe, publish, close | loops over Sets across awaits while others change them | stable subscribers get every event; nothing that is over stays |
| Redis channels (`channels/redis.adapter.ts`) | local map, the subscription at Redis | the same, plus handleMessage | a subscription and its acknowledgement are apart | the subscription follows the local map |
| SSE and WebSocket routes (`registerRoute` 682-820) | one connection each | connect, subscribe, abort, unsubscribe, dispatch of frames | disconnects during the set-up | every subscription is undone; a frame reaches one side |
| Container and request scope (`core/container.ts`, `core/request-context.ts`) | singletons, factories, resolution stack, scope map | register, resolve, describe, boot, shutdown, runInScope, snapshot, restore | late resolves, async destruction | one instance per scope; destroyed once, dependents first |
| Testing module (`core/testing.ts`) | a snapshot of the container | compile, override, cleanup | overlapping modules | the container is restored |
| Graceful shutdown (`utils/shutdown.ts`) | drain counter and waiters, two timers | request in and out, signal, drain, close, destroy, exit | signals, requests and timers racing | no request runs during destruction; the process exits |
| Scheduler and cron (`core/scheduler.ts`, `core/cron.ts`) | overlap flag and timer per job | start, tick, schedule next, stop | overlap, teardown during a run, a clock that is set | a method does not overlap itself; none starts after stop; a cron goes on |
| Rate limiting (`core/rate-limit.ts`) | window counters, in memory or in Redis | count, reset, clean up, refuse | a crash between INCR and PEXPIRE; removal of entries to bound memory | no two windows let through more than twice `max` |
| Events and bootstrap (`core/events.ts`, `core/lifecycle.ts`) | listener map; classes whose hooks ran | start, emit, tear down; run hooks | several buses on one class, overlapping calls | a bus keeps and removes its own listeners; a hook runs once |
| Method decorators (`decorators/custom.ts`) | `@Memoize` caches, `@Throttle` times | call, store, refuse | overlapping calls, the end of a request | a result stays in its request and with its arguments |
| Health, metrics, pagination | the counts of the metrics | a route each; record | - | a request is counted once |
| Developer UIs, YAML, command line | - | generate text | - | pure |

Interactions: `createApp` mounts what serves every path and builds the module's
controllers into one route table. A request passes the drain middleware, the pipeline
and the handler, which resolves its controller in a request scope of the container. A
`@ChannelRoute` registers its connection with the channel adapter, which services
publish to. Scheduler, event bus and bootstrap collect their classes from the same
modules and resolve them from the container. `gracefulShutdown` drains the requests,
then closes the channels, then has the container destroy its singletons.

## Plan

What is done, in the order it was written; each step is a module, its instance in an
`MC` module, and its proofs in a module of their own.

1. `RouteHandler`, the abstract `SharedExecution`, `RouteRefinement`, `RouteHandlerProofs`.
2. `Resilience`.
3. `MemoryChannels`, `MemoryChannelsProofs`; `RedisChannels`; `Streams`, which composes the
   SSE and WebSocket routes with `RedisChannels`; `WsMessages`; `RedisChannelsProofs` of the
   last three.
4. `Shutdown`.
5. `RouteCache`, `RouteCacheProofs`.
6. `Container`, `Wiring`, `ContainerProofs`.
7. `Scheduler` over `CronTime` and `Modules`; `EventBus`; `Bootstrap`; `LifecycleProofs` of these
   and of `Shutdown`.
8. `Metadata`, `Routes`, `Inputs`, `Errors` and, over them, `Pipeline`; `PipelineProofs`.
9. `RateLimit`, `MethodDecorators`, `LimitsProofs` of these and of `Resilience`.

What is left:

* proofs: every safety property and action property a run checks has one; of those without a
  run, `DestroyedOnce` of `Container`, `FiltersInOrder`, `CountedOnce` and `DuplicatesWarned` of
  `Pipeline`, `ThrottleSpaced` and `PrunedPastMax` have none;
* models: strict DI and `boot()`, several scopes at once in one context; an abstract
  publish-subscribe that both adapters implement as far as they do.

## Modules

### RouteHandler, SharedExecution, RouteRefinement

One route with any combination of `@Idempotent`, `@SingleFlight` and
`@Concurrency`; constants choose it. `pc[r]` is the await at which the handler of
request `r` stands:

| pc | stands before |
|---|---|
| reading, read | the evaluation of `idemAdapter.get`, then the resumption |
| ready | the dispatch of a request without an Idempotency-Key |
| waiting | the resumption of `await existing` |
| running, rejecting | the end of the controller call, or of building the 503 |
| settled | the resumption of `await shared` |
| storing, stored | the effect of `idemAdapter.set`, then its acknowledgement |

`inflight`, `slots` and the in-memory store belong to an instance; a remote store
is shared. A crash empties what belongs to the process and loses its requests. A
request runs the controller at most once, so it names its execution, the
snapshot and the stored entry. A store call that fails does so before or after
its effect. The body hash is the body: equal hashes mean equal bodies. A body that
was consumed upstream, past Hono's cache of it, cannot be hashed (`NoHash`); without a key no
body is read.
`@Cache` and `@Redirect` are in `RouteCache` and `Pipeline`, and so is the pipeline before
the handler.

`SharedExecution` says what deduplication promises, with no keys, stores or
promises; `RouteRefinement` maps the handler to it.

### Resilience

`@Retry` over `@CircuitBreaker` over `@Timeout`, called concurrently on one
instance. The model keeps `openAge = Date.now() - openedAt`, saturated at
`ResetAfter`, so time needs no bound; `failures` grows no further than the
attempts there are. `probe` and `quiet` are history variables: which attempts
passed an open circuit, and how long ago the last failure was.

### MemoryChannels

The map holds Set objects, which have an identity because `publish` keeps one
across awaits while the map drops it and creates another. `Deliver` is the loop
from one awaited send to the next: the clients found dead on the way are
collected, and at its end removed. A client added during the loop is visited,
one that is removed is not, as with a JavaScript `Set`. A Set is iterated in any
order, which covers the insertion order of the code. Each client connects once.

### RedisChannels

One process, one channel. `commands` is what was sent on the `sub` connection
and not executed; `inbox` is what comes back. Commands stay in order, and a
message may be handled before the continuation of a reply that arrived in the
same read (`NextMessage`): the client library emits messages synchronously, but
continuations of replies run as microtasks. Handling of a message is the loop of
`MemoryChannels`. Data that is not JSON, several channels and `close` are left
out; channels share no state in this adapter.

### Streams, WsMessages

`Streams` extends `RedisChannels`: a connection is a client of it, and `stream[c]` says
where its route is: in the handler, waiting for the end of the connection, aborted,
leaving, ended. A step of a route is a step of the adapter or leaves it alone; `owed` is the
queue of those who await the reply to an UNSUBSCRIBE. `onClose` of a socket may run while
its `onOpen` awaits (`early`). `WsMessages` has the frames of one socket with
`@OnWsMessage`: the event of a frame is looked up in the map of the handlers, which a later
entry of the same event replaces; a frame without one goes to the route's own `onMessage`.

### Shutdown

Requests pass the drain middleware; the handler of each signal goes through
onShutdown, drain, channels and destruction. `hard` and `soft` count down to the
`exit(1)` timer and the bound of `drain()`. Both have the length `timeoutMs` and
Node fires timers of one length in the order they were armed, so a due hard
timer goes first. A ready continuation runs before a timer fires (`Pending`). A
request may create a singleton at any time (`Resolve`), and so may what the drain does not
count (`ResolveElsewhere`): a job, a listener, the callback of a stream, an onDestroy hook. `late`
is a history, of those that were so created once `shutdown()` had taken its list. `process`
tells apart four ends: process.exit(0) ("exit 0"), exit(1) after an error ("exit 1"), exit(1) by
the hard timer ("killed"), and the end of a process that has nothing left to do ("emptied",
`LoopEmpties`). The last exists because both timers are unref'd: a cleanup that hangs with
no server, socket or referenced timer left ends with code 0 before the timer fires. Whether
anything is left is not modelled: it may happen whenever no continuation is ready.

### RouteCache

Requests to `@Cache` routes and to a `@CacheInvalidate` route, over the in-memory, the
Redis or the Postgres adapter; `adapter` is chosen initially, so one run covers all.
A response is the number of mutations its handler saw. Remote calls are split where
they take effect; `KEYS` and `DEL` are two steps, and so are Postgres' `SELECT` and its
`DELETE` of an expired row. Calls to remote stores may fail before or after their effect.
`racing` and `before` are history variables: which readers overlapped a mutation, and
which mutations were answered before a reader's lookup. The store of one process is
modelled; with the in-memory adapter, other processes keep theirs.

### Container

`frames` is the call stack of `resolve()`: a frame is a call that runs a constructor or a
factory, `inject` and `body` what it still resolves, `got` what it has. An action is one
call or return, since what happens within `resolve()` is visible to the constructors it
runs; nothing outside runs meanwhile (`Idle`). Constructors are the application's:
`Touches` and `Bodies` say what they resolve, `Failing` which may throw, and any may catch
what its own resolutions throw (`Catch`); an error from an injected dependency is wrapped
(`Escaping`). A request-scoped dependency becomes a proxy (`GiveProxy`), which holds no
instance. Maps keep their insertion order, which `shutdown()` and the teardown of a scope
follow. An instance is a number and `made` its history: what it holds, directly or
through others, and how often it was destroyed. `dropped` are instances whose
registration was taken away: such a class may well have another instance.

`runInScope` is `Enter`, `Finish`, then `Teardown` for each entry, where an onDestroy is
awaited until `HookSettles` or `HookRejects`, then `Leave`. A context that `runInScope`
makes for itself (`own`) is cleared by its end; in one that exists (`Reuses` is false) each
entry is removed as it is visited, while the map may grow. `Compile` overrides one provider and
`Cleanup` restores the maps that were saved.

`Wiring` is `describe()`: a row for each class that is known, with what is missing for its
constructor. Scopes and tokens of the instance are what `Metadata` computes from its decorators,
which `AsDecorated` asserts; `MCBackground` does the same for its plans, hooks and listeners.

Left out: the write guard of `@Stateless`; strict DI and `boot()`; `clear()` from within a
constructor; a scope that starts in a context while another one of that context is being
torn down. `shutdown()` is in Shutdown.

### Scheduler, CronTime, Modules, EventBus, Bootstrap

Three things started beside the routes, each given classes and modules, which
`CollectTargets` of `Modules` resolves. They share no state, so one instance,
`MCBackground`, runs one of the three per behaviour (`part`).

`Scheduler` keeps for each job what remains of its timer (`left`), so that the clock can go
round the calendar for ever; `now` is the wall clock, which may be set (`Adjust`) while timers
count elapsed time. A timer that is due may stay so for any time. `running` is the flag of the
code, `bodies` the history of what really runs. A cron that matches no minute makes
`startScheduler` throw, or, when it is a rescheduling, ends the process by a rejection nobody
catches. `CronTime` parameterises the calendar, so that TLC can go through all of it: the
fields, ranges, steps, the rule for two restricted day fields, and the scan for the next
minute as a recursive function.

`EventBus` has the entries of the shared listener map, each with the call of
`startEventBus` that made it; `Bootstrap` the WeakSet of classes and, for each overlapping
call, the hook it awaits.

### RateLimit, MethodDecorators

`RateLimit` has the limiter in memory (entries per route and visitor, renewed when their
window is over and removed when there are too many) and the one in Redis (INCR, PEXPIRE, PTTL
as three steps, any of which may be lost with its process). Counters are saturated one above
`Max`. `recent` is a history: the ages of the requests let through. `MethodDecorators` has
`@Memoize`, whose call may overlap others of its request, of other requests and of none, and
`@Throttle`. `MCLimits` runs them and `Resilience`, one part per behaviour.

### Metadata, Routes, Inputs, Errors, Pipeline

`Metadata` is what each decorator writes: an operator per decorator, from a class's map to
its map. `Routes` is what `build` and `createApp` make of the metadata: the table of paths in
both spellings, the stages of a route, duplicates and misconfigurations; and beside it what is
*told* of a route: `describe()`, the OpenAPI document, the typed client's URL. A schema
of query or params is a record: with a "shape", its fields, if it is one of an object, without
if it is a union, a record or one that transforms, which is enforced and not documented
(`ShapeOf`). `Inputs` is what the parameter helpers return or throw, those that look at what
`@Validate` made and those that do not, as `Param` by name and without one; `Errors` the
exceptions and what their body says.

`Pipeline` takes one request through the chain of stages that Hono's router gives it. `phase`
is "down" while stages call `next()`, "up" while they return, "offered" while
`respondToError` asks filters, "raised" while an error is on its way out through Hono's
`compose`. Every stage may pass, answer or throw; a middleware may throw after `next()`.
Metadata and the route table are those of the instance: a controller with most of what a
route may have, one of streams behind `@JwtAuth`, one with the root, a HEAD route and two
routes that others have already.

## Runs

| Run | Shows | Bounds |
|---|---|---|
| route_process | one process, in-memory store: `AnswerMatchesRequest`, `NoSlotLeak`; the handler implements `SharedExecution` | 3 requests, 1 key, 2 bodies and unreadable ones, cap 1, a crash, an expiry |
| route_remote | two processes, remote store that may fail: `AcknowledgedIsStored`, `EveryRequestAnswered` | 3 requests, 1 key, `hash: false`, a crash |
| cache_purge | `MutationSeen`: what a request is answered with after a mutation was answered | 3 readers, 1 writer, 2 pages, 2 patterns, ttl 1, maxEntries 1, each adapter |
| channels_loops | `NothingOverStays`, `PublishReachesStable`, `LoopsReturn` | 2 clients, 2 publishes, one of data that cannot be serialized, a close, 3 Sets |
| streams | `RedisFollowsMap`, `EndedIsForgotten`, `HeardAbortEnds`; `FrameToOneSide` | 2 SSE streams, a socket, 1 message, 1 refused command; 4 frames |
| limits | `ProbeAlive`, `WindowRespected`, `EveryCallEnds`; `AtMostTwoWindows`, `StuckMeansLost`; `MemoIsolated` | 3 calls, 2 attempts, threshold 2; 2 routes, 2 visitors, max 2, window 2; 4 memoized calls of 2 requests and none, 3 throttled ones of 2 instances |
| container_resolve | `OneSingleton`, `DependenciesFirst`, `NoCaptive`, `CircularMeansCycle`, `LackIsTold`, `ScopeLeavesNothing` | 6 providers, 4 instances, 2 nested scopes, 1 change of the registrations and its undoing |
| shutdown_drain | `NoRequestWhileDestroying`, `CleanExitComplete`, `LastRequestNoticed`, `Exits` | 3 requests, 2 signals, 3 singletons, 1 of them from the start |
| background | `NoOverlap`, `SilentAfterStop`, `ArmedForNext`, `CronGoesOn`; `BusesApart`; `HooksRunOnce` | 5 classes in modules that import each other; an interval, 3 crons, hours of 2 minutes, days of 2 hours, months of 2 and 1 days, a clock set once; 2 buses, 2 emissions; 2 bootstrap calls |
| pipeline | `GuardedHandler`, `ErrorDecides`, `NotFoundMeansAbsent`, `TruthfulDocument`, `ClientReachesRoute` | 3 controllers, 5 applications, 15 requests through each, 6 errors |
| route_cap | violates `ConcurrencyCap` | 4 requests, cap 1 |
| streams_abort | violates `DisconnectEnds` | as streams |

The comment above each property says what it means and what it is about.

The bounds are the least that let the actors of a race meet with one to spare: a
duplicate, its leader and a later retry; a probe, a call older than the circuit's
opening and a newcomer; a client that leaves, one that arrives and one that stays
while a loop runs; a subscriber, one that joins its Set and one that leaves it.
The container's providers make one cycle possible, one alias, one proxy and one
constructor that reads a request's instance. There is a Set object for the map and for
each operation that can hold one, so a subscriber never lacks one. The calendar of
`background` has both kinds of day field, months of different lengths and a week that is
no divisor of the year, so that every rule of `DayMatches` decides some minute; `MaxDelay` is
longer than any gap, except where the table below shortens it. Requests of the pipeline
share nothing, so one at a time is all there is. Configurations turn the deadlock check off
because clients, calls and requests are finite: the system stops when all are over.

**Fairness.** The event loop runs every continuation that is ready, timers fire,
and awaited store calls, handlers and writes settle; that is all the liveness
runs assume. Arrivals, failures, crashes, disconnects and signals are never
forced. `Exits` does not even assume that onShutdown, requests or hooks end, nor that the
event loop runs empty when they hang.
`CronGoesOn` assumes that the job's method ends: one that hangs ends its own schedule.
`HeardAbortEnds` assumes that Redis replies; `EveryCallEnds` that calls settle or time out.
Teardown and setting the clock are not forced. An application that has two parts of
`MCLimits`, `MCStreams` or `MCBackground` runs them side by side; since they share no state, a
behaviour of one part is one of the whole.

### Disagreements found

Two runs have a counterexample; the property states a sentence of the documentation or a
comment, quoted in `PROJECT.json`.

| Run | Property | What the code does |
|---|---|---|
| route_cap | `ConcurrencyCap` | a request refused with 503 gives back a slot it never took, so more than `max` run afterwards |
| streams_abort | `DisconnectEnds` | a client that disconnects while the handler runs or subscribe is awaited leaves its route waiting for ever: the abort listener is set afterwards |

The modules state more sentences in the same way, which have no run of their own; putting one
in place of the INVARIANTS (or, where said, the PROPERTIES) of the named configuration, without
its SYMMETRY, shows its counterexample.

| Property | Configuration | What the code does |
|---|---|---|
| `AtMostOncePerKey` | `MCRoute_remote` | the flight is removed before the store write takes effect; a duplicate in between executes again |
| `LoserGetsConflict` | `MCRoute_remote`, with two bodies and `HashCheck = TRUE` | concurrent requests with one key and two bodies both execute |
| `SharedAnswerIsStored` | `MCRoute_remote`, with two keys and `SingleFlight` | a joiner's own Idempotency-Key is not stored |
| `LiveIsRegistered` | `MCMemoryChannels_loops` | a publish that holds a replaced Set removes the new one from the map |
| `OnlyDeadRemoved` | `MCMemoryChannels_loops` | data that cannot be serialized unregisters all live clients |
| `CloseReachesRegistered` | `MCMemoryChannels_loops` | a publish that takes a live client for dead, or drops a new Set from the map, hides the client from close() |
| `JoinedIsRegistered` | `MCStreams` | the rollback of a refused SUBSCRIBE drops clients that joined meanwhile |
| `EntryExistsAtAck` | `MCStreams` | the entry is gone when SUBSCRIBE is acknowledged |
| `LeftIsNotRegistered` | `MCStreams` | a client that left while joining is registered afterwards |
| `SingleProbe` | `MCLimits` | an older call's end clears the flag of a running probe and a second one follows |
| `ClosedByProbe` | `MCLimits`, PROPERTIES | an older call's late success closes the circuit |
| `CountersExpire` | `MCLimits` | "only affects a window's first request": a request lost between INCR and PEXPIRE leaves a counter that never expires, and everyone after it is refused, with Retry-After 0 |
| `KilledOnlyInCleanup` | `MCShutdown_drain` | "Forces `exit(1)` after `timeoutMs` if cleanup hangs": the drain's own bound never ends the drain, `exit(1)` comes first |
| `CodeZeroComplete` | `MCShutdown_drain` | "then `container.shutdown()` [...], then `process.exit(0)`. Forces `exit(1)` after `timeoutMs` if cleanup hangs": with nothing else on the event loop a cleanup that hangs ends with code 0 and nothing destroyed, and a singleton that a job or an onDestroy hook creates during the destruction is left out |
| `NoStaleAfterPurge` | `MCRouteCache_purge` | a reader that overlaps a mutation stores the old response after the purge |
| `OnlyExpiredEvicted` | `MCRouteCache_purge`, PROPERTIES | Postgres' DELETE of an expired row removes one stored since |
| `MutationSeen` | `MCRouteCache_purge`, with `SameStore = FALSE` | `@CacheInvalidate` purges the adapter of its own route's `@Cache`, or the default one: pages cached in another adapter stay |
| `NoReuse` | `MCContainer_resolve`, PROPERTIES | "a late resolve must not reuse a destroyed instance": one that comes while its onDestroy is awaited does |
| `OverrideWins` | `MCContainer_resolve`, PROPERTIES | "so the override wins": a singleton built before compile() keeps the original it holds |
| `FactoryReplaces` | `MCContainer_resolve`, with a factory for `session` in `Made` and `Changed = {session}` | "Replace the provider with a factory function": resolve() never asks the factory of a request-scoped class |
| `CircularMeansCycle` | `MCContainer_resolve`, PROPERTIES, with `Distinct[helper] = db` | the stack holds class names: a class is refused as circular because another of the same name is being resolved |
| `DependenciesFirst` | `MCContainer_resolve`, with `key` a singleton that is not `Bare`, `service` given `<<db>>` and `Roots = {service, helper}` | a singleton whose factory returns another one's instance has that instance in the map twice: it is destroyed twice, the first time before what holds it |
| `ArmedForNext` | `MCBackground`, PROPERTIES, with `MaxDelay = 4` | setTimeout takes at most 2^31-1 ms: a minute further away is run, and armed again, at once, over and over |
| `AwaitedMeansReady` | `MCBackground` | a call of runBootstrap that is awaited returns while another one still runs a hook of its classes |
| `HttpExceptionAnswered` | `MCPipeline` | "the route builder handles automatically": an HttpException thrown by onRequestStart, by a requestLogger, by a filter or by a shared execution is answered 500 by Hono |
| `SchemesDefined` | `MCPipeline`, with the scheme declared on the module `main` in place of the controller | "on the controller or module": the document of a module's controllers lacks a scheme declared on the module |
| `ValidatedQueryTold` | `MCPipeline` | "the same schemas are emitted into the generated OpenAPI spec": a query schema that is no object with fields is enforced and no query parameter is documented |
| `ClientReachesRoute` | `MCPipeline`, with the path `:ids/pets/:id` | the client replaces `:id` inside `:ids` when `id` is given first |

Smaller ones, which follow from a definition and have no property: `@Redirect` runs the guards
that its comment says are skipped (`Stages`); `@Public` does not open a route of a class with
`@JwtAuth`, which the README says it does; a cache hit answers 200 whatever `@Status` says
(`Replay`); with trailing slashes added, `/health` and `/openapi.json` redirect to a path that
does not exist (`Mounted`); `meta.status` of an HttpException replaces the HTTP status of a
problem document, and a word there makes the response a 500 (`Problem`, `Respondable`); a ZodError of
`@Serialize` is answered 400, as if the request were wrong (`Handle`); `onError` is not called
for an error a filter has answered (`AnswerError`); a schema that parses to undefined makes
the parameter helpers return the raw input (`Cached` of Inputs); `describe()` tells of an
undecorated class that it is missing, and it resolves (`Row`); an `@ApiDoc` with a query of its
own, written above `@Validate`, drops from the document the query fields that are validated
(`ApiDoc`, hence the exception in `TruthfulDocument`); `Param(c)` without a name returns the raw
parameters of a route that validates them, which the README says ("raw") and `Params` does not do
(`Param`, hence the exception in `GuardedHandler`); a body that cannot be read has no hash, so an
`@Idempotent` route replays a stored response for it whatever was in it (`HashOf`, hence the
exception in `AnswerMatchesRequest`); the callback of a plain `@Sse` route runs on after the
middleware's `next()`, so it does not hold the drain, which the comment above `RequestDrain` says it
does (`Finish`).

## Proofs

TLAPS proves these for every value of the constants that satisfies the named
assumptions of the modules: `ConfigAssumption`, `NamesAssumption`, `TagAssumption`,
`OptionsAssumption`, `ChannelsAssumption`, `RedisAssumption`, `StreamAssumption`,
`FrameAssumption`, `ShutdownAssumption`, `CacheAssumption`, `ContainerAssumption`,
`PlanAssumption`, `PartsAssumption`, `BootAssumption`, `LimitAssumption`,
`MethodAssumption`, `DeclaredAssumption`, `ArgumentsAssumption`, `TreeAssumption`,
`RequestsAssumption`, `ParametersAssumption`, `PathsAssumption`. Each says what kind of value a
constant is, but for two. `ArgumentsAssumption` is about how decorators are used:
`@UseGuards` names a guard, `@Validate` a part, and a method has one `@Validate` (of two, the
later replaces what the earlier would check). `ParametersAssumption` says that the value a
client puts in place of a parameter starts with no colon. TLC evaluates all of them in the
runs. Where a theorem needs more, it is a hypothesis of the theorem and named below.

**Route handler** (`RouteHandlerProofs`)

* `TypeCorrect`: `TypeOK` with one more conjunct, that only a request with a key reads the
  store (`TypeInv`), since `StoredFor` is applied to its key.
* `FlightsExact`: `InflightExact` is inductive with `TypeInv`. The argument has
  a lemma for each way the map changes: a leader files itself where the map had
  nothing; a settled request removes itself; a crash removes a whole process;
  everything else leaves map and open executions alone (`FlightsFrame`).
* `Provenance`, from which `AnswersMatch` and `SuccessReplayed` follow. The two
  properties speak of answers only, so they are not inductive. `ProvenanceInv`
  follows a response back to its execution: an entry in a store, an entry a
  lookup returned, a response being stored and an answer given all stem from a
  success under the same key (an answer also under the same hash, where there are
  two), and a joiner waits for an execution that
  shares its dedupe key. `InflightExact` gives the joining case.
* `AckedIsStored`: while no entry was lost (`Kept`), what a lookup found or a write put
  stays there (`EntriesStay`), so that at the acknowledgement it is (`AckInv`).
* `NoLeak` and `CapHolds`: the count of slots is the number of executions that run, as
  long as no 503 was answered; after one it can only be too low (`SlotInv`). Both properties
  follow, and so does why the cap fails: the 503 gives back what it never took.
* `JoinsOpenOnly`: `NoLateJoin`, an action property, from `InflightExact`.
* `Refinement`: every step of the handler is a step of `SharedExecution` or leaves its state
  alone. The abstract state is a function of the concrete one, so there is a lemma for the
  image of each action; the invariant it needs besides the above is that what a store holds
  and a lookup found is the work of a request that is over (`EntriesOver`).

**Resilience, rate limits, method decorators** (`LimitsProofs`)

* `ProbeOwned` and `FailsFast`: `ProbeAlive` and `WindowRespected` of Resilience,
  from `BreakerInv`: types, `ProbeAlive` itself, and `WindowInv`, that while the circuit is
  open `openedAt` is the time of the last failure. It is inductive because each
  failure at or past the threshold renews `openedAt`, and a success closes.
* `AtMostTwoWindowsHolds`: what was let through for a counter consists of what its present
  window has counted and of no more than `Max` before it (`Fits`); without a counter, of no
  more than `Max` (`Closed`). In memory and in Redis these hold of each counter and the history
  under its key (`MemoryInv`, `RedisInv`), through resets, evictions and lost PEXPIREs alike.
* `StuckMeansLostHolds`: who creates a counter is the one who will set its
  expiry, and the clock, which takes others down, leaves it.
* `MemoIsolatedHolds` of MethodDecorators: an entry of a cache was computed by a call that
  has that cache and those arguments, and a call keeps the cache it chose.

**Channels** (`MemoryChannelsProofs`, `RedisChannelsProofs`)

* `MapForgets`: `NothingOverStays` of MemoryChannels needs that a Set is never that of two
  channels, and that the Set a publish holds is its channel's or nobody's any more (`MapInv`):
  the map may give the channel another Set meanwhile.
* `PublishReaches`: `PublishReachesStable`. Whoever is due and alive has the event or is in
  the Set of the loop and not yet visited (`ReachInv`), which needs that a publish takes nobody
  for dead who is not, unless its data cannot be serialized (`DeadInv`).
* `SubscriptionFollows`: `RedisFollowsMap` of RedisChannels, from the types of the
  command and reply streams and the fact that no reply is an error while no
  command was refused. Each command that is sent comes with the change of the map
  that it announces, in one segment, except in the rollback after an error.
* `NeverPoisoned`: `NotPoisoned`, an entry of the map without a subscription is about to be
  rolled back. The invariant says where the SUBSCRIBE is: the last command, or executed or
  rejected with nothing sent since (`Backed`).
* `EndedForgotten`: `EndedIsForgotten` of Streams. The commands and replies on their way to and
  from Redis are counted (`OnTheWay`): one SUBSCRIBE for a client that is joining, one UNSUBSCRIBE
  for each that awaits its reply; `RouteInv` relates a route's place to its client's.
* `RoutesFollow`: a step of the routes is a step of the adapter or leaves it alone
  (`RoutesCallTheAdapter`), so what was proved of the adapter holds with the routes.
* `EachFrameToOneSide`: `FrameToOneSide` of WsMessages, from what a frame was given to so far,
  as the loop over the handlers goes on (`FrameInv`).

**Shutdown, scheduler, events, bootstrap** (`LifecycleProofs`)

* `RequestsDrained` and `WakeUpsNotLost`: `NoRequestWhileDestroying` and
  `LastRequestNoticed` of Shutdown. A handler gets past the drain only through its
  waiter (`HardFirst`: its own timer never gets ahead of the hard one), the waiter is
  resolved when the count is zero, and the flag raised before keeps it there
  (`Drained`), and no process is killed or runs out of work while a waiter is resolved
  (`WaitsForSome`); the count is exact because `TypeOK` says what it counts.
* `DestroysOnce` and `AllDestroyed`: `DestroyedOnce` and `CleanExitComplete`. Only one
  signal gets past the flag (`OneTeardown`), and what was destroyed followed by what is
  still to be destroyed, reversed, and then those created `late` are the singletons
  (`Teardown`): no request can extend them any more, and whatever else does is recorded.
* `NoOverlapHolds` and `Silence`: `NoOverlap` and `SilentAfterStop` of Scheduler, for any
  calendar, plans and lists. The invariant adds that a stopped scheduler has no timer: what can
  still happen then is that a running method ends, and `ScheduleNext` looks at the flag.
* `ArmedNext`: `ArmedForNext` of Scheduler, when no cron waits longer than a timer can
  (`NoDelayTooLong`). The code does not see to that: for a minute more than 24.8 days ahead Node
  replaces the delay by a millisecond, and the statement is false. `NextCronTime` returns the first
  matching minute, or zero if the horizon has none (`NextMinuteMatching`, by induction over what
  is left to scan), and only a start or a rescheduling sets a cron's timer.
* `BusesStayApart`: `BusesApart` of EventBus: what two calls add is disjoint, since an entry
  names its call.
* `HooksOnce`: `HooksRunOnce` of Bootstrap. A class has one call that runs its hooks
  (`Alone`), which is the one that marked it; what stands before the hook it awaits has ended,
  what stands after has not (`Passed`, `NotBefore`, `After`). `BootAssumption` says that the
  class lists are sequences, which TLC evaluates of what `CollectTargets` returns.

**Cache** (`RouteCacheProofs`)

* `PurgesSeen`: `MutationSeen`, when the routes share the adapter. The
  invariant follows the purge: a page whose pattern was purged holds nothing that
  precedes the mutation, except from readers that raced it (`PurgeInv`); a reader that
  still holds an older reading is one of those (`RaceInv`); between `KEYS` and `DEL`,
  what must go is listed. What a reader found at its lookup inherits this (`FoundInv`).

**Container** (`ContainerProofs`)

* `Invariant`, which gives `TypeCorrect` and `NoTokenTwiceHolds`: the
  frame above another runs what that one asked for (`Runs`), and `resolutionStack` is the
  list of the names of the frames (`NamesInv`), kept by every way out of a call.
  `CircularMeansCycleHolds` reads it backwards, for class names that are distinct.
* `OneSingletonHolds`: what is being resolved has no entry yet (`Absent`), so that a return
  appends; hence a singleton that was not dropped has its entry (`Holding`), and a map has
  one for a token.
* `DependenciesFirstHolds`, when factories of singletons do not return the instance of
  another token (`NoAlias`): an instance holds older ones only, and the newest comes last,
  in the map and in the one a testing module saved (`Ordered`).
* `NoCaptiveHolds`, when factories resolve no request-scoped class (`NoRequestUses`): no
  call has got, no instance holds and no entry of another token is an instance of a
  request (`Free`).
* `ScopeLeavesNothingHolds` and `OwnInstancesOnlyHolds`, of any nesting of scopes (`Tidy`). An
  instance with an `onDestroy` stays in its context's map until it is destroyed
  (`InItsMap`): only a return of the class itself adds an entry under its token, and what is being
  resolved has none (`ScopedAbsent`). The token of an entry is in `prevKeys` exactly if its instance is
  older than the scope (`Nested`), so that the loop skips the old ones and only those; before
  its place all is old, destroyed or without hook (`Passed`). While a loop goes on there is
  no other, and no call is running (`OneLoops`).
* `LackIsToldHolds`, for finitely many tokens, which a program has. `describe()` is a recursion that
  ends, since each step finds a new token (`ReachClosed`), in a set that is closed under what is
  injected (`DescribedClosed`); what a frame asks for is in every such set (`FramesWired`), because it
  was entered by name or is injected into one that is.

**Pipeline** (`PipelineProofs`), for any controllers, decorators in any order, modules,
applications and requests

* `ErrorsDecide`: `ErrorDecides`. An error on its way out remembers whether there was a
  response when it was thrown; coming up it has decided (`ErrorInv`).
* `GuardsBefore`: `GuardedHandler`, in three parts. What the decorators write: after any of
  them a class's metadata is what the set of those applied says (`Learnt`, kept by each,
  `Learning`; `MetaLearnt`). What is built of it: a route's stages end in its handler and have
  before it what is asked for (`StagesShape`), and the chain of a request consists of the
  stages of everybody and whole stages of routes the application keeps (`ChainShape`), so that
  each stage leads to its own handler (`ToItsHandler`). What a request does with it: no
  handler calls next, so those stages are passed on the way to the one handler that is
  reached, and what `@Validate` has passed is on the context (`PassedInv`); a whole value is raw
  only where there is none that was made, or it comes from `Param` (`GotInv`).
* `AbsentOnly`: `NotFoundMeansAbsent`. If a spelling of a route's path matches a spelling of
  the one asked for, one of those registered matches it as it is (`SpellingMatches`), hence the
  chain has the route's handler (`EntryMounted`, `HandlerThere`), and the router answers only
  when a request has passed a chain without one (`RouterInv`).
* `ToldTruly`: `TruthfulDocument`. The body and the query fields that `@Validate` checks are told,
  whatever decorators come before or after it, except a query that an `@ApiDoc` tells itself
  (a query schema without fields has nothing to tell of: `ValidatedQueryTold` is refuted); a scheme is in `security`
  only if `@ApiSecurity` names it (`ToldOf`, kept by each decorator, `ToldKept`). A route's stages
  start with its middlewares and have no others after them, and there are guards exactly if
  some are to be checked (`StagesParts`, which is finer than `StagesShape`); when a handler is
  reached, all before the stages of its route are everybody's, since any other's handler would
  have been met first (`AtHandler`). Document and `describe()` are then compared with that.
* `ClientsReach`: `ClientReachesRoute`, under the hypothesis `NamesApart`: in no path does a
  parameter come after one whose text begins with it, as `:id` after `:ids`. Without it the statement is
  false, as the table of disagreements says; TLC finds `NamesApart` true of the controllers of
  `MCPipeline`. The client replaces one name after another: what is replaced before has become a
  value, what comes later is still itself (`Filled`, `NextFilled`, by induction in
  `AllFilled`), so the path asked for matches segment by segment (`FilledMatches`), and
  `HandlerThere` gives the handler.

What the folds and recursive functions of the pipeline compute is proved by induction over a
set of numbers: a set of naturals that has zero and with each number the next has all (`Induct`,
from the library's least element, `Least`). `Flattened` and `FlatElements` say by it what
`FlattenSeq` returns, `Decorating` what the fold over the decorators is.

Model-checked only: every liveness property, since the prover handles neither fairness nor
ENABLED; what `CollectTargets` and `CollectModule` compute for every module tree, of which the
proofs use only that they are sequences (`BootAssumption`, `TreeAssumption`); and, of those
without a run listed next, `DestroyedOnce` of Container, `ThrottleSpaced`, `PrunedPastMax`,
`FiltersInOrder`, `DuplicatesWarned` and `CountedOnce`.

These hold as well, in the configurations named, and have no run of their own:
`InflightExact`, `OnlySuccessReplayed`, `CapUntilFirstRejection` (`MCRoute_process`),
`NoLateJoin` (`MCRoute_remote`, PROPERTIES),
`NotPoisoned` (`MCStreams`), `ThrottleSpaced` (`MCLimits`, PROPERTIES), `DestroyedOnce`
(`MCShutdown_drain`, `MCContainer_resolve`), `OwnInstancesOnly` (`MCContainer_resolve`,
PROPERTIES), `PrunedPastMax` (`MCRouteCache_purge`, PROPERTIES), `FiltersInOrder`,
`DuplicatesWarned`, `CountedOnce` (`MCPipeline`), and the `TypeOK` of every module.

## Not modelled

The developer UIs, the YAML writer and the command line generate text. Logging, tracing
headers, the layout of documents and schemas and the content of bodies are left out
throughout; `@ValidateResult`, `@Audit`, `@Transform`, `@TrackMetrics` and `@Transaction` keep
no state between calls that another call reads. `boot()` and strict DI, the `close()` of
the Redis adapter, adapters chosen by `channels/registry.ts`, plain `@Sse` and `@WebSocket`
handlers, and pagination are not modelled. `PROJECT.json` lists each component with its state.
