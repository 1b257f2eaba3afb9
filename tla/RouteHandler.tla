---------------------------- MODULE RouteHandler ----------------------------
(***************************************************************************)
(* The handler registered for one HTTP route by                            *)
(* HonoRouteBuilder.registerRoute (httpHandler in core/route-builder.ts):  *)
(* @Idempotent replay, deduplication of concurrent requests (@SingleFlight *)
(* and @Idempotent) through the static `inflight` map, and the             *)
(* @Concurrency bulkhead.  The route has no @Cache and no @Redirect.       *)
(*                                                                         *)
(* JavaScript runs one synchronous segment at a time: an action is the     *)
(* code between two awaits of one request, and requests interleave at the  *)
(* awaits.  Server processes (instances) share nothing but the idempotency *)
(* store when it is remote (Redis or Postgres).                            *)
(*                                                                         *)
(* A request runs the controller at most once, so the request itself names *)
(* its execution, the response snapshot of it and the stored entry.        *)
(***************************************************************************)
EXTENDS Integers, FiniteSets

CONSTANTS
    Instance,       \* server processes, each with its own `inflight` map
    Request,        \* requests that clients may send, retries included
    Key,            \* values of the Idempotency-Key header (after `scope`)
    Body,           \* request bodies, told apart by their SHA-256
    Url,            \* path+query variants that map to this route
    NoKey,          \* the header is absent
    NoHash,         \* idemHash === undefined
    None,           \* no entry, no flight, not sent yet
    SharedStore,    \* name of the remote store
    Idempotent,     \* the route has @Idempotent
    SingleFlight,   \* the route has @SingleFlight
    HashCheck,      \* @Idempotent's `hash` option (default true)
    RemoteStore,    \* idemAdapter is Redis or Postgres, not in-memory
    Bulkhead,       \* the route has @Concurrency
    MaxConcurrent,  \* its argument
    MaxCrashes,     \* bound: process crashes
    MaxExpiries     \* bound: entries that outlive their ttl

ASSUME ConfigAssumption ==
    /\ {Idempotent, SingleFlight, HashCheck, RemoteStore, Bulkhead} \subseteq BOOLEAN
    /\ MaxConcurrent \in Nat \ {0}
    /\ MaxCrashes \in Nat /\ MaxExpiries \in Nat

ASSUME NamesAssumption ==
    /\ NoKey \notin Key /\ NoHash \notin Body
    /\ None \notin Request /\ None \notin {"ok", "fail", "throw", "busy"}
    /\ SharedStore \notin Instance

VARIABLES
    pc,         \* where each request's handler stands
    req,        \* what the client sent, None before it arrives
    seen,       \* `hit`: the stored execution a request read, None for a miss
    flight,     \* `existing`: the leader whose promise a request awaits
    inflight,   \* the static map, per instance: dedupe key -> leader
    store,      \* the idempotency store(s): key -> execution replayed for it
    slots,      \* `inflightCount`, per instance
    outcome,    \* how each execution ended
    resp,       \* what each client received
    crashes, expiries

vars == <<pc, req, seen, flight, inflight, store, slots, outcome, resp,
          crashes, expiries>>

-----------------------------------------------------------------------------
(* Requests, keys and stores. *)

\* What a client sends.  The body is NoHash when it cannot be read any more (it was
\* consumed upstream, past Hono's bodyCache), and without a key, which leaves it
\* unread.
RequestInfo ==
    {info \in [inst: Instance, key: Key \cup {NoKey}, body: Body \cup {NoHash}, url: Url] :
        info.key = NoKey => info.body = NoHash}

Phase == {"idle", "reading", "read", "ready", "waiting", "rejecting", "running",
          "settled", "storing", "stored", "done"}

\* "ok" is a 2xx response, "fail" any other response, "throw" a rejected
\* promise, "busy" the 503 of the bulkhead.
Outcome == {"ok", "fail", "throw", "busy"}

\* "fresh": own execution; "shared": the leader's snapshot; "replayed": the
\* stored snapshot; "conflict": 409; "error": the app's error handler; "lost":
\* the process died first.
Answer == [kind: {"fresh", "shared", "replayed", "conflict", "error", "lost"},
           exec: Request \cup {None}]

Keyed(r) == Idempotent /\ req[r].key # NoKey

\* idemHash: equal hashes mean equal bodies; a body that cannot be read has none.
HashOf(r) == IF Keyed(r) /\ HashCheck THEN req[r].body ELSE NoHash

DedupeKey == (Url \X {NoHash}) \cup (Key \X (Body \cup {NoHash}))

\* dedupeKey is not undefined.
Deduped(r) == SingleFlight \/ Keyed(r)

\* The method+url for @SingleFlight, else the idempotency key and body hash.
DedupeKeyOf(r) == IF SingleFlight THEN <<req[r].url, NoHash>>
                                  ELSE <<req[r].key, HashOf(r)>>

\* adapterFor: one store per process, or one for all of them.
StoreOf(i) == IF RemoteStore THEN SharedStore ELSE i

StoredFor(r) == store[StoreOf(req[r].inst)][req[r].key]

\* Executions holding the route on instance i: past the bulkhead check, before
\* the `finally` that gives the slot back.
Running(i) == {r \in Request : pc[r] = "running" /\ req[r].inst = i}

Init ==
    /\ pc = [r \in Request |-> "idle"]
    /\ req = [r \in Request |-> None]
    /\ seen = [r \in Request |-> None]
    /\ flight = [r \in Request |-> None]
    /\ inflight = [i \in Instance |-> [d \in DedupeKey |-> None]]
    /\ store = [s \in Instance \cup {SharedStore} |-> [k \in Key |-> None]]
    /\ slots = [i \in Instance |-> 0]
    /\ outcome = [r \in Request |-> None]
    /\ resp = [r \in Request |-> None]
    /\ crashes = 0 /\ expiries = 0

\* The handler of r stops at its next await.
Goto(r, phase) == pc' = [pc EXCEPT ![r] = phase]

\* The handler of r returns (or rejects): the client has its answer.
Reply(r, kind, e) ==
    /\ Goto(r, "done")
    /\ resp' = [resp EXCEPT ![r] = [kind |-> kind, exec |-> e]]

-----------------------------------------------------------------------------
(* Before the execution: the idempotency lookup. *)

\* The request reaches httpHandler and its body is hashed; the next segment is
\* the store lookup, or the dispatch when no Idempotency-Key applies.
Arrive(r) ==
    /\ pc[r] = "idle"
    /\ \E info \in RequestInfo :
         /\ req' = [req EXCEPT ![r] = info]
         /\ Goto(r, IF Idempotent /\ info.key # NoKey THEN "reading" ELSE "ready")
    /\ UNCHANGED <<seen, flight, inflight, store, slots, outcome, resp, crashes, expiries>>

\* idemAdapter.get evaluated at the store; the handler resumes later.
IdemGet(r) ==
    /\ pc[r] = "reading"
    /\ seen' = [seen EXCEPT ![r] = StoredFor(r)]
    /\ Goto(r, "read")
    /\ UNCHANGED <<req, flight, inflight, store, slots, outcome, resp, crashes, expiries>>

\* A remote lookup rejects: nothing was executed.
IdemGetFails(r) ==
    /\ RemoteStore
    /\ pc[r] = "reading"
    /\ Reply(r, "error", None)
    /\ UNCHANGED <<req, seen, flight, inflight, store, slots, outcome, crashes, expiries>>

\* Mutant: the stored hash is never compared.
HashIgnored(r, e) == FALSE

\* snap.requestHash and idemHash are both defined and differ.
HashConflict(r, e) ==
    /\ HashOf(r) # NoHash
    /\ HashOf(e) # NoHash
    /\ HashOf(r) # HashOf(e)

\* 409 for the same key with another body.
Conflict(r) ==
    /\ pc[r] = "read"
    /\ seen[r] # None
    /\ HashConflict(r, seen[r])
    /\ Reply(r, "conflict", None)
    /\ UNCHANGED <<req, seen, flight, inflight, store, slots, outcome, crashes, expiries>>

\* The stored snapshot is restored.
Replay(r) ==
    /\ pc[r] = "read"
    /\ seen[r] # None
    /\ ~HashConflict(r, seen[r])
    /\ Reply(r, "replayed", seen[r])
    /\ UNCHANGED <<req, seen, flight, inflight, store, slots, outcome, crashes, expiries>>

-----------------------------------------------------------------------------
(* The dispatch: join the flight of the dedupe key or execute. *)

CanDispatch(r) ==
    \/ pc[r] = "ready"
    \/ pc[r] = "read" /\ seen[r] = None

FlightOf(r) == inflight[req[r].inst][DedupeKeyOf(r)]

\* Await the promise another request registered under the same dedupe key.
Join(r) ==
    /\ CanDispatch(r)
    /\ Deduped(r) /\ FlightOf(r) # None
    /\ flight' = [flight EXCEPT ![r] = FlightOf(r)]
    /\ Goto(r, "waiting")
    /\ UNCHANGED <<req, seen, inflight, store, slots, outcome, resp, crashes, expiries>>

\* execute() runs up to its first await before inflight.set, in one segment.
Lead(r) ==
    /\ CanDispatch(r)
    /\ Deduped(r) => FlightOf(r) = None
    /\ inflight' = IF Deduped(r)
                     THEN [inflight EXCEPT ![req[r].inst][DedupeKeyOf(r)] = r]
                     ELSE inflight
    /\ UNCHANGED <<req, seen, flight, store, outcome, resp, crashes, expiries>>

\* inflightCount >= max.
Saturated(i) == Bulkhead /\ slots[i] >= MaxConcurrent

\* The bulkhead lets the execution through and the controller method is called.
Execute(r) ==
    /\ Lead(r)
    /\ ~Saturated(req[r].inst)
    /\ slots' = IF Bulkhead THEN [slots EXCEPT ![req[r].inst] = @ + 1] ELSE slots
    /\ Goto(r, "running")

\* The bulkhead throws 503; respondToError is awaited before the `finally`.
Reject(r) ==
    /\ Lead(r)
    /\ Saturated(req[r].inst)
    /\ Goto(r, "rejecting")
    /\ UNCHANGED slots

-----------------------------------------------------------------------------
(* The end of the execution and of the handler. *)

\* The `finally` of execute(): it gives back a slot whether or not one was taken.
Release(i) == slots' = IF Bulkhead THEN [slots EXCEPT ![i] = @ - 1] ELSE slots

\* Mutant: the slot is given back on success only, not in a `finally`.
SettleLeaky(r) ==
    /\ pc[r] = "running"
    /\ \E o \in Outcome \ {"busy"} :
         /\ outcome' = [outcome EXCEPT ![r] = o]
         /\ IF o = "ok" THEN Release(req[r].inst) ELSE UNCHANGED slots
    /\ Goto(r, "settled")
    /\ UNCHANGED <<req, seen, flight, inflight, store, resp, crashes, expiries>>

\* The controller method, serialisation and error filters are over.
Settle(r) ==
    /\ pc[r] = "running"
    /\ \E o \in Outcome \ {"busy"} : outcome' = [outcome EXCEPT ![r] = o]
    /\ Release(req[r].inst)
    /\ Goto(r, "settled")
    /\ UNCHANGED <<req, seen, flight, inflight, store, resp, crashes, expiries>>

\* The 503 is built and the same `finally` runs.
SettleRejected(r) ==
    /\ pc[r] = "rejecting"
    /\ outcome' = [outcome EXCEPT ![r] = "busy"]
    /\ Release(req[r].inst)
    /\ Goto(r, "settled")
    /\ UNCHANGED <<req, seen, flight, inflight, store, resp, crashes, expiries>>

\* inflight.delete(dedupeKey), in a `finally`.
CloseFlight(r) ==
    inflight' = IF Deduped(r)
                  THEN [inflight EXCEPT ![req[r].inst][DedupeKeyOf(r)] = None]
                  ELSE inflight

\* Only a successful response under an Idempotency-Key is kept.
Storable(r) == Keyed(r) /\ outcome[r] = "ok"

PutEntry(r) == store' = [store EXCEPT ![StoreOf(req[r].inst)][req[r].key] = r]

\* The leader (or a request that is not deduplicated) resumes with a response
\* that is not stored, or with the rejection.
Return(r) ==
    /\ pc[r] = "settled"
    /\ ~Storable(r)
    /\ CloseFlight(r)
    /\ IF outcome[r] = "throw" THEN Reply(r, "error", r) ELSE Reply(r, "fresh", r)
    /\ UNCHANGED <<req, seen, flight, store, slots, outcome, crashes, expiries>>

\* The leader resumes with a response to keep.  The in-memory adapter stores it
\* in the same segment; a remote one is sent the write.
Keep(r) ==
    /\ pc[r] = "settled"
    /\ Storable(r)
    /\ CloseFlight(r)
    /\ IF RemoteStore THEN Goto(r, "storing") /\ UNCHANGED store
                      ELSE Goto(r, "stored") /\ PutEntry(r)
    /\ UNCHANGED <<req, seen, flight, slots, outcome, resp, crashes, expiries>>

\* A remote write takes effect at the store.
StorePut(r) ==
    /\ pc[r] = "storing"
    /\ PutEntry(r)
    /\ Goto(r, "stored")
    /\ UNCHANGED <<req, seen, flight, inflight, slots, outcome, resp, crashes, expiries>>

\* Mutant: a failed write is swallowed.
StoreFailsSilently(r) ==
    /\ RemoteStore
    /\ pc[r] \in {"storing", "stored"}
    /\ Reply(r, "fresh", r)
    /\ UNCHANGED <<req, seen, flight, inflight, store, slots, outcome, crashes, expiries>>

\* A remote write rejects, before or after it took effect: the handler throws.
StoreFails(r) ==
    /\ RemoteStore
    /\ pc[r] \in {"storing", "stored"}
    /\ Reply(r, "error", r)
    /\ UNCHANGED <<req, seen, flight, inflight, store, slots, outcome, crashes, expiries>>

\* The write is acknowledged and the leader answers.
Respond(r) ==
    /\ pc[r] = "stored"
    /\ Reply(r, "fresh", r)
    /\ UNCHANGED <<req, seen, flight, inflight, store, slots, outcome, crashes, expiries>>

\* Mutant: a caller that joined waits for the stored entry, not for the promise.
WaiterResumeOnEntry(r) ==
    /\ pc[r] = "waiting"
    /\ StoredFor(r) # None
    /\ Reply(r, "shared", flight[r])
    /\ UNCHANGED <<req, seen, flight, inflight, store, slots, outcome, crashes, expiries>>

\* Mutant: a caller that joined does not wait for its leader.
WaiterResumeEarly(r) ==
    /\ pc[r] = "waiting"
    /\ Reply(r, "shared", flight[r])
    /\ UNCHANGED <<req, seen, flight, inflight, store, slots, outcome, crashes, expiries>>

\* A caller that joined resumes after its leader: the leader awaited the same
\* promise first.
WaiterResume(r) ==
    /\ pc[r] = "waiting"
    /\ pc[flight[r]] \in {"storing", "stored", "done"}
    /\ IF outcome[flight[r]] = "throw" THEN Reply(r, "error", flight[r])
                                       ELSE Reply(r, "shared", flight[r])
    /\ UNCHANGED <<req, seen, flight, inflight, store, slots, outcome, crashes, expiries>>

-----------------------------------------------------------------------------
(* The environment. *)

\* The process dies and is started again: its requests are lost, its memory is
\* empty; only a remote store survives.
Crash(i) ==
    LET lost == {r \in Request : pc[r] \notin {"idle", "done"} /\ req[r].inst = i} IN
    /\ crashes < MaxCrashes
    /\ crashes' = crashes + 1
    /\ pc' = [r \in Request |-> IF r \in lost THEN "done" ELSE pc[r]]
    /\ resp' = [r \in Request |-> IF r \in lost THEN [kind |-> "lost", exec |-> None]
                                                ELSE resp[r]]
    /\ inflight' = [inflight EXCEPT ![i] = [d \in DedupeKey |-> None]]
    /\ store' = [store EXCEPT ![i] = [k \in Key |-> None]]
    /\ slots' = [slots EXCEPT ![i] = 0]
    /\ UNCHANGED <<req, seen, flight, outcome, expiries>>

\* An entry's ttl is over: the next lookup drops it (lazily) and misses.
Expire(s, k) ==
    /\ store[s][k] # None
    /\ expiries < MaxExpiries
    /\ expiries' = expiries + 1
    /\ store' = [store EXCEPT ![s][k] = None]
    /\ UNCHANGED <<pc, req, seen, flight, inflight, slots, outcome, resp, crashes>>

-----------------------------------------------------------------------------
\* Every segment of the handler of r after it arrived.
Continue(r) ==
    \/ IdemGet(r) \/ Conflict(r) \/ Replay(r)
    \/ Join(r) \/ Execute(r) \/ Reject(r)
    \/ Settle(r) \/ SettleRejected(r)
    \/ Return(r) \/ Keep(r) \/ StorePut(r) \/ Respond(r) \/ WaiterResume(r)

StoreError(r) == IdemGetFails(r) \/ StoreFails(r)

Next ==
    \/ \E r \in Request : Arrive(r) \/ Continue(r) \/ StoreError(r)
    \/ \E i \in Instance : Crash(i)
    \/ \E s \in Instance \cup {SharedStore}, k \in Key : Expire(s, k)

\* The event loop runs every continuation that is ready; handlers and store
\* calls end.  Requests need not arrive, and nothing has to fail.
Fairness == \A r \in Request : WF_vars(Continue(r))

Spec == Init /\ [][Next]_vars

FairSpec == Spec /\ Fairness

-----------------------------------------------------------------------------
(* Properties. *)

\* Types of the variables; a request has its data once it has arrived.
TypeOK ==
    /\ pc \in [Request -> Phase]
    /\ req \in [Request -> RequestInfo \cup {None}]
    /\ seen \in [Request -> Request \cup {None}]
    /\ flight \in [Request -> Request \cup {None}]
    /\ inflight \in [Instance -> [DedupeKey -> Request \cup {None}]]
    /\ store \in [Instance \cup {SharedStore} -> [Key -> Request \cup {None}]]
    /\ slots \in [Instance -> Int]
    /\ outcome \in [Request -> Outcome \cup {None}]
    /\ resp \in [Request -> Answer \cup {None}]
    /\ crashes \in 0..MaxCrashes /\ expiries \in 0..MaxExpiries
    /\ \A r \in Request : pc[r] # "idle" => req[r] \in RequestInfo

\* A leader between its dispatch and the resumption that removes its promise.
Open(r) == pc[r] \in {"rejecting", "running", "settled"}

\* The in-flight map holds exactly the open executions of deduplicated requests,
\* each under its own instance and key: no two executions of one key overlap in
\* a process, and no settled promise is left behind for later requests to join
\* (route-builder.ts, `inflight.set` / `finally { inflight.delete }`).
InflightExact ==
    /\ \A r \in Request : Open(r) /\ Deduped(r) => FlightOf(r) = r
    /\ \A i \in Instance, d \in DedupeKey, e \in Request :
         inflight[i][d] = e =>
             Open(e) /\ Deduped(e) /\ req[e].inst = i /\ DedupeKeyOf(e) = d

\* A client that is given the response of somebody else's execution sent what
\* that execution was run for: the same key (and body, when both bodies were
\* hashed, which a request that joins a running execution can rely on), or the same
\* URL when the route is @SingleFlight.
AnswerMatchesRequest ==
    \A r \in Request :
        resp[r] # None /\ resp[r].exec # None /\ resp[r].exec # r =>
            LET e == resp[r].exec
                replayed == resp[r].kind = "replayed"
                unhashed == NoHash \in {HashOf(r), HashOf(e)}
            IN  IF replayed \/ ~SingleFlight
                  THEN /\ req[e].key = req[r].key
                       /\ HashOf(e) = HashOf(r) \/ (replayed /\ unhashed)
                  ELSE req[e].url = req[r].url /\ req[e].inst = req[r].inst

\* Only a 2xx is ever replayed under an Idempotency-Key: "a failed attempt must
\* be retried, not replayed".
OnlySuccessReplayed ==
    /\ \A r \in Request :
         resp[r] # None /\ resp[r].kind = "replayed" => outcome[resp[r].exec] = "ok"
    /\ \A s \in DOMAIN store, k \in Key :
         store[s][k] # None => outcome[store[s][k]] = "ok"

\* A request joins an execution only while that execution is open, so a failure
\* is shared with concurrent callers and never with a later retry.
NoLateJoin ==
    [][\A r \in Request : pc[r] # "waiting" /\ pc'[r] = "waiting" => Open(flight'[r])]_vars

\* Once a 2xx has been answered under an Idempotency-Key, the store answers that
\* key, so no retry runs the controller again: unless the entry expired, or the
\* process that kept it in memory died.
AcknowledgedIsStored ==
    expiries = 0 /\ (RemoteStore \/ crashes = 0) =>
        \A r \in Request :
            resp[r] # None /\ resp[r].kind \in {"fresh", "replayed"} /\ Keyed(r)
              /\ outcome[resp[r].exec] = "ok" => StoredFor(r) # None

\* The bulkhead never loses capacity: it counts no more executions than are
\* running, so a 503 is only given when the route really is full.
NoSlotLeak == \A i \in Instance : slots[i] <= Cardinality(Running(i))

\* The bulkhead caps the executions of a process as long as it has not answered
\* a 503 (see ConcurrencyCap for what happens then).
CapUntilFirstRejection ==
    \A i \in Instance :
        Bulkhead /\ (\A r \in Request : outcome[r] = "busy" => req[r].inst # i)
            => Cardinality(Running(i)) <= MaxConcurrent

\* Every request that arrives is answered (or its process dies): no caller waits
\* on a flight that nobody will finish.
EveryRequestAnswered ==
    \A r \in Request : (pc[r] # "idle") ~> (pc[r] = "done")

-----------------------------------------------------------------------------
(* What the documentation says and the code does not do. *)

\* @Concurrency, "cap concurrent executions of this route to `n`"
\* (decorators/guard.ts).
ConcurrencyCap ==
    Bulkhead => \A i \in Instance : Cardinality(Running(i)) <= MaxConcurrent

SameRequest(r, e) == Keyed(r) /\ Keyed(e) /\ req[r].key = req[e].key

\* @Idempotent, "only one handler execution happens" (decorators/interceptor.ts)
\* and "exactly-once semantics in a multi-instance deployment" (core/cache.ts):
\* no two successful executions for one key and body.
AtMostOncePerKey ==
    \A r, e \in Request :
        outcome[r] = "ok" /\ outcome[e] = "ok" /\ SameRequest(r, e)
          /\ req[r].body = req[e].body => r = e

\* "the loser hits the stored entry -> 409" (comment at the dedupe key in
\* core/route-builder.ts): one key is not executed successfully for two bodies.
LoserGetsConflict ==
    \A r, e \in Request :
        outcome[r] = "ok" /\ outcome[e] = "ok" /\ SameRequest(r, e) =>
            req[r].body = req[e].body

\* "the first successful response is stored ... and replayed for repeats of the
\* same key - including concurrent duplicates" (README.md): a client that got a
\* shared 2xx under its key may retry that key safely.
SharedAnswerIsStored ==
    \A r \in Request :
        resp[r] # None /\ resp[r].kind = "shared" /\ Keyed(r)
          /\ outcome[resp[r].exec] = "ok" => StoredFor(r) # None

=============================================================================
