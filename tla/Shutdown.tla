------------------------------ MODULE Shutdown ------------------------------
(***************************************************************************)
(* gracefulShutdown and RequestDrain (utils/shutdown.ts) with              *)
(* Container.shutdown (core/container.ts): the requests that are running,  *)
(* the signals that arrive, and the order in which the process is torn     *)
(* down before it exits.                                                   *)
(*                                                                         *)
(* Timers count down to zero; Tick lets no due timer wait and no           *)
(* continuation that is ready, since microtasks run before timers.         *)
(***************************************************************************)
EXTENDS Naturals, Sequences, FiniteSets, SequencesExt

CONSTANTS
    Request,
    Signal,        \* deliveries of SIGINT or SIGTERM
    Singleton,     \* singletons, each with an @OnModuleDestroy hook
    Boot,          \* those created at start-up, in order
    TimeoutMs,     \* timeoutMs, in ticks
    DrainMounted   \* mountDrain(app) was called, drainRequests is not false

ASSUME ShutdownAssumption ==
    /\ TimeoutMs \in Nat \ {0} /\ DrainMounted \in BOOLEAN
    /\ Boot \in Seq(Singleton) /\ IsInjective(Boot)
    /\ IsFiniteSet(Request)

VARIABLES
    request,       \* each request
    active,        \* RequestDrain.active
    draining,      \* RequestDrain.draining
    shuttingDown,
    step,          \* where the handler of each signal stands
    waiting,       \* handlers whose waiter is in RequestDrain.waiters
    hard, soft,    \* per handler: time left on exit(1) and on the drain
    created,       \* Container.singletons, in insertion order
    todo,          \* per handler: hooks still to run
    destroyed,     \* hook calls, in order
    late,          \* history: those created by no request, once `todo` was taken
    process        \* "up", or how it ended

drain == <<active, draining, waiting>>
timers == <<hard, soft>>
vars == <<request, drain, shuttingDown, step, timers, created, todo, destroyed,
          late, process>>

Steps == {"none", "ignored", "cleanup", "draining", "channels", "destroying"}

Init ==
    /\ request = [r \in Request |-> "new"]
    /\ active = 0 /\ draining = FALSE /\ waiting = {}
    /\ shuttingDown = FALSE
    /\ step = [s \in Signal |-> "none"]
    /\ hard = [s \in Signal |-> TimeoutMs] /\ soft = [s \in Signal |-> TimeoutMs]
    /\ created = Boot
    /\ todo = [s \in Signal |-> <<>>]
    /\ destroyed = <<>> /\ late = <<>>
    /\ process = "up"

Up == process = "up"

-----------------------------------------------------------------------------
(* Requests, through the drain middleware when it is mounted. *)

Arrive(r) ==
    /\ Up /\ request[r] = "new"
    /\ IF DrainMounted /\ draining
         THEN /\ request' = [request EXCEPT ![r] = "refused"]
              /\ UNCHANGED active
         ELSE /\ request' = [request EXCEPT ![r] = "running"]
              /\ active' = IF DrainMounted THEN active + 1 ELSE active
    /\ UNCHANGED <<draining, waiting, shuttingDown, step, timers, created, todo,
                   destroyed, late, process>>

\* A running request resolves a singleton for the first time.
Resolve(r, x) ==
    /\ Up /\ request[r] = "running"
    /\ x \notin Range(created)
    /\ created' = Append(created, x)
    /\ UNCHANGED <<request, drain, shuttingDown, step, timers, todo, destroyed, late, process>>

\* A job, a bus listener, the callback of a stream or an onDestroy hook does: the
\* drain counts none of them.
ResolveElsewhere(x) ==
    /\ Up /\ x \notin Range(created)
    /\ created' = Append(created, x)
    /\ late' = IF \E s \in Signal : step[s] = "destroying" THEN Append(late, x) ELSE late
    /\ UNCHANGED <<request, drain, shuttingDown, step, timers, todo, destroyed, process>>

\* Mutant: the count is compared before it is decremented.
FinishStale(r) ==
    /\ Up /\ request[r] = "running"
    /\ request' = [request EXCEPT ![r] = "done"]
    /\ active' = IF DrainMounted THEN active - 1 ELSE active
    /\ waiting' = IF active = 0 THEN {} ELSE waiting
    /\ UNCHANGED <<draining, shuttingDown, step, timers, created, todo, destroyed,
                   late, process>>

\* The middleware's `finally`: the last request resolves the waiters.  It runs
\* when next() has resolved, so that the callback of a stream may go on after it.
Finish(r) ==
    /\ Up /\ request[r] = "running"
    /\ request' = [request EXCEPT ![r] = "done"]
    /\ active' = IF DrainMounted THEN active - 1 ELSE active
    /\ waiting' = IF active' = 0 THEN {} ELSE waiting
    /\ UNCHANGED <<draining, shuttingDown, step, timers, created, todo, destroyed,
                   late, process>>

-----------------------------------------------------------------------------
(* The signal handler, from await to await. *)

Goto(s, next) == step' = [step EXCEPT ![s] = next]

\* The first signal arms the hard timer and calls onShutdown.
SignalArrives(s) ==
    /\ Up /\ step[s] = "none"
    /\ Goto(s, IF shuttingDown THEN "ignored" ELSE "cleanup")
    /\ shuttingDown' = TRUE
    /\ UNCHANGED <<request, drain, timers, created, todo, destroyed, late, process>>

\* Mutant: drain() returns before it raises the flag when nothing is running.
CleanupEndsUnflagged(s) ==
    /\ Up /\ step[s] = "cleanup"
    /\ Goto(s, IF DrainMounted /\ active > 0 THEN "draining" ELSE "channels")
    /\ draining' = (draining \/ active > 0)
    /\ waiting' = IF active > 0 THEN waiting \cup {s} ELSE waiting
    /\ UNCHANGED <<request, active, shuttingDown, timers, created, todo, destroyed,
                   late, process>>

\* onShutdown resolved: new requests are refused from here on, and the handler
\* waits for those that are running.
CleanupEnds(s) ==
    /\ Up /\ step[s] = "cleanup"
    /\ IF DrainMounted
         THEN /\ draining' = TRUE
              /\ Goto(s, IF active = 0 THEN "channels" ELSE "draining")
              /\ waiting' = IF active = 0 THEN waiting ELSE waiting \cup {s}
         ELSE /\ Goto(s, "channels")
              /\ UNCHANGED <<draining, waiting>>
    /\ UNCHANGED <<request, active, shuttingDown, timers, created, todo, destroyed,
                   late, process>>

\* The waiter of the handler was resolved: its continuation is ready.
Woken(s) == step[s] = "draining" /\ s \notin waiting

\* The race of drain(): the waiter was resolved, or the drain's timer fired.
\* A hard timer that is due fires first, having been armed first.
DrainEnds(s) ==
    /\ Up /\ step[s] = "draining"
    /\ Woken(s) \/ (soft[s] = 0 /\ hard[s] > 0)
    /\ Goto(s, "channels")
    /\ UNCHANGED <<request, drain, shuttingDown, timers, created, todo, destroyed,
                   late, process>>

\* Mutant: the singletons are destroyed in the order they were created.
ChannelsClosedForward(s) ==
    /\ Up /\ step[s] = "channels"
    /\ todo' = [todo EXCEPT ![s] = created]
    /\ Goto(s, "destroying")
    /\ UNCHANGED <<request, drain, shuttingDown, timers, created, destroyed, late, process>>

\* channels.close() resolved; container.shutdown() takes the singletons that
\* exist now, in reverse.
ChannelsClosed(s) ==
    /\ Up /\ step[s] = "channels"
    /\ todo' = [todo EXCEPT ![s] = Reverse(created)]
    /\ Goto(s, "destroying")
    /\ UNCHANGED <<request, drain, shuttingDown, timers, created, destroyed, late, process>>

\* One onDestroy hook.
Destroy(s) ==
    /\ Up /\ step[s] = "destroying"
    /\ todo[s] # <<>>
    /\ destroyed' = Append(destroyed, Head(todo[s]))
    /\ todo' = [todo EXCEPT ![s] = Tail(@)]
    /\ UNCHANGED <<request, drain, shuttingDown, step, timers, created, late, process>>

\* The registrations are cleared and the process exits with code 0.
ExitClean(s) ==
    /\ Up /\ step[s] = "destroying"
    /\ todo[s] = <<>>
    /\ process' = "exit 0"
    /\ UNCHANGED <<request, drain, shuttingDown, step, timers, created, todo, destroyed, late>>

\* onShutdown, channels.close() or a hook throws.
Throw(s) ==
    /\ Up /\ step[s] \in {"cleanup", "channels", "destroying"}
    /\ process' = "exit 1"
    /\ UNCHANGED <<request, drain, shuttingDown, step, timers, created, todo, destroyed, late>>

-----------------------------------------------------------------------------
(* Time. *)

\* Mutant: the hard timer runs from the end of onShutdown.
ArmedLate(s) == step[s] \notin {"none", "ignored", "cleanup"}

\* The hard timer of the handler runs.
Armed(s) == step[s] \notin {"none", "ignored"}

\* A continuation of the handler is ready: its waiter was resolved, or the last
\* hook has ended.
Pending(s) == Woken(s) \/ (step[s] = "destroying" /\ todo[s] = <<>>)

Countdown(timer, s) == IF timer[s] = 0 THEN 0 ELSE timer[s] - 1

Tick ==
    /\ Up
    /\ \E s \in Signal : Armed(s)
    /\ \A s \in Signal : ~(Armed(s) /\ hard[s] = 0) /\ ~Pending(s)
    /\ hard' = [s \in Signal |-> IF Armed(s) THEN Countdown(hard, s) ELSE hard[s]]
    /\ soft' = [s \in Signal |-> IF step[s] = "draining" THEN Countdown(soft, s) ELSE soft[s]]
    /\ UNCHANGED <<request, drain, shuttingDown, step, created, todo, destroyed, late, process>>

\* process.exit(1), timeoutMs after the signal.
ExitForced(s) ==
    /\ Up /\ Armed(s) /\ hard[s] = 0
    /\ \A t \in Signal : ~Pending(t)
    /\ process' = "killed"
    /\ UNCHANGED <<request, drain, shuttingDown, step, timers, created, todo, destroyed, late>>

\* Both timers are unref'd: when what the handler awaits never settles and nothing
\* else keeps the event loop alive (no server, socket or referenced timer), the
\* process ends by itself, with code 0.
LoopEmpties ==
    /\ Up
    /\ \E s \in Signal : Armed(s)
    /\ \A s \in Signal : ~Pending(s)
    /\ process' = "emptied"
    /\ UNCHANGED <<request, drain, shuttingDown, step, timers, created, todo, destroyed, late>>

-----------------------------------------------------------------------------
Next ==
    \/ \E r \in Request : Arrive(r) \/ Finish(r)
    \/ \E r \in Request, x \in Singleton : Resolve(r, x)
    \/ \E x \in Singleton : ResolveElsewhere(x)
    \/ \E s \in Signal :
         \/ SignalArrives(s) \/ CleanupEnds(s) \/ DrainEnds(s)
         \/ ChannelsClosed(s) \/ Destroy(s) \/ ExitClean(s) \/ Throw(s) \/ ExitForced(s)
    \/ Tick \/ LoopEmpties

Spec == Init /\ [][Next]_vars

\* Timers fire, and continuations that are ready run.  Nothing that the
\* application awaits has to end.
FairSpec ==
    Spec /\ WF_vars(Tick \/ \E s \in Signal : DrainEnds(s) \/ ExitClean(s) \/ ExitForced(s))

-----------------------------------------------------------------------------
(* Properties. *)

\* Types of the variables; the drain counts the running requests it let in.
TypeOK ==
    /\ request \in [Request -> {"new", "refused", "running", "done"}]
    /\ active = IF DrainMounted THEN Cardinality({r \in Request : request[r] = "running"})
                                ELSE 0
    /\ draining \in BOOLEAN /\ shuttingDown \in BOOLEAN
    /\ waiting \subseteq Signal
    /\ step \in [Signal -> Steps]
    /\ hard \in [Signal -> 0..TimeoutMs] /\ soft \in [Signal -> 0..TimeoutMs]
    /\ created \in Seq(Singleton) /\ destroyed \in Seq(Singleton)
    /\ todo \in [Signal -> Seq(Singleton)]
    /\ late \in Seq(Singleton)
    /\ process \in {"up", "exit 0", "exit 1", "killed", "emptied"}

\* However many signals arrive, no onDestroy hook is called twice.
DestroyedOnce == IsInjective(destroyed)

\* With a drain, no request is running while the singletons it uses are being
\* destroyed, and none can start.
NoRequestWhileDestroying ==
    DrainMounted /\ (\E s \in Signal : step[s] = "destroying") =>
        \A r \in Request : request[r] # "running"

\* With a drain, process.exit(0) is reached only when every singleton, also one
\* that a request created while the process was shutting down, was destroyed after
\* all those created later (its dependents among them).  What is missing was
\* created by no request, while the others were being destroyed.
CleanExitComplete ==
    DrainMounted /\ process = "exit 0" => created = Reverse(destroyed) \o late

\* The process is not killed, and does not run out of work, while it drains unless
\* a request is still running: the end of the last one is never missed.
LastRequestNoticed ==
    process \in {"killed", "emptied"} /\ (\E s \in Signal : step[s] = "draining") => active > 0

\* Once a signal has arrived the process exits, whatever hangs.
Exits == \A s \in Signal : (step[s] = "cleanup") ~> (process # "up")

-----------------------------------------------------------------------------
(* What the documentation says and the code does not do. *)

\* "Forces `exit(1)` after `timeoutMs` if cleanup hangs", and the drain is
\* "bounded by `timeoutMs`" (utils/shutdown.ts): a request that does not end
\* delays the cleanup until the drain times out, and does not replace it by
\* exit(1).
KilledOnlyInCleanup ==
    process = "killed" => \A s \in Signal : step[s] # "draining"

\* "run `onShutdown`, then `container.shutdown()` [...], then `process.exit(0)`.
\* Forces `exit(1)` after `timeoutMs` if cleanup hangs" (utils/shutdown.ts): the
\* timer is unref'd, so a cleanup that hangs may end with code 0 and nothing
\* destroyed; and a singleton that no request created, while the others were being
\* destroyed, is not.
CodeZeroComplete ==
    DrainMounted /\ process \in {"exit 0", "emptied"} => Range(created) \subseteq Range(destroyed)

=============================================================================
