-------------------------- MODULE MethodDecorators --------------------------
(***************************************************************************)
(* @Memoize and @Throttle (decorators/custom.ts) on methods called at the  *)
(* same time, inside of requests and outside (core/request-context.ts).    *)
(*                                                                         *)
(* A call is a chain of async functions: what is done before the await of  *)
(* the method is one step, what is done after it another, and others run   *)
(* between them.  A result is known by the call that computed it; times    *)
(* are ages, saturated where the code compares them.                       *)
(***************************************************************************)
EXTENDS Naturals

CONSTANTS
    Asking,     \* calls of the memoized method
    Hook,       \* calls of the throttled method
    InRequest,  \* [Asking -> the request each is part of, None outside of any]
    Argument,   \* [Asking -> its arguments, as JSON]
    Service,    \* [Hook -> the instance it is made on]
    Scope,      \* the memoized method's scope: "global" or "request"
    Ttl,        \* its ttl, in ticks; 0 for none
    Pause,      \* the ms of @Throttle, in ticks
    None

ASSUME MethodAssumption == Scope \in {"global", "request"} /\ Ttl \in Nat /\ Pause \in Nat

VARIABLES
    memo,       \* [the caches, one per request and the global -> entries]
    asking,     \* each call: its step, the cache it chose, whose result it got
    lastCall,   \* [instances -> ticks since lastCallMap's time, up to Pause]
    hooks,      \* each throttled call: idle, running, done or refused
    spacing     \* history: [instances -> ticks since a call last started]

methodVars == <<memo, asking, lastCall, hooks, spacing>>

Caches == {InRequest[c] : c \in Asking} \union {None}
Instances == {Service[h] : h \in Hook}

NotAsked == [at |-> "idle", cache |-> None, from |-> None]

MethodInit ==
    /\ memo = [k \in Caches |-> <<>>]
    /\ asking = [c \in Asking |-> NotAsked]
    /\ lastCall = [i \in Instances |-> Pause] /\ spacing = [i \in Instances |-> Pause]
    /\ hooks = [h \in Hook |-> "idle"]

-----------------------------------------------------------------------------
\* @Memoize.
\* Mutant: one cache for all requests.
CacheOfAll(c) == None

\* The cache of the request, and the global one where there is none.
CacheOf(c) == IF Scope = "request" THEN InRequest[c] ELSE None

\* `age` is the time since the entry was stored.
Fresh(entry) == Ttl = 0 \/ entry.age < Ttl

Hits(c) == Argument[c] \in DOMAIN memo[CacheOf(c)] /\ Fresh(memo[CacheOf(c)][Argument[c]])

\* What is there is returned at once.
Recall(c) ==
    /\ asking[c].at = "idle" /\ Hits(c)
    /\ asking' = [asking EXCEPT ![c] = [at |-> "done", cache |-> CacheOf(c),
                                       from |-> memo[CacheOf(c)][Argument[c]].by]]
    /\ UNCHANGED <<memo, lastCall, hooks, spacing>>

\* Or the method is called, whether or not another call has called it.
Compute(c) ==
    /\ asking[c].at = "idle" /\ ~Hits(c)
    /\ asking' = [asking EXCEPT ![c] = [at |-> "running", cache |-> CacheOf(c), from |-> None]]
    /\ UNCHANGED <<memo, lastCall, hooks, spacing>>

\* Its result is stored over whatever is there by now.
Store(c) ==
    /\ asking[c].at = "running"
    /\ memo' = [memo EXCEPT ![asking[c].cache] =
                   [a \in DOMAIN @ \union {Argument[c]} |->
                       IF a = Argument[c] THEN [by |-> c, age |-> 0] ELSE @[a]]]
    /\ asking' = [asking EXCEPT ![c].at = "done", ![c].from = c]
    /\ UNCHANGED <<lastCall, hooks, spacing>>

\* It throws: nothing is stored.
Throws(c) ==
    /\ asking[c].at = "running"
    /\ asking' = [asking EXCEPT ![c].at = "failed"]
    /\ UNCHANGED <<memo, lastCall, hooks, spacing>>

-----------------------------------------------------------------------------
\* @Throttle.
Begin(h) == hooks' = [hooks EXCEPT ![h] = "running"] /\ spacing' = [spacing EXCEPT ![Service[h]] = 0]

\* The time is taken before the method is called.
CallHook(h) ==
    /\ hooks[h] = "idle" /\ lastCall[Service[h]] >= Pause
    /\ lastCall' = [lastCall EXCEPT ![Service[h]] = 0]
    /\ Begin(h)
    /\ UNCHANGED <<memo, asking>>

RefuseHook(h) ==
    /\ hooks[h] = "idle" /\ lastCall[Service[h]] < Pause
    /\ hooks' = [hooks EXCEPT ![h] = "refused"]
    /\ UNCHANGED <<memo, asking, lastCall, spacing>>

HookEnds(h) ==
    /\ hooks[h] = "running"
    /\ hooks' = [hooks EXCEPT ![h] = "done"]
    /\ UNCHANGED <<memo, asking, lastCall, spacing>>

\* A call that is over may be made again.
AskAgain(c) ==
    /\ asking[c].at \in {"done", "failed"}
    /\ asking' = [asking EXCEPT ![c] = NotAsked]
    /\ UNCHANGED <<memo, lastCall, hooks, spacing>>

HookAgain(h) ==
    /\ hooks[h] \in {"done", "refused"}
    /\ hooks' = [hooks EXCEPT ![h] = "idle"]
    /\ UNCHANGED <<memo, asking, lastCall, spacing>>

\* The clock.
MethodTick ==
    LET older(t, most) == IF t < most THEN t + 1 ELSE t IN
    /\ memo' = [k \in Caches |-> [a \in DOMAIN memo[k] |-> [memo[k][a] EXCEPT !.age = older(@, Ttl)]]]
    /\ lastCall' = [i \in Instances |-> older(lastCall[i], Pause)]
    /\ spacing' = [i \in Instances |-> older(spacing[i], Pause)]
    /\ UNCHANGED <<asking, hooks>>

MemoNext ==
    \/ \E c \in Asking : Recall(c) \/ Compute(c) \/ Store(c) \/ Throws(c) \/ AskAgain(c)
    \/ MethodTick

ThrottleNext ==
    \/ \E h \in Hook : CallHook(h) \/ RefuseHook(h) \/ HookEnds(h) \/ HookAgain(h)
    \/ MethodTick

MethodSpec == MethodInit /\ [][MemoNext \/ ThrottleNext]_methodVars

-----------------------------------------------------------------------------
\* "isolated per request" (README.md): what a call is told was computed for its
\* own arguments and, with scope 'request', in its own request, whatever other
\* requests ask at the same time and whichever stores last.
MemoIsolated ==
    \A c \in Asking : asking[c].at = "done" =>
        /\ Argument[asking[c].from] = Argument[c]
        /\ (Scope = "request" => InRequest[asking[c].from] = InRequest[c])

\* Two calls on one instance start at least the throttle's time apart, though
\* they overlap and take any time.
ThrottleSpaced ==
    [][\A h \in Hook : (hooks[h] # "running" /\ hooks'[h] = "running") => spacing[Service[h]] >= Pause]_methodVars

=============================================================================
