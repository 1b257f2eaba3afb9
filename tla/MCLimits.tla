------------------------------ MODULE MCLimits ------------------------------
(***************************************************************************)
(* What limits the calls of one method: @Retry, @CircuitBreaker and        *)
(* @Timeout, @RateLimit, @Memoize and @Throttle.  They share no state, so  *)
(* that a behaviour of their product is one of each: `part` chooses the    *)
(* one that takes the steps.                                               *)
(***************************************************************************)
EXTENDS Resilience, RateLimit, MethodDecorators, TLC
CONSTANTS c1, c2, c3, list, listed, alice, bob, v1, v2,
          a1, a2, a3, a4, h1, h2, h3, req1, req2, one, two, x, y

\* Two routes of one method name: one key per visitor in Redis.
MethodNames == [r \in {list, listed} |-> "list"]

\* Two calls of a request with the same arguments, one of another request, and
\* one in no request.
Requests == a1 :> req1 @@ a2 :> req1 @@ a3 :> req2 @@ a4 :> None
Arguments == a1 :> x @@ a2 :> x @@ a3 :> x @@ a4 :> y

Instance == h1 :> one @@ h2 :> one @@ h3 :> two

-----------------------------------------------------------------------------
VARIABLE part

allVars == <<part, vars, limitVars, methodVars>>

PartsInit == /\ part \in {"breaker", "memory", "redis", "memo", "throttle"}
             /\ Init /\ LimitInit /\ MethodInit

BreakerStep(A) == part = "breaker" /\ A /\ UNCHANGED <<part, limitVars, methodVars>>
RateStep(p, A) == part = p /\ A /\ UNCHANGED <<part, vars, methodVars>>
MethodStep(p, A) == part = p /\ A /\ UNCHANGED <<part, vars, limitVars>>

PartsNext ==
    \/ BreakerStep(Next)
    \/ RateStep("memory", MemoryNext) \/ RateStep("redis", RedisNext)
    \/ MethodStep("memo", MemoNext) \/ MethodStep("throttle", ThrottleNext)

\* FairSpec, for the part that runs.
PartsSpec ==
    /\ PartsInit /\ [][PartsNext]_allVars
    /\ \A c \in Call : WF_allVars(BreakerStep(at[c] # "idle" /\ Proceed(c)))
=============================================================================
