----------------------------- MODULE Resilience -----------------------------
(***************************************************************************)
(* A service method decorated with @Retry over @CircuitBreaker over        *)
(* @Timeout (decorators/resilience.ts, decorators/interceptor.ts), called  *)
(* concurrently on one instance, so that every call shares one             *)
(* CircuitState.                                                           *)
(*                                                                         *)
(* An attempt is one trip through the breaker.  The segment before the     *)
(* await of the method and the one after it are atomic; attempts of        *)
(* different calls interleave between the two.  Time matters only for      *)
(* resetAfterMs, so the model keeps the age of `openedAt`, saturated at    *)
(* ResetAfter, instead of a clock: no bound on time is needed.  Backoff    *)
(* delays and the timeout's length are any duration.                       *)
(***************************************************************************)
EXTENDS Naturals, FiniteSets

CONSTANTS
    Call,              \* concurrent calls of the method
    FailureThreshold,  \* consecutive failures before the circuit opens
    ResetAfter,        \* resetAfterMs, in ticks
    Attempts           \* @Retry's attempts, 1 when it is absent

ASSUME OptionsAssumption ==
    FailureThreshold \in Nat \ {0} /\ ResetAfter \in Nat /\ Attempts \in Nat \ {0}

VARIABLES
    at,          \* where each call stands
    attempt,     \* the attempt it is in
    failures, openAge, probing,  \* CircuitState; openAge = Date.now() - openedAt
    probe,       \* history: the attempt was let through an open circuit
    quiet        \* history: time since the last failure, saturated

breaker == <<failures, openAge, probing>>
vars == <<at, attempt, failures, openAge, probing, probe, quiet>>

Status == {"idle", "running", "backoff", "ok", "failed"}

Later(age) == IF age < ResetAfter THEN age + 1 ELSE age

\* A fresh state: openedAt is the epoch.
Init ==
    /\ at = [c \in Call |-> "idle"]
    /\ attempt = [c \in Call |-> 1]
    /\ failures = 0 /\ openAge = ResetAfter /\ probing = FALSE
    /\ probe = [c \in Call |-> FALSE]
    /\ quiet = ResetAfter

Goto(c, status) == at' = [at EXCEPT ![c] = status]

IsOpen == failures >= FailureThreshold

-----------------------------------------------------------------------------
\* The call fails fast with CircuitOpenError.
Rejects == IsOpen /\ (openAge < ResetAfter \/ probing)

\* Mutant: a fast failure is retried for free.
RetryFreely(c) ==
    /\ attempt[c] < Attempts
    /\ Goto(c, "backoff")
    /\ UNCHANGED attempt

\* @Retry's catch: wait and try again, or throw the last error.
RetryOrThrow(c) ==
    IF attempt[c] < Attempts
      THEN Goto(c, "backoff") /\ attempt' = [attempt EXCEPT ![c] = @ + 1]
      ELSE Goto(c, "failed") /\ UNCHANGED attempt

\* The method is called, or the backoff timer of a retry fires.
Ready(c) == at[c] \in {"idle", "backoff"}

\* The attempt passes a closed circuit, or an open one as its probe.
Admit(c) ==
    /\ Ready(c)
    /\ ~Rejects
    /\ probing' = (probing \/ IsOpen)
    /\ probe' = [probe EXCEPT ![c] = IsOpen]
    /\ Goto(c, "running")
    /\ UNCHANGED <<attempt, failures, openAge, quiet>>

FailFast(c) ==
    /\ Ready(c)
    /\ Rejects
    /\ RetryOrThrow(c)
    /\ UNCHANGED <<breaker, probe, quiet>>

\* The method resolved: the circuit is closed, whoever the call was.
Succeed(c) ==
    /\ at[c] = "running"
    /\ failures' = 0 /\ openAge' = ResetAfter /\ probing' = FALSE
    /\ Goto(c, "ok")
    /\ UNCHANGED <<attempt, probe, quiet>>

\* Mutant: the window starts when the circuit opens and is not renewed.
CountFailureOnce ==
    /\ failures' = failures + 1
    /\ probing' = FALSE
    /\ openAge' = IF failures' = FailureThreshold THEN 0 ELSE openAge

\* Mutant: the probe's failure leaves the flag up.
CountFailureProbing ==
    /\ failures' = failures + 1
    /\ openAge' = IF failures' >= FailureThreshold THEN 0 ELSE openAge
    /\ UNCHANGED probing

\* The breaker's catch.
CountFailure ==
    /\ failures' = failures + 1
    /\ probing' = FALSE
    /\ openAge' = IF failures' >= FailureThreshold THEN 0 ELSE openAge

\* The method rejected, or @Timeout's timer won the race against it.
Fail(c) ==
    /\ at[c] = "running"
    /\ CountFailure
    /\ quiet' = 0
    /\ RetryOrThrow(c)
    /\ UNCHANGED probe

Tick ==
    /\ openAge' = Later(openAge) /\ quiet' = Later(quiet)
    /\ UNCHANGED <<at, attempt, failures, probing, probe>>

Proceed(c) == Admit(c) \/ FailFast(c) \/ Fail(c)

Next ==
    \/ \E c \in Call : Proceed(c) \/ Succeed(c)
    \/ Tick

Spec == Init /\ [][Next]_vars

\* Timers fire: a retry is made, and an attempt whose method hangs times out.
\* Nobody has to make the call.
FairSpec == Spec /\ \A c \in Call : WF_vars(at[c] # "idle" /\ Proceed(c))

-----------------------------------------------------------------------------
(* Properties. *)

\* Types of the variables.
TypeOK ==
    /\ at \in [Call -> Status]
    /\ attempt \in [Call -> 1..Attempts]
    /\ failures \in Nat /\ openAge \in 0..ResetAfter /\ probing \in BOOLEAN
    /\ probe \in [Call -> BOOLEAN]
    /\ quiet \in 0..ResetAfter

\* The half-open flag always belongs to a probe that is still running and will
\* clear it: the circuit cannot reject for ever because of a flag nobody owns.
ProbeAlive == probing => \E c \in Call : at[c] = "running" /\ probe[c]

\* While the circuit is open nothing reaches the method until resetAfterMs have
\* passed since the last failure, a failed probe's included.
WindowRespected ==
    [][\A c \in Call :
         Ready(c) /\ at'[c] = "running" /\ IsOpen => quiet >= ResetAfter]_vars

\* With a timeout and a bounded number of attempts every call ends, whatever
\* state the circuit is in.
EveryCallEnds == \A c \in Call : (at[c] # "idle") ~> (at[c] \in {"ok", "failed"})

-----------------------------------------------------------------------------
(* What the documentation says and the code does not do. *)

\* "before a single probe is allowed through" (CircuitBreakerOptions): a
\* half-open circuit has one probe in the method at a time.
SingleProbe == Cardinality({c \in Call : at[c] = "running" /\ probe[c]}) <= 1

\* "After `resetAfterMs` one probe goes through: success closes the circuit"
\* (README.md): only the success of a probe closes an open circuit.
ClosedByProbe ==
    [][IsOpen /\ ~IsOpen' =>
         \E c \in Call : at[c] = "running" /\ at'[c] = "ok" /\ probe[c]]_vars

=============================================================================
