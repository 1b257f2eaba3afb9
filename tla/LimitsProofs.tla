---------------------------- MODULE LimitsProofs ----------------------------
(***************************************************************************)
(* What limits the calls of a method: the half-open probe and the window   *)
(* of the circuit breaker, the counters of the rate limiter, the isolation *)
(* of @Memoize, for all routes, visitors, requests, calls and bounds.      *)
(***************************************************************************)
EXTENDS Resilience, RateLimit, MethodDecorators, SequenceTheorems, FiniteSetTheorems, TLAPS

-----------------------------------------------------------------------------
(* Resilience. *)

\* Age of the window: while the circuit is open, openedAt is the time of the
\* last failure.
WindowInv == IsOpen => openAge = quiet

BreakerInv == TypeOK /\ ProbeAlive /\ WindowInv

\* Ageing keeps an age in its range (`Date.now() - s.openedAt`, saturated).
LEMMA LaterType == ASSUME NEW age \in 0..ResetAfter PROVE Later(age) \in 0..ResetAfter
  BY OptionsAssumption DEF Later

\* The catch of @Retry leaves the positions and the attempt numbers well typed.
LEMMA RetryType ==
    ASSUME TypeOK, NEW c \in Call, RetryOrThrow(c)
    PROVE  at' \in [Call -> Status] /\ attempt' \in [Call -> 1..Attempts]
  <1>1. CASE attempt[c] < Attempts
    <2>1. attempt[c] + 1 \in 1..Attempts
      BY <1>1, OptionsAssumption DEF TypeOK
    <2> QED BY <1>1, <2>1 DEF RetryOrThrow, Goto, TypeOK, Status
  <1>2. CASE ~(attempt[c] < Attempts)
    BY <1>2 DEF RetryOrThrow, Goto, TypeOK, Status
  <1> QED BY <1>1, <1>2

\* A fresh CircuitState satisfies the invariant.
LEMMA BreakerInit == Init => BreakerInv
  <1> SUFFICES ASSUME Init PROVE BreakerInv OBVIOUS
  <1>1. TypeOK
    <2>1. 1 \in 1..Attempts BY OptionsAssumption
    <2>2. at \in [Call -> Status] /\ attempt \in [Call -> 1..Attempts]
      BY <2>1 DEF Init, Status
    <2>3. failures \in Nat /\ openAge \in 0..ResetAfter /\ quiet \in 0..ResetAfter
      BY OptionsAssumption DEF Init
    <2>4. probing \in BOOLEAN /\ probe \in [Call -> BOOLEAN] BY DEF Init
    <2> QED BY <2>2, <2>3, <2>4 DEF TypeOK
  <1>2. ProbeAlive /\ WindowInv BY DEF Init, ProbeAlive, WindowInv
  <1> QED BY <1>1, <1>2 DEF BreakerInv

\* Every step of every call, and of time, keeps the types.
LEMMA BreakerTypeStep == TypeOK /\ [Next]_vars => TypeOK'
  <1> SUFFICES ASSUME TypeOK, [Next]_vars PROVE TypeOK' OBVIOUS
  <1>1. ASSUME NEW c \in Call, Admit(c) PROVE TypeOK'
    BY <1>1 DEF Admit, Goto, IsOpen, TypeOK, Status
  <1>2. ASSUME NEW c \in Call, FailFast(c) PROVE TypeOK'
    BY <1>2, RetryType DEF FailFast, TypeOK, breaker
  <1>3. ASSUME NEW c \in Call, Fail(c) PROVE TypeOK'
    <2>1. at' \in [Call -> Status] /\ attempt' \in [Call -> 1..Attempts]
      BY <1>3, RetryType DEF Fail
    <2>2. failures' \in Nat /\ openAge' \in 0..ResetAfter /\ quiet' \in 0..ResetAfter
      BY <1>3, OptionsAssumption DEF Fail, CountFailure, TypeOK
    <2>3. probing' \in BOOLEAN /\ probe' \in [Call -> BOOLEAN]
      BY <1>3 DEF Fail, CountFailure, TypeOK
    <2> QED BY <2>1, <2>2, <2>3 DEF TypeOK
  <1>4. ASSUME NEW c \in Call, Succeed(c) PROVE TypeOK'
    <2>1. at' \in [Call -> Status] /\ attempt' \in [Call -> 1..Attempts]
      BY <1>4 DEF Succeed, Goto, TypeOK, Status
    <2>2. failures' \in Nat /\ openAge' \in 0..ResetAfter /\ quiet' \in 0..ResetAfter
      BY <1>4, OptionsAssumption DEF Succeed, TypeOK
    <2>3. probing' \in BOOLEAN /\ probe' \in [Call -> BOOLEAN]
      BY <1>4 DEF Succeed, TypeOK
    <2> QED BY <2>1, <2>2, <2>3 DEF TypeOK
  <1>5. CASE Tick
    BY <1>5, LaterType DEF Tick, TypeOK
  <1>6. CASE UNCHANGED vars
    BY <1>6 DEF vars, breaker, TypeOK
  <1> QED BY <1>1, <1>2, <1>3, <1>4, <1>5, <1>6 DEF Next, Proceed

\* The half-open flag is raised only with a probe, and lowered by whichever
\* attempt ends: its owner is still running while it is up.
LEMMA ProbeStep == TypeOK /\ ProbeAlive /\ [Next]_vars => ProbeAlive'
  <1> SUFFICES ASSUME TypeOK, ProbeAlive, [Next]_vars, probing'
               PROVE  \E c \in Call : at'[c] = "running" /\ probe'[c]
    BY DEF ProbeAlive
  <1>1. ASSUME NEW c \in Call, Admit(c)
        PROVE  \E d \in Call : at'[d] = "running" /\ probe'[d]
    <2>1. CASE IsOpen
      BY <1>1, <2>1 DEF Admit, Goto, TypeOK
    <2>2. CASE ~IsOpen
      <3>1. probing BY <1>1, <2>2 DEF Admit
      <3>2. PICK d \in Call : at[d] = "running" /\ probe[d]
        BY <3>1 DEF ProbeAlive
      <3>3. d # c BY <1>1, <3>2 DEF Admit, Ready
      <3> QED BY <1>1, <3>2, <3>3 DEF Admit, Goto, TypeOK
    <2> QED BY <2>1, <2>2
  <1>2. ASSUME NEW c \in Call, FailFast(c)
        PROVE  \E d \in Call : at'[d] = "running" /\ probe'[d]
    <2>1. PICK d \in Call : at[d] = "running" /\ probe[d]
      BY <1>2 DEF FailFast, breaker, ProbeAlive
    <2>2. d # c BY <1>2, <2>1 DEF FailFast, Ready
    <2>3. at'[d] = at[d]
      BY <1>2, <2>2 DEF FailFast, RetryOrThrow, Goto, TypeOK
    <2> QED BY <1>2, <2>1, <2>3 DEF FailFast
  <1>3. ASSUME NEW c \in Call, Fail(c) PROVE FALSE
    BY <1>3 DEF Fail, CountFailure
  <1>4. ASSUME NEW c \in Call, Succeed(c) PROVE FALSE
    BY <1>4 DEF Succeed
  <1>5. CASE Tick \/ UNCHANGED vars
    BY <1>5 DEF Tick, vars, breaker, ProbeAlive
  <1> QED BY <1>1, <1>2, <1>3, <1>4, <1>5 DEF Next, Proceed

\* Each failure that leaves the circuit open renews openedAt.
LEMMA WindowStep == TypeOK /\ WindowInv /\ [Next]_vars => WindowInv'
  <1> SUFFICES ASSUME TypeOK, WindowInv, [Next]_vars PROVE WindowInv' OBVIOUS
  <1>1. ASSUME NEW c \in Call, Admit(c) \/ FailFast(c) PROVE WindowInv'
    BY <1>1 DEF Admit, FailFast, breaker, WindowInv, IsOpen
  <1>2. ASSUME NEW c \in Call, Fail(c) PROVE WindowInv'
    BY <1>2 DEF Fail, CountFailure, WindowInv, IsOpen
  <1>3. ASSUME NEW c \in Call, Succeed(c) PROVE WindowInv'
    BY <1>3, OptionsAssumption DEF Succeed, WindowInv, IsOpen
  <1>4. CASE Tick \/ UNCHANGED vars
    BY <1>4 DEF Tick, vars, breaker, WindowInv, IsOpen
  <1> QED BY <1>1, <1>2, <1>3, <1>4 DEF Next, Proceed

\* The inductive invariant holds in every reachable state.
THEOREM BreakerInvariance == Spec => []BreakerInv
  <1>1. BreakerInv /\ [Next]_vars => BreakerInv'
    BY BreakerTypeStep, ProbeStep, WindowStep DEF BreakerInv
  <1> QED BY <1>1, BreakerInit, PTL DEF Spec

\* The half-open flag of CircuitState is always owned by a running probe
\* (resilience.ts, `s.probing`), whatever the calls, threshold and window.
THEOREM ProbeOwned == Spec => []ProbeAlive
  <1>1. BreakerInv => ProbeAlive BY DEF BreakerInv
  <1> QED BY <1>1, BreakerInvariance, PTL

\* An attempt gets through an open circuit only when resetAfterMs have passed
\* since the last failure (resilience.ts, `elapsed < options.resetAfterMs`).
THEOREM FailsFast == Spec => WindowRespected
  <1>1. ASSUME BreakerInv, [Next]_vars, NEW c \in Call,
               Ready(c), at'[c] = "running", IsOpen
        PROVE  quiet >= ResetAfter
    <2>1. ASSUME NEW d \in Call, Admit(d) PROVE openAge >= ResetAfter
      BY <1>1, <2>1, OptionsAssumption DEF Admit, Rejects, BreakerInv, TypeOK
    <2>2. ASSUME NEW d \in Call, FailFast(d) \/ Fail(d) \/ Succeed(d) PROVE FALSE
      <3>1. \E status \in {"backoff", "failed", "ok"} : at' = [at EXCEPT ![d] = status]
        BY <2>2 DEF FailFast, Fail, Succeed, RetryOrThrow, Goto
      <3>2. at'[c] # "running"
        BY <1>1, <3>1 DEF Ready, BreakerInv, TypeOK
      <3> QED BY <1>1, <3>2
    <2>3. ASSUME Tick \/ UNCHANGED vars PROVE FALSE
      BY <1>1, <2>3 DEF Tick, vars, Ready
    <2>4. \E d \in Call : Admit(d)
      <3>1. ~(Tick \/ UNCHANGED vars) BY <2>3, <1>1
      <3>2. \E d \in Call : Proceed(d) \/ Succeed(d) BY <1>1, <3>1 DEF Next
      <3> QED BY <2>2, <3>2 DEF Proceed
    <2>5. openAge >= ResetAfter BY <2>1, <2>4
    <2> QED BY <1>1, <2>5 DEF BreakerInv, WindowInv
  <1>2. BreakerInv /\ [Next]_vars =>
          [\A c \in Call : Ready(c) /\ at'[c] = "running" /\ IsOpen => quiet >= ResetAfter]_vars
    BY <1>1
  <1> QED BY <1>2, BreakerInvariance, PTL DEF Spec, WindowRespected

-----------------------------------------------------------------------------
(* RateLimit. *)

\* StuckMeansLost, with the range of what is left to a key: LimitTick may not
\* take one down to NoExpiry.
StuckInv ==
    /\ \A k \in DOMAIN store : store[k] \in [count : Nat, left : 1..NoExpiry]
    /\ DOMAIN visit = Visitor
    /\ StuckMeansLost

\* No key, no request.
LEMMA StuckInitial == LimitInit => StuckInv
BY DEF LimitInit, StuckInv, StuckMeansLost

\* The request that creates a key is about to set its expiry.
LEMMA IncrStuck ==
    ASSUME StuckInv, NEW v \in Visitor, NEW route, NEW id, Incr(v, route, id)
    PROVE  StuckInv'
<1> DEFINE key == KeyOf(route, id)
           old == IF key \in DOMAIN store THEN store[key] ELSE [count |-> 0, left |-> NoExpiry]
           new == [old EXCEPT !.count = Saturated(@)]
           where == IF new.count = 1 THEN "counted" ELSE "expiring"
<1>1. /\ visit[v].at = "idle"
      /\ store' = With(store, key, new)
      /\ visit' = [visit EXCEPT ![v] = [at |-> where, key |-> key, count |-> new.count]]
      /\ orphans' = orphans
  BY DEF Incr
<1>2. DOMAIN store' = DOMAIN store \union {key}
  BY <1>1 DEF With
<1>3. \A k \in DOMAIN store' : store'[k] = IF k = key THEN new ELSE store[k]
  BY <1>1, <1>2 DEF With
<1>4. new.left = IF key \in DOMAIN store THEN store[key].left ELSE NoExpiry
  OBVIOUS
<1>5. key \notin DOMAIN store => new.count = 1
  BY LimitAssumption DEF Saturated
<1> HIDE DEF key, new
<1>6. DOMAIN visit' = Visitor /\ \A w \in Visitor : w # v => visit'[w] = visit[w]
  BY <1>1 DEF StuckInv
<1>7. key \notin DOMAIN store => visit'[v].at = "counted" /\ visit'[v].key = key
  BY <1>1, <1>5 DEF StuckInv
<1>8. \A k \in DOMAIN store' : store'[k] \in [count : Nat, left : 1..NoExpiry]
  <2>1. new \in [count : Nat, left : 1..NoExpiry]
    BY LimitAssumption DEF new, key, StuckInv, NoExpiry, Saturated
  <2>2. QED BY <1>2, <1>3, <2>1 DEF StuckInv
<1>9. ASSUME NEW k \in DOMAIN store', store'[k].left = NoExpiry
      PROVE  k \in orphans' \/ \E w \in Visitor : visit'[w].at = "counted" /\ visit'[w].key = k
  <2>1. CASE k \notin DOMAIN store
    BY <1>2, <1>7, <2>1
  <2>2. CASE k \in DOMAIN store
    <3>1. store[k].left = NoExpiry
      BY <1>3, <1>4, <1>9, <2>2
    <3>2. k \in orphans \/ \E w \in Visitor : visit[w].at = "counted" /\ visit[w].key = k
      BY <2>2, <3>1 DEF StuckInv, StuckMeansLost
    <3>3. QED BY <1>1, <1>6, <3>2
  <2>3. QED BY <2>1, <2>2
<1>10. QED BY <1>6, <1>8, <1>9 DEF StuckInv, StuckMeansLost

\* PEXPIRE mends the key; a request that is lost before it leaves an orphan.
LEMMA VisitStuck ==
    ASSUME StuckInv, NEW v \in Visitor, Pexpire(v) \/ Pttl(v) \/ Lost(v)
    PROVE  StuckInv'
<1>1. CASE Pexpire(v)
  <2>1. Window \in 1..NoExpiry /\ Window # NoExpiry
    BY LimitAssumption DEF NoExpiry
  <2>2. /\ \A k \in DOMAIN store' : k \in DOMAIN store
        /\ \A k \in DOMAIN store :
              /\ store'[k] \in [count : Nat, left : 1..NoExpiry]
              /\ store'[k].left = IF k = visit[v].key THEN Window ELSE store[k].left
        /\ DOMAIN visit' = Visitor /\ \A w \in Visitor : w # v => visit'[w] = visit[w]
        /\ orphans' = orphans
    BY <1>1, <2>1 DEF Pexpire, StuckInv
  <2>3. QED BY <2>1, <2>2 DEF StuckInv, StuckMeansLost
<1>2. CASE Pttl(v)
  <2>1. /\ store' = store /\ orphans' = orphans /\ visit[v].at = "expiring"
        /\ DOMAIN visit' = Visitor /\ \A w \in Visitor : w # v => visit'[w] = visit[w]
    BY <1>2 DEF Pttl, StuckInv
  <2>2. QED BY <2>1 DEF StuckInv, StuckMeansLost
<1>3. CASE Lost(v)
  <2>1. /\ store' = store /\ orphans \subseteq orphans'
        /\ visit[v].at = "counted" => visit[v].key \in orphans'
        /\ DOMAIN visit' = Visitor /\ \A w \in Visitor : w # v => visit'[w] = visit[w]
    BY <1>3 DEF Lost, StuckInv
  <2>2. QED BY <2>1 DEF StuckInv, StuckMeansLost
<1>4. QED BY <1>1, <1>2, <1>3

\* A key without an expiry keeps none, any other one has one less.
LEMMA TickStuck == ASSUME StuckInv, LimitTick PROVE StuckInv'
<1>1. /\ \A k \in DOMAIN store' : k \in DOMAIN store /\ store[k].left # 1
      /\ \A k \in DOMAIN store' :
            store'[k] = [store[k] EXCEPT !.left = IF @ = NoExpiry THEN @ ELSE @ - 1]
      /\ visit' = visit /\ orphans' = orphans
  BY DEF LimitTick
<1>2. ASSUME NEW k \in DOMAIN store'
      PROVE  /\ store'[k] \in [count : Nat, left : 1..NoExpiry]
             /\ store'[k].left = NoExpiry => store[k].left = NoExpiry
  <2>1. store[k] \in [count : Nat, left : 1..NoExpiry] /\ store[k].left # 1
    BY <1>1 DEF StuckInv
  <2>2. QED BY <1>1, <2>1, LimitAssumption DEF NoExpiry
<1>3. QED BY <1>1, <1>2 DEF StuckInv, StuckMeansLost

\* Only a request lost between INCR and PEXPIRE leaves a counter for ever.
THEOREM StuckMeansLostHolds == LimitSpec => []StuckMeansLost
<1>1. StuckInv /\ [MemoryNext]_limitVars => StuckInv'
  <2> SUFFICES ASSUME StuckInv, [MemoryNext]_limitVars PROVE StuckInv'
    OBVIOUS
  <2>1. CASE UNCHANGED <<store, visit, orphans>>
    BY <2>1 DEF StuckInv, StuckMeansLost
  <2>2. ASSUME NEW route \in Route, NEW id \in Identity, Hit(route, id)
        PROVE  UNCHANGED <<store, visit, orphans>>
    BY <2>2 DEF Hit
  <2>3. QED BY <2>1, <2>2, TickStuck DEF MemoryNext, limitVars
<1>2. StuckInv /\ [RedisNext]_limitVars => StuckInv'
  <2> SUFFICES ASSUME StuckInv, [RedisNext]_limitVars PROVE StuckInv'
    OBVIOUS
  <2>1. CASE UNCHANGED limitVars
    BY <2>1 DEF StuckInv, StuckMeansLost, limitVars
  <2>2. QED BY <2>1, TickStuck, VisitStuck, IncrStuck DEF RedisNext
<1>3. StuckInv => StuckMeansLost
  BY DEF StuckInv
<1>4. QED BY <1>1, <1>2, <1>3, StuckInitial, PTL DEF LimitSpec

-----------------------------------------------------------------------------
(* The windows of RateLimit. *)

Ages == Seq(Nat)

\* What a key let through, oldest first, while an entry with this count has this
\* much time left: some of an earlier window, all older than the entry can be
\* when it expires, then no more than the entry counts.
Fits(ages, count, left) ==
    \E m \in 0..Len(ages) :
        /\ m <= Max /\ Len(ages) <= m + count /\ Len(ages) <= m + Max
        /\ \A i \in 1..m : ages[i] >= 1 /\ ages[i] + left > Window

\* What a key let through when no entry counts: one window, before this tick.
Closed(ages) == Len(ages) <= Max /\ \A i \in 1..Len(ages) : ages[i] >= 1

\* A tick takes away the oldest and makes the others older.
LEMMA AgedIs ==
    ASSUME NEW ages \in Ages
    PROVE  \E d \in 0..Len(ages) :
              /\ Aged(ages) \in Ages /\ Len(Aged(ages)) = Len(ages) - d
              /\ \A i \in 1..(Len(ages) - d) : Aged(ages)[i] = ages[i + d] + 1
              /\ \A m \in 0..Len(ages) : (\A i \in 1..m : ages[i] + 1 >= Window) => m <= d
<1> DEFINE older == [i \in DOMAIN ages |-> ages[i] + 1]
           past == {i \in DOMAIN ages : older[i] >= Window}
           d == Cardinality(past)
<1>1. Len(ages) \in Nat /\ DOMAIN ages = 1..Len(ages) /\ \A i \in 1..Len(ages) : ages[i] \in Nat
  BY LenProperties, ElementOfSeq DEF Ages
<1>2. IsFiniteSet(1..Len(ages)) /\ Cardinality(1..Len(ages)) = Len(ages)
  BY <1>1, FS_Interval
<1>3. past \in SUBSET (1..Len(ages)) /\ IsFiniteSet(past) /\ d \in Nat /\ d <= Len(ages)
  <2>1. past \in SUBSET (1..Len(ages))
    BY <1>1
  <2> HIDE DEF past
  <2>2. IsFiniteSet(past) /\ Cardinality(past) <= Cardinality(1..Len(ages))
    BY <1>2, <2>1, FS_Subset
  <2>3. QED BY <1>2, <2>1, <2>2, FS_CardinalityType
<1>4. ASSUME NEW m \in 0..Len(ages), \A i \in 1..m : ages[i] + 1 >= Window PROVE m <= d
  <2>1. 1..m \in SUBSET past
    BY <1>1, <1>4
  <2>2. Cardinality(1..m) = m
    BY <1>1, FS_Interval
  <2> HIDE DEF past
  <2>3. Cardinality(1..m) <= d
    BY <1>3, <2>1, FS_Subset
  <2>4. QED BY <2>2, <2>3
<1>5. Aged(ages) = SubSeq(older, d + 1, Len(ages))
  BY DEF Aged
<1>6. \A i \in (d + 1)..Len(ages) : older[i] = ages[i] + 1 /\ older[i] \in Nat
  BY <1>1, <1>3
<1> HIDE DEF older, past, d
<1>7. /\ Aged(ages) \in Ages
      /\ Len(Aged(ages)) = IF d + 1 <= Len(ages) THEN Len(ages) - (d + 1) + 1 ELSE 0
      /\ \A i \in 1..(Len(ages) - (d + 1) + 1) : Aged(ages)[i] = older[(d + 1) + i - 1]
  BY <1>1, <1>3, <1>5, <1>6, SubSeqProperties DEF Ages
<1>8. Len(Aged(ages)) = Len(ages) - d
  <2>1. CASE d + 1 <= Len(ages)
    BY <1>1, <1>3, <1>7, <2>1
  <2>2. CASE ~(d + 1 <= Len(ages))
    <3>1. d = Len(ages) /\ Len(ages) - d = 0
      <4>1. d \in Nat /\ d <= Len(ages) /\ Len(ages) \in Nat
        BY <1>1, <1>3
      <4>2. QED BY <2>2, <4>1
    <3>2. Len(Aged(ages)) = 0
      BY <1>7, <2>2
    <3>3. QED BY <3>1, <3>2
  <2>3. QED BY <2>1, <2>2
<1>9. ASSUME NEW i \in 1..(Len(ages) - d) PROVE Aged(ages)[i] = ages[i + d] + 1
  <2>1. i \in 1..(Len(ages) - (d + 1) + 1) /\ (d + 1) + i - 1 = i + d /\ i + d \in (d + 1)..Len(ages)
    BY <1>1, <1>3
  <2>2. QED BY <1>6, <1>7, <2>1
<1>10. d \in 0..Len(ages)
  BY <1>1, <1>3
<1>11. QED BY <1>4, <1>7, <1>8, <1>9, <1>10

\* A tick of an entry that stays.
LEMMA FitsAged ==
    ASSUME NEW ages \in Ages, NEW count \in Nat, NEW left \in Nat, NEW later \in Nat,
           later + 1 >= left, Fits(ages, count, left)
    PROVE  Aged(ages) \in Ages /\ Fits(Aged(ages), count, later)
<1>1. Len(ages) \in Nat /\ \A i \in 1..Len(ages) : ages[i] \in Nat
  BY LenProperties, ElementOfSeq DEF Ages
<1>2. PICK d \in 0..Len(ages) : /\ Aged(ages) \in Ages /\ Len(Aged(ages)) = Len(ages) - d
                                /\ \A i \in 1..(Len(ages) - d) : Aged(ages)[i] = ages[i + d] + 1
  BY AgedIs
<1>3. PICK m \in 0..Len(ages) :
        /\ m <= Max /\ Len(ages) <= m + count /\ Len(ages) <= m + Max
        /\ \A i \in 1..m : ages[i] >= 1 /\ ages[i] + left > Window
  BY DEF Fits
<1> DEFINE n == IF d <= m THEN m - d ELSE 0
<1>4. /\ n \in 0..Len(Aged(ages)) /\ n <= Max /\ Len(Aged(ages)) <= n + count /\ Len(Aged(ages)) <= n + Max
      /\ \A i \in 1..n : i \in 1..(Len(ages) - d) /\ i + d \in 1..m
  BY <1>1, <1>2, <1>3, LimitAssumption
<1> HIDE DEF n
<1>5. ASSUME NEW i \in 1..n PROVE Aged(ages)[i] >= 1 /\ Aged(ages)[i] + later > Window
  <2>1. Aged(ages)[i] = ages[i + d] + 1 /\ ages[i + d] \in Nat /\ ages[i + d] + left > Window
    BY <1>1, <1>2, <1>3, <1>4
  <2>2. QED BY <2>1, LimitAssumption
<1>6. QED BY <1>2, <1>4, <1>5 DEF Fits

\* The tick at which an entry expires.
LEMMA FitsClosed ==
    ASSUME NEW ages \in Ages, NEW count \in Nat, Fits(ages, count, 1)
    PROVE  Aged(ages) \in Ages /\ Closed(Aged(ages))
<1>1. Len(ages) \in Nat /\ \A i \in 1..Len(ages) : ages[i] \in Nat
  BY LenProperties, ElementOfSeq DEF Ages
<1>2. PICK m \in 0..Len(ages) :
        /\ m <= Max /\ Len(ages) <= m + count /\ Len(ages) <= m + Max
        /\ \A i \in 1..m : ages[i] >= 1 /\ ages[i] + 1 > Window
  BY DEF Fits
<1>3. \A i \in 1..m : ages[i] + 1 >= Window
  BY <1>1, <1>2, LimitAssumption
<1>4. PICK d \in 0..Len(ages) : /\ Aged(ages) \in Ages /\ Len(Aged(ages)) = Len(ages) - d
                                /\ \A i \in 1..(Len(ages) - d) : Aged(ages)[i] = ages[i + d] + 1
                                /\ m <= d
  BY <1>3, AgedIs
<1>5. Len(Aged(ages)) <= Max
  BY <1>1, <1>2, <1>4, LimitAssumption
<1>6. \A i \in 1..Len(Aged(ages)) : Aged(ages)[i] >= 1
  <2>1. ASSUME NEW i \in 1..(Len(ages) - d) PROVE Aged(ages)[i] >= 1
    <3>1. i + d \in 1..Len(ages)
      BY <1>1
    <3>2. Aged(ages)[i] = ages[i + d] + 1 /\ ages[i + d] \in Nat
      BY <1>1, <1>4, <3>1
    <3>3. QED BY <3>2
  <2>2. QED BY <1>4, <2>1
<1>7. QED BY <1>4, <1>5, <1>6 DEF Closed

\* A tick without an entry.
LEMMA ClosedAged ==
    ASSUME NEW ages \in Ages, Closed(ages)
    PROVE  Aged(ages) \in Ages /\ Closed(Aged(ages))
<1>1. Len(ages) \in Nat /\ \A i \in 1..Len(ages) : ages[i] \in Nat
  BY LenProperties, ElementOfSeq DEF Ages
<1>2. PICK d \in 0..Len(ages) : /\ Aged(ages) \in Ages /\ Len(Aged(ages)) = Len(ages) - d
                                /\ \A i \in 1..(Len(ages) - d) : Aged(ages)[i] = ages[i + d] + 1
  BY AgedIs
<1>3. \A i \in 1..(Len(ages) - d) : i + d \in 1..Len(ages)
  BY <1>1
<1>4. QED BY <1>1, <1>2, <1>3, LimitAssumption DEF Closed

\* The first that a new entry counts.
LEMMA ClosedOpens ==
    ASSUME NEW ages \in Ages, Closed(ages), NEW left \in Nat, left >= Window
    PROVE  Append(ages, 0) \in Ages /\ Fits(Append(ages, 0), 1, left)
<1>1. Len(ages) \in Nat /\ \A i \in 1..Len(ages) : ages[i] \in Nat
  BY LenProperties, ElementOfSeq DEF Ages
<1>2. /\ Append(ages, 0) \in Ages /\ Len(Append(ages, 0)) = Len(ages) + 1
      /\ \A i \in 1..Len(ages) : Append(ages, 0)[i] = ages[i]
  BY AppendProperties DEF Ages
<1>3. /\ Len(ages) \in 0..Len(Append(ages, 0)) /\ Len(ages) <= Max
      /\ Len(Append(ages, 0)) <= Len(ages) + 1 /\ Len(Append(ages, 0)) <= Len(ages) + Max
  BY <1>1, <1>2, LimitAssumption DEF Closed
<1>4. \A i \in 1..Len(ages) : Append(ages, 0)[i] >= 1 /\ Append(ages, 0)[i] + left > Window
  BY <1>1, <1>2, LimitAssumption DEF Closed
<1>5. QED BY <1>2, <1>3, <1>4 DEF Fits

\* Another one that an entry counts and lets through.
LEMMA FitsMore ==
    ASSUME NEW ages \in Ages, NEW count \in Nat, count < Max, NEW left \in Nat, Fits(ages, count, left)
    PROVE  Append(ages, 0) \in Ages /\ Fits(Append(ages, 0), count + 1, left)
<1>1. Len(ages) \in Nat
  BY LenProperties DEF Ages
<1>2. /\ Append(ages, 0) \in Ages /\ Len(Append(ages, 0)) = Len(ages) + 1
      /\ \A i \in 1..Len(ages) : Append(ages, 0)[i] = ages[i]
  BY AppendProperties DEF Ages
<1>3. PICK m \in 0..Len(ages) :
        /\ m <= Max /\ Len(ages) <= m + count /\ Len(ages) <= m + Max
        /\ \A i \in 1..m : ages[i] >= 1 /\ ages[i] + left > Window
  BY DEF Fits
<1>4. /\ m \in 0..Len(Append(ages, 0)) /\ Len(Append(ages, 0)) <= m + (count + 1)
      /\ Len(Append(ages, 0)) <= m + Max /\ \A i \in 1..m : i \in 1..Len(ages)
  BY <1>1, <1>2, <1>3, LimitAssumption
<1>5. QED BY <1>2, <1>3, <1>4 DEF Fits

\* Another count, or another expiry, of the same entry.
LEMMA FitsOther ==
    ASSUME NEW ages \in Ages, NEW count \in Nat, NEW more \in Nat, more >= count,
           NEW left \in Nat, NEW later \in Nat, later >= left \/ later >= Window, Fits(ages, count, left)
    PROVE  Fits(ages, more, later)
<1>1. Len(ages) \in Nat /\ \A i \in 1..Len(ages) : ages[i] \in Nat
  BY LenProperties, ElementOfSeq DEF Ages
<1>2. PICK m \in 0..Len(ages) :
        /\ m <= Max /\ Len(ages) <= m + count /\ Len(ages) <= m + Max
        /\ \A i \in 1..m : ages[i] >= 1 /\ ages[i] + left > Window
  BY DEF Fits
<1>3. Len(ages) <= m + more
  BY <1>1, <1>2
<1>4. \A i \in 1..m : ages[i] >= 1 /\ ages[i] + later > Window
  BY <1>1, <1>2, LimitAssumption
<1>5. QED BY <1>2, <1>3, <1>4 DEF Fits

\* Either way there are at most two windows.
LEMMA TwoWindows ==
    ASSUME NEW ages \in Ages, Closed(ages) \/ \E count, left \in Nat : Fits(ages, count, left)
    PROVE  Len(ages) <= 2 * Max
BY LenProperties, LimitAssumption DEF Closed, Fits, Ages

\* In memory: what was let through for an identity, by its entry.
MemoryInv ==
    /\ DOMAIN hits = Route
    /\ DOMAIN recent = (Route \X Identity) \union Key
    /\ \A k \in DOMAIN recent : recent[k] \in Ages
    /\ \A k \in DOMAIN recent \ (Route \X Identity) : recent[k] = <<>>
    /\ \A r \in Route : \A id \in DOMAIN hits[r] : hits[r][id] \in [count : Nat, left : 0..Window]
    /\ \A r \in Route, id \in Identity :
          IF id \in DOMAIN hits[r] /\ hits[r][id].left > 0
            THEN Fits(recent[<<r, id>>], hits[r][id].count, hits[r][id].left)
            ELSE Closed(recent[<<r, id>>])

\* In Redis: what was let through under a key, by its counter.
RedisInv ==
    /\ DOMAIN recent = (Route \X Identity) \union Key
    /\ \A k \in DOMAIN recent : recent[k] \in Ages
    /\ \A k \in DOMAIN recent \ Key : recent[k] = <<>>
    /\ \A k \in DOMAIN store : store[k] \in [count : Nat, left : 1..NoExpiry]
    /\ \A k \in Key : IF k \in DOMAIN store THEN Fits(recent[k], store[k].count, store[k].left)
                                            ELSE Closed(recent[k])

\* Nothing was let through.
LEMMA NothingYet == <<>> \in Ages /\ Closed(<<>>) /\ Aged(<<>>) = <<>>
<1>1. <<>> \in Ages /\ Len(<<>>) = 0
  BY EmptySeq DEF Ages
<1>2. Closed(<<>>)
  BY <1>1, LimitAssumption DEF Closed
<1>3. PICK d \in 0..Len(<<>>) : Aged(<<>>) \in Ages /\ Len(Aged(<<>>)) = Len(<<>>) - d
  BY <1>1, AgedIs
<1>4. Aged(<<>>) \in Seq(Nat) /\ Len(Aged(<<>>)) = 0
  BY <1>1, <1>3 DEF Ages
<1>5. Aged(<<>>) = <<>>
  BY <1>4, EmptySeq
<1>6. QED BY <1>1, <1>2, <1>5

\* No entry, no key.
LEMMA WindowsInitial == LimitInit => MemoryInv /\ RedisInv
BY NothingYet DEF LimitInit, MemoryInv, RedisInv

\* One more is counted.
LEMMA SaturatedIs ==
    ASSUME NEW count \in Nat
    PROVE  /\ Saturated(count) \in Nat /\ Saturated(count) >= count
           /\ Saturated(count) <= Max => Saturated(count) = count + 1 /\ count < Max
BY LimitAssumption DEF Saturated

\* A request in memory: the entry it finds, or a new window.
LEMMA HitWindows ==
    ASSUME MemoryInv, NEW route \in Route, NEW id \in Identity, Hit(route, id)
    PROVE  MemoryInv'
<1> DEFINE old == Found(hits[route], id)
           entry == [old EXCEPT !.count = Saturated(@)]
           entries == With(hits[route], id, entry)
           ages == recent[<<route, id>>]
<1>1. ages \in Ages /\ <<route, id>> \in DOMAIN recent
  BY DEF MemoryInv
<1>2. /\ old.count \in Nat /\ old.left \in 1..Window
      /\ entry.count = Saturated(old.count) /\ entry.left = old.left
      /\ IF id \in DOMAIN hits[route] /\ hits[route][id].left > 0
           THEN Fits(ages, old.count, old.left)
           ELSE Closed(ages) /\ old.count = 0 /\ old.left = Window
  <2>1. CASE id \in DOMAIN hits[route] /\ hits[route][id].left > 0
    <3>1. old = hits[route][id]
      BY <2>1 DEF Found
    <3>2. old.count \in Nat /\ old.left \in 1..Window /\ Fits(ages, old.count, old.left)
      BY <2>1, <3>1, LimitAssumption DEF MemoryInv
    <3>3. entry.count = Saturated(old.count) /\ entry.left = old.left
      BY <3>1 DEF MemoryInv
    <3>4. QED BY <2>1, <3>2, <3>3
  <2>2. CASE ~(id \in DOMAIN hits[route] /\ hits[route][id].left > 0)
    <3>1. old = [count |-> 0, left |-> Window]
      BY <2>2 DEF Found
    <3>2. Closed(ages)
      BY <2>2 DEF MemoryInv
    <3>3. QED BY <2>2, <3>1, <3>2, LimitAssumption
  <2>3. QED BY <2>1, <2>2
<1>3. entry.count \in Nat /\ entry.left \in 1..Window /\ entry \in [count : Nat, left : 0..Window]
  <2>1. old \in [count : Nat, left : 0..Window]
    BY LimitAssumption DEF MemoryInv, Found
  <2>2. entry.count \in Nat /\ entry.left \in 1..Window
    BY <1>2, SaturatedIs
  <2>3. QED BY <1>2, <2>1, <2>2, SaturatedIs
<1>4. /\ DOMAIN entries = DOMAIN hits[route] \union {id}
      /\ \A i \in DOMAIN entries : entries[i] = IF i = id THEN entry ELSE hits[route][i]
  BY DEF With
<1>5. CASE entry.count > Max
  <2>1. hits' = [hits EXCEPT ![route] = entries] /\ recent' = recent
    BY <1>5 DEF Hit
  <2>2. Fits(ages, entry.count, entry.left)
    <3>1. Fits(ages, old.count, old.left)
      BY <1>2, <1>5, LimitAssumption DEF Saturated
    <3>2. QED BY <1>1, <1>2, <1>3, <3>1, SaturatedIs, FitsOther
  <2> HIDE DEF old, entry, entries
  <2>3. \A i \in DOMAIN entries : entries[i] \in [count : Nat, left : 0..Window]
    BY <1>3, <1>4 DEF MemoryInv
  <2>4. QED BY <1>3, <1>4, <2>1, <2>2, <2>3 DEF MemoryInv
<1>6. CASE ~(entry.count > Max)
  <2>1. /\ hits' = [hits EXCEPT ![route] = Cleaned(entries)]
        /\ recent' = [recent EXCEPT ![<<route, id>>] = Append(@, 0)]
    BY <1>6 DEF Hit, LetThrough
  <2>2. Append(ages, 0) \in Ages /\ Fits(Append(ages, 0), entry.count, entry.left)
    <3>1. entry.count = old.count + 1 /\ old.count < Max
      BY <1>2, <1>3, <1>6, SaturatedIs, LimitAssumption
    <3>2. CASE id \in DOMAIN hits[route] /\ hits[route][id].left > 0
      BY <1>1, <1>2, <3>1, <3>2, FitsMore
    <3>3. CASE ~(id \in DOMAIN hits[route] /\ hits[route][id].left > 0)
      BY <1>1, <1>2, <3>1, <3>3, ClosedOpens, LimitAssumption
    <3>4. QED BY <3>2, <3>3
  <2> HIDE DEF old, entry, entries
  <2>3. /\ DOMAIN Cleaned(entries) \subseteq DOMAIN entries
        /\ \A i \in DOMAIN entries : i \notin DOMAIN Cleaned(entries) => entries[i].left = 0
        /\ \A i \in DOMAIN Cleaned(entries) : Cleaned(entries)[i] = entries[i]
    BY DEF Cleaned, Without
  <2>4. id \in DOMAIN Cleaned(entries) /\ Cleaned(entries)[id] = entry
    BY <1>3, <1>4, <2>3
  <2>5. \A i \in DOMAIN Cleaned(entries) : Cleaned(entries)[i] \in [count : Nat, left : 0..Window]
    BY <1>3, <1>4, <2>3 DEF MemoryInv
  <2>6. \A i \in Identity : i # id =>
            (i \in DOMAIN Cleaned(entries) /\ Cleaned(entries)[i].left > 0
               <=> i \in DOMAIN hits[route] /\ hits[route][i].left > 0)
    BY <1>4, <2>3 DEF MemoryInv
  <2>7. \A i \in Identity : i # id /\ i \in DOMAIN Cleaned(entries) => Cleaned(entries)[i] = hits[route][i]
    BY <1>4, <2>3
  <2>8. /\ DOMAIN hits' = Route /\ hits'[route] = Cleaned(entries)
        /\ \A r \in Route : r # route => hits'[r] = hits[r]
        /\ DOMAIN recent' = DOMAIN recent /\ recent'[<<route, id>>] = Append(ages, 0)
        /\ \A k \in DOMAIN recent : k # <<route, id>> => recent'[k] = recent[k]
    BY <1>1, <2>1 DEF MemoryInv
  <2> HIDE DEF ages
  <2>9. ASSUME NEW r \in Route, NEW i \in Identity
        PROVE  IF i \in DOMAIN hits'[r] /\ hits'[r][i].left > 0
                 THEN Fits(recent'[<<r, i>>], hits'[r][i].count, hits'[r][i].left)
                 ELSE Closed(recent'[<<r, i>>])
    <3>1. CASE r = route /\ i = id
      <4>1. hits'[r] = Cleaned(entries) /\ recent'[<<r, i>>] = Append(ages, 0)
        BY <2>8, <3>1
      <4>2. i \in DOMAIN hits'[r] /\ hits'[r][i] = entry
        BY <2>4, <3>1, <4>1
      <4>3. entry.left > 0
        BY <1>3, LimitAssumption
      <4>4. QED BY <2>2, <4>1, <4>2, <4>3
    <3>2. CASE ~(r = route /\ i = id)
      <4>1. recent'[<<r, i>>] = recent[<<r, i>>]
        BY <2>8, <3>2 DEF MemoryInv
      <4>2. CASE r = route
        BY <2>6, <2>7, <2>8, <3>2, <4>1, <4>2 DEF MemoryInv
      <4>3. CASE r # route
        BY <2>8, <4>1, <4>3 DEF MemoryInv
      <4>4. QED BY <4>2, <4>3
    <3>3. QED BY <3>1, <3>2
  <2>10. DOMAIN recent' = (Route \X Identity) \union Key
    BY <2>8 DEF MemoryInv
  <2>11. \A k \in DOMAIN recent' : recent'[k] \in Ages
    BY <2>2, <2>8 DEF MemoryInv
  <2>12. \A k \in DOMAIN recent' \ (Route \X Identity) : recent'[k] = <<>>
    BY <2>8 DEF MemoryInv
  <2>13. \A r \in Route : \A i \in DOMAIN hits'[r] : hits'[r][i] \in [count : Nat, left : 0..Window]
    BY <2>5, <2>8 DEF MemoryInv
  <2>14. QED BY <2>8, <2>9, <2>10, <2>11, <2>12, <2>13 DEF MemoryInv
<1>7. QED BY <1>5, <1>6

\* The clock in memory: an entry stays with less time, and expires at its last tick.
LEMMA TickMemory ==
    ASSUME MemoryInv, LimitTick
    PROVE  MemoryInv'
<1>1. /\ DOMAIN hits' = Route
      /\ \A r \in Route : DOMAIN hits'[r] = DOMAIN hits[r]
      /\ \A r \in Route : \A id \in DOMAIN hits[r] :
            hits'[r][id] = [hits[r][id] EXCEPT !.left = IF @ = 0 THEN 0 ELSE @ - 1]
      /\ DOMAIN recent' = DOMAIN recent /\ \A k \in DOMAIN recent : recent'[k] = Aged(recent[k])
  BY DEF LimitTick
<1>2. \A k \in DOMAIN recent' : recent'[k] \in Ages
  BY <1>1, AgedIs DEF MemoryInv
<1>3. \A k \in DOMAIN recent' \ (Route \X Identity) : recent'[k] = <<>>
  BY <1>1, NothingYet DEF MemoryInv
<1>4. ASSUME NEW r \in Route, NEW id \in DOMAIN hits[r]
      PROVE  /\ hits[r][id].count \in Nat /\ hits[r][id].left \in 0..Window
             /\ hits'[r][id].count = hits[r][id].count
             /\ hits'[r][id] \in [count : Nat, left : 0..Window]
             /\ hits[r][id].left = 0 => hits'[r][id].left = 0
             /\ hits[r][id].left > 0 => hits'[r][id].left + 1 = hits[r][id].left
  <2>1. hits[r][id] \in [count : Nat, left : 0..Window]
    BY DEF MemoryInv
  <2>2. hits'[r][id] = [hits[r][id] EXCEPT !.left = IF @ = 0 THEN 0 ELSE @ - 1]
    BY <1>1
  <2>3. QED BY <2>1, <2>2, LimitAssumption
<1>5. ASSUME NEW r \in Route, NEW id \in Identity
      PROVE  IF id \in DOMAIN hits'[r] /\ hits'[r][id].left > 0
               THEN Fits(recent'[<<r, id>>], hits'[r][id].count, hits'[r][id].left)
               ELSE Closed(recent'[<<r, id>>])
  <2>1. recent[<<r, id>>] \in Ages /\ recent'[<<r, id>>] = Aged(recent[<<r, id>>])
    BY <1>1 DEF MemoryInv
  <2>2. CASE id \in DOMAIN hits[r] /\ hits[r][id].left > 0
    <3>1. Fits(recent[<<r, id>>], hits[r][id].count, hits[r][id].left)
      BY <2>2 DEF MemoryInv
    <3>2. CASE hits[r][id].left = 1
      <4>1. hits'[r][id].left = 0
        BY <1>4, <2>2, <3>2
      <4>2. Closed(recent'[<<r, id>>])
        BY <1>4, <2>1, <2>2, <3>1, <3>2, FitsClosed
      <4>3. QED BY <4>1, <4>2
    <3>3. CASE hits[r][id].left # 1
      <4>1. id \in DOMAIN hits'[r] /\ hits'[r][id].left > 0 /\ hits'[r][id].left \in Nat
            /\ hits[r][id].left \in Nat /\ hits'[r][id].left + 1 >= hits[r][id].left
            /\ hits[r][id].count \in Nat
        BY <1>1, <1>4, <2>2, <3>3
      <4>2. Fits(recent'[<<r, id>>], hits[r][id].count, hits'[r][id].left)
        BY <2>1, <3>1, <4>1, FitsAged
      <4>3. QED BY <1>4, <2>2, <4>1, <4>2
    <3>4. QED BY <3>2, <3>3
  <2>3. CASE ~(id \in DOMAIN hits[r] /\ hits[r][id].left > 0)
    <3>1. Closed(recent[<<r, id>>])
      BY <2>3 DEF MemoryInv
    <3>2. Closed(recent'[<<r, id>>])
      BY <2>1, <3>1, ClosedAged
    <3>3. ~(id \in DOMAIN hits'[r] /\ hits'[r][id].left > 0)
      BY <1>1, <1>4, <2>3
    <3>4. QED BY <3>2, <3>3
  <2>4. QED BY <2>2, <2>3
<1>6. \A r \in Route : \A id \in DOMAIN hits'[r] : hits'[r][id] \in [count : Nat, left : 0..Window]
  BY <1>1, <1>4
<1>7. DOMAIN recent' = (Route \X Identity) \union Key
  BY <1>1 DEF MemoryInv
<1>8. QED BY <1>1, <1>2, <1>3, <1>5, <1>6, <1>7 DEF MemoryInv

\* What is counted of a key, or that nothing is: INCR changes one key only.
LEMMA IncrIs ==
    ASSUME RedisInv, NEW v, NEW route \in Route, NEW id \in Identity, Incr(v, route, id)
    PROVE  \E old, new \in [count : Nat, left : 1..NoExpiry] :
              LET key == KeyOf(route, id)
              IN  /\ IF key \in DOMAIN store THEN old = store[key] ELSE old = [count |-> 0, left |-> NoExpiry]
                  /\ new.count = Saturated(old.count) /\ new.left = old.left
                  /\ DOMAIN store' = DOMAIN store \union {key}
                  /\ \A k \in DOMAIN store' : store'[k] = IF k = key THEN new ELSE store[k]
                  /\ IF new.count > Max THEN recent' = recent
                                        ELSE recent' = [recent EXCEPT ![key] = Append(@, 0)]
<1> DEFINE key == KeyOf(route, id)
           old == IF key \in DOMAIN store THEN store[key] ELSE [count |-> 0, left |-> NoExpiry]
           new == [old EXCEPT !.count = Saturated(@)]
<1>1. old \in [count : Nat, left : 1..NoExpiry]
  BY LimitAssumption DEF RedisInv, NoExpiry
<1>2. store' = With(store, key, new) /\ IF new.count > Max THEN UNCHANGED recent ELSE LetThrough(key)
  BY DEF Incr
<1>3. IF key \in DOMAIN store THEN old = store[key] ELSE old = [count |-> 0, left |-> NoExpiry]
  OBVIOUS
<1> HIDE DEF old
<1>4. new \in [count : Nat, left : 1..NoExpiry] /\ new.count = Saturated(old.count) /\ new.left = old.left
  BY <1>1, SaturatedIs
<1> HIDE DEF new
<1>5. /\ DOMAIN store' = DOMAIN store \union {key}
      /\ \A k \in DOMAIN store' : store'[k] = IF k = key THEN new ELSE store[k]
  BY <1>2 DEF With
<1>6. QED BY <1>1, <1>2, <1>3, <1>4, <1>5 DEF LetThrough

\* INCR opens a window, or counts one more of the window that is open.
LEMMA IncrWindows ==
    ASSUME RedisInv, NEW v, NEW route \in Route, NEW id \in Identity, Incr(v, route, id)
    PROVE  RedisInv'
<1> DEFINE key == KeyOf(route, id)
           ages == recent[key]
<1>1. PICK old, new \in [count : Nat, left : 1..NoExpiry] :
        /\ IF key \in DOMAIN store THEN old = store[key] ELSE old = [count |-> 0, left |-> NoExpiry]
        /\ new.count = Saturated(old.count) /\ new.left = old.left
        /\ DOMAIN store' = DOMAIN store \union {key}
        /\ \A k \in DOMAIN store' : store'[k] = IF k = key THEN new ELSE store[k]
        /\ IF new.count > Max THEN recent' = recent
                              ELSE recent' = [recent EXCEPT ![key] = Append(@, 0)]
  BY IncrIs
<1>2. key \in Key /\ key \in DOMAIN recent /\ ages \in Ages
  BY DEF KeyOf, Key, RedisInv
<1> HIDE DEF key
<1>3. old.count \in Nat /\ old.left \in Nat /\ new.count \in Nat /\ NoExpiry \in Nat /\ NoExpiry >= Window
  BY LimitAssumption DEF NoExpiry
<1>4. IF key \in DOMAIN store THEN Fits(ages, old.count, old.left)
                              ELSE Closed(ages) /\ old.count = 0 /\ old.left = NoExpiry
  BY <1>1, <1>2 DEF RedisInv
<1>5. recent'[key] \in Ages /\ Fits(recent'[key], new.count, new.left)
  <2>1. CASE new.count > Max
    <3>1. Fits(ages, old.count, old.left)
      BY <1>1, <1>3, <1>4, <2>1, LimitAssumption DEF Saturated
    <3>2. Fits(ages, new.count, new.left)
      BY <1>1, <1>2, <1>3, <3>1, SaturatedIs, FitsOther
    <3>3. QED BY <1>1, <1>2, <2>1, <3>2
  <2>2. CASE ~(new.count > Max)
    <3>1. new.count = old.count + 1 /\ old.count < Max
      <4>1. new.count = Saturated(old.count)
        BY <1>1
      <4>2. Saturated(old.count) <= Max
        BY <1>3, <2>2, <4>1, LimitAssumption
      <4>3. QED BY <1>3, <4>1, <4>2, SaturatedIs
    <3>2. recent'[key] = Append(ages, 0)
      BY <1>1, <1>2, <2>2
    <3>3. CASE key \in DOMAIN store
      BY <1>1, <1>2, <1>3, <1>4, <3>1, <3>2, <3>3, FitsMore
    <3>4. CASE key \notin DOMAIN store
      BY <1>1, <1>2, <1>3, <1>4, <3>1, <3>2, <3>4, ClosedOpens
    <3>5. QED BY <3>3, <3>4
  <2>3. QED BY <2>1, <2>2
<1>6. DOMAIN recent' = DOMAIN recent /\ \A k \in DOMAIN recent : k # key => recent'[k] = recent[k]
  BY <1>1
<1>7. \A k \in DOMAIN store' : store'[k] \in [count : Nat, left : 1..NoExpiry]
  BY <1>1 DEF RedisInv
<1>8. ASSUME NEW k \in Key
      PROVE  IF k \in DOMAIN store' THEN Fits(recent'[k], store'[k].count, store'[k].left)
                                    ELSE Closed(recent'[k])
  <2>1. CASE k = key
    BY <1>1, <1>5, <2>1
  <2>2. CASE k # key
    <3>1. recent'[k] = recent[k]
      BY <1>6, <2>2 DEF RedisInv
    <3>2. k \in DOMAIN store' <=> k \in DOMAIN store
      BY <1>1, <2>2
    <3>3. QED BY <1>1, <2>2, <3>1, <3>2 DEF RedisInv
  <2>3. QED BY <2>1, <2>2
<1>9. DOMAIN recent' = (Route \X Identity) \union Key
  BY <1>6 DEF RedisInv
<1>10. \A k \in DOMAIN recent' : recent'[k] \in Ages
  BY <1>5, <1>6 DEF RedisInv
<1>11. \A k \in DOMAIN recent' \ Key : recent'[k] = <<>>
  BY <1>2, <1>6 DEF RedisInv
<1>12. QED BY <1>7, <1>8, <1>9, <1>10, <1>11 DEF RedisInv

\* PEXPIRE gives the key a whole window; PTTL and a lost request change nothing.
LEMMA VisitWindows ==
    ASSUME RedisInv, NEW v \in Visitor, Pexpire(v) \/ Pttl(v) \/ Lost(v)
    PROVE  RedisInv'
<1>1. CASE UNCHANGED <<store, recent>>
  BY <1>1 DEF RedisInv
<1>2. CASE Pexpire(v) /\ visit[v].key \in DOMAIN store
  <2>1. /\ recent' = recent /\ DOMAIN store' = DOMAIN store
        /\ \A k \in DOMAIN store :
              store'[k] = IF k = visit[v].key THEN [store[k] EXCEPT !.left = Window] ELSE store[k]
    BY <1>2 DEF Pexpire
  <2>2. ASSUME NEW k \in DOMAIN store
        PROVE  /\ store'[k] \in [count : Nat, left : 1..NoExpiry] /\ store'[k].count = store[k].count
               /\ store'[k].left = Window \/ store'[k].left = store[k].left
    <3>1. store[k] \in [count : Nat, left : 1..NoExpiry] /\ Window \in 1..NoExpiry
      BY LimitAssumption DEF RedisInv, NoExpiry
    <3>2. QED BY <2>1, <3>1
  <2>3. ASSUME NEW k \in Key, k \in DOMAIN store
        PROVE  Fits(recent[k], store'[k].count, store'[k].left)
    <3>1. recent[k] \in Ages /\ Fits(recent[k], store[k].count, store[k].left)
      BY <2>3 DEF RedisInv
    <3>2. store[k].count \in Nat /\ store[k].left \in Nat /\ store'[k].left \in Nat
          /\ store'[k].count = store[k].count /\ store'[k].count >= store[k].count
          /\ (store'[k].left >= store[k].left \/ store'[k].left >= Window)
      BY <2>2, <2>3, LimitAssumption DEF RedisInv, NoExpiry
    <3>3. QED BY <3>1, <3>2, FitsOther
  <2>4. QED BY <2>1, <2>2, <2>3 DEF RedisInv
<1>3. QED BY <1>1, <1>2 DEF Pexpire, Pttl, Lost

\* The clock in Redis: a key goes when its time is over, one without an expiry stays.
LEMMA TickRedis ==
    ASSUME RedisInv, LimitTick
    PROVE  RedisInv'
<1>1. /\ DOMAIN store' = {k \in DOMAIN store : store[k].left # 1}
      /\ \A k \in DOMAIN store' :
            store'[k] = [store[k] EXCEPT !.left = IF @ = NoExpiry THEN @ ELSE @ - 1]
      /\ DOMAIN recent' = DOMAIN recent /\ \A k \in DOMAIN recent : recent'[k] = Aged(recent[k])
  BY DEF LimitTick
<1>2. \A k \in DOMAIN recent' : recent'[k] \in Ages
  BY <1>1, AgedIs DEF RedisInv
<1>3. \A k \in DOMAIN recent' \ Key : recent'[k] = <<>>
  BY <1>1, NothingYet DEF RedisInv
<1>4. ASSUME NEW k \in DOMAIN store'
      PROVE  /\ store[k].count \in Nat /\ store[k].left \in Nat
             /\ store'[k] \in [count : Nat, left : 1..NoExpiry]
             /\ store'[k].count = store[k].count /\ store'[k].left + 1 >= store[k].left
  <2>1. store[k] \in [count : Nat, left : 1..NoExpiry] /\ store[k].left # 1
    BY <1>1 DEF RedisInv
  <2>2. store'[k] = [store[k] EXCEPT !.left = IF @ = NoExpiry THEN @ ELSE @ - 1]
    BY <1>1
  <2>3. QED BY <2>1, <2>2, LimitAssumption DEF NoExpiry
<1>5. ASSUME NEW k \in Key
      PROVE  IF k \in DOMAIN store' THEN Fits(recent'[k], store'[k].count, store'[k].left)
                                    ELSE Closed(recent'[k])
  <2>1. recent[k] \in Ages /\ recent'[k] = Aged(recent[k])
    BY <1>1 DEF RedisInv
  <2>2. CASE k \in DOMAIN store'
    <3>1. Fits(recent[k], store[k].count, store[k].left)
      BY <1>1, <2>2 DEF RedisInv
    <3>2. store'[k].left \in Nat
      BY <1>4, <2>2
    <3>3. Fits(recent'[k], store[k].count, store'[k].left)
      BY <1>4, <2>1, <2>2, <3>1, <3>2, FitsAged
    <3>4. QED BY <1>4, <2>2, <3>3
  <2>3. CASE k \in DOMAIN store /\ k \notin DOMAIN store'
    <3>1. store[k].count \in Nat /\ Fits(recent[k], store[k].count, 1)
      BY <1>1, <2>3 DEF RedisInv
    <3>2. QED BY <2>1, <2>3, <3>1, FitsClosed
  <2>4. CASE k \notin DOMAIN store
    <3>1. Closed(recent[k])
      BY <2>4 DEF RedisInv
    <3>2. QED BY <1>1, <2>1, <2>4, <3>1, ClosedAged
  <2>5. QED BY <2>2, <2>3, <2>4
<1>6. DOMAIN recent' = (Route \X Identity) \union Key
  BY <1>1 DEF RedisInv
<1>7. QED BY <1>2, <1>3, <1>4, <1>5, <1>6 DEF RedisInv

\* In any interval shorter than a window, at most the requests of two windows
\* are let through: the fixed windows of rate-limit.ts, whichever the store.
THEOREM AtMostTwoWindowsHolds == LimitSpec => []AtMostTwoWindows
<1>1. MemoryInv /\ [MemoryNext]_limitVars => MemoryInv'
  <2> SUFFICES ASSUME MemoryInv, [MemoryNext]_limitVars PROVE MemoryInv'
    OBVIOUS
  <2>1. CASE UNCHANGED limitVars
    BY <2>1 DEF MemoryInv, limitVars
  <2>2. QED BY <2>1, HitWindows, TickMemory DEF MemoryNext
<1>2. RedisInv /\ [RedisNext]_limitVars => RedisInv'
  <2> SUFFICES ASSUME RedisInv, [RedisNext]_limitVars PROVE RedisInv'
    OBVIOUS
  <2>1. CASE UNCHANGED limitVars
    BY <2>1 DEF RedisInv, limitVars
  <2>2. QED BY <2>1, IncrWindows, VisitWindows, TickRedis DEF RedisNext
<1>3. MemoryInv => AtMostTwoWindows
  <2> SUFFICES ASSUME MemoryInv, NEW k \in DOMAIN recent PROVE Len(recent[k]) <= 2 * Max
    BY DEF AtMostTwoWindows
  <2>1. recent[k] \in Ages
    BY DEF MemoryInv
  <2>2. CASE k \notin Route \X Identity
    BY <2>1, <2>2, NothingYet, TwoWindows DEF MemoryInv
  <2>3. ASSUME NEW r \in Route, NEW id \in Identity, k = <<r, id>>
        PROVE  Closed(recent[k]) \/ \E count, left \in Nat : Fits(recent[k], count, left)
    <3>1. CASE id \in DOMAIN hits[r] /\ hits[r][id].left > 0
      <4>1. Fits(recent[k], hits[r][id].count, hits[r][id].left)
        BY <2>3, <3>1 DEF MemoryInv
      <4>2. hits[r][id].count \in Nat /\ hits[r][id].left \in Nat
        BY <3>1 DEF MemoryInv
      <4>3. QED BY <4>1, <4>2
    <3>2. CASE ~(id \in DOMAIN hits[r] /\ hits[r][id].left > 0)
      BY <2>3, <3>2 DEF MemoryInv
    <3>3. QED BY <3>1, <3>2
  <2>4. QED BY <2>1, <2>2, <2>3, TwoWindows
<1>4. RedisInv => AtMostTwoWindows
  <2> SUFFICES ASSUME RedisInv, NEW k \in DOMAIN recent PROVE Len(recent[k]) <= 2 * Max
    BY DEF AtMostTwoWindows
  <2>1. recent[k] \in Ages
    BY DEF RedisInv
  <2>2. CASE k \notin Key
    BY <2>1, <2>2, NothingYet, TwoWindows DEF RedisInv
  <2>3. CASE k \in Key /\ k \in DOMAIN store
    <3>1. Fits(recent[k], store[k].count, store[k].left)
      BY <2>3 DEF RedisInv
    <3>2. store[k].count \in Nat /\ store[k].left \in Nat
      BY <2>3 DEF RedisInv
    <3>3. QED BY <2>1, <3>1, <3>2, TwoWindows
  <2>4. CASE k \in Key /\ k \notin DOMAIN store
    BY <2>1, <2>4, TwoWindows DEF RedisInv
  <2>5. QED BY <2>2, <2>3, <2>4
<1>5. QED BY <1>1, <1>2, <1>3, <1>4, WindowsInitial, PTL DEF LimitSpec

-----------------------------------------------------------------------------
(* @Memoize. *)

\* Whose result may be given to call c.
Shares(d, c) == d \in Asking /\ Argument[d] = Argument[c] /\ CacheOf(d) = CacheOf(c)

\* An entry was computed by a call of its cache and arguments; a running call
\* will store in its own cache; a call that is done got a result it shares.
MemoInv ==
    /\ DOMAIN memo = Caches
    /\ asking \in [Asking -> [at : {"idle", "running", "done", "failed"}, cache : Caches,
                              from : Asking \union {None}]]
    /\ \A k \in Caches : \A a \in DOMAIN memo[k] :
          memo[k][a].by \in Asking /\ Argument[memo[k][a].by] = a /\ CacheOf(memo[k][a].by) = k
    /\ \A c \in Asking : /\ asking[c].at = "running" => asking[c].cache = CacheOf(c)
                         /\ asking[c].at = "done" => Shares(asking[c].from, c)

\* A call has one of the caches.
LEMMA CachesOfCalls == \A c \in Asking : CacheOf(c) \in Caches
BY DEF CacheOf, Caches

\* Nothing is computed at first.
LEMMA MemoInitial == MethodInit => MemoInv
<1>1. None \in Caches
  BY DEF Caches
<1>2. QED BY <1>1 DEF MethodInit, MemoInv, NotAsked

\* Every step keeps MemoInv.
LEMMA MemoSteps == MemoInv /\ [MemoNext \/ ThrottleNext]_methodVars => MemoInv'
<1> SUFFICES ASSUME MemoInv, [MemoNext \/ ThrottleNext]_methodVars PROVE MemoInv'
  OBVIOUS
<1>1. ASSUME NEW c \in Asking, Recall(c) PROVE MemoInv'
  <2>1. /\ memo' = memo
        /\ asking' = [asking EXCEPT ![c] = [at |-> "done", cache |-> CacheOf(c),
                                            from |-> memo[CacheOf(c)][Argument[c]].by]]
    BY <1>1 DEF Recall
  <2>2. Shares(memo[CacheOf(c)][Argument[c]].by, c)
    BY <1>1, CachesOfCalls DEF Recall, Hits, MemoInv, Shares
  <2>3. QED BY <2>1, <2>2, CachesOfCalls DEF MemoInv, Shares
<1>2. ASSUME NEW c \in Asking, Compute(c) PROVE MemoInv'
  BY <1>2, CachesOfCalls DEF Compute, MemoInv
<1>3. ASSUME NEW c \in Asking, Store(c) PROVE MemoInv'
  <2>1. /\ asking[c].at = "running" /\ asking[c].cache = CacheOf(c) /\ CacheOf(c) \in Caches
        /\ asking' = [asking EXCEPT ![c].at = "done", ![c].from = c]
    BY <1>3, CachesOfCalls DEF Store, MemoInv
  <2>2. /\ DOMAIN memo' = Caches
        /\ \A k \in Caches : k # CacheOf(c) => memo'[k] = memo[k]
        /\ memo'[CacheOf(c)] = [a \in DOMAIN memo[CacheOf(c)] \union {Argument[c]} |->
               IF a = Argument[c] THEN [by |-> c, age |-> 0] ELSE memo[CacheOf(c)][a]]
    BY <1>3, <2>1 DEF Store, MemoInv
  <2>3. DOMAIN memo' = Caches
    BY <2>2
  <2>4. \A k \in Caches : \A a \in DOMAIN memo'[k] :
           memo'[k][a].by \in Asking /\ Argument[memo'[k][a].by] = a /\ CacheOf(memo'[k][a].by) = k
    BY <2>2 DEF MemoInv
  <2>5. \A d \in Asking : /\ asking'[d].at = "running" => asking'[d].cache = CacheOf(d)
                          /\ asking'[d].at = "done" => Shares(asking'[d].from, d)
    BY <2>1 DEF MemoInv, Shares
  <2>6. asking' \in [Asking -> [at : {"idle", "running", "done", "failed"}, cache : Caches,
                                from : Asking \union {None}]]
    <3>1. asking[c] \in [at : {"idle", "running", "done", "failed"}, cache : Caches,
                         from : Asking \union {None}]
      BY DEF MemoInv
    <3>2. asking'[c] = [at |-> "done", cache |-> asking[c].cache, from |-> c]
      BY <2>1, <3>1 DEF MemoInv
    <3>3. asking'[c] \in [at : {"idle", "running", "done", "failed"}, cache : Caches,
                          from : Asking \union {None}]
      BY <3>1, <3>2
    <3>4. DOMAIN asking' = Asking /\ \A d \in Asking : d # c => asking'[d] = asking[d]
      BY <2>1 DEF MemoInv
    <3>5. asking' = [d \in Asking |-> asking'[d]]
      BY <2>1 DEF MemoInv
    <3>6. QED BY <3>3, <3>4, <3>5 DEF MemoInv
  <2>7. QED BY <2>3, <2>4, <2>5, <2>6 DEF MemoInv, Shares
<1>4. ASSUME NEW c \in Asking, Throws(c) PROVE MemoInv'
  BY <1>4 DEF Throws, MemoInv, Shares
<1>5. ASSUME NEW c \in Asking, AskAgain(c) PROVE MemoInv'
  BY <1>5 DEF AskAgain, MemoInv, NotAsked, Caches, Shares
<1>6. CASE MethodTick
  <2>1. /\ asking' = asking /\ DOMAIN memo' = Caches
        /\ \A k \in Caches : DOMAIN memo'[k] = DOMAIN memo[k]
        /\ \A k \in Caches : \A a \in DOMAIN memo[k] : memo'[k][a].by = memo[k][a].by
    BY <1>6 DEF MethodTick
  <2>2. \A k \in Caches : \A a \in DOMAIN memo'[k] :
           memo'[k][a].by \in Asking /\ Argument[memo'[k][a].by] = a /\ CacheOf(memo'[k][a].by) = k
    BY <2>1 DEF MemoInv
  <2>3. QED BY <2>1, <2>2 DEF MemoInv, Shares
<1>7. CASE UNCHANGED <<memo, asking>>
  BY <1>7 DEF MemoInv, Shares
<1>8. ThrottleNext /\ ~MethodTick => UNCHANGED <<memo, asking>>
  BY DEF ThrottleNext, CallHook, RefuseHook, HookEnds, HookAgain
<1>9. QED BY <1>1, <1>2, <1>3, <1>4, <1>5, <1>6, <1>7, <1>8 DEF MemoNext, methodVars

\* A memoized result never leaves its request or its arguments, whatever the
\* calls, their ttl and their order.
THEOREM MemoIsolatedHolds == MethodSpec => []MemoIsolated
<1>1. MemoInv => MemoIsolated
  BY DEF MemoInv, Shares, MemoIsolated, CacheOf
<1>2. QED BY <1>1, MemoInitial, MemoSteps, PTL DEF MethodSpec

=============================================================================
