-------------------------- MODULE LifecycleProofs ---------------------------
(***************************************************************************)
(* The safety of what runs beside the requests, for every plan, every set  *)
(* of buses, every tree of modules and any signals: the scheduler, the     *)
(* event bus, the bootstrap hooks and the shutdown.                        *)
(***************************************************************************)
EXTENDS Scheduler, EventBus, Bootstrap, Shutdown, FiniteSetTheorems, SequenceTheorems, TLAPS

-----------------------------------------------------------------------------
(* Scheduler. *)

\* NoOverlap with the types it needs; no timer outlives the teardown.
SchedulerInv ==
    /\ DOMAIN running = Job
    /\ bodies \in [Job -> Nat]
    /\ DOMAIN left = Job
    /\ NoOverlap
    /\ scheduler = "stopped" => \A j \in Job : left[j] = Never

\* No timer is set at first.
LEMMA SchedulerInitial == SchedulerInit => SchedulerInv
BY DEF SchedulerInit, SchedulerInv, NoOverlap

\* The flag is set by the call that counts the method, and reset by its end.
LEMMA SchedulerStep == SchedulerInv /\ [SchedulerNext]_schedulerVars => SchedulerInv'
<1> SUFFICES ASSUME SchedulerInv, [SchedulerNext]_schedulerVars PROVE SchedulerInv'
  OBVIOUS
<1> USE DEF SchedulerInv, NoOverlap
<1>1. ASSUME NEW t \in TargetLists, Start(t) PROVE SchedulerInv'
  <2>1. PICK called : /\ running' = [j \in Job |-> j \in called]
                      /\ bodies' = [j \in Job |-> IF j \in called THEN 1 ELSE 0]
    BY <1>1, Zenon DEF Start
  <2>2. DOMAIN left' = Job /\ scheduler' # "stopped"
    BY <1>1 DEF Start
  <2>3. DOMAIN running' = Job
    BY <2>1, Zenon
  <2>4. bodies' \in [Job -> Nat]
    BY <2>1
  <2>5. ASSUME NEW j \in Job PROVE (running'[j] <=> j \in called) /\ bodies'[j] = IF j \in called THEN 1 ELSE 0
    BY <2>1, Zenon
  <2>6. NoOverlap'
    BY <2>5
  <2>7. QED BY <2>2, <2>3, <2>4, <2>6
<1>2. CASE Stop
  BY <1>2 DEF Stop
<1>3. CASE Advance
  BY <1>3, PlanAssumption DEF Advance
<1>4. CASE Adjust
  BY <1>4 DEF Adjust
<1>5. ASSUME NEW j \in Job, Fire(j) PROVE SchedulerInv'
  <2>1. left[j] = 0 /\ scheduler # "stopped"
    BY <1>5, PlanAssumption DEF Fire
  <2>2. CASE Call(j)
    BY <2>1, <2>2 DEF Call
  <2>3. CASE Skip(j)
    BY <2>1, <2>3 DEF Skip, ScheduleNext
  <2>4. QED BY <1>5, <2>2, <2>3 DEF Fire
<1>6. ASSUME NEW j \in Job, End(j) PROVE SchedulerInv'
  <2>1. scheduler = "stopped" => UNCHANGED <<left, scheduler>>
    BY <1>6 DEF End, ScheduleNext
  <2>2. scheduler # "stopped" => scheduler' # "stopped"
    BY <1>6 DEF End, ScheduleNext
  <2>3. DOMAIN left' = Job
    BY <1>6 DEF End, ScheduleNext
  <2>4. scheduler' = "stopped" => \A i \in Job : left'[i] = Never
    BY <2>1, <2>2
  <2>5. /\ bodies[j] > 0 /\ bodies' = [bodies EXCEPT ![j] = @ - 1]
        /\ running' = [running EXCEPT ![j] = FALSE]
    BY <1>6 DEF End
  <2>6. DOMAIN running' = Job /\ bodies' \in [Job -> Nat] /\ NoOverlap'
    BY <2>5
  <2>7. QED BY <2>3, <2>4, <2>6
<1>7. CASE UNCHANGED schedulerVars
  BY <1>7 DEF schedulerVars
<1>8. QED BY <1>1, <1>2, <1>3, <1>4, <1>5, <1>6, <1>7 DEF SchedulerNext

\* A scheduled method never overlaps itself, whatever its plan.
THEOREM NoOverlapHolds == SchedulerSpec => []NoOverlap
<1>1. SchedulerInv => NoOverlap
  BY DEF SchedulerInv
<1>2. QED BY <1>1, SchedulerInitial, SchedulerStep, PTL DEF SchedulerSpec

\* A scheduler that was torn down calls nothing: a tick needs a timer that is
\* due, and there is none.
THEOREM Silence == SchedulerSpec => SilentAfterStop
<1> DEFINE Quiet == scheduler = "stopped" => \A j \in Job : left[j] = Never /\ bodies'[j] <= bodies[j]
<1>1. SchedulerInv /\ [SchedulerNext]_schedulerVars => [Quiet]_schedulerVars
  <2> SUFFICES ASSUME SchedulerInv, SchedulerNext, scheduler = "stopped", NEW j \in Job
               PROVE  left[j] = Never /\ bodies'[j] <= bodies[j]
    OBVIOUS
  <2> USE DEF SchedulerInv
  <2>1. left[j] = Never
    OBVIOUS
  <2>2. ASSUME NEW i \in Job, Fire(i) PROVE FALSE
    BY <2>2, PlanAssumption DEF Fire
  <2>3. ASSUME NEW i \in Job, End(i) PROVE bodies'[j] <= bodies[j]
    BY <2>3 DEF End
  <2>4. CASE UNCHANGED bodies
    BY <2>4
  <2>5. ASSUME NEW t \in TargetLists, Start(t) PROVE FALSE
    BY <2>5 DEF Start
  <2>6. QED BY <2>1, <2>2, <2>3, <2>4, <2>5 DEF SchedulerNext, Stop, Advance, Adjust
<1>2. QED BY <1>1, SchedulerInitial, SchedulerStep, PTL DEF SchedulerSpec, SilentAfterStop

-----------------------------------------------------------------------------
(* The next minute of a cron. *)

\* A set of numbers has a least element.
LEMMA LeastIn == ASSUME NEW T \in SUBSET Nat, T # {} PROVE \E m \in T : \A k \in T : m <= k
<1> DEFINE R == {ss \in Nat \X Nat : ss[1] < ss[2]}
<1>1. R = OpToRel(<, Nat) BY DEF OpToRel
<1>2. IsWellFoundedOn(R, Nat) BY <1>1, NatLessThanWellFounded, Zenon
<1> HIDE DEF R
<1>3. \E m \in T : \A k \in T : ~(<<k, m>> \in R)
  BY <1>2, WFMin, Zenon
<1>4. ASSUME NEW m \in T, NEW k \in T, ~(<<k, m>> \in R) PROVE m <= k
  BY <1>4 DEF R
<1> QED BY <1>3, <1>4

\* Induction; the set stands for the formula, so that no fact takes an operator.
LEMMA CountUp ==
    ASSUME NEW T, 0 \in T, \A i \in Nat : i \in T => (i + 1) \in T
    PROVE  \A i \in Nat : i \in T
<1> DEFINE Lack == {i \in Nat : i \notin T}
<1> SUFFICES ASSUME Lack # {} PROVE FALSE OBVIOUS
<1>1. Lack \in SUBSET Nat OBVIOUS
<1> HIDE DEF Lack
<1>2. PICK m \in Lack : \A k \in Lack : m <= k BY <1>1, LeastIn
<1> USE DEF Lack
<1>3. m # 0 /\ m - 1 \in Nat BY <1>1
<1>4. m - 1 \notin Lack BY <1>2, <1>3
<1> QED BY <1>2, <1>3, <1>4

\* Division, multiples of d, and the next of them.
LEMMA Divided ==
    ASSUME NEW n \in Nat, NEW d \in Nat \ {0}
    PROVE  n \div d \in Nat /\ (n % d) \in 0..(d - 1) /\ n = d * (n \div d) + (n % d)
<1>1. n \div d \in Int OBVIOUS
<1>2. (n % d) \in 0..(d - 1) OBVIOUS
<1>3. n = d * (n \div d) + (n % d) OBVIOUS
<1>4. n \div d >= 0 BY <1>1, <1>2, <1>3
<1> QED BY <1>1, <1>2, <1>3, <1>4

LEMMA Multiple == ASSUME NEW a \in Nat, NEW d \in Nat \ {0}, a % d = 0 PROVE \E p \in Nat : a = d * p
<1>1. a \div d \in Nat /\ a = d * (a \div d) + (a % d) BY Divided
<1> QED BY <1>1

LEMMA OneMore ==
    ASSUME NEW p \in Nat, NEW d \in Nat
    PROVE  d * p + d = d * (p + 1) /\ d * p \in Nat /\ d * (p + 1) \in Nat
OBVIOUS

LEMMA Grows == ASSUME NEW p \in Nat, NEW q \in Nat, NEW d \in Nat, p <= q PROVE d * p <= d * q
OBVIOUS

LEMMA IsMultiple == ASSUME NEW p \in Nat, NEW d \in Nat \ {0} PROVE (d * p) % d = 0
OBVIOUS

LEMMA NextMultiple ==
    ASSUME NEW a \in Nat, NEW d \in Nat \ {0}, a % d = 0
    PROVE  (a + d) % d = 0 /\ \A b \in Nat : b % d = 0 /\ a < b => a + d <= b
<1>1. PICK p \in Nat : a = d * p BY Multiple
<1>2. d * p + d = d * (p + 1) BY OneMore
<1>3. (a + d) % d = 0 BY <1>1, <1>2, IsMultiple
<1>4. ASSUME NEW b \in Nat, b % d = 0, a < b PROVE a + d <= b
  <2>1. PICK q \in Nat : b = d * q BY <1>4, Multiple
  <2>2. CASE q <= p
    <3>1. d * q <= d * p BY <2>2, Grows
    <3> QED BY <1>1, <1>4, <2>1, <3>1
  <2>3. CASE p + 1 <= q
    <3>1. d * (p + 1) <= d * q BY <2>3, Grows
    <3> QED BY <1>1, <1>2, <2>1, <3>1
  <2> QED BY <2>2, <2>3
<1> QED BY <1>3, <1>4

\* The first minute of the scan.
LEMMA FirstMinute ==
    ASSUME NEW from \in Nat
    PROVE  /\ NextMinute(from) \in Nat /\ NextMinute(from) % PerMinute = 0 /\ from < NextMinute(from)
           /\ \A t \in Nat : t % PerMinute = 0 /\ from < t => NextMinute(from) <= t
<1> DEFINE d == PerMinute
           q == from \div d
<1>1. d \in Nat \ {0} BY CalendarAssumption
<1>2. q \in Nat /\ (from % d) \in 0..(d - 1) /\ from = d * q + (from % d) BY <1>1, Divided
<1>3. NextMinute(from) = d * q + d BY DEF NextMinute
<1> HIDE DEF d, q
<1>4. d * q \in Nat BY <1>1, <1>2
<1>5. (d * q) % d = 0 BY <1>1, <1>2, IsMultiple
<1>6. (d * q + d) % d = 0 /\ \A b \in Nat : b % d = 0 /\ d * q < b => d * q + d <= b
  BY <1>1, <1>4, <1>5, NextMultiple
<1>7. d * q <= from /\ from < d * q + d BY <1>1, <1>2, <1>4
<1>8. ASSUME NEW t \in Nat, t % d = 0, from < t PROVE d * q + d <= t
  BY <1>4, <1>6, <1>7, <1>8
<1> QED BY <1>1, <1>3, <1>4, <1>6, <1>7, <1>8 DEF d

IsScan(scan, expr, last) ==
    scan = [time \in Nat |-> IF time > last THEN 0
                             ELSE IF Matches(expr, time) THEN time ELSE scan[time + PerMinute]]

\* The scan is a function: at a time it gives the first hit that is a whole
\* number of minutes later.
LEMMA ScanExists ==
    ASSUME NEW expr, NEW last \in Nat
    PROVE  \E scan : IsScan(scan, expr, last)
<1> DEFINE Hit(t) == Matches(expr, t)
           Later(time) == {t \in Nat : t <= last /\ Hit(t) /\ \E k \in Nat : t = time + PerMinute * k}
           First(S) == IF S = {} THEN 0 ELSE CHOOSE m \in S : \A k \in S : m <= k
           f == [time \in Nat |-> First(Later(time))]
<1>1. PerMinute \in Nat \ {0} BY CalendarAssumption
<1> HIDE DEF Hit, First
<1>2. ASSUME NEW time \in Nat, time > last PROVE f[time] = 0
  <2>1. \A k \in Nat : PerMinute * k \in Nat BY <1>1
  <2>2. Later(time) = {} BY <1>2, <2>1
  <2> QED BY <2>2 DEF First
<1>3. ASSUME NEW time \in Nat, ~(time > last), Hit(time) PROVE f[time] = time
  <2>1. PerMinute * 0 = 0 /\ \A k \in Nat : PerMinute * k \in Nat BY <1>1
  <2>2. time \in Later(time) BY <1>3, <2>1
  <2>3. \A t \in Later(time) : time <= t BY <2>1
  <2> HIDE DEF Later
  <2>4. First(Later(time)) = CHOOSE m \in Later(time) : \A k \in Later(time) : m <= k BY <2>2 DEF First
  <2>5. \A m \in Later(time) : m \in Nat BY DEF Later
  <2>6. ASSUME NEW m \in Later(time), \A k \in Later(time) : m <= k PROVE m = time BY <2>2, <2>3, <2>5, <2>6
  <2> QED BY <2>2, <2>3, <2>4, <2>6
<1>4. ASSUME NEW time \in Nat, ~Hit(time) PROVE f[time] = f[time + PerMinute]
  <2>1. ASSUME NEW k \in Nat, Hit(time + PerMinute * k)
        PROVE  \E l \in Nat : time + PerMinute * k = (time + PerMinute) + PerMinute * l
    <3>1. k # 0
      <4>1. time + PerMinute * 0 = time BY <1>1
      <4> QED BY <1>4, <2>1, <4>1
    <3>2. k - 1 \in Nat /\ (k - 1) + 1 = k BY <3>1
    <3>3. PerMinute * (k - 1) + PerMinute = PerMinute * k /\ PerMinute * (k - 1) \in Nat
      BY <1>1, <3>2, OneMore
    <3>4. time + PerMinute * k = (time + PerMinute) + PerMinute * (k - 1) BY <1>1, <3>3
    <3> QED BY <3>2, <3>4
  <2>2. ASSUME NEW k \in Nat PROVE \E l \in Nat : (time + PerMinute) + PerMinute * k = time + PerMinute * l
    <3>1. PerMinute * k + PerMinute = PerMinute * (k + 1) /\ PerMinute * k \in Nat BY <1>1, OneMore
    <3>2. (time + PerMinute) + PerMinute * k = time + PerMinute * (k + 1) BY <1>1, <3>1
    <3> QED BY <3>2
  <2>3. Later(time) \subseteq Later(time + PerMinute)
    BY <2>1
  <2>4. Later(time + PerMinute) \subseteq Later(time) BY <2>2
  <2>5. Later(time) = Later(time + PerMinute) BY <2>3, <2>4
  <2>6. time + PerMinute \in Nat BY <1>1
  <2> HIDE DEF Later
  <2> QED BY <2>5, <2>6
<1>5. f = [time \in Nat |-> f[time]] OBVIOUS
<1> HIDE DEF f
<1>6. \A time \in Nat : f[time] = IF time > last THEN 0 ELSE IF Hit(time) THEN time ELSE f[time + PerMinute]
  BY <1>2, <1>3, <1>4
<1>7. f = [time \in Nat |-> IF time > last THEN 0 ELSE IF Hit(time) THEN time ELSE f[time + PerMinute]]
  BY <1>5, <1>6
<1> QED BY <1>7 DEF Hit, IsScan

\* What the scan finds from a minute on is the first minute that matches.
LEMMA ScanFirst ==
    ASSUME NEW expr, NEW last \in Nat, NEW scan, IsScan(scan, expr, last),
           NEW start \in Nat, start % PerMinute = 0, scan[start] # 0
    PROVE  /\ scan[start] \in Nat /\ start <= scan[start] /\ scan[start] <= last
           /\ scan[start] % PerMinute = 0 /\ Matches(expr, scan[start])
           /\ \A t \in start..scan[start] : t % PerMinute = 0 /\ Matches(expr, t) => t = scan[start]
<1> DEFINE Hit(t) == Matches(expr, t)
           Good(time) == \/ scan[time] = 0
                         \/ /\ scan[time] \in Nat /\ time <= scan[time] /\ scan[time] <= last
                            /\ scan[time] % PerMinute = 0 /\ Hit(scan[time])
                            /\ \A t \in time..scan[time] : t % PerMinute = 0 /\ Hit(t) => t = scan[time]
           T == {k \in Nat : \A time \in Nat : time % PerMinute = 0 /\ time + k > last => Good(time)}
<1>1. PerMinute \in Nat \ {0} BY CalendarAssumption
<1>2. \A time \in Nat : scan[time] = IF time > last THEN 0 ELSE IF Hit(time) THEN time ELSE scan[time + PerMinute]
  BY DEF IsScan
<1> HIDE DEF Hit
<1>3. 0 \in T
  <2> SUFFICES ASSUME NEW time \in Nat, time + 0 > last PROVE Good(time)
    OBVIOUS
  <2> QED BY <1>2
<1>4. ASSUME NEW k \in Nat, k \in T PROVE (k + 1) \in T
  <2> SUFFICES ASSUME NEW time \in Nat, time % PerMinute = 0, time + (k + 1) > last PROVE Good(time)
    OBVIOUS
  <2>1. CASE time > last BY <1>2, <2>1
  <2>2. CASE ~(time > last) /\ Hit(time)
    <3>1. scan[time] = time BY <1>2, <2>2
    <3> QED BY <2>2, <3>1
  <2>3. CASE ~(time > last) /\ ~Hit(time)
    <3> DEFINE next == time + PerMinute
    <3>1. scan[time] = scan[next] BY <1>2, <2>3
    <3>2. next \in Nat /\ time < next BY <1>1
    <3>3. next % PerMinute = 0 /\ \A b \in Nat : b % PerMinute = 0 /\ time < b => next <= b BY <1>1, NextMultiple
    <3>4. next + k > last BY <1>1
    <3> HIDE DEF next, Good
    <3>5. Good(next) BY <1>4, <3>2, <3>3, <3>4
    <3> USE DEF Good
    <3>6. CASE scan[next] = 0 BY <3>1, <3>6
    <3>7. CASE scan[next] # 0
      <4>1. /\ scan[next] \in Nat /\ next <= scan[next] /\ scan[next] <= last
            /\ scan[next] % PerMinute = 0 /\ Hit(scan[next])
            /\ \A t \in next..scan[next] : t % PerMinute = 0 /\ Hit(t) => t = scan[next]
        BY <3>5, <3>7
      <4>2. ASSUME NEW t \in time..scan[next], t % PerMinute = 0, Hit(t) PROVE t = scan[next]
        <5>1. t # time BY <2>3, <4>2
        <5>2. t \in Nat /\ time <= t BY <4>1
        <5>3. next <= t BY <3>3, <4>2, <5>1, <5>2
        <5> QED BY <3>2, <4>1, <4>2, <5>2, <5>3
      <4>3. time <= scan[next] BY <3>2, <4>1
      <4> QED BY <3>1, <4>1, <4>2, <4>3
    <3> QED BY <3>6, <3>7
  <2> QED BY <2>1, <2>2, <2>3
<1> HIDE DEF T, Good
<1>5. \A k \in Nat : k \in T BY <1>3, <1>4, CountUp
<1>6. last + 1 \in T BY <1>5
<1>7. start + (last + 1) > last OBVIOUS
<1>8. Good(start) BY <1>6, <1>7 DEF T
<1> QED BY <1>8 DEF Good, Hit

\* nextCronTime gives the first matching minute after the time it is given,
\* unless it throws.
LEMMA NextMinuteMatching ==
    ASSUME NEW expr, NEW from \in Nat, NextCronTime(expr, from) # 0
    PROVE  LET due == NextCronTime(expr, from) IN
           /\ due \in Nat /\ from < due /\ due <= from + Horizon
           /\ due % PerMinute = 0 /\ Matches(expr, due)
           /\ \A t \in (from + 1)..due : t % PerMinute = 0 /\ Matches(expr, t) => t = due
<1> DEFINE last == from + Horizon
           scan == CHOOSE f : IsScan(f, expr, last)
           start == NextMinute(from)
<1>1. last \in Nat BY CalendarAssumption
<1>2. NextCronTime(expr, from) = scan[start] BY DEF NextCronTime, IsScan
<1>3. \E f : IsScan(f, expr, last)
  <2> HIDE DEF last
  <2> QED BY <1>1, ScanExists
<1>4. IsScan(scan, expr, last) BY <1>3
<1>5. /\ start \in Nat /\ start % PerMinute = 0 /\ from < start
      /\ \A t \in Nat : t % PerMinute = 0 /\ from < t => start <= t
  BY FirstMinute
<1> HIDE DEF last, scan, start
<1>a. scan[start] # 0 BY <1>2
<1>6. /\ scan[start] \in Nat /\ start <= scan[start] /\ scan[start] <= last
      /\ scan[start] % PerMinute = 0 /\ Matches(expr, scan[start])
      /\ \A t \in start..scan[start] : t % PerMinute = 0 /\ Matches(expr, t) => t = scan[start]
  <2>1. start \in Nat /\ start % PerMinute = 0 BY <1>5
  <2> QED BY <1>1, <1>4, <1>a, <2>1, ScanFirst, SMTT(30)
<1>7. \A t \in (from + 1)..scan[start] : t % PerMinute = 0 /\ Matches(expr, t) => t = scan[start]
  BY <1>5, <1>6
<1> QED BY <1>2, <1>5, <1>6, <1>7 DEF last

\* The days before a month: the function exists, since for every number there
\* is one up to it; and a year has days.
IsBefore(f) == f = [n \in Nat |-> IF n <= 1 THEN 0 ELSE f[n - 1] + MonthDays[n - 1]]

LEMMA BeforeExists == \E f : IsBefore(f)
<1> DEFINE At(f, n) == IF n <= 1 THEN 0 ELSE f[n - 1] + MonthDays[n - 1]
           UpTo(k, f) == f = [n \in 0..k |-> At(f, n)]
           T == {k \in Nat : \E f : UpTo(k, f)}
           U == {k \in Nat : \A m \in Nat : m >= k => \A f, g : UpTo(k, f) /\ UpTo(m, g) => f[k] = g[k]}
<1>1. 0 \in T
  <2> DEFINE f == [n \in 0..0 |-> 0]
  <2>1. f = [n \in 0..0 |-> At(f, n)] OBVIOUS
  <2> QED BY <2>1
<1>2. ASSUME NEW k \in Nat, k \in T PROVE k + 1 \in T
  <2>1. PICK f : UpTo(k, f) BY <1>2
  <2> DEFINE g == [n \in 0..(k + 1) |-> IF n \in 0..k THEN f[n] ELSE At(f, n)]
  <2>2. ASSUME NEW n \in 0..(k + 1) PROVE g[n] = At(g, n)
    <3>1. ~(n <= 1) => n - 1 \in 0..k /\ g[n - 1] = f[n - 1] OBVIOUS
    <3>2. g[n] = At(f, n) BY <2>1
    <3> QED BY <3>1, <3>2
  <2>3. g = [n \in 0..(k + 1) |-> g[n]] OBVIOUS
  <2> HIDE DEF g, At
  <2>4. g = [n \in 0..(k + 1) |-> At(g, n)] BY <2>2, <2>3
  <2> QED BY <2>4
<1>3. ASSUME NEW k \in Nat PROVE k \in T
  <2> HIDE DEF T
  <2> QED BY <1>1, <1>2, CountUp
<1>4. 0 \in U OBVIOUS
<1>5. ASSUME NEW k \in Nat, k \in U PROVE k + 1 \in U
  <2> SUFFICES ASSUME NEW m \in Nat, m >= k + 1, NEW f, NEW g, UpTo(k + 1, f), UpTo(m, g)
               PROVE  f[k + 1] = g[k + 1]
    OBVIOUS
  <2>1. f[k + 1] = At(f, k + 1) /\ g[k + 1] = At(g, k + 1) OBVIOUS
  <2> DEFINE h == [n \in 0..k |-> f[n]]
  <2>2. UpTo(k, h)
    <3>1. ASSUME NEW n \in 0..k PROVE h[n] = At(h, n)
      <4>1. f[n] = At(f, n) OBVIOUS
      <4>2. ~(n <= 1) => n - 1 \in 0..k /\ h[n - 1] = f[n - 1] OBVIOUS
      <4> QED BY <4>1, <4>2
    <3>2. h = [n \in 0..k |-> h[n]] OBVIOUS
    <3> HIDE DEF h, At
    <3> QED BY <3>1, <3>2
  <2>3. h[k] = f[k] OBVIOUS
  <2> HIDE DEF h, UpTo
  <2>4. h[k] = g[k] BY <1>5, <2>2
  <2>5. ~(k + 1 <= 1) => f[k] = g[k] BY <2>3, <2>4
  <2>6. (k + 1) - 1 = k OBVIOUS
  <2> QED BY <2>1, <2>5, <2>6
<1>6. ASSUME NEW k \in Nat PROVE k \in U
  <2> HIDE DEF U
  <2> QED BY <1>4, <1>5, CountUp
<1> HIDE DEF T
<1> DEFINE some == [k \in Nat |-> CHOOSE f : UpTo(k, f)]
           f == [k \in Nat |-> some[k][k]]
<1>7. ASSUME NEW k \in Nat PROVE UpTo(k, some[k])
  <2>1. \E g : UpTo(k, g) BY <1>3 DEF T
  <2> HIDE DEF UpTo
  <2> QED BY <2>1
<1>8. ASSUME NEW n \in Nat PROVE f[n] = At(f, n)
  <2> HIDE DEF some
  <2>1. some[n][n] = At(some[n], n)
    <3>1. some[n] = [m \in 0..n |-> At(some[n], m)] /\ n \in 0..n BY <1>7
    <3> HIDE DEF At
    <3> QED BY <3>1
  <2>2. CASE n <= 1 BY <2>1, <2>2
  <2>3. CASE ~(n <= 1)
    <3>1. n - 1 \in Nat /\ n >= n - 1 BY <2>3
    <3>2. UpTo(n, some[n]) /\ UpTo(n - 1, some[n - 1]) /\ n - 1 \in U BY <1>6, <1>7, <3>1
    <3> HIDE DEF UpTo
    <3>3. some[n - 1][n - 1] = some[n][n - 1] BY <3>1, <3>2
    <3> QED BY <2>1, <2>3, <3>1, <3>3
  <2> QED BY <2>2, <2>3
<1>9. f = [n \in Nat |-> f[n]] OBVIOUS
<1> HIDE DEF f
<1>10. IsBefore(f) BY <1>8, <1>9 DEF IsBefore
<1> QED BY <1>10

LEMMA CalendarGoesRound == Period \in Nat \ {0}
<1>1. IsBefore(Before)
  <2>1. Before = CHOOSE f : IsBefore(f) BY DEF Before, IsBefore
  <2> QED BY <2>1, BeforeExists
<1>2. \A n \in Nat : Before[n] = IF n <= 1 THEN 0 ELSE Before[n - 1] + MonthDays[n - 1] BY <1>1 DEF IsBefore
<1> DEFINE months == Len(MonthDays)
           T == {k \in Nat : k < months => Before[k + 2] \in Nat \ {0}}
<1>3. months \in Nat \ {0} /\ \A k \in 1..months : MonthDays[k] \in Nat \ {0} BY CalendarAssumption
<1> HIDE DEF months
<1>4. 0 \in T
  <2>1. Before[2] = Before[1] + MonthDays[1] /\ Before[1] = 0 BY <1>2
  <2> QED BY <1>3, <2>1
<1>5. ASSUME NEW k \in Nat, k \in T PROVE k + 1 \in T
  <2> SUFFICES ASSUME k + 1 < months PROVE Before[(k + 1) + 2] \in Nat \ {0} OBVIOUS
  <2>1. Before[k + 2] \in Nat \ {0} BY <1>3, <1>5
  <2>2. Before[(k + 1) + 2] = Before[k + 2] + MonthDays[k + 2]
    <3>1. ((k + 1) + 2) - 1 = k + 2 /\ ~((k + 1) + 2 <= 1) OBVIOUS
    <3>2. Before[(k + 1) + 2] = Before[((k + 1) + 2) - 1] + MonthDays[((k + 1) + 2) - 1] BY <1>2, <3>1
    <3> QED BY <3>1, <3>2
  <2>3. MonthDays[k + 2] \in Nat \ {0} BY <1>3
  <2> QED BY <2>1, <2>2, <2>3
<1> HIDE DEF T
<1>6. \A k \in Nat : k \in T BY <1>4, <1>5, CountUp
<1>7. YearDays \in Nat \ {0}
  <2>1. months - 1 \in T /\ months - 1 < months /\ (months - 1) + 2 = months + 1 BY <1>3, <1>6
  <2>2. Before[(months - 1) + 2] \in Nat \ {0} BY <2>1 DEF T
  <2> QED BY <2>1, <2>2 DEF YearDays, months
<1>8. ASSUME NEW a \in Nat \ {0}, NEW b \in Nat \ {0} PROVE a * b \in Nat \ {0} OBVIOUS
<1>9. PerMinute * PerHour \in Nat \ {0} BY <1>8, CalendarAssumption
<1>10. PerMinute * PerHour * PerDay \in Nat \ {0} BY <1>8, <1>9, CalendarAssumption
<1>11. PerMinute * PerHour * PerDay * YearDays \in Nat \ {0} BY <1>7, <1>8, <1>10
<1> QED BY <1>8, <1>11, CalendarAssumption DEF Period

-----------------------------------------------------------------------------
\* Time and timers.
ArmedInv == now \in 0..(Period - 1) /\ left \in [Job -> Nat \union {Never}]

\* A cron's next minute is within what a timer can wait for, which is a little
\* less than 25 days; a longer wait is cut to a millisecond.
NoDelayTooLong ==
    \A j \in Job : \A t \in 0..(Period - 1) : IsCron(j) => NextCronTime(Expr(j), t) - t <= MaxDelay

\* The delay until the next minute of j.
LEMMA DelayNat == ASSUME ArmedInv, NEW j, ~Impossible(j) PROVE Timer(NextCronTime(Expr(j), now) - now) \in Nat
<1>1. now \in Nat BY CalendarGoesRound DEF ArmedInv
<1>2. NextCronTime(Expr(j), now) \in Nat /\ now < NextCronTime(Expr(j), now)
  BY <1>1, NextMinuteMatching DEF Impossible
<1> QED BY <1>1, <1>2 DEF Timer

\* A timer that is set keeps to the types.
LEMMA ArmedSchedules ==
    ASSUME ArmedInv, NEW j \in Job, ScheduleNext(j)
    PROVE  /\ left' \in [Job -> Nat \union {Never}]
           /\ \A i \in Job \ {j} : left'[i] \in {left[i], Never}
           /\ \/ left'[j] \in {left[j], Never}
              \/ ~Impossible(j) /\ left'[j] = Timer(NextCronTime(Expr(j), now) - now)
<1>1. CASE scheduler = "stopped" BY <1>1 DEF ArmedInv, ScheduleNext
<1>2. CASE scheduler # "stopped" /\ Impossible(j)
  <2>1. left' = [i \in Job |-> Never] BY <1>2 DEF ScheduleNext
  <2> QED BY <2>1
<1>3. CASE scheduler # "stopped" /\ ~Impossible(j)
  <2>1. left' = [left EXCEPT ![j] = Timer(NextCronTime(Expr(j), now) - now)] BY <1>3 DEF ScheduleNext
  <2>2. Timer(NextCronTime(Expr(j), now) - now) \in Nat BY <1>3, DelayNat
  <2> QED BY <1>3, <2>1, <2>2 DEF ArmedInv
<1> QED BY <1>1, <1>2, <1>3

\* What a cron's timer is in a step that sets it.
Arms(j) == ~Impossible(j) /\ left'[j] = Timer(NextCronTime(Expr(j), now) - now) /\ now' = now
Rests(j) == left'[j] \in {left[j], Never} \/ (left[j] \in Nat /\ left'[j] \in Nat /\ left'[j] <= left[j])

LEMMA ArmedStep ==
    ASSUME ArmedInv, [SchedulerNext]_schedulerVars
    PROVE  ArmedInv' /\ \A j \in Job : IsCron(j) => Arms(j) \/ Rests(j)
<1> USE DEF ArmedInv
<1>0. Period \in Nat \ {0} BY CalendarGoesRound
<1>1. ASSUME NEW t \in TargetLists, Start(t) PROVE ArmedInv' /\ \A j \in Job : IsCron(j) => Arms(j) \/ Rests(j)
  <2> DEFINE Throws(i) == IsCron(Order(t)[i]) /\ ~Skipped(Order(t)[i]) /\ Impossible(Order(t)[i])
  <2>1. PICK armed : /\ left' = [j \in Job |-> IF j \in armed THEN FirstDelay(j) ELSE Never]
                     /\ \A j \in armed : ~Skipped(j) /\ \E k \in DOMAIN Order(t) : j = Order(t)[k] /\ ~Throws(k)
    <3> DEFINE jobs == Order(t)
               throws == {i \in DOMAIN jobs : IsCron(jobs[i]) /\ ~Skipped(jobs[i]) /\ Impossible(jobs[i])}
               begun  == {jobs[i] : i \in {k \in DOMAIN jobs \ throws : \A u \in throws : k < u}}
               armed  == {j \in begun : ~Skipped(j)}
    <3>1. left' = [j \in Job |-> IF j \in armed THEN FirstDelay(j) ELSE Never] BY <1>1 DEF Start
    <3>2. ASSUME NEW j \in armed PROVE ~Skipped(j) /\ \E k \in DOMAIN Order(t) : j = Order(t)[k] /\ ~Throws(k)
      <4>1. PICK k \in DOMAIN jobs \ throws : j = jobs[k] BY <3>2
      <4> QED BY <3>2, <4>1
    <3> HIDE DEF armed
    <3> QED BY <3>1, <3>2
  <2>2. ASSUME NEW j \in armed, IsCron(j) PROVE ~Impossible(j) BY <2>1, <2>2
  <2>3. ASSUME NEW j \in Job, j \in armed PROVE FirstDelay(j) \in Nat
    <3>1. CASE IsCron(j) BY <2>2, <2>3, <3>1, DelayNat DEF FirstDelay
    <3>2. CASE ~IsCron(j) BY <3>2, PlanAssumption DEF FirstDelay, Timer
    <3> QED BY <3>1, <3>2
  <2>4. left' \in [Job -> Nat \union {Never}] BY <2>1, <2>3
  <2>5. now' = now BY <1>1 DEF Start
  <2>6. ASSUME NEW j \in Job, IsCron(j) PROVE Arms(j) \/ Rests(j)
    <3>1. CASE j \in armed BY <2>1, <2>2, <2>5, <2>6, <3>1 DEF Arms, FirstDelay
    <3>2. CASE j \notin armed BY <2>1, <3>2 DEF Rests
    <3> QED BY <3>1, <3>2
  <2> QED BY <2>4, <2>5, <2>6
<1>2. CASE Stop
  <2>1. left' = [j \in Job |-> Never] /\ now' = now BY <1>2 DEF Stop
  <2> QED BY <2>1 DEF Rests
<1>3. CASE Advance
  <2>1. left' = [j \in Job |-> IF left[j] \in {0, Never} THEN left[j] ELSE left[j] - 1] BY <1>3 DEF Advance
  <2>2. now' = (now + 1) % Period BY <1>3 DEF Advance
  <2>3. now' \in 0..(Period - 1) BY <1>0, <2>2, Divided
  <2>4. \A j \in Job : left[j] \notin {0, Never} => left[j] \in Nat \ {0} OBVIOUS
  <2>5. left' \in [Job -> Nat \union {Never}] BY <2>1, <2>4
  <2>6. \A j \in Job : Rests(j) BY <2>1, <2>4 DEF Rests
  <2> QED BY <2>3, <2>5, <2>6
<1>4. CASE Adjust
  <2>1. left' = left BY <1>4 DEF Adjust
  <2>2. PICK by \in {1, Period - 1} : now' = (now + by) % Period BY <1>4 DEF Adjust
  <2>3. now + by \in Nat BY <1>0
  <2>4. now' \in 0..(Period - 1) BY <1>0, <2>2, <2>3, Divided
  <2> QED BY <2>1, <2>4 DEF Rests
<1>5. ASSUME NEW j \in Job, Fire(j) PROVE ArmedInv' /\ \A i \in Job : IsCron(i) => Arms(i) \/ Rests(i)
  <2>1. now' = now BY <1>5 DEF Fire
  <2>2. \A delay \in Nat : Timer(delay) \in Nat BY DEF Timer
  <2>3. ~IsCron(j) => Timer(Plan[j].every) \in Nat BY <2>2, PlanAssumption
  <2>4. CASE IsCron(j) /\ ScheduleNext(j)
    <3>1. /\ left' \in [Job -> Nat \union {Never}]
          /\ \A i \in Job \ {j} : left'[i] \in {left[i], Never}
          /\ \/ left'[j] \in {left[j], Never}
             \/ ~Impossible(j) /\ left'[j] = Timer(NextCronTime(Expr(j), now) - now)
      BY <2>4, ArmedSchedules
    <3> QED BY <2>1, <3>1 DEF Arms, Rests
  <2>5. CASE IsCron(j) /\ left' = [left EXCEPT ![j] = Never] BY <2>1, <2>5 DEF Rests
  <2>6. CASE ~IsCron(j) /\ left' = [left EXCEPT ![j] = Timer(Plan[j].every)] BY <2>1, <2>3, <2>6 DEF Rests
  <2> QED BY <1>5, <2>4, <2>5, <2>6 DEF Fire, Call, Skip
<1>6. ASSUME NEW j \in Job, End(j) PROVE ArmedInv' /\ \A i \in Job : IsCron(i) => Arms(i) \/ Rests(i)
  <2>1. now' = now BY <1>6 DEF End
  <2>2. CASE ScheduleNext(j)
    <3>1. /\ left' \in [Job -> Nat \union {Never}]
          /\ \A i \in Job \ {j} : left'[i] \in {left[i], Never}
          /\ \/ left'[j] \in {left[j], Never}
             \/ ~Impossible(j) /\ left'[j] = Timer(NextCronTime(Expr(j), now) - now)
      BY <2>2, ArmedSchedules
    <3> QED BY <2>1, <3>1 DEF Arms, Rests
  <2>3. CASE left' = left BY <2>1, <2>3 DEF Rests
  <2> QED BY <1>6, <2>2, <2>3 DEF End
<1>7. CASE UNCHANGED schedulerVars BY <1>7 DEF schedulerVars, Rests
<1> QED BY <1>1, <1>2, <1>3, <1>4, <1>5, <1>6, <1>7 DEF SchedulerNext

\* A cron's timer is set for the first matching minute after the present one,
\* whatever the calendar, the expression and the clock, if it can be set for so
\* long (scheduleNext).
THEOREM ArmedNext == ASSUME NoDelayTooLong PROVE SchedulerSpec => ArmedForNext
<1> DEFINE Right == \A j \in Job :
              (IsCron(j) /\ left'[j] # Never /\ (left[j] = Never \/ left'[j] > left[j]))
              => LET due == now' + left'[j]
                     minutes == {t \in now' + 1..due : t % PerMinute = 0}
                 IN  due \in minutes /\ (\A t \in minutes : Matches(Expr(j), t) <=> t = due)
<1>1. SchedulerInit => ArmedInv BY CalendarGoesRound DEF SchedulerInit, ArmedInv
<1>2. ArmedInv /\ [SchedulerNext]_schedulerVars => ArmedInv' BY ArmedStep
<1>3. ArmedInv /\ [SchedulerNext]_schedulerVars => [Right]_schedulerVars
  <2> SUFFICES ASSUME ArmedInv, SchedulerNext, NEW j \in Job, IsCron(j), left'[j] # Never,
                      left[j] = Never \/ left'[j] > left[j]
               PROVE  LET due == now' + left'[j]
                          minutes == {t \in now' + 1..due : t % PerMinute = 0}
                      IN  due \in minutes /\ (\A t \in minutes : Matches(Expr(j), t) <=> t = due)
    OBVIOUS
  <2>1. Arms(j) \/ Rests(j) BY ArmedStep
  <2>2. ~Rests(j)
    <3>1. Never \notin Nat BY PlanAssumption
    <3>2. left[j] \in Nat \union {Never} BY DEF ArmedInv
    <3> QED BY <3>1, <3>2 DEF Rests
  <2> DEFINE next == NextCronTime(Expr(j), now)
  <2>3. now \in 0..(Period - 1) /\ now \in Nat BY CalendarGoesRound DEF ArmedInv
  <2>4. next # 0 /\ left'[j] = Timer(next - now) /\ now' = now BY <2>1, <2>2 DEF Arms, Impossible
  <2>5. /\ next \in Nat /\ now < next /\ next % PerMinute = 0 /\ Matches(Expr(j), next)
        /\ \A t \in (now + 1)..next : t % PerMinute = 0 /\ Matches(Expr(j), t) => t = next
    BY <2>3, <2>4, NextMinuteMatching
  <2>6. next - now <= MaxDelay BY <2>3 DEF NoDelayTooLong
  <2>7. left'[j] = next - now BY <2>4, <2>6 DEF Timer
  <2> HIDE DEF next
  <2>8. now' + left'[j] = next BY <2>3, <2>4, <2>5, <2>7
  <2> QED BY <2>3, <2>4, <2>5, <2>8
<1>4. QED BY <1>1, <1>2, <1>3, PTL DEF SchedulerSpec, ArmedForNext

-----------------------------------------------------------------------------
(* EventBus. *)

EventInv == buses \in [Bus -> {"new", "up", "down"}] /\ BusesApart

\* A listener is of the bus that added it.
LEMMA OwnListeners == \A b, c \in Bus : b # c => Added(b) \intersect Added(c) = {}
BY DEF Added

\* Every step keeps EventInv.
LEMMA EventStep == EventInv /\ [EventNext]_eventVars => EventInv'
<1> SUFFICES ASSUME EventInv, [EventNext]_eventVars PROVE EventInv'
  OBVIOUS
<1> USE DEF EventInv, BusesApart
<1>1. ASSUME NEW b \in Bus, StartEventBus(b) PROVE EventInv'
  <2>1. buses' \in [Bus -> {"new", "up", "down"}]
    BY <1>1 DEF StartEventBus
  <2>2. {c \in Bus : buses'[c] = "up"} = {c \in Bus : buses[c] = "up"} \union {b}
    BY <1>1 DEF StartEventBus
  <2>3. listeners' = listeners \union Added(b)
    BY <1>1 DEF StartEventBus
  <2> HIDE DEF EventInv
  <2>4. listeners' = UNION {Added(c) : c \in {c \in Bus : buses'[c] = "up"}}
    BY <2>2, <2>3 DEF EventInv
  <2>5. QED BY <2>1, <2>4 DEF EventInv, Added
<1>2. ASSUME NEW b \in Bus, TearDown(b) PROVE EventInv'
  <2>1. buses' \in [Bus -> {"new", "up", "down"}]
    BY <1>2 DEF TearDown
  <2>2. {c \in Bus : buses'[c] = "up"} = {c \in Bus : buses[c] = "up"} \ {b}
    BY <1>2 DEF TearDown
  <2>3. listeners' = listeners \ Added(b)
    BY <1>2 DEF TearDown, Removed
  <2>4. listeners' = UNION {Added(c) : c \in {c \in Bus : buses'[c] = "up"}}
    BY <2>2, <2>3, OwnListeners
  <2>5. QED BY <2>1, <2>4 DEF Added
<1>3. CASE UNCHANGED <<buses, listeners>>
  BY <1>3 DEF Added
<1>4. QED BY <1>1, <1>2, <1>3 DEF EventNext, Emit, Settle, eventVars

\* Each bus keeps and takes away its own listeners only.
THEOREM BusesStayApart == EventSpec => []BusesApart
<1>1. EventInit => EventInv
  BY DEF EventInit, EventInv, BusesApart
<1>2. EventInv => BusesApart
  BY DEF EventInv
<1>3. QED BY <1>1, <1>2, EventStep, PTL DEF EventSpec

-----------------------------------------------------------------------------
(* Bootstrap. *)

ClassOf(r) == Classes(r)[hook[r][1]]

StandingTypes ==
    /\ DOMAIN stage = Runs /\ DOMAIN hook = Runs
    /\ ended \in [AllHooks -> Nat]

\* A call that awaits a hook is in a class that is marked, whose hooks before
\* that one have ended and whose others have not.
Standing ==
    \A r \in Runs : stage[r] = "hook" =>
        /\ hook[r][1] \in DOMAIN Classes(r)
        /\ ClassOf(r) \in DOMAIN Hooks /\ ClassOf(r) \in bootstrapped
        /\ hook[r][2] \in DOMAIN Hooks[ClassOf(r)]
        /\ \A k \in DOMAIN Hooks[ClassOf(r)] :
              ended[<<ClassOf(r), k>>] = IF k < hook[r][2] THEN 1 ELSE 0

\* No two calls are in one class.
Alone ==
    \A r, s \in Runs : (stage[r] = "hook" /\ stage[s] = "hook" /\ ClassOf(r) = ClassOf(s)) => r = s

\* Hooks of a class that is not marked have not run; those of one that is
\* marked and that nobody is in have all ended.
NotBefore == \A c \in DOMAIN Hooks \ bootstrapped : \A k \in DOMAIN Hooks[c] : ended[<<c, k>>] = 0

After ==
    \A c \in DOMAIN Hooks \intersect bootstrapped :
        (\A r \in Runs : stage[r] = "hook" => ClassOf(r) # c) =>
            \A k \in DOMAIN Hooks[c] : ended[<<c, k>>] = 1

\* What a call has passed is marked.
Passed ==
    \A r \in Runs : \A j \in DOMAIN Classes(r) :
        (stage[r] = "returned" \/ (stage[r] = "hook" /\ j <= hook[r][1])) => Classes(r)[j] \in bootstrapped

BootInv == StandingTypes /\ Standing /\ Alone /\ NotBefore /\ After /\ Passed
           /\ \A r \in Runs : stage[r] \in {"new", "hook", "returned"}

\* The classes of a call are a sequence.
LEMMA ClassLists ==
    /\ \A r \in Runs : DOMAIN Classes(r) \subseteq Nat \ {0}
    /\ \A c : HooksOf(c) # <<>> => /\ c \in DOMAIN Hooks
                                   /\ DOMAIN Hooks[c] = 1..Len(Hooks[c]) /\ Len(Hooks[c]) \in Nat \ {0}
    /\ \A c \in DOMAIN Hooks : /\ HooksOf(c) = Hooks[c]
                               /\ DOMAIN Hooks[c] = 1..Len(Hooks[c]) /\ Len(Hooks[c]) \in Nat
                               /\ HooksOf(c) = <<>> => DOMAIN Hooks[c] = {}
<1>1. ASSUME NEW r \in Runs PROVE DOMAIN Classes(r) \subseteq Nat \ {0}
  BY BootAssumption
<1>2. ASSUME NEW c \in DOMAIN Hooks
      PROVE  DOMAIN Hooks[c] = 1..Len(Hooks[c]) /\ Len(Hooks[c]) \in Nat
  BY BootAssumption
<1>3. ASSUME NEW c \in DOMAIN Hooks, Hooks[c] # <<>> PROVE Len(Hooks[c]) \in Nat \ {0}
  BY <1>3, BootAssumption, EmptySeq
<1>4. ASSUME NEW c \in DOMAIN Hooks, Hooks[c] = <<>> PROVE DOMAIN Hooks[c] = {}
  BY <1>4
<1>5. QED BY <1>1, <1>2, <1>3, <1>4 DEF HooksOf

\* Proceed ends the call, or puts it before the first hook of a class that
\* nobody had marked; what it marks besides has no hooks.
Returns(r, i) ==
    /\ stage' = [stage EXCEPT ![r] = "returned"] /\ hook' = hook
    /\ \A j \in DOMAIN Classes(r) : j > i => Classes(r)[j] \in bootstrapped'
    /\ bootstrapped \subseteq bootstrapped'
    /\ \A c \in bootstrapped' \ bootstrapped : HooksOf(c) = <<>>

Enters(r, i, n) ==
    /\ n > i /\ Classes(r)[n] \notin bootstrapped /\ HooksOf(Classes(r)[n]) # <<>>
    /\ stage' = [stage EXCEPT ![r] = "hook"] /\ hook' = [hook EXCEPT ![r] = <<n, 1>>]
    /\ \A j \in DOMAIN Classes(r) : (j > i /\ j <= n) => Classes(r)[j] \in bootstrapped'
    /\ bootstrapped \subseteq bootstrapped'
    /\ \A c \in bootstrapped' \ bootstrapped : c = Classes(r)[n] \/ HooksOf(c) = <<>>

\* A call that goes on returns, or enters the next class whose hooks it owes.
LEMMA ProceedMarks ==
    ASSUME NEW r \in Runs, NEW i \in Nat, Proceed(r, i)
    PROVE  Returns(r, i) \/ \E n \in DOMAIN Classes(r) : Enters(r, i, n)
<1> DEFINE rest == {j \in DOMAIN Classes(r) : j > i}
           due  == {j \in rest : Classes(r)[j] \notin bootstrapped /\ HooksOf(Classes(r)[j]) # <<>>}
<1>1. rest \subseteq Nat /\ due \subseteq Nat
  BY ClassLists
<1>2. CASE due = {}
  <2>1. /\ stage' = [stage EXCEPT ![r] = "returned"] /\ hook' = hook
        /\ bootstrapped' = bootstrapped \union {Classes(r)[j] : j \in rest}
    BY <1>2 DEF Proceed
  <2>2. \A j \in rest : Classes(r)[j] \in bootstrapped \/ HooksOf(Classes(r)[j]) = <<>>
    BY <1>2
  <2>3. QED BY <2>1, <2>2 DEF Returns
<1>3. CASE due # {}
  <2>1. PICK next \in due :
          /\ \A k \in due : next <= k
          /\ stage' = [stage EXCEPT ![r] = "hook"] /\ hook' = [hook EXCEPT ![r] = <<next, 1>>]
          /\ bootstrapped' = bootstrapped \union {Classes(r)[j] : j \in {k \in rest : k <= next}}
    BY <1>3, Zenon DEF Proceed
  <2>3. \A j \in rest : j <= next =>
            j = next \/ Classes(r)[j] \in bootstrapped \/ HooksOf(Classes(r)[j]) = <<>>
    BY <1>1, <2>1
  <2>4. Enters(r, i, next)
    BY <1>1, <2>1, <2>3 DEF Enters
  <2>5. QED BY <2>1, <2>4
<1>4. QED BY <1>2, <1>3

\* A call moves on from the class it was in, whose hooks have all ended.
Moves(r, i) ==
    /\ Returns(r, i) \/ \E n \in DOMAIN Classes(r) : Enters(r, i, n)
    /\ \/ stage[r] = "new" /\ i = 0
       \/ stage[r] = "hook" /\ i = hook[r][1]
    /\ ended' \in [AllHooks -> Nat]
    /\ \A c \in DOMAIN Hooks : \A k \in DOMAIN Hooks[c] :
          ended'[<<c, k>>] = IF stage[r] = "hook" /\ c = ClassOf(r) THEN 1 ELSE ended[<<c, k>>]

\* Its going on keeps BootInv.
LEMMA MoveSteps ==
    ASSUME NEW r \in Runs, NEW i \in Nat, BootInv, Moves(r, i)
    PROVE  BootInv'
<1> USE DEF BootInv, StandingTypes
<1>1. /\ StandingTypes' /\ \A s \in Runs : s # r => stage'[s] = stage[s] /\ hook'[s] = hook[s]
      /\ stage'[r] \in {"returned", "hook"} /\ \A s \in Runs : stage'[s] \in {"new", "hook", "returned"}
      /\ bootstrapped \subseteq bootstrapped'
  BY DEF Moves, Returns, Enters
<1>2. \A s \in Runs : s # r => ClassOf(s)' = ClassOf(s)
  BY <1>1 DEF ClassOf
<1>3. stage'[r] = "hook" =>
        /\ hook'[r][1] \in DOMAIN Classes(r) /\ hook'[r][1] > i /\ hook'[r][2] = 1
        /\ ClassOf(r)' \in DOMAIN Hooks /\ ClassOf(r)' \notin bootstrapped
        /\ 1 \in DOMAIN Hooks[ClassOf(r)'] /\ ClassOf(r)' \in bootstrapped'
  <2> SUFFICES ASSUME stage'[r] = "hook"
               PROVE  /\ hook'[r][1] \in DOMAIN Classes(r) /\ hook'[r][1] > i /\ hook'[r][2] = 1
                      /\ ClassOf(r)' \in DOMAIN Hooks /\ ClassOf(r)' \notin bootstrapped
                      /\ 1 \in DOMAIN Hooks[ClassOf(r)'] /\ ClassOf(r)' \in bootstrapped'
    OBVIOUS
  <2>1. PICK n \in DOMAIN Classes(r) : Enters(r, i, n)
    BY DEF Moves, Returns
  <2>2. hook'[r] = <<n, 1>> /\ n > i
    BY <2>1 DEF Enters
  <2>3. ClassOf(r)' = Classes(r)[n]
    BY <2>2 DEF ClassOf
  <2>4. Classes(r)[n] \in DOMAIN Hooks /\ 1 \in DOMAIN Hooks[Classes(r)[n]]
    BY <2>1, ClassLists DEF Enters
  <2>5. Classes(r)[n] \notin bootstrapped /\ Classes(r)[n] \in bootstrapped'
    BY <2>1, ClassLists DEF Enters
  <2>6. QED BY <2>2, <2>3, <2>4, <2>5
<1>4. \A c \in bootstrapped' \ bootstrapped :
        (stage'[r] = "hook" /\ c = ClassOf(r)') \/ HooksOf(c) = <<>>
  BY <1>1 DEF Moves, Returns, Enters, ClassOf
<1>5. \A s \in Runs : s # r /\ stage[s] = "hook" /\ stage[r] = "hook" => ClassOf(s) # ClassOf(r)
  BY DEF Alone
<1>6. Standing'
  <2> SUFFICES ASSUME NEW s \in Runs, stage'[s] = "hook"
      PROVE  /\ hook'[s][1] \in DOMAIN Classes(s)
             /\ ClassOf(s)' \in DOMAIN Hooks /\ ClassOf(s)' \in bootstrapped'
             /\ hook'[s][2] \in DOMAIN Hooks[ClassOf(s)']
             /\ \A k \in DOMAIN Hooks[ClassOf(s)'] :
                   ended'[<<ClassOf(s)', k>>] = IF k < hook'[s][2] THEN 1 ELSE 0
    BY DEF Standing
  <2>1. CASE s # r
    BY <1>1, <1>2, <1>5, <2>1 DEF Standing, Moves
  <2>2. CASE s = r
    <3>1. \A k \in DOMAIN Hooks[ClassOf(r)'] : ended[<<ClassOf(r)', k>>] = 0
      BY <1>3, <2>2 DEF NotBefore
    <3>2. stage[r] = "hook" => ClassOf(r)' # ClassOf(r)
      BY <1>3, <2>2 DEF Standing
    <3>3. \A k \in DOMAIN Hooks[ClassOf(r)'] : ended'[<<ClassOf(r)', k>>] = 0 /\ ~(k < 1)
      BY <1>3, <2>2, <3>1, <3>2, ClassLists DEF Moves
    <3>4. QED BY <1>3, <2>2, <3>3
  <2>3. QED BY <2>1, <2>2
<1>7. Alone'
  BY <1>1, <1>2, <1>3 DEF Alone, Standing
<1>8. NotBefore'
  <2> SUFFICES ASSUME NEW c \in DOMAIN Hooks, c \notin bootstrapped', NEW k \in DOMAIN Hooks[c]
               PROVE  ended'[<<c, k>>] = 0
    BY DEF NotBefore
  <2>1. c \notin bootstrapped /\ ended[<<c, k>>] = 0
    BY <1>1 DEF NotBefore
  <2>2. ~(stage[r] = "hook" /\ c = ClassOf(r))
    BY <2>1 DEF Standing
  <2>3. QED BY <2>1, <2>2 DEF Moves
<1>9. After'
  <2> SUFFICES ASSUME NEW c \in DOMAIN Hooks, c \in bootstrapped', NEW k \in DOMAIN Hooks[c],
                      \A s \in Runs : stage'[s] = "hook" => ClassOf(s)' # c
               PROVE  ended'[<<c, k>>] = 1
    BY DEF After
  <2>1. c \in bootstrapped
    BY <1>4, ClassLists
  <2>2. CASE stage[r] = "hook" /\ c = ClassOf(r)
    BY <2>2 DEF Moves
  <2>3. CASE ~(stage[r] = "hook" /\ c = ClassOf(r))
    <3>1. \A s \in Runs : stage[s] = "hook" => ClassOf(s) # c
      BY <1>1, <1>2, <2>3
    <3>2. QED BY <2>1, <2>3, <3>1 DEF After, Moves
  <2>4. QED BY <2>2, <2>3
<1>10. Passed'
  <2> SUFFICES ASSUME NEW s \in Runs, NEW j \in DOMAIN Classes(s),
                      stage'[s] = "returned" \/ (stage'[s] = "hook" /\ j <= hook'[s][1])
               PROVE  Classes(s)[j] \in bootstrapped'
    BY DEF Passed
  <2>1. CASE s # r
    BY <1>1, <2>1 DEF Passed
  <2>2. CASE s = r
    <3>1. j \in Nat \ {0}
      BY ClassLists
    <3>2. j <= i => Classes(r)[j] \in bootstrapped
      BY <2>2, <3>1 DEF Moves, Passed
    <3>3. CASE Returns(r, i)
      BY <1>1, <2>2, <3>1, <3>2, <3>3 DEF Returns
    <3>4. ASSUME NEW n \in DOMAIN Classes(r), Enters(r, i, n) PROVE Classes(s)[j] \in bootstrapped'
      <4>1. j <= n
        BY <2>2, <3>4 DEF Enters
      <4>2. QED BY <1>1, <2>2, <3>1, <3>2, <3>4, <4>1, ClassLists DEF Enters
    <3>5. QED BY <3>3, <3>4 DEF Moves
  <2>3. QED BY <2>1, <2>2
<1>11. QED BY <1>1, <1>6, <1>7, <1>8, <1>9, <1>10

\* No hook has run at first.
LEMMA BootInitial == BootInit => BootInv
BY ClassLists DEF BootInit, BootInv, StandingTypes, Standing, Alone, NotBefore, After, Passed, AllHooks

\* Every step keeps BootInv.
LEMMA BootSteps == BootInv /\ [BootNext]_bootVars => BootInv'
<1> SUFFICES ASSUME BootInv, [BootNext]_bootVars PROVE BootInv'
  OBVIOUS
<1>1. ASSUME NEW r \in Runs, RunBootstrap(r) PROVE BootInv'
  <2>1. Returns(r, 0) \/ \E n \in DOMAIN Classes(r) : Enters(r, 0, n)
    BY <1>1, ProceedMarks DEF RunBootstrap
  <2>2. Moves(r, 0)
    BY <1>1, <2>1 DEF Moves, RunBootstrap, BootInv, StandingTypes
  <2>3. QED BY <2>2, MoveSteps
<1>2. ASSUME NEW r \in Runs, HookEnds(r) PROVE BootInv'
  <2> DEFINE i == hook[r][1]
             k == hook[r][2]
             c == ClassOf(r)
  <2>1. /\ stage[r] = "hook" /\ i \in DOMAIN Classes(r) /\ i \in Nat
        /\ c \in DOMAIN Hooks /\ c \in bootstrapped
        /\ k \in 1..Len(Hooks[c]) /\ DOMAIN Hooks[c] = 1..Len(Hooks[c]) /\ Len(Hooks[c]) \in Nat
        /\ ended \in [AllHooks -> Nat] /\ <<c, k>> \in AllHooks
        /\ \A m \in 1..Len(Hooks[c]) : ended[<<c, m>>] = IF m < k THEN 1 ELSE 0
    BY <1>2, ClassLists DEF HookEnds, BootInv, Standing, StandingTypes, AllHooks
  <2>2. ended' = [ended EXCEPT ![<<c, k>>] = @ + 1]
    BY <1>2 DEF HookEnds, ClassOf
  <2>3. ended' = [ended EXCEPT ![<<c, k>>] = 1]
    <3>1. ended[<<c, k>>] + 1 = 1
      BY <2>1
    <3>2. QED BY <2>2, <3>1, Zenon
  <2>4. \A d \in DOMAIN Hooks : \A m \in DOMAIN Hooks[d] : <<d, m>> \in AllHooks
    BY DEF AllHooks
  <2>5. CASE k = Len(Hooks[c])
    <3>1. Proceed(r, i)
      BY <1>2, <2>1, <2>5 DEF HookEnds, ClassOf
    <3>2. Returns(r, i) \/ \E n \in DOMAIN Classes(r) : Enters(r, i, n)
      BY <2>1, <3>1, ProceedMarks
    <3>3. ASSUME NEW d \in DOMAIN Hooks, NEW m \in DOMAIN Hooks[d]
          PROVE  ended'[<<d, m>>] = IF d = c THEN 1 ELSE ended[<<d, m>>]
      <4>1. <<d, m>> \in AllHooks /\ (d = c => m \in 1..k)
        BY <2>1, <2>4, <2>5
      <4>2. CASE d = c /\ m = k
        BY <2>1, <2>3, <4>2
      <4>3. CASE d = c /\ m # k
        <5>1. <<d, m>> # <<c, k>> /\ m < k
          BY <2>1, <4>1, <4>3
        <5>2. QED BY <2>1, <2>3, <2>5, <4>1, <4>3, <5>1
      <4>4. CASE d # c
        <5>1. <<d, m>> # <<c, k>>
          BY <4>4
        <5>2. QED BY <2>1, <2>3, <4>1, <4>4, <5>1
      <4>5. QED BY <4>2, <4>3, <4>4
    <3>4. Moves(r, i)
      BY <2>1, <2>3, <3>2, <3>3 DEF Moves
    <3>5. QED BY <2>1, <3>4, MoveSteps
  <2>6. CASE k < Len(Hooks[c])
    <3>1. /\ hook' = [hook EXCEPT ![r] = <<i, k + 1>>]
          /\ bootstrapped' = bootstrapped /\ stage' = stage
      BY <1>2, <2>1, <2>6 DEF HookEnds, ClassOf
    <3>2. StandingTypes'
      BY <2>1, <2>3, <3>1 DEF BootInv, StandingTypes
    <3>3. /\ \A s \in Runs : ClassOf(s)' = ClassOf(s) /\ hook'[s][1] = hook[s][1]
          /\ \A s \in Runs : s # r => hook'[s][2] = hook[s][2]
          /\ hook'[r][2] = k + 1
      BY <3>1 DEF ClassOf, BootInv, StandingTypes
    <3>4. \A s \in Runs : s # r /\ stage[s] = "hook" => ClassOf(s) # c
      BY <2>1 DEF BootInv, Alone
    <3>5. \A d \in DOMAIN Hooks : \A m \in DOMAIN Hooks[d] :
             d # c \/ m # k => ended'[<<d, m>>] = ended[<<d, m>>]
      BY <2>1, <2>3, <2>4
    <3>6. Standing'
      <4> SUFFICES ASSUME NEW s \in Runs, stage[s] = "hook"
          PROVE  /\ hook'[s][1] \in DOMAIN Classes(s)
                 /\ ClassOf(s)' \in DOMAIN Hooks /\ ClassOf(s)' \in bootstrapped'
                 /\ hook'[s][2] \in DOMAIN Hooks[ClassOf(s)']
                 /\ \A m \in DOMAIN Hooks[ClassOf(s)'] :
                       ended'[<<ClassOf(s)', m>>] = IF m < hook'[s][2] THEN 1 ELSE 0
        BY <3>1 DEF Standing
      <4>1. CASE s # r
        BY <3>1, <3>3, <3>4, <3>5, <4>1 DEF BootInv, Standing
      <4>2. CASE s = r
        <5>1. ASSUME NEW m \in 1..Len(Hooks[c])
              PROVE  ended'[<<c, m>>] = IF m < k + 1 THEN 1 ELSE 0
          <6>1. CASE m = k
            BY <2>1, <2>3, <6>1
          <6>2. CASE m # k
            BY <2>1, <3>5, <6>2
          <6>3. QED BY <6>1, <6>2
        <5>2. QED BY <2>1, <2>6, <3>1, <3>3, <4>2, <5>1
      <4>3. QED BY <4>1, <4>2
    <3>7. Alone' /\ Passed' /\ \A s \in Runs : stage'[s] \in {"new", "hook", "returned"}
      BY <3>1, <3>3 DEF BootInv, Alone, Passed
    <3>8. NotBefore'
      BY <2>1, <3>1, <3>5 DEF BootInv, NotBefore
    <3>9. After'
      BY <2>1, <3>1, <3>3, <3>5 DEF BootInv, After
    <3>10. QED BY <3>2, <3>6, <3>7, <3>8, <3>9 DEF BootInv
  <2>7. QED BY <2>1, <2>5, <2>6
<1>3. CASE UNCHANGED bootVars
  BY <1>3 DEF bootVars, BootInv, StandingTypes, Standing, Alone, NotBefore, After, Passed, ClassOf
<1>4. QED BY <1>1, <1>2, <1>3 DEF BootNext

\* Every hook runs at most once, and exactly once when all calls have returned:
\* a class that is marked is in the hands of one call or has ended.
THEOREM HooksOnce == BootSpec => []HooksRunOnce
<1>1. ASSUME BootInv PROVE HooksRunOnce
  <2> USE <1>1 DEF BootInv
  <2>1. ASSUME NEW c \in DOMAIN Hooks, NEW k \in DOMAIN Hooks[c] PROVE ended[<<c, k>>] <= 1
    <3>1. CASE c \notin bootstrapped
      BY <3>1 DEF NotBefore
    <3>2. CASE c \in bootstrapped /\ \E r \in Runs : stage[r] = "hook" /\ ClassOf(r) = c
      BY <3>2 DEF Standing
    <3>3. CASE c \in bootstrapped /\ \A r \in Runs : stage[r] = "hook" => ClassOf(r) # c
      BY <3>3 DEF After
    <3>4. QED BY <3>1, <3>2, <3>3
  <2>2. \A h \in AllHooks : ended[h] <= 1
    BY <2>1 DEF AllHooks
  <2>3. ASSUME \A r \in Runs : stage[r] # "hook", NEW r \in Started,
               NEW c \in ToSet(Classes(r)), NEW k \in DOMAIN HooksOf(c)
        PROVE  ended[<<c, k>>] = 1
    <3>1. stage[r] = "returned" /\ c \in bootstrapped
      BY <2>3 DEF Started, Passed, ToSet
    <3>2. c \in DOMAIN Hooks /\ HooksOf(c) = Hooks[c]
      BY DEF HooksOf
    <3>3. QED BY <2>3, <3>1, <3>2 DEF After
  <2>4. QED BY <2>2, <2>3 DEF HooksRunOnce
<1>2. QED BY <1>1, BootInitial, BootSteps, PTL DEF BootSpec

-----------------------------------------------------------------------------
(* Shutdown. *)

Running == {r \in Request : request[r] = "running"}

\* At most one signal starts a teardown.
OneTeardown ==
    /\ \A s \in Signal : Armed(s) => shuttingDown
    /\ \A s, t \in Signal : Armed(s) /\ Armed(t) => s = t

\* The drain's own timer starts full, and is never ahead of the hard one.
HardFirst == \A s \in Signal :
    /\ step[s] = "draining" => hard[s] <= soft[s]
    /\ step[s] \in {"none", "ignored", "cleanup"} => soft[s] = TimeoutMs

\* What holds once the drain has been entered.
Drained ==
    DrainMounted => \A s \in Signal :
        /\ step[s] \in {"draining", "channels", "destroying"} => draining
        /\ step[s] \in {"channels", "destroying"} \/ Woken(s) => active = 0

\* Only a drain that found requests running waits.
WaitsForSome ==
    /\ waiting # {} => active > 0
    /\ process \in {"killed", "emptied"} => \A s \in Signal : ~Woken(s)

Inv == TypeOK /\ HardFirst /\ Drained /\ WaitsForSome

\* The one teardown goes through the singletons in reverse.
Teardown ==
    /\ IsInjective(created)
    /\ (\A s \in Signal : step[s] # "destroying") => destroyed = <<>> /\ late = <<>>
    /\ \A s \in Signal : step[s] = "destroying" =>
         /\ IsInjective(destroyed \o todo[s])
         /\ DrainMounted => created = Reverse(destroyed \o todo[s]) \o late
    /\ process = "exit 0" => \E s \in Signal : step[s] = "destroying" /\ todo[s] = <<>>

-----------------------------------------------------------------------------
(* The counter. *)

\* The reverse of a sequence of singletons is one, too.
LEMMA ReverseType == ASSUME NEW q \in Seq(Singleton) PROVE Reverse(q) \in Seq(Singleton)
  <1>1. Len(q) \in Nat BY LenProperties
  <1>2. \A i \in 1..Len(q) : q[(Len(q) - i) + 1] \in Singleton
    BY <1>1, ElementOfSeq
  <1>3. Reverse(q) \in [1..Len(q) -> Singleton] BY <1>2 DEF Reverse
  <1> QED BY <1>1, <1>3, SeqDef

\* A request that comes is counted.
LEMMA CountIn ==
    ASSUME NEW r \in Request, request \in [Request -> {"new", "refused", "running", "done"}],
           request[r] # "running", request' = [request EXCEPT ![r] = "running"]
    PROVE  Cardinality(Running') = Cardinality(Running) + 1
  <1>1. IsFiniteSet(Running) BY ShutdownAssumption, FS_Subset DEF Running
  <1>2. Running' = Running \cup {r} /\ r \notin Running BY DEF Running
  <1> QED BY <1>1, <1>2, FS_AddElement

\* A request that ends is counted out.
LEMMA CountOut ==
    ASSUME NEW r \in Request, request \in [Request -> {"new", "refused", "running", "done"}],
           request[r] = "running", request' = [request EXCEPT ![r] = "done"]
    PROVE  Cardinality(Running') = Cardinality(Running) - 1
  <1>1. IsFiniteSet(Running) BY ShutdownAssumption, FS_Subset DEF Running
  <1>2. Running' = Running \ {r} /\ r \in Running BY DEF Running
  <1> QED BY <1>1, <1>2, FS_RemoveElement

\* The count is zero exactly when nothing runs.
LEMMA CountZero ==
    ASSUME TypeOK
    PROVE  /\ active \in Nat
           /\ DrainMounted => (active = 0 <=> \A r \in Request : request[r] # "running")
  <1>1. IsFiniteSet(Running) BY ShutdownAssumption, FS_Subset DEF Running
  <1>2. Cardinality(Running) \in Nat /\ (Cardinality(Running) = 0 <=> Running = {})
    BY <1>1, FS_CardinalityType, FS_EmptySet
  <1>3. active = IF DrainMounted THEN Cardinality(Running) ELSE 0 BY DEF TypeOK, Running
  <1> QED BY <1>2, <1>3 DEF Running

-----------------------------------------------------------------------------
(* Types. *)

\* What only the signal handlers and the exit change.
TypeRest ==
    /\ draining \in BOOLEAN /\ shuttingDown \in BOOLEAN
    /\ waiting \subseteq Signal
    /\ step \in [Signal -> Steps]
    /\ hard \in [Signal -> 0..TimeoutMs] /\ soft \in [Signal -> 0..TimeoutMs]
    /\ process \in {"up", "exit 0", "exit 1", "killed", "emptied"}

TypeSeqs ==
    /\ created \in Seq(Singleton) /\ destroyed \in Seq(Singleton)
    /\ todo \in [Signal -> Seq(Singleton)] /\ late \in Seq(Singleton)

TypeCount ==
    /\ request \in [Request -> {"new", "refused", "running", "done"}]
    /\ active = IF DrainMounted THEN Cardinality(Running) ELSE 0

\* The type invariant, in parts.
LEMMA TypeParts == TypeOK <=> TypeCount /\ TypeRest /\ TypeSeqs
  BY DEF TypeOK, TypeCount, TypeRest, TypeSeqs, Running

\* Timers are numbers up to the timeout.
LEMMA TimersNat ==
    ASSUME TypeRest
    PROVE  /\ TimeoutMs \in Nat
           /\ \A s \in Signal : /\ hard[s] \in Nat /\ hard[s] <= TimeoutMs
                                /\ soft[s] \in Nat /\ soft[s] <= TimeoutMs
  <1>1. TimeoutMs \in Nat BY ShutdownAssumption
  <1>2. ASSUME NEW s \in Signal PROVE hard[s] \in 0..TimeoutMs /\ soft[s] \in 0..TimeoutMs
    BY DEF TypeRest
  <1> QED BY <1>1, <1>2

\* The variables have their types initially.
LEMMA TypeInit == Init => TypeOK
  <1> SUFFICES ASSUME Init PROVE TypeCount /\ TypeRest /\ TypeSeqs BY TypeParts
  <1>1. TypeCount
    <2>1. Running = {} BY DEF Init, Running
    <2> QED BY <2>1, FS_EmptySet DEF Init, TypeCount
  <1>2. TypeRest
    <2>1. TimeoutMs \in 0..TimeoutMs BY ShutdownAssumption
    <2>2. hard \in [Signal -> 0..TimeoutMs] /\ soft \in [Signal -> 0..TimeoutMs]
      BY <2>1 DEF Init
    <2> QED BY <2>2 DEF Init, TypeRest, Steps
  <1>3. TypeSeqs BY ShutdownAssumption, EmptySeq DEF Init, TypeSeqs
  <1> QED BY <1>1, <1>2, <1>3

\* Steps that leave requests and counter alone.
LEMMA CountFrame == TypeCount /\ UNCHANGED <<request, active>> => TypeCount'
  BY DEF TypeCount, Running

\* Every step keeps the counter exact.
LEMMA CountStep == TypeOK /\ [Next]_vars => TypeCount'
  <1> SUFFICES ASSUME TypeOK, [Next]_vars PROVE TypeCount' OBVIOUS
  <1> USE TypeParts
  <1>1. ASSUME NEW r \in Request, Arrive(r) PROVE TypeCount'
    <2>1. CASE DrainMounted /\ draining
      <3>1. request' = [request EXCEPT ![r] = "refused"] /\ active' = active /\ request[r] = "new"
        BY <1>1, <2>1 DEF Arrive
      <3>2. Running' = Running BY <3>1 DEF Running, TypeCount
      <3> QED BY <3>1, <3>2 DEF TypeCount
    <2>2. CASE ~(DrainMounted /\ draining)
      <3>1. request' = [request EXCEPT ![r] = "running"] /\ request[r] = "new"
            /\ active' = IF DrainMounted THEN active + 1 ELSE active
        BY <1>1, <2>2 DEF Arrive
      <3>2. Cardinality(Running') = Cardinality(Running) + 1 BY <3>1, CountIn DEF TypeCount
      <3> QED BY <3>1, <3>2 DEF TypeCount
    <2> QED BY <2>1, <2>2
  <1>2. ASSUME NEW r \in Request, Finish(r) PROVE TypeCount'
    <2>1. request' = [request EXCEPT ![r] = "done"] /\ request[r] = "running"
          /\ active' = IF DrainMounted THEN active - 1 ELSE active
      BY <1>2 DEF Finish
    <2>2. Cardinality(Running') = Cardinality(Running) - 1 BY <2>1, CountOut DEF TypeCount
    <2> QED BY <2>1, <2>2 DEF TypeCount
  <1>3. CASE UNCHANGED <<request, active>>
    BY <1>3, CountFrame
  <1> QED
    BY <1>1, <1>2, <1>3 DEF Next, vars, drain, Resolve, ResolveElsewhere,
       SignalArrives, CleanupEnds, DrainEnds, ChannelsClosed, Destroy, ExitClean, Throw,
       ExitForced, Tick, LoopEmpties

\* Every step keeps the flags, the handlers and their timers in their types.
LEMMA RestStep == TypeOK /\ [Next]_vars => TypeRest'
  <1> SUFFICES ASSUME TypeRest, [Next]_vars PROVE TypeRest' BY TypeParts
  <1>1. ASSUME NEW s \in Signal, SignalArrives(s) PROVE TypeRest'
    BY <1>1 DEF SignalArrives, Goto, TypeRest, Steps, drain, timers
  <1>2. ASSUME NEW s \in Signal, CleanupEnds(s) PROVE TypeRest'
    <2>1. step' \in [Signal -> Steps] BY <1>2 DEF CleanupEnds, Goto, TypeRest, Steps
    <2>2. draining' \in BOOLEAN /\ waiting' \subseteq Signal
      BY <1>2 DEF CleanupEnds, TypeRest
    <2> QED BY <1>2, <2>1, <2>2 DEF CleanupEnds, TypeRest, timers
  <1>3. ASSUME NEW s \in Signal, DrainEnds(s) \/ ChannelsClosed(s) PROVE TypeRest'
    BY <1>3 DEF DrainEnds, ChannelsClosed, Goto, TypeRest, Steps, drain, timers
  <1>4. ASSUME Tick PROVE TypeRest'
    <2>1. \A s \in Signal : Countdown(hard, s) \in 0..TimeoutMs
                             /\ Countdown(soft, s) \in 0..TimeoutMs
      BY TimersNat DEF Countdown
    <2>2. hard' \in [Signal -> 0..TimeoutMs] /\ soft' \in [Signal -> 0..TimeoutMs]
      BY <1>4, <2>1 DEF Tick, TypeRest
    <2> QED BY <1>4, <2>2 DEF Tick, TypeRest, drain
  <1>5. ASSUME NEW s \in Signal, ExitClean(s) \/ Throw(s) \/ ExitForced(s) PROVE TypeRest'
    BY <1>5 DEF ExitClean, Throw, ExitForced, TypeRest, drain, timers
  <1>6. ASSUME LoopEmpties PROVE TypeRest'
    BY <1>6 DEF LoopEmpties, TypeRest, drain, timers
  <1>7. ASSUME NEW r \in Request, Finish(r) PROVE TypeRest'
    BY <1>7 DEF Finish, TypeRest, timers
  <1>8. CASE UNCHANGED <<draining, waiting, shuttingDown, step, timers, process>>
    BY <1>8 DEF TypeRest, timers
  <1> QED
    BY <1>1, <1>2, <1>3, <1>4, <1>5, <1>6, <1>7, <1>8
       DEF Next, vars, drain, Arrive, Resolve, ResolveElsewhere, Destroy

\* Every step keeps the lists of singletons in their types.
LEMMA SeqsStep == TypeOK /\ [Next]_vars => TypeSeqs'
  <1> SUFFICES ASSUME TypeSeqs, [Next]_vars PROVE TypeSeqs' BY TypeParts
  <1>1. ASSUME NEW r \in Request, NEW x \in Singleton, Resolve(r, x) PROVE TypeSeqs'
    BY <1>1 DEF Resolve, TypeSeqs
  <1>2. ASSUME NEW x \in Singleton, ResolveElsewhere(x) PROVE TypeSeqs'
    <2>1. Append(created, x) \in Seq(Singleton) /\ Append(late, x) \in Seq(Singleton)
      BY AppendProperties DEF TypeSeqs
    <2> QED BY <1>2, <2>1 DEF ResolveElsewhere, TypeSeqs
  <1>3. ASSUME NEW s \in Signal, ChannelsClosed(s) PROVE TypeSeqs'
    <2>1. Reverse(created) \in Seq(Singleton) BY ReverseType DEF TypeSeqs
    <2> QED BY <1>3, <2>1 DEF ChannelsClosed, TypeSeqs
  <1>4. ASSUME NEW s \in Signal, Destroy(s) PROVE TypeSeqs'
    <2>1. todo[s] \in Seq(Singleton) /\ todo[s] # <<>> BY <1>4 DEF Destroy, TypeSeqs
    <2>2. Head(todo[s]) \in Singleton /\ Tail(todo[s]) \in Seq(Singleton)
      BY <2>1, HeadTailProperties
    <2>3. destroyed' = Append(destroyed, Head(todo[s]))
          /\ todo' = [todo EXCEPT ![s] = Tail(todo[s])] /\ UNCHANGED <<created, late>>
      BY <1>4 DEF Destroy
    <2>4. todo' \in [Signal -> Seq(Singleton)] BY <2>2, <2>3 DEF TypeSeqs
    <2>5. destroyed' \in Seq(Singleton) BY <2>2, <2>3 DEF TypeSeqs
    <2> QED BY <2>3, <2>4, <2>5 DEF TypeSeqs
  <1>5. CASE UNCHANGED <<created, todo, destroyed, late>>
    BY <1>5 DEF TypeSeqs
  <1> QED
    BY <1>1, <1>2, <1>3, <1>4, <1>5
       DEF Next, vars, Arrive, Finish, SignalArrives, CleanupEnds, DrainEnds, ExitClean, Throw,
           ExitForced, Tick, LoopEmpties

\* Every step keeps the variables in their types.
LEMMA TypeStep == TypeOK /\ [Next]_vars => TypeOK'
  <1>1. TypeCount' /\ TypeRest' /\ TypeSeqs' => TypeOK'
    BY DEF TypeOK, TypeCount, TypeRest, TypeSeqs, Running
  <1> QED BY <1>1, CountStep, RestStep, SeqsStep

-----------------------------------------------------------------------------
(* The drain. *)

\* The hard timer was armed first and runs all the time, so that the drain's own
\* timer is never ahead of it.
LEMMA HardStep == TypeOK /\ HardFirst /\ [Next]_vars => HardFirst'
  <1> SUFFICES ASSUME TypeRest, HardFirst, [Next]_vars PROVE HardFirst' BY TypeParts
  <1>1. ASSUME NEW s \in Signal, UNCHANGED timers,
               \A t \in Signal : t # s => step'[t] = step[t],
               step[s] \in {"none", "ignored", "cleanup"} \/ step'[s] \in {"channels", "destroying"}
        PROVE  HardFirst'
    <2>1. \A t \in Signal : hard[t] <= TimeoutMs BY TimersNat
    <2>2. ASSUME NEW t \in Signal, step'[t] = "draining" PROVE hard[t] <= soft[t]
      BY <1>1, <2>1, <2>2 DEF HardFirst
    <2>3. ASSUME NEW t \in Signal, step'[t] \in {"none", "ignored", "cleanup"} PROVE soft[t] = TimeoutMs
      BY <1>1, <2>3 DEF HardFirst
    <2> QED BY <1>1, <2>2, <2>3 DEF HardFirst, timers
  <1>2. ASSUME NEW s \in Signal, SignalArrives(s) \/ CleanupEnds(s) PROVE HardFirst'
    <2>1. UNCHANGED timers /\ step[s] \in {"none", "ignored", "cleanup"}
      BY <1>2 DEF SignalArrives, CleanupEnds
    <2>2. \A t \in Signal : t # s => step'[t] = step[t]
      BY <1>2 DEF SignalArrives, CleanupEnds, Goto, TypeRest
    <2> QED BY <1>1, <2>1, <2>2
  <1>3. ASSUME NEW s \in Signal, DrainEnds(s) \/ ChannelsClosed(s) PROVE HardFirst'
    <2>1. UNCHANGED timers /\ step'[s] \in {"channels", "destroying"}
      BY <1>3 DEF DrainEnds, ChannelsClosed, Goto, TypeRest
    <2>2. \A t \in Signal : t # s => step'[t] = step[t]
      BY <1>3 DEF DrainEnds, ChannelsClosed, Goto, TypeRest
    <2> QED BY <1>1, <2>1, <2>2
  <1>4. ASSUME Tick PROVE HardFirst'
    <2>1. \A t \in Signal : hard[t] \in Nat /\ soft[t] \in Nat BY TimersNat
    <2>2. ASSUME NEW t \in Signal, step[t] = "draining" PROVE hard'[t] <= soft'[t]
      <3>1. hard'[t] = Countdown(hard, t) /\ soft'[t] = Countdown(soft, t)
        BY <1>4, <2>2 DEF Tick, Armed
      <3>2. hard[t] <= soft[t] BY <2>2 DEF HardFirst
      <3> QED BY <2>1, <3>1, <3>2 DEF Countdown
    <2>3. ASSUME NEW t \in Signal, step[t] \in {"none", "ignored", "cleanup"} PROVE soft'[t] = TimeoutMs
      BY <1>4, <2>3 DEF Tick, HardFirst
    <2>4. step' = step BY <1>4 DEF Tick
    <2> QED BY <2>2, <2>3, <2>4 DEF HardFirst
  <1>5. CASE UNCHANGED <<step, timers>>
    BY <1>5 DEF HardFirst, timers
  <1> QED
    BY <1>2, <1>3, <1>4, <1>5
       DEF Next, vars, Arrive, Finish, Resolve, ResolveElsewhere, Destroy, ExitClean, Throw,
           ExitForced, LoopEmpties

\* A drain only ends by its waiter.
LEMMA EndsAwake ==
    ASSUME TypeOK, HardFirst, NEW s \in Signal, DrainEnds(s)
    PROVE  Woken(s)
  <1>1. step[s] = "draining" /\ (Woken(s) \/ (soft[s] = 0 /\ hard[s] > 0)) BY DEF DrainEnds
  <1>2. hard[s] <= soft[s] BY <1>1 DEF HardFirst
  <1>3. hard[s] \in Nat BY TimersNat, TypeParts
  <1> QED BY <1>1, <1>2, <1>3

\* A request that is running is counted.
LEMMA CountsOne ==
    ASSUME TypeOK, DrainMounted, NEW r \in Request, request[r] = "running"
    PROVE  active # 0
  BY CountZero

\* A handler leaves the drain with no request running, and none starts.
LEMMA DrainedStep == Inv /\ [Next]_vars => Drained'
  <1> SUFFICES ASSUME Inv, [Next]_vars, DrainMounted PROVE Drained' BY DEF Drained
  <1> DEFINE In(s) == step[s] \in {"draining", "channels", "destroying"}
             Out(s) == step[s] \in {"channels", "destroying"} \/ Woken(s)
  <1>a. TypeRest /\ \A s \in Signal : (In(s) => draining) /\ (Out(s) => active = 0)
    BY TypeParts DEF Inv, Drained
  <1>b. (\A s \in Signal : (In(s)' => draining') /\ (Out(s)' => active' = 0)) => Drained'
    BY DEF Drained
  <1>1. ASSUME NEW r \in Request, Arrive(r) PROVE Drained'
    <2>1. UNCHANGED <<draining, waiting, step>> /\ (draining => active' = active)
      BY <1>1 DEF Arrive
    <2> QED BY <1>a, <1>b, <2>1 DEF Woken
  <1>2. ASSUME NEW r \in Request, Finish(r) PROVE Drained'
    <2>1. \A s \in Signal : ~Out(s) BY <1>a, <1>2, CountsOne DEF Inv, Finish
    <2>2. UNCHANGED <<draining, step>> /\ (active' = 0 \/ waiting' = waiting)
      BY <1>2 DEF Finish
    <2> QED BY <1>a, <1>b, <2>1, <2>2 DEF Woken
  <1>3. ASSUME NEW s \in Signal, SignalArrives(s) PROVE Drained'
    <2>1. UNCHANGED <<draining, active, waiting>> BY <1>3 DEF SignalArrives, drain
    <2>2. \A t \in Signal : step'[t] = step[t] \/ step'[t] \in {"ignored", "cleanup"}
      BY <1>a, <1>3 DEF SignalArrives, Goto, TypeRest
    <2> QED BY <1>a, <1>b, <2>1, <2>2 DEF Woken
  <1>4. ASSUME NEW s \in Signal, CleanupEnds(s) PROVE Drained'
    <2>1. draining' /\ UNCHANGED active /\ waiting \subseteq waiting'
      BY <1>4 DEF CleanupEnds
    <2>2. \A t \in Signal : t # s => step'[t] = step[t]
      BY <1>a, <1>4 DEF CleanupEnds, Goto, TypeRest
    <2>3. active = 0 \/ (step'[s] = "draining" /\ s \in waiting')
      BY <1>a, <1>4 DEF CleanupEnds, Goto, TypeRest
    <2> QED BY <1>a, <1>b, <2>1, <2>2, <2>3 DEF Woken
  <1>5. ASSUME NEW s \in Signal, DrainEnds(s) \/ ChannelsClosed(s) PROVE Drained'
    <2>1. Out(s) BY <1>5, EndsAwake DEF Inv, ChannelsClosed
    <2>2. UNCHANGED <<draining, active, waiting>> BY <1>5 DEF DrainEnds, ChannelsClosed, drain
    <2>3. \A t \in Signal : t # s => step'[t] = step[t]
      BY <1>a, <1>5 DEF DrainEnds, ChannelsClosed, Goto, TypeRest
    <2>4. In(s) BY <2>1 DEF Woken
    <2> QED BY <1>a, <1>b, <2>1, <2>2, <2>3, <2>4 DEF Woken
  <1>6. CASE UNCHANGED <<draining, active, waiting, step>>
    BY <1>a, <1>b, <1>6 DEF Woken
  <1> QED
    BY <1>1, <1>2, <1>3, <1>4, <1>5, <1>6
       DEF Next, vars, drain, Resolve, ResolveElsewhere, Destroy, ExitClean, Throw, ExitForced,
           Tick, LoopEmpties

\* A waiter is registered only while a request runs, and a process is killed, or
\* runs out of work, only when no handler is ready to go on.
LEMMA WaitsStep == Inv /\ TypeOK' /\ [Next]_vars => WaitsForSome'
  <1> SUFFICES ASSUME Inv, TypeOK', [Next]_vars PROVE WaitsForSome' OBVIOUS
  <1>1. active \in Nat /\ (waiting # {} => active > 0)
    BY CountZero DEF Inv, WaitsForSome
  <1>2. active' \in Nat
    <2>1. IsFiniteSet(Running') BY ShutdownAssumption, FS_Subset DEF Running
    <2>2. active' = IF DrainMounted THEN Cardinality(Running') ELSE 0 BY DEF TypeOK, Running
    <2> QED BY <2>1, <2>2, FS_CardinalityType
  <1>3. waiting' # {} => active' > 0
    <2>1. ASSUME NEW r \in Request, Arrive(r) PROVE waiting' # {} => active' > 0
      <3>1. waiting' = waiting /\ active' \in {active, active + 1} BY <2>1 DEF Arrive
      <3> QED BY <1>1, <3>1
    <2>2. ASSUME NEW r \in Request, Finish(r) PROVE waiting' # {} => active' > 0
      <3>1. active' = 0 => waiting' = {} BY <2>2 DEF Finish
      <3> QED BY <1>2, <3>1
    <2>3. ASSUME NEW s \in Signal, CleanupEnds(s) PROVE waiting' # {} => active' > 0
      <3>1. active' = active /\ (waiting' = waiting \/ active # 0) BY <2>3 DEF CleanupEnds
      <3> QED BY <1>1, <3>1
    <2>4. CASE UNCHANGED <<active, waiting>>
      BY <1>1, <2>4
    <2> QED
      BY <2>1, <2>2, <2>3, <2>4
         DEF Next, vars, drain, Resolve, ResolveElsewhere, SignalArrives, DrainEnds,
             ChannelsClosed, Destroy, ExitClean, Throw, ExitForced, Tick, LoopEmpties
  <1>4. ASSUME process' \in {"killed", "emptied"} PROVE \A s \in Signal : ~Woken(s)'
    <2>1. CASE UNCHANGED vars
      BY <1>4, <2>1 DEF Inv, WaitsForSome, Woken, vars, drain
    <2>2. CASE Next
      <3>1. LoopEmpties \/ \E t \in Signal : ExitForced(t)
        BY <1>4, <2>2 DEF Next, Up, Arrive, Finish, Resolve, ResolveElsewhere, SignalArrives,
           CleanupEnds, DrainEnds, ChannelsClosed, Destroy, ExitClean, Throw, Tick
      <3>2. \A t \in Signal : ~Woken(t) BY <3>1 DEF LoopEmpties, ExitForced, Pending
      <3>3. UNCHANGED <<step, waiting>> BY <3>1 DEF LoopEmpties, ExitForced, drain
      <3> QED BY <3>2, <3>3 DEF Woken
    <2> QED BY <2>1, <2>2
  <1> QED BY <1>3, <1>4 DEF WaitsForSome

\* The invariant holds in every state.
THEOREM Invariance == Spec => []Inv
  <1>1. Init => Inv
    <2> SUFFICES ASSUME Init PROVE Inv OBVIOUS
    <2>1. TypeOK BY TypeInit
    <2>2. HardFirst /\ Drained /\ WaitsForSome
      BY DEF Init, HardFirst, Drained, WaitsForSome, Woken
    <2> QED BY <2>1, <2>2 DEF Inv
  <1>2. Inv /\ [Next]_vars => Inv'
    <2> SUFFICES ASSUME Inv, [Next]_vars PROVE Inv' OBVIOUS
    <2>1. TypeOK' BY TypeStep DEF Inv
    <2>2. HardFirst' BY HardStep DEF Inv
    <2>3. Drained' BY DrainedStep
    <2>4. WaitsForSome' BY <2>1, WaitsStep
    <2> QED BY <2>1, <2>2, <2>3, <2>4 DEF Inv
  <1> QED BY <1>1, <1>2, PTL DEF Spec

\* With a drain mounted, no request runs while singletons are destroyed, whatever
\* the number of requests and signals and the timeout.
THEOREM RequestsDrained == Spec => []NoRequestWhileDestroying
  <1>1. Inv => NoRequestWhileDestroying
    BY CountZero DEF Inv, Drained, NoRequestWhileDestroying
  <1> QED BY <1>1, Invariance, PTL

\* The end of the last request is never missed: a process killed while it drains,
\* or out of work then, had a request running.
THEOREM WakeUpsNotLost == Spec => []LastRequestNoticed
  <1>1. Inv => LastRequestNoticed
    BY DEF Inv, WaitsForSome, Woken, LastRequestNoticed
  <1> QED BY <1>1, Invariance, PTL

-----------------------------------------------------------------------------
(* The teardown. *)

\* A reversed sequence has the same elements, each as often.
LEMMA ReverseInjective ==
    ASSUME NEW q \in Seq(Singleton), IsInjective(q)
    PROVE  IsInjective(Reverse(q))
  <1>1. Len(q) \in Nat /\ DOMAIN q = 1..Len(q) BY LenProperties
  <1>2. Reverse(q) = [i \in 1..Len(q) |-> q[(Len(q) - i) + 1]] BY DEF Reverse
  <1>3. ASSUME NEW i \in 1..Len(q), NEW j \in 1..Len(q), Reverse(q)[i] = Reverse(q)[j] PROVE i = j
    <2>1. q[(Len(q) - i) + 1] = q[(Len(q) - j) + 1] BY <1>2, <1>3
    <2>2. (Len(q) - i) + 1 \in 1..Len(q) /\ (Len(q) - j) + 1 \in 1..Len(q) BY <1>1
    <2>3. (Len(q) - i) + 1 = (Len(q) - j) + 1 BY <1>1, <2>1, <2>2 DEF IsInjective
    <2> QED BY <1>1, <2>3
  <1>4. DOMAIN Reverse(q) = 1..Len(q) BY <1>2
  <1> QED BY <1>3, <1>4 DEF IsInjective

\* A sequence reversed twice is itself.
LEMMA ReverseTwice == ASSUME NEW q \in Seq(Singleton) PROVE Reverse(Reverse(q)) = q
  <1> DEFINE p == Reverse(q)
  <1>1. Len(q) \in Nat /\ DOMAIN q = 1..Len(q) /\ q = [i \in 1..Len(q) |-> q[i]]
    BY LenProperties, SeqDef
  <1>2. p = [i \in 1..Len(q) |-> q[(Len(q) - i) + 1]] BY DEF Reverse
  <1>3. p \in Seq(Singleton) BY ReverseType
  <1>4. Len(p) = Len(q) BY <1>1, <1>2, <1>3, LenProperties
  <1>5. Reverse(p) = [i \in 1..Len(p) |-> p[(Len(p) - i) + 1]] BY DEF Reverse
  <1>6. ASSUME NEW i \in 1..Len(q) PROVE p[(Len(q) - i) + 1] = q[i]
    <2>1. (Len(q) - i) + 1 \in 1..Len(q) BY <1>1
    <2>2. (Len(q) - ((Len(q) - i) + 1)) + 1 = i BY <1>1
    <2> QED BY <1>2, <2>1, <2>2
  <1> HIDE DEF p
  <1>7. Reverse(p) = q BY <1>1, <1>4, <1>5, <1>6
  <1> QED BY <1>7 DEF p

\* A new element keeps a sequence free of repetitions.
LEMMA AppendInjectiveSeq ==
    ASSUME NEW q \in Seq(Singleton), NEW x \in Singleton, IsInjective(q), x \notin Range(q)
    PROVE  IsInjective(Append(q, x))
  <1> DEFINE a == Append(q, x)
  <1>1. Len(q) \in Nat /\ DOMAIN q = 1..Len(q) BY LenProperties
  <1>2. /\ a \in Seq(Singleton) /\ Len(a) = Len(q) + 1
        /\ \A i \in 1..Len(q) : a[i] = q[i]
        /\ a[Len(q) + 1] = x
    BY AppendProperties
  <1>3. DOMAIN a = 1..Len(q) + 1 BY <1>2, LenProperties
  <1>4. \A i \in 1..Len(q) : q[i] # x BY <1>1 DEF Range
  <1> HIDE DEF a
  <1>5. ASSUME NEW i \in 1..Len(q) + 1, NEW j \in 1..Len(q) + 1, a[i] = a[j] PROVE i = j
    BY <1>1, <1>2, <1>4, <1>5 DEF IsInjective
  <1>6. IsInjective(a) BY <1>3, <1>5 DEF IsInjective
  <1> QED BY <1>6 DEF a

\* The front of a sequence without repetitions has none.
LEMMA FrontInjective ==
    ASSUME NEW p \in Seq(Singleton), NEW q \in Seq(Singleton), IsInjective(p \o q)
    PROVE  IsInjective(p)
  <1>1. Len(p) \in Nat /\ DOMAIN p = 1..Len(p) /\ Len(q) \in Nat BY LenProperties
  <1>2. /\ p \o q \in Seq(Singleton) /\ Len(p \o q) = Len(p) + Len(q)
        /\ \A i \in 1..Len(p) + Len(q) : (p \o q)[i] = IF i <= Len(p) THEN p[i] ELSE q[i - Len(p)]
    BY ConcatProperties
  <1>3. DOMAIN (p \o q) = 1..Len(p) + Len(q) BY <1>2, LenProperties
  <1>4. ASSUME NEW i \in 1..Len(p), NEW j \in 1..Len(p), p[i] = p[j] PROVE i = j
    <2>1. i \in 1..Len(p) + Len(q) /\ j \in 1..Len(p) + Len(q) BY <1>1
    <2>2. (p \o q)[i] = p[i] /\ (p \o q)[j] = p[j] BY <1>2, <2>1
    <2> QED BY <1>3, <1>4, <2>1, <2>2 DEF IsInjective
  <1> QED BY <1>1, <1>4 DEF IsInjective

\* Moving the head of one sequence to the end of another keeps their concatenation.
LEMMA MoveHead ==
    ASSUME NEW p \in Seq(Singleton), NEW q \in Seq(Singleton), q # <<>>
    PROVE  Append(p, Head(q)) \o Tail(q) = p \o q
  <1>1. Head(q) \in Singleton /\ Tail(q) \in Seq(Singleton) BY HeadTailProperties
  <1>2. Append(p, Head(q)) = p \o <<Head(q)>> BY <1>1, AppendIsConcat
  <1>3. (p \o <<Head(q)>>) \o Tail(q) = p \o (<<Head(q)>> \o Tail(q)) BY <1>1, ConcatAssociative
  <1>4. Len(q) \in Nat \ {0} BY EmptySeq
  <1>5. Head(q) = q[1] /\ Tail(q) = SubSeq(q, 2, Len(q)) /\ SubSeq(q, 1, Len(q)) = q
    BY TailIsSubSeq, SubSeqFull
  <1>6. SubSeq(q, 1, Len(q)) = <<q[1]>> \o SubSeq(q, 2, Len(q))
    BY <1>4, SubSeqRecursiveFirst
  <1> QED BY <1>2, <1>3, <1>5, <1>6

\* Only the first signal gets past the flag.
LEMMA OneStep == TypeOK /\ OneTeardown /\ [Next]_vars => OneTeardown'
  <1> SUFFICES ASSUME TypeRest, OneTeardown, [Next]_vars PROVE OneTeardown' BY TypeParts
  <1>1. ASSUME NEW s \in Signal, SignalArrives(s) PROVE OneTeardown'
    <2>1. shuttingDown' /\ \A t \in Signal : t # s => step'[t] = step[t]
      BY <1>1 DEF SignalArrives, Goto, TypeRest
    <2>2. shuttingDown => step'[s] = "ignored" BY <1>1 DEF SignalArrives, Goto, TypeRest
    <2> QED BY <2>1, <2>2 DEF OneTeardown, Armed
  <1>2. ASSUME shuttingDown' = shuttingDown, \A t \in Signal : Armed(t)' => Armed(t)
        PROVE  OneTeardown'
    BY <1>2 DEF OneTeardown
  <1>3. ASSUME NEW s \in Signal, CleanupEnds(s) \/ DrainEnds(s) \/ ChannelsClosed(s)
        PROVE  OneTeardown'
    <2>1. shuttingDown' = shuttingDown /\ step[s] \notin {"none", "ignored"}
          /\ \A t \in Signal : t # s => step'[t] = step[t]
      BY <1>3 DEF CleanupEnds, DrainEnds, ChannelsClosed, Goto, TypeRest
    <2> QED BY <1>2, <2>1 DEF Armed
  <1>4. CASE UNCHANGED <<step, shuttingDown>>
    BY <1>2, <1>4 DEF Armed
  <1> QED
    BY <1>1, <1>3, <1>4
       DEF Next, vars, Arrive, Finish, Resolve, ResolveElsewhere, Destroy, ExitClean, Throw,
           ExitForced, Tick, LoopEmpties

\* Every step of the teardown keeps to the order.
LEMMA TeardownStep == Inv /\ OneTeardown /\ Teardown /\ [Next]_vars => Teardown'
  <1> SUFFICES ASSUME Inv, OneTeardown, Teardown, [Next]_vars PROVE Teardown' OBVIOUS
  <1>a. TypeRest /\ TypeSeqs BY TypeParts DEF Inv
  <1>b. CASE UNCHANGED vars
    BY <1>b DEF Teardown, vars
  <1>c. process # "exit 0" \/ UNCHANGED vars
    BY DEF Next, Up, Arrive, Finish, Resolve, ResolveElsewhere, SignalArrives, CleanupEnds,
       DrainEnds, ChannelsClosed, Destroy, ExitClean, Throw, ExitForced, Tick, LoopEmpties
  <1>1. ASSUME NEW r \in Request, NEW x \in Singleton, Resolve(r, x) PROVE Teardown'
    <2>1. created' = Append(created, x) /\ x \notin Range(created) /\ request[r] = "running"
          /\ process = "up" /\ UNCHANGED <<step, todo, destroyed, late, process>>
      BY <1>1 DEF Resolve, Up
    <2>2. IsInjective(created') BY <1>a, <2>1, AppendInjectiveSeq DEF TypeSeqs, Teardown
    <2>3. ASSUME DrainMounted, NEW s \in Signal, step[s] = "destroying" PROVE FALSE
      BY <2>1, <2>3, CountsOne DEF Inv, Drained
    <2> QED BY <2>1, <2>2, <2>3 DEF Teardown
  <1>2. ASSUME NEW x \in Singleton, ResolveElsewhere(x) PROVE Teardown'
    <2>1. created' = Append(created, x) /\ x \notin Range(created) /\ process = "up"
          /\ UNCHANGED <<step, todo, destroyed, process>>
          /\ late' = IF \E s \in Signal : step[s] = "destroying" THEN Append(late, x) ELSE late
      BY <1>2 DEF ResolveElsewhere, Up
    <2>2. IsInjective(created') BY <1>a, <2>1, AppendInjectiveSeq DEF TypeSeqs, Teardown
    <2>3. ASSUME DrainMounted, NEW s \in Signal, step[s] = "destroying"
          PROVE  created' = Reverse(destroyed \o todo[s]) \o late'
      <3> DEFINE front == Reverse(destroyed \o todo[s])
      <3>1. created = front \o late /\ late' = Append(late, x) BY <2>1, <2>3 DEF Teardown
      <3>2. destroyed \in Seq(Singleton) /\ todo[s] \in Seq(Singleton) /\ late \in Seq(Singleton)
        BY <1>a DEF TypeSeqs
      <3>3. front \in Seq(Singleton)
        <4>1. destroyed \o todo[s] \in Seq(Singleton) BY <3>2, ConcatProperties
        <4> QED BY <4>1, ReverseType
      <3> HIDE DEF front
      <3>4. Append(front \o late, x) = front \o Append(late, x)
        <4>1. Append(front \o late, x) = (front \o late) \o <<x>>
          BY <3>2, <3>3, ConcatProperties, AppendIsConcat
        <4>2. (front \o late) \o <<x>> = front \o (late \o <<x>>)
          BY <3>2, <3>3, ConcatAssociative
        <4> QED BY <3>2, <4>1, <4>2, AppendIsConcat
      <3>5. created' = front \o late' BY <2>1, <3>1, <3>4
      <3> QED BY <3>5 DEF front
    <2> QED BY <2>1, <2>2, <2>3 DEF Teardown
  <1>3. ASSUME NEW s \in Signal, SignalArrives(s) \/ CleanupEnds(s) \/ DrainEnds(s) PROVE Teardown'
    <2>1. process = "up" /\ UNCHANGED <<created, todo, destroyed, late, process>>
      BY <1>3 DEF SignalArrives, CleanupEnds, DrainEnds, Up
    <2>2. \A t \in Signal : step'[t] = "destroying" <=> step[t] = "destroying"
      BY <1>3, <1>a DEF SignalArrives, CleanupEnds, DrainEnds, Goto, TypeRest
    <2> QED BY <2>1, <2>2 DEF Teardown
  <1>4. ASSUME NEW s \in Signal, ChannelsClosed(s) PROVE Teardown'
    <2>1. process = "up" /\ UNCHANGED <<created, destroyed, late, process>> /\ step[s] = "channels"
      BY <1>4 DEF ChannelsClosed, Up
    <2>2. todo'[s] = Reverse(created) /\ step'[s] = "destroying"
          /\ \A t \in Signal : t # s => step'[t] = step[t]
      BY <1>4, <1>a DEF ChannelsClosed, Goto, TypeRest, TypeSeqs
    <2>3. \A t \in Signal : step[t] = "destroying" => t = s
      BY <2>1 DEF OneTeardown, Armed
    <2>4. destroyed = <<>> /\ late = <<>> /\ \A t \in Signal : step'[t] = "destroying" => t = s
      BY <2>1, <2>2, <2>3 DEF Teardown
    <2>5. Reverse(created) \in Seq(Singleton) BY <1>a, ReverseType DEF TypeSeqs
    <2>6. destroyed' \o todo'[s] = Reverse(created) BY <2>1, <2>2, <2>4, <2>5, ConcatEmptySeq
    <2>7. IsInjective(Reverse(created)) BY <1>a, ReverseInjective DEF TypeSeqs, Teardown
    <2>8. created' = Reverse(destroyed' \o todo'[s]) \o late'
      BY <1>a, <2>1, <2>4, <2>6, ReverseTwice, ConcatEmptySeq DEF TypeSeqs
    <2> QED BY <2>1, <2>2, <2>4, <2>6, <2>7, <2>8 DEF Teardown
  <1>5. ASSUME NEW s \in Signal, Destroy(s) PROVE Teardown'
    <2>1. process = "up" /\ UNCHANGED <<created, step, late, process>> /\ step[s] = "destroying"
          /\ todo[s] # <<>> /\ destroyed' = Append(destroyed, Head(todo[s]))
          /\ todo' = [todo EXCEPT ![s] = Tail(todo[s])]
      BY <1>5 DEF Destroy, Up
    <2>2. todo'[s] = Tail(todo[s]) /\ todo[s] \in Seq(Singleton) /\ destroyed \in Seq(Singleton)
      BY <1>a, <2>1 DEF TypeSeqs
    <2>3. destroyed' \o todo'[s] = destroyed \o todo[s] BY <2>1, <2>2, MoveHead
    <2>4. \A t \in Signal : step[t] = "destroying" => t = s
      BY <2>1 DEF OneTeardown, Armed
    <2> QED BY <2>1, <2>3, <2>4 DEF Teardown
  <1>6. ASSUME NEW s \in Signal, ExitClean(s) PROVE Teardown'
    BY <1>6 DEF ExitClean, Teardown
  <1>7. CASE /\ UNCHANGED <<step, created, todo, destroyed, late>>
             /\ process' \in {process, "exit 1", "killed", "emptied"}
    BY <1>7, <1>c, <1>b DEF Teardown
  <1> QED
    BY <1>b, <1>1, <1>2, <1>3, <1>4, <1>5, <1>6, <1>7
       DEF Next, vars, Arrive, Finish, Throw, ExitForced, Tick, LoopEmpties

THEOREM TeardownInvariance == Spec => [](Inv /\ OneTeardown /\ Teardown)
  <1>1. Init => OneTeardown /\ Teardown
    BY ShutdownAssumption DEF Init, OneTeardown, Teardown, Armed
  <1>2. Inv /\ OneTeardown /\ Teardown /\ [Next]_vars => (OneTeardown /\ Teardown)'
    BY OneStep, TeardownStep DEF Inv
  <1> QED BY <1>1, <1>2, Invariance, PTL DEF Spec

\* However many signals arrive, no onDestroy hook runs twice.
THEOREM DestroysOnce == Spec => []DestroyedOnce
  <1>1. Inv /\ Teardown => DestroyedOnce
    <2> SUFFICES ASSUME TypeSeqs, Teardown PROVE IsInjective(destroyed)
      BY TypeParts DEF Inv, DestroyedOnce
    <2>1. CASE \E s \in Signal : step[s] = "destroying"
      <3>1. PICK s \in Signal : step[s] = "destroying" BY <2>1
      <3>2. IsInjective(destroyed \o todo[s]) BY <3>1 DEF Teardown
      <3>3. destroyed \in Seq(Singleton) /\ todo[s] \in Seq(Singleton) BY DEF TypeSeqs
      <3> QED BY <3>2, <3>3, FrontInjective
    <2>2. CASE ~\E s \in Signal : step[s] = "destroying"
      <3>1. destroyed = <<>> BY <2>2 DEF Teardown
      <3> QED BY <3>1 DEF IsInjective
    <2> QED BY <2>1, <2>2
  <1> QED BY <1>1, TeardownInvariance, PTL

\* With a drain, process.exit(0) comes after every singleton was destroyed in
\* reverse order of creation, but for those that no request created, meanwhile.
THEOREM AllDestroyed == Spec => []CleanExitComplete
  <1>1. Inv /\ Teardown => CleanExitComplete
    <2> SUFFICES ASSUME TypeSeqs, Teardown, DrainMounted, process = "exit 0"
                 PROVE  created = Reverse(destroyed) \o late
      BY TypeParts DEF Inv, CleanExitComplete
    <2>1. PICK s \in Signal : step[s] = "destroying" /\ todo[s] = <<>> BY DEF Teardown
    <2>2. created = Reverse(destroyed \o <<>>) \o late BY <2>1 DEF Teardown
    <2>3. destroyed \o <<>> = destroyed BY ConcatEmptySeq DEF TypeSeqs
    <2> QED BY <2>2, <2>3
  <1> QED BY <1>1, TeardownInvariance, PTL

=============================================================================
