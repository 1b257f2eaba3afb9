----------------------------- MODULE Scheduler ------------------------------
(***************************************************************************)
(* startScheduler (core/scheduler.ts): the @Interval and @Cron methods     *)
(* (decorators/schedule.ts) of the classes it is given, their timers and   *)
(* the overlap guard.                                                      *)
(*                                                                         *)
(* `left` is what remains of a job's timer, so that the clock may go round *)
(* the calendar's period for ever.  The wall clock may be set while timers *)
(* run; a timer counts elapsed time.  Timers may fire late.  What runs     *)
(* between two awaits is one action: the tick up to the call of the job,   *)
(* and from the end of the job to the next timer.                          *)
(***************************************************************************)
EXTENDS CronTime, Modules, FiniteSets

CONSTANTS
    TargetLists, \* the lists of classes startScheduler may be passed
    Scheduled,   \* [classes -> their decorated methods, in order]
    Plan,        \* [methods -> [cron, every, immediate]]; cron is <<>> or <<expr>>
    MaxDelay,    \* the longest delay a timer takes; a longer one is 1 ms
    MaxAdjust,   \* bound: how often the clock is set
    Never

Job == UNION {{Scheduled[c][i] : i \in DOMAIN Scheduled[c]} : c \in DOMAIN Scheduled}

ASSUME PlanAssumption ==
    /\ DOMAIN Scheduled \subseteq Class
    /\ \A j \in Job : /\ j \in DOMAIN Plan
                      /\ Plan[j].immediate \in BOOLEAN /\ Plan[j].every \in Nat
    /\ MaxDelay \in Nat /\ MaxAdjust \in Nat /\ Never \notin Nat

VARIABLES
    now, adjusted,  \* the wall clock, and how often it was set
    scheduler,      \* idle, started, stopped; thrown: startScheduler threw;
                    \* rejected: a rescheduling threw with nobody to catch it
    left,           \* what remains of the timer of each job, or Never
    running,        \* the overlap flag of each job
    chained,        \* a cron tick that will reschedule when its job ends
    bodies          \* history: how many calls of the method are in progress

schedulerVars == <<now, adjusted, scheduler, left, running, chained, bodies>>

IsCron(j) == Plan[j].cron # <<>>
Expr(j) == Plan[j].cron[1]

SchedulerTypeOK ==
    /\ now \in 0..(Period - 1) /\ adjusted \in 0..MaxAdjust
    /\ scheduler \in {"idle", "started", "stopped", "thrown", "rejected"}
    /\ left \in [Job -> Nat \union {Never}]
    /\ running \in [Job -> BOOLEAN] /\ chained \in [Job -> BOOLEAN]
    /\ bodies \in [Job -> Nat]

SchedulerInit ==
    /\ now = 0 /\ adjusted = 0
    /\ scheduler = "idle"
    /\ left = [j \in Job |-> Never]
    /\ running = [j \in Job |-> FALSE] /\ chained = [j \in Job |-> FALSE]
    /\ bodies = [j \in Job |-> 0]

-----------------------------------------------------------------------------
\* setTimeout and setInterval replace a delay they cannot hold by 1 ms.
Timer(delay) == IF delay <= MaxDelay THEN delay ELSE 0

\* nextCronTime throws: no minute matches within the horizon.
Impossible(j) == NextCronTime(Expr(j), now) = 0

FirstDelay(j) ==
    IF IsCron(j) THEN Timer(NextCronTime(Expr(j), now) - now) ELSE Timer(Plan[j].every)

\* The jobs of the targets in the order they are started.
Order(targets) ==
    FoldLeft(LAMBDA jobs, class :
                 IF class \in DOMAIN Scheduled THEN jobs \o Scheduled[class] ELSE jobs,
             <<>>, CollectTargets(targets))

Skipped(j) == IsCron(j) /\ ~Valid(Expr(j))

\* Up to the first cron that never fires, where startScheduler throws and
\* leaves the timers before it to run.
Start(targets) ==
    /\ scheduler = "idle"
    /\ LET jobs   == Order(targets)
           throws == {i \in DOMAIN jobs :
                        IsCron(jobs[i]) /\ ~Skipped(jobs[i]) /\ Impossible(jobs[i])}
           begun  == {jobs[i] : i \in {k \in DOMAIN jobs \ throws : \A t \in throws : k < t}}
           armed  == {j \in begun : ~Skipped(j)}
           called == {j \in armed : Plan[j].immediate}
       IN  /\ scheduler' = IF throws = {} THEN "started" ELSE "thrown"
           /\ left' = [j \in Job |-> IF j \in armed THEN FirstDelay(j) ELSE Never]
           /\ running' = [j \in Job |-> j \in called]
           /\ bodies' = [j \in Job |-> IF j \in called THEN 1 ELSE 0]
    /\ UNCHANGED <<now, adjusted, chained>>

\* The teardown: running jobs go on, no timer is left.
Stop ==
    /\ scheduler = "started"
    /\ scheduler' = "stopped"
    /\ left' = [j \in Job |-> Never]
    /\ UNCHANGED <<now, adjusted, running, chained, bodies>>

\* Mutant: the teardown is forgotten once it has cleared the timers.
ScheduleAnyway(j) ==
    /\ left' = [left EXCEPT ![j] = Timer(NextCronTime(Expr(j), now) - now)]
    /\ UNCHANGED scheduler

-----------------------------------------------------------------------------
\* scheduleNext.
ScheduleNext(j) ==
    IF scheduler = "stopped" THEN UNCHANGED <<left, scheduler>>
    ELSE IF Impossible(j)
    THEN scheduler' = "rejected" /\ left' = [i \in Job |-> Never]
    ELSE /\ left' = [left EXCEPT ![j] = Timer(NextCronTime(Expr(j), now) - now)]
         /\ UNCHANGED scheduler

\* A timer fires: the tick calls the method.
Call(j) ==
    /\ ~running[j]
    /\ running' = [running EXCEPT ![j] = TRUE]
    /\ bodies' = [bodies EXCEPT ![j] = @ + 1]
    /\ chained' = [chained EXCEPT ![j] = IsCron(j)]
    /\ left' = [left EXCEPT ![j] = IF IsCron(j) THEN Never ELSE Timer(Plan[j].every)]
    /\ UNCHANGED scheduler

\* Mutant: the flag is reset when a tick is skipped.
SkipResets(j) ==
    /\ running[j]
    /\ IF IsCron(j) THEN ScheduleNext(j)
       ELSE left' = [left EXCEPT ![j] = Timer(Plan[j].every)] /\ UNCHANGED scheduler
    /\ running' = [running EXCEPT ![j] = FALSE]
    /\ UNCHANGED <<chained, bodies>>

\* Or it returns, since the method is running; a cron reschedules at once.
Skip(j) ==
    /\ running[j]
    /\ IF IsCron(j) THEN ScheduleNext(j)
       ELSE left' = [left EXCEPT ![j] = Timer(Plan[j].every)] /\ UNCHANGED scheduler
    /\ UNCHANGED <<running, chained, bodies>>

Fire(j) ==
    /\ left[j] = 0
    /\ (Call(j) \/ Skip(j))
    /\ UNCHANGED <<now, adjusted>>

\* Mutant: the end of a run does not set the timer of the next.
EndOnce(j) ==
    /\ bodies[j] > 0
    /\ bodies' = [bodies EXCEPT ![j] = @ - 1]
    /\ running' = [running EXCEPT ![j] = FALSE]
    /\ chained' = [chained EXCEPT ![j] = FALSE]
    /\ UNCHANGED <<left, scheduler, now, adjusted>>

\* The method settles, or resolving its class threw: an error is logged.
End(j) ==
    /\ bodies[j] > 0
    /\ bodies' = [bodies EXCEPT ![j] = @ - 1]
    /\ running' = [running EXCEPT ![j] = FALSE]
    /\ chained' = [chained EXCEPT ![j] = FALSE]
    /\ IF chained[j] THEN ScheduleNext(j) ELSE UNCHANGED <<left, scheduler>>
    /\ UNCHANGED <<now, adjusted>>

-----------------------------------------------------------------------------
\* A tick of time; a timer that is due may stay so for any time.
Advance ==
    /\ scheduler # "rejected"
    /\ now' = (now + 1) % Period
    /\ left' = [j \in Job |-> IF left[j] \in {0, Never} THEN left[j] ELSE left[j] - 1]
    /\ UNCHANGED <<adjusted, scheduler, running, chained, bodies>>

\* The wall clock is set back or forward.
Adjust ==
    /\ adjusted < MaxAdjust
    /\ adjusted' = adjusted + 1
    /\ \E by \in {1, Period - 1} : now' = (now + by) % Period
    /\ UNCHANGED <<scheduler, left, running, chained, bodies>>

SchedulerNext == (\E t \in TargetLists : Start(t)) \/ Stop \/ Advance \/ Adjust \/ (\E j \in Job : Fire(j) \/ End(j))

\* Timers that are due fire, and the methods end: a method that hangs stops
\* its own schedule.
SchedulerFair ==
    /\ WF_schedulerVars(Advance)
    /\ \A j \in Job : WF_schedulerVars(Fire(j)) /\ WF_schedulerVars(End(j))

SchedulerSpec == SchedulerInit /\ [][SchedulerNext]_schedulerVars /\ SchedulerFair

-----------------------------------------------------------------------------
\* A method never overlaps itself, however its timer, an immediate run and a
\* slow run meet, and the flag says whether it runs: it is neither reset early
\* nor left set.
NoOverlap == \A j \in Job : bodies[j] <= 1 /\ (running[j] <=> bodies[j] = 1)

\* Once the scheduler is torn down, no method is called again by it, whatever
\* was running at the time.
SilentAfterStop ==
    [][scheduler = "stopped" => \A j \in Job : left[j] = Never /\ bodies'[j] <= bodies[j]]_schedulerVars

\* A cron's timer is set for the first matching minute after the present one,
\* at start and after every run, be it long, late, or after the clock was set.
ArmedForNext ==
    [][\A j \in Job :
         (IsCron(j) /\ left'[j] # Never /\ (left[j] = Never \/ left'[j] > left[j]))
         => LET due == now' + left'[j]
                minutes == {t \in now' + 1..due : t % PerMinute = 0}
            IN  due \in minutes /\ (\A t \in minutes : Matches(Expr(j), t) <=> t = due)]_schedulerVars

\* A cron that can fire fires again and again, until the scheduler is torn
\* down: no skipped, failed or overlapped tick loses its timer.
CronGoesOn ==
    \A j \in Job : IsCron(j) =>
        (<>[](scheduler = "started") /\ <>(left[j] # Never) => []<>(left[j] = 0))

=============================================================================
