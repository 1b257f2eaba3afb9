---------------------------- MODULE MCBackground ----------------------------
(***************************************************************************)
(* What an application starts beside its routes: the scheduler, the event  *)
(* bus and the bootstrap hooks, all given lists of classes and modules.    *)
(* They share no state, so that a behaviour of their product is one of     *)
(* each: `part` chooses the one that takes the steps.                      *)
(***************************************************************************)
EXTENDS Scheduler, EventBus, Bootstrap
CONSTANTS app, feature, reports, janitor, audit, nightly, sweep, broken, odd,
          onOrder, onAny, first, second, e1, e2

Metadata == INSTANCE Metadata

AllClasses == {app, feature, reports, janitor, audit}
Lists == {<<app>>, <<janitor, audit, app>>}

\* Two months, of two days and of one.
Months == <<2, 1>>

Star == [range |-> <<>>, step |-> <<>>]
At(n) == [range |-> <<n>>, step |-> <<>>]
\* At minute 1 on the second of a month or on the second day of the week.
Nightly == [minute |-> <<At(1)>>, hour |-> <<Star>>, dom |-> <<At(2)>>,
            month |-> <<Star>>, dow |-> <<At(1)>>]
\* The second day of the second month.
Missing == [Nightly EXCEPT !.month = <<At(2)>>, !.dow = <<Star>>]
Invalid == [Nightly EXCEPT !.minute = <<[range |-> <<1, 0>>, step |-> <<>>]>>]

Order1 == [prefix |-> <<"o", ".", "n">>, star |-> FALSE]
Order2 == [prefix |-> <<"o", ".">>, star |-> TRUE]
Every == [prefix |-> <<>>, star |-> TRUE]

\* The decorators of the classes, in the order they run.
on(is, name, with) == [is |-> is, on |-> name, with |-> with]
cron(name, expression, immediate) == on("Cron", name, [expression |-> expression, immediate |-> immediate])
module(providers, controllers, imports) ==
    <<on("Module", "class", [providers |-> providers, controllers |-> controllers, imports |-> imports])>>

Classified ==
    app :> module(<<janitor>>, <<>>, <<feature, reports, app>>)
    @@ feature :> module(<<>>, <<reports>>, <<app>>)
    @@ reports :> <<cron(nightly, Nightly, TRUE), on("Interval", odd, [ms |-> 1, immediate |-> FALSE]),
                    cron(odd, Invalid, FALSE),
                    on("OnEvent", onOrder, Order1), on("OnEvent", onOrder, Order1), on("OnEvent", onAny, Order2),
                    on("OnBootstrap", onOrder, TRUE), on("OnBootstrap", onAny, TRUE)>>
    @@ janitor :> <<on("Interval", sweep, [ms |-> 3, immediate |-> TRUE]), on("OnBootstrap", sweep, TRUE)>>
    @@ audit :> <<cron(broken, Missing, TRUE), on("OnEvent", onAny, Every)>>
Meta == [c \in AllClasses |-> Metadata!Decorated(Classified[c])]
With(key) == {c \in AllClasses : key \in DOMAIN Meta[c]}

\* What the three parts read of it, which the assumption below confirms.
Listed == app :> <<janitor, feature, reports, app>> @@ feature :> <<reports, app>>
Methods == reports :> <<nightly, odd>> @@ janitor :> <<sweep>> @@ audit :> <<broken>>
ByCron(expression, immediate) == [cron |-> <<expression>>, every |-> 0, immediate |-> immediate]
Plans == nightly :> ByCron(Nightly, TRUE) @@ odd :> ByCron(Invalid, FALSE) @@ broken :> ByCron(Missing, TRUE)
         @@ sweep :> [cron |-> <<>>, every |-> 3, immediate |-> TRUE]
Listening == reports :> {<<onOrder, Order1>>, <<onAny, Order2>>} @@ audit :> {<<onAny, Every>>}
HookLists == reports :> <<onOrder, onAny>> @@ janitor :> <<sweep>>

ASSUME AsDecorated ==
    /\ Listed = [c \in With("module") |->
                    LET m == Meta[c]["module"] IN m.providers \o m.controllers \o m.imports]
    /\ Methods = [c \in With("schedule") |-> Metadata!Entered(Classified[c], {"Interval", "Cron"})]
    /\ \A c \in With("schedule") : \A j \in DOMAIN Meta[c]["schedule"] : Plans[j] = Meta[c]["schedule"][j]
    /\ Listening = [c \in With("onEvent") |->
                       UNION {{m} \X ToSet(Meta[c]["onEvent"][m]) : m \in DOMAIN Meta[c]["onEvent"]}]
    /\ HookLists = [c \in With("onBootstrap") |-> Metadata!Entered(Classified[c], {"OnBootstrap"})]

\* EventBus: one bus for the application, one more for its reports.
Buses == first :> <<app>> @@ second :> <<reports, audit>>
Names == {<<"o", ".", "n">>, <<"o", "x">>}

\* Bootstrap: buildModule's own call, and one the application awaits.
Calls == first :> <<reports, app>> @@ second :> <<janitor, app>>

-----------------------------------------------------------------------------
VARIABLE part

vars == <<part, schedulerVars, eventVars, bootVars>>

Init == /\ part \in {"scheduler", "events", "bootstrap"}
        /\ SchedulerInit /\ EventInit /\ BootInit

SchedulerStep(A) == part = "scheduler" /\ A /\ UNCHANGED <<part, eventVars, bootVars>>
EventStep(A) == part = "events" /\ A /\ UNCHANGED <<part, schedulerVars, bootVars>>
BootStep(A) == part = "bootstrap" /\ A /\ UNCHANGED <<part, schedulerVars, eventVars>>

Next == SchedulerStep(SchedulerNext) \/ EventStep(EventNext) \/ BootStep(BootNext)

\* SchedulerFair, for the part that runs.
Fairness ==
    /\ WF_vars(SchedulerStep(Advance))
    /\ \A j \in Job : WF_vars(SchedulerStep(Fire(j))) /\ WF_vars(SchedulerStep(End(j)))

Spec == Init /\ [][Next]_vars /\ Fairness

\* The three parts' types.
TypeOK == SchedulerTypeOK /\ EventTypeOK /\ BootTypeOK
=============================================================================
