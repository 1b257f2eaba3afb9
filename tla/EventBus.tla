------------------------------ MODULE EventBus ------------------------------
(***************************************************************************)
(* The in-process event bus (core/events.ts) and @OnEvent                  *)
(* (decorators/events.ts).                                                 *)
(*                                                                         *)
(* Each call of startEventBus (a bus) adds listeners of its own to the map *)
(* all calls share, also for a class another one has added.  The order of  *)
(* the listeners of an event is left out: they are started one after the   *)
(* other without an await and settle in any order.  Names are sequences of *)
(* characters, because of the wildcards.                                   *)
(***************************************************************************)
EXTENDS Modules, FiniteSets

CONSTANTS
    Bus,       \* calls of startEventBus
    Given,     \* [Bus -> the classes it is passed]
    Declared,  \* [classes -> set of <<method, pattern>>, one per @OnEvent]
    EventName, \* names passed to emit; a pattern is [prefix, star]
    Emission   \* calls of emit

VARIABLES
    buses,      \* new, up or down
    listeners,  \* the entries of the map
    emission,   \* new, pending or done
    awaited     \* listeners each emission has called and awaits

eventVars == <<buses, listeners, emission, awaited>>

\* What one startEventBus adds; a method that names an event twice has it once.
Added(bus) ==
    {[bus |-> bus, class |-> d[1], method |-> d[2][1], pattern |-> d[2][2]] :
        d \in UNION {{c} \X Declared[c] :
                        c \in ToSet(CollectTargets(Given[bus])) \intersect DOMAIN Declared}}

Subscribes(listener, name) ==
    IF listener.pattern.star THEN IsPrefix(listener.pattern.prefix, name)
    ELSE listener.pattern.prefix = name

EventTypeOK ==
    /\ buses \in [Bus -> {"new", "up", "down"}]
    /\ listeners \subseteq UNION {Added(b) : b \in Bus}
    /\ emission \in [Emission -> {"new", "pending", "done"}]
    /\ awaited \in [Emission -> SUBSET UNION {Added(b) : b \in Bus}]

EventInit ==
    /\ buses = [b \in Bus |-> "new"]
    /\ listeners = {}
    /\ emission = [e \in Emission |-> "new"]
    /\ awaited = [e \in Emission |-> {}]

-----------------------------------------------------------------------------
StartEventBus(b) ==
    /\ buses[b] = "new"
    /\ buses' = [buses EXCEPT ![b] = "up"]
    /\ listeners' = listeners \union Added(b)
    /\ UNCHANGED <<emission, awaited>>

\* Mutant: listeners are removed by class and method.
RemovedByClass(b) ==
    {l \in UNION {Added(c) : c \in Bus} :
        \E m \in Added(b) : m.class = l.class /\ m.method = l.method}

\* What the teardown removes: the objects it added, not those of their class.
Removed(b) == Added(b)

TearDown(b) ==
    /\ buses[b] = "up"
    /\ buses' = [buses EXCEPT ![b] = "down"]
    /\ listeners' = listeners \ Removed(b)
    /\ UNCHANGED <<emission, awaited>>

\* Without a subscriber emit returns at once.
Emit(e, name) ==
    LET subs == {l \in listeners : Subscribes(l, name)} IN
    /\ emission[e] = "new"
    /\ emission' = [emission EXCEPT ![e] = IF subs = {} THEN "done" ELSE "pending"]
    /\ awaited' = [awaited EXCEPT ![e] = subs]
    /\ UNCHANGED <<buses, listeners>>

\* A listener ends, or fails, which is logged; after the last one emit returns.
Settle(e, l) ==
    /\ l \in awaited[e]
    /\ awaited' = [awaited EXCEPT ![e] = @ \ {l}]
    /\ emission' = [emission EXCEPT ![e] = IF awaited[e] = {l} THEN "done" ELSE @]
    /\ UNCHANGED <<buses, listeners>>

EventNext ==
    \/ \E b \in Bus : StartEventBus(b) \/ TearDown(b)
    \/ \E e \in Emission :
        \/ \E name \in EventName : Emit(e, name)
        \/ \E l \in awaited[e] : Settle(e, l)

\* Listeners settle.
EventFair == \A e \in Emission : WF_eventVars(\E l \in awaited[e] : Settle(e, l))

EventSpec == EventInit /\ [][EventNext]_eventVars /\ EventFair

-----------------------------------------------------------------------------
\* Every bus that is up has all of its listeners and one that is down none,
\* though buses share the map and their classes, in any order of starts and
\* teardowns.
BusesApart == listeners = UNION {Added(b) : b \in {c \in Bus : buses[c] = "up"}}

=============================================================================
