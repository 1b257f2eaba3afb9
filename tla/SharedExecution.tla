-------------------------- MODULE SharedExecution --------------------------
(***************************************************************************)
(* What deduplication of requests promises, without keys, stores or        *)
(* promises: every request is answered from at most one execution, its own *)
(* or that of a request with the same tag.  Executions of one tag never    *)
(* overlap.  A request is attached to an execution while it is open; later *)
(* it can only be given one that succeeded.                                *)
(***************************************************************************)
CONSTANTS Request, Tag, NoTag, None

VARIABLES
    stage,      \* "out" before the request arrives, "in", then "done"
    tag,        \* what makes requests identical, NoTag: not deduplicated
    source,     \* the execution that answers a request, None so far
    open,       \* executions under way
    good        \* executions that succeeded

vars == <<stage, tag, source, open, good>>

Init ==
    /\ stage = [r \in Request |-> "out"]
    /\ tag = [r \in Request |-> NoTag]
    /\ source = [r \in Request |-> None]
    /\ open = {} /\ good = {}

Enter(r) ==
    /\ stage[r] = "out"
    /\ stage' = [stage EXCEPT ![r] = "in"]
    /\ \E t \in Tag \cup {NoTag} : tag' = [tag EXCEPT ![r] = t]
    /\ UNCHANGED <<source, open, good>>

Waiting(r) == stage[r] = "in" /\ source[r] = None

\* r executes: no execution of its tag is open.
Lead(r) ==
    /\ Waiting(r)
    /\ tag[r] = NoTag \/ \A e \in open : tag[e] # tag[r]
    /\ source' = [source EXCEPT ![r] = r]
    /\ open' = open \cup {r}
    /\ UNCHANGED <<stage, tag, good>>

\* r is attached to the open execution of its tag.
Join(r, e) ==
    /\ Waiting(r)
    /\ tag[r] # NoTag /\ e \in open /\ tag[e] = tag[r]
    /\ source' = [source EXCEPT ![r] = e]
    /\ UNCHANGED <<stage, tag, open, good>>

Succeed(e) ==
    /\ e \in open
    /\ good' = good \cup {e}
    /\ UNCHANGED <<stage, tag, source, open>>

\* The execution e is over; its own request may be answered at once.
Close(e) ==
    /\ e \in open
    /\ open' = open \ {e}
    /\ stage' \in {stage, [stage EXCEPT ![e] = "done"]}
    /\ UNCHANGED <<tag, source, good>>

\* r is answered from its execution once that is over, or without one.
Deliver(r) ==
    /\ stage[r] = "in" /\ source[r] \notin open
    /\ stage' = [stage EXCEPT ![r] = "done"]
    /\ UNCHANGED <<tag, source, open, good>>

\* r is given an earlier execution that succeeded.
Replay(r, e) ==
    /\ Waiting(r)
    /\ e \in good \ open
    /\ source' = [source EXCEPT ![r] = e]
    /\ stage' = [stage EXCEPT ![r] = "done"]
    /\ UNCHANGED <<tag, open, good>>

\* Requests are dropped, with their executions.
Abandon(R) ==
    /\ \A r \in R : stage[r] = "in"
    /\ stage' = [r \in Request |-> IF r \in R THEN "done" ELSE stage[r]]
    /\ source' = [r \in Request |-> IF r \in R THEN None ELSE source[r]]
    /\ open' = open \ R
    /\ UNCHANGED <<tag, good>>

Next ==
    \/ \E r \in Request : Enter(r) \/ Lead(r) \/ Succeed(r) \/ Close(r) \/ Deliver(r)
    \/ \E r, e \in Request : Join(r, e) \/ Replay(r, e)
    \/ \E R \in SUBSET Request : Abandon(R)

Spec == Init /\ [][Next]_vars

=============================================================================
