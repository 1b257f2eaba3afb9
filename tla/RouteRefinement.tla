-------------------------- MODULE RouteRefinement --------------------------
(* The route handler implements SharedExecution. *)
EXTENDS RouteHandler

\* None is neither what a request sends nor a tag.
ASSUME TagAssumption == None \notin RequestInfo /\ None \notin Instance \X DedupeKey

\* The tag of a deduplicated request: its process and its dedupe key.
TagOf(r) ==
    IF req[r] = None THEN None
    ELSE IF Deduped(r) THEN <<req[r].inst, DedupeKeyOf(r)>> ELSE None

Stage(r) == CASE pc[r] = "idle" -> "out"
              [] pc[r] = "done" -> "done"
              [] OTHER -> "in"

\* The execution a request leads or joined, then the one it was answered from.
SourceOf(r) ==
    CASE pc[r] = "done" -> resp[r].exec
      [] pc[r] = "waiting" -> flight[r]
      [] Open(r) \/ pc[r] \in {"storing", "stored"} -> r
      [] OTHER -> None

Abstract == INSTANCE SharedExecution WITH
    Tag <- Instance \X DedupeKey,
    NoTag <- None,
    stage <- [r \in Request |-> Stage(r)],
    tag <- [r \in Request |-> TagOf(r)],
    source <- [r \in Request |-> SourceOf(r)],
    open <- {r \in Request : Open(r)},
    good <- {r \in Request : outcome[r] = "ok"}

\* httpHandler implements the promise of @SingleFlight and @Idempotent within a
\* process: executions of one key do not overlap, a request shares only an
\* execution that is open when it joins, and only a success is replayed later.
ImplementsSharedExecution == Abstract!Spec

=============================================================================
