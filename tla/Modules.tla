------------------------------ MODULE Modules -------------------------------
(***************************************************************************)
(* The classes a list of classes and @Module classes stands for            *)
(* (collectTargets, which core/scheduler.ts, core/events.ts and            *)
(* core/lifecycle.ts each define alike).                                   *)
(***************************************************************************)
EXTENDS Sequences, SequencesExt

CONSTANTS
    Class,  \* all classes
    Parts   \* [modules -> what each lists: providers, controllers, imports]

ASSUME PartsAssumption == DOMAIN Parts \subseteq Class

\* The traversal: a worklist, with `seen` shared by the whole of it, visits in
\* the order of the nested calls.
CollectTargets(targets) ==
    LET visit[todo \in Seq(Class), seen \in SUBSET Class] ==
            IF todo = <<>> THEN <<>>
            ELSE LET class == Head(todo) IN
                 IF class \in seen THEN visit[Tail(todo), seen]
                 ELSE IF class \in DOMAIN Parts
                      THEN visit[Parts[class] \o Tail(todo), seen \union {class}]
                      ELSE <<class>> \o visit[Tail(todo), seen \union {class}]
    IN  visit[targets, {}]

=============================================================================
