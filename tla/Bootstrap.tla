----------------------------- MODULE Bootstrap ------------------------------
(***************************************************************************)
(* runBootstrap (core/lifecycle.ts) and @OnBootstrap                       *)
(* (decorators/lifecycle.ts): calls of it run the hooks of the classes     *)
(* they are given, one after the other, each class once in the process.    *)
(*                                                                         *)
(* A call stands at a hook it awaits, <<class's index, hook's index>>.  A  *)
(* hook that fails is logged and counts as ended.                          *)
(***************************************************************************)
EXTENDS Modules, Naturals

CONSTANTS
    Runs,   \* calls of runBootstrap; buildModule's is one
    Asked,  \* [Runs -> the targets of each]
    Hooks   \* [classes -> their hooks, in order]

VARIABLES
    bootstrapped,  \* the WeakSet of classes
    stage,         \* where a call is: new, in a hook, returned
    hook,          \* <<i, k>>: it awaits the k-th hook of its i-th class
    ended          \* history: how often each <<class, k>> has ended

bootVars == <<bootstrapped, stage, hook, ended>>

Classes(r) == CollectTargets(Asked[r])

HooksOf(class) == IF class \in DOMAIN Hooks THEN Hooks[class] ELSE <<>>

\* Asked and Hooks have lists of classes and of methods.
ASSUME BootAssumption ==
    /\ \A r \in Runs : Classes(r) \in Seq(Class)
    /\ \A c \in DOMAIN Hooks : Hooks[c] \in Seq(ToSet(Hooks[c]))

AllHooks == UNION {{c} \X DOMAIN Hooks[c] : c \in DOMAIN Hooks}

BootTypeOK ==
    /\ bootstrapped \subseteq Class
    /\ stage \in [Runs -> {"new", "hook", "returned"}]
    /\ hook \in [Runs -> Nat \X Nat]
    /\ ended \in [AllHooks -> Nat]

BootInit ==
    /\ bootstrapped = {}
    /\ stage = [r \in Runs |-> "new"]
    /\ hook = [r \in Runs |-> <<0, 0>>]
    /\ ended = [h \in AllHooks |-> 0]

\* Mutant: a class is marked when its hooks have ended.
ProceedUnmarked(r, i) ==
    LET due == {j \in DOMAIN Classes(r) :
                  j > i /\ Classes(r)[j] \notin bootstrapped /\ HooksOf(Classes(r)[j]) # <<>>}
        done == IF i = 0 THEN {} ELSE {Classes(r)[i]}
    IN  /\ bootstrapped' = bootstrapped \union done
        /\ IF due = {}
             THEN stage' = [stage EXCEPT ![r] = "returned"] /\ UNCHANGED hook
             ELSE \E next \in due :
                  /\ \A k \in due : next <= k
                  /\ stage' = [stage EXCEPT ![r] = "hook"]
                  /\ hook' = [hook EXCEPT ![r] = <<next, 1>>]

-----------------------------------------------------------------------------
\* On to the first class after the i-th that is not bootstrapped and has
\* hooks; those without are marked on the way, and so is it, before its hook
\* is called.
Proceed(r, i) ==
    LET rest == {j \in DOMAIN Classes(r) : j > i}
        due  == {j \in rest : Classes(r)[j] \notin bootstrapped /\ HooksOf(Classes(r)[j]) # <<>>}
    IN  IF due = {}
          THEN /\ stage' = [stage EXCEPT ![r] = "returned"]
               /\ bootstrapped' = bootstrapped \union {Classes(r)[j] : j \in rest}
               /\ UNCHANGED hook
          ELSE \E next \in due :
               /\ \A k \in due : next <= k
               /\ stage' = [stage EXCEPT ![r] = "hook"]
               /\ hook' = [hook EXCEPT ![r] = <<next, 1>>]
               /\ bootstrapped' =
                    bootstrapped \union {Classes(r)[j] : j \in {k \in rest : k <= next}}

RunBootstrap(r) ==
    /\ stage[r] = "new"
    /\ Proceed(r, 0)
    /\ UNCHANGED ended

HookEnds(r) ==
    /\ stage[r] = "hook"
    /\ LET i == hook[r][1]  k == hook[r][2]  class == Classes(r)[i] IN
       /\ ended' = [ended EXCEPT ![<<class, k>>] = @ + 1]
       /\ IF k < Len(Hooks[class])
            THEN /\ hook' = [hook EXCEPT ![r] = <<i, k + 1>>]
                 /\ UNCHANGED <<bootstrapped, stage>>
            ELSE Proceed(r, i)

BootNext == \E r \in Runs : RunBootstrap(r) \/ HookEnds(r)

BootSpec == BootInit /\ [][BootNext]_bootVars

-----------------------------------------------------------------------------
Started == {r \in Runs : stage[r] # "new"}

\* No hook runs twice, and when all calls have returned every hook of their
\* classes has ended: a class that one call skips is in the hands of another,
\* whatever module trees they share.
HooksRunOnce ==
    /\ \A h \in AllHooks : ended[h] <= 1
    /\ (\A r \in Runs : stage[r] # "hook") =>
         \A r \in Started : \A c \in ToSet(Classes(r)) :
            \A k \in DOMAIN HooksOf(c) : ended[<<c, k>>] = 1

\* "await `runBootstrap(Module)` yourself if ordering matters at startup"
\* (decorators/lifecycle.ts): what a returned call was asked for has ended.
AwaitedMeansReady ==
    \A r \in Runs : stage[r] = "returned" =>
        \A c \in ToSet(Classes(r)) : \A k \in DOMAIN HooksOf(c) : ended[<<c, k>>] = 1

=============================================================================
