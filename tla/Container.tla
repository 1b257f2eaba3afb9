------------------------------ MODULE Container ------------------------------
(***************************************************************************)
(* Dependency injection (core/container.ts): resolve() as a call stack,    *)
(* the registrations, runInScope() with its teardown, and the overrides of *)
(* a testing module (core/testing.ts).                                     *)
(*                                                                         *)
(* resolve() is synchronous: while `frames' is not empty, and while the    *)
(* teardown's loop is between two awaits, nothing else runs.  Constructors *)
(* and factories are the application's; they resolve what Touches and      *)
(* Bodies say, may fail and may catch an error of what they resolve.       *)
(* @Stateless is @Singleton with a write guard, which is left out, as is   *)
(* clear() called from within a constructor.                               *)
(***************************************************************************)
EXTENDS Naturals, Sequences, FiniteSets

CONSTANTS
    Tokens,
    Scope,     \* a token's "singleton", "request" or "transient"
    Name,      \* and the name of its class, which need not be its own
    Inject,    \* the tokens given to @Injectable
    Touches,   \* what the constructor resolves, by itself or through a proxy
    Bodies,    \* factories a token may be given: what they resolve, and
               \* whether they return just that
    Roots,     \* tokens the application resolves by itself
    Failing,   \* classes whose constructor or factory may throw
    Changed,   \* tokens whose registration changes
    Startup,   \* the factories registered at first
    Bare,      \* tokens that are no class: strings and symbols
    Hooked,    \* classes with an onDestroy
    Contexts,  \* request contexts
    None,      \* stands for the lack of a context, an error or a snapshot
    MaxMade, MaxDepth, MaxChanges  \* bounds on instances, nested scopes and changes of
               \* the registrations

Factory == [uses : Seq(Tokens), same : BOOLEAN]

ASSUME ContainerAssumption ==
    /\ Scope \in [Tokens -> {"singleton", "request", "transient"}]
    /\ DOMAIN Name = Tokens
    /\ Inject \in [Tokens -> Seq(Tokens)] /\ Touches \in [Tokens -> Seq(Tokens)]
    /\ Bodies \in [Tokens -> SUBSET Factory]
    /\ DOMAIN Startup \subseteq Tokens /\ \A t \in DOMAIN Startup : Startup[t] \in Bodies[t]
    /\ \A t \in Tokens : \A b \in Bodies[t] : b.same => Len(b.uses) = 1
    /\ Roots \subseteq Tokens /\ Changed \subseteq Tokens /\ Failing \subseteq Tokens
    /\ Bare \subseteq Failing /\ \A t \in Bare : Scope[t] = "transient" /\ Inject[t] = <<>>
    /\ Hooked \subseteq Tokens
    /\ None \notin Contexts \cup Tokens
    /\ MaxMade \in Nat /\ MaxDepth \in Nat /\ MaxChanges \in Nat

VARIABLES
    singletons,       \* the map from tokens to instances, in insertion order
    factories,        \* the map from tokens to factories
    resolutionStack,  \* names
    frames,           \* the calls of resolve() that are running, innermost last
    thrown,           \* the error that is unwinding them
    caller,           \* the context they run in
    diScope,          \* each context's map from tokens to instances
    own,              \* contexts runInScope makes for a caller that had none
    scopes,           \* each context's runInScope calls, innermost last
    snap,             \* what compile() of a testing module saved
    made,             \* history: every instance, by its number
    dropped,          \* history: instances whose registration was taken away
    changes,          \* history: how often a registration was changed
    rejected          \* history: contexts where an onDestroy was rejected

registered == <<singletons, factories, snap, dropped, changes>>
running == <<resolutionStack, frames, thrown, caller>>
scoping == <<diScope, own, scopes, rejected>>
vars == <<registered, running, scoping, made>>

-----------------------------------------------------------------------------
(* JavaScript maps from tokens to instances. *)

Has(map, t) == \E i \in DOMAIN map : map[i].token = t

\* Mutant: what is new comes first.
PutFirst(map, t, x) ==
    IF Has(map, t)
      THEN [i \in DOMAIN map |-> IF map[i].token = t THEN [token |-> t, inst |-> x] ELSE map[i]]
      ELSE <<[token |-> t, inst |-> x]>> \o map

Put(map, t, x) ==
    IF Has(map, t)
      THEN [i \in DOMAIN map |-> IF map[i].token = t THEN [token |-> t, inst |-> x] ELSE map[i]]
      ELSE Append(map, [token |-> t, inst |-> x])

Place(map, t) == CHOOSE i \in DOMAIN map : map[i].token = t

Get(map, t) == map[Place(map, t)].inst

Without(map, t) ==
    IF Has(map, t)
      THEN [i \in 1..(Len(map) - 1) |-> IF i < Place(map, t) THEN map[i] ELSE map[i + 1]]
      ELSE map

Entries(map) == {map[i] : i \in DOMAIN map}

Front(s) == SubSeq(s, 1, Len(s) - 1)
Last(s) == s[Len(s)]

Init ==
    /\ singletons = <<>> /\ factories = Startup /\ snap = None /\ dropped = {} /\ changes = 0
    /\ resolutionStack = <<>> /\ frames = <<>> /\ thrown = None /\ caller = None
    /\ diScope = [c \in Contexts |-> <<>>] /\ scopes = [c \in Contexts |-> <<>>]
    /\ own \in SUBSET Contexts /\ rejected = {}
    /\ made = <<>>

-----------------------------------------------------------------------------
(* resolve(), one step for each call and return. *)

\* A call of resolve(t) that runs t's constructor or factory; the outermost
\* frame is whoever called resolve() first.
Frame(t, via, inject, body) ==
    [token |-> t, via |-> via, inject |-> inject, body |-> body, got |-> {}]

Top == Last(frames)

\* Mutant: proxies are resolved at once.
ProxiedNever(f) == FALSE

\* Classes that are request-scoped are not resolved for the constructor: it gets a proxy.
Proxied(f) == f.inject # <<>> /\ Scope[Head(f.inject)] = "request"

Asks(f) == f.inject # <<>> \/ f.body # <<>>

Wanted(f) == IF f.inject # <<>> THEN Head(f.inject) ELSE Head(f.body)

\* The frame, once it has what it asked for.  What a constructor touches it
\* does not keep: a proxy holds no instance.
Answered(f, x) ==
    IF f.inject # <<>>
      THEN [f EXCEPT !.inject = Tail(@), !.got = @ \cup {x}]
      ELSE [f EXCEPT !.body = Tail(@), !.got = IF f.via = "factory" THEN @ \cup {x} ELSE @]

Resolving == frames # <<>> /\ thrown = None

Circular(t) == \E i \in DOMAIN resolutionStack : resolutionStack[i] = Name[t]

\* Instances resolve(t) returns without running anything.
Existing(t) ==
    IF Has(singletons, t) THEN {Get(singletons, t)}
    ELSE IF Scope[t] = "request" /\ caller # None /\ Has(diScope[caller], t)
           THEN {Get(diScope[caller], t)}
           ELSE {}

OutOfScope(t) == Scope[t] = "request" /\ ~Has(singletons, t) /\ caller = None

GiveProxy ==
    /\ Resolving /\ Proxied(Top)
    /\ frames' = Append(Front(frames), [Top EXCEPT !.inject = Tail(@)])
    /\ UNCHANGED <<resolutionStack, thrown, caller, registered, scoping, made>>

Asked(t) == Resolving /\ Asks(Top) /\ ~Proxied(Top) /\ t = Wanted(Top)

Refuse(t) ==
    /\ Asked(t)
    /\ \/ Circular(t) /\ thrown' = [error |-> "circular", token |-> t]
       \/ ~Circular(t) /\ OutOfScope(t) /\ thrown' = [error |-> "resolution", token |-> t]
    /\ UNCHANGED <<frames, resolutionStack, caller, registered, scoping, made>>

Find(t) ==
    /\ Asked(t) /\ ~Circular(t)
    /\ \E x \in Existing(t) : frames' = Append(Front(frames), Answered(Top, x))
    /\ UNCHANGED <<resolutionStack, thrown, caller, registered, scoping, made>>

Begin(t) ==
    /\ Asked(t) /\ ~Circular(t) /\ ~OutOfScope(t) /\ Existing(t) = {}
    /\ frames' = Append(frames,
            IF t \in DOMAIN factories /\ Scope[t] # "request"
              THEN Frame(t, "factory", <<>>, factories[t].uses)
              ELSE Frame(t, "constructor", Inject[t], Touches[t]))
    /\ resolutionStack' = Append(resolutionStack, Name[t])
    /\ UNCHANGED <<thrown, caller, registered, scoping, made>>

Inner == frames # <<>> /\ Top.via # "caller"

Built(f) ==
    [token |-> f.token, given |-> FALSE, ctx |-> caller, destroyed |-> 0,
     holds |-> f.got \cup UNION {made[x].holds : x \in f.got}]

\* Mutant: only singletons that have a constructor of their own are kept.
KeepsBuilt(f) == Scope[f.token] = "singleton" /\ f.via = "constructor"

Keeps(f) == Scope[f.token] = "singleton"

\* The constructor or the factory returns and so does resolve().
Return(x) ==
    /\ frames' = Append(Front(Front(frames)), Answered(Last(Front(frames)), x))
    /\ resolutionStack' = Front(resolutionStack)
    /\ singletons' = IF Keeps(Top) THEN Put(singletons, Top.token, x) ELSE singletons
    /\ diScope' = IF Scope[Top.token] = "request"
                    THEN [diScope EXCEPT ![caller] = Put(@, Top.token, x)] ELSE diScope
    /\ UNCHANGED <<thrown, caller, factories, snap, dropped, changes, own, scopes, rejected>>

Passes(f) == f.via = "factory" /\ factories[f.token].same /\ f.got # {}

Complete ==
    /\ Resolving /\ Inner /\ ~Asks(Top)
    /\ \/ ~Passes(Top) /\ (Top.via = "factory" \/ Top.token \notin Bare)
          /\ Len(made) < MaxMade /\ made' = Append(made, Built(Top)) /\ Return(Len(made) + 1)
       \/ Passes(Top) /\ UNCHANGED made /\ \E x \in Top.got : Return(x)

\* The constructor or the factory throws, and so does `new' of what is no class.
Fail ==
    /\ Resolving /\ Inner /\ ~Asks(Top) /\ Top.token \in Failing
    /\ thrown' = [error |-> "other", token |-> Top.token]
    /\ UNCHANGED <<frames, resolutionStack, caller, registered, scoping, made>>

\* Application code catches the error of something it resolved.
Catch ==
    /\ thrown # None /\ Inner /\ Top.inject = <<>> /\ Top.body # <<>>
    /\ frames' = Append(Front(frames), [Top EXCEPT !.body = Tail(@)])
    /\ thrown' = None
    /\ UNCHANGED <<resolutionStack, caller, registered, scoping, made>>

\* What an error becomes on its way out: one from a dependency is wrapped, and
\* so is what a constructor throws unless the container threw it.
Escaping(f) ==
    IF f.inject # <<>> \/ (f.via = "constructor" /\ thrown.error = "other")
      THEN "resolution" ELSE thrown.error

\* Mutant: a factory that fails leaves its name on the stack.
PoppedBuilt == IF Top.via = "factory" THEN resolutionStack ELSE Front(resolutionStack)

Popped == Front(resolutionStack)

Unwind ==
    /\ thrown # None /\ Inner
    /\ frames' = Front(frames)
    /\ resolutionStack' = Popped
    /\ thrown' = [thrown EXCEPT !.error = Escaping(Top)]
    /\ UNCHANGED <<caller, registered, scoping, made>>

\* The outermost call returns or throws.
Over ==
    /\ frames # <<>> /\ ~Inner /\ (thrown # None \/ Top.body = <<>>)
    /\ frames' = <<>> /\ thrown' = None /\ caller' = None
    /\ UNCHANGED <<resolutionStack, registered, scoping, made>>

Resolve ==
    \/ GiveProxy \/ Complete \/ Fail \/ Catch \/ Unwind \/ Over
    \/ \E t \in Tokens : Refuse(t) \/ Find(t) \/ Begin(t)

-----------------------------------------------------------------------------
(* Between resolutions: calls of the application. *)

Scoped(c) == scopes[c] # <<>>
Inmost(c) == Last(scopes[c])

\* The loop of a teardown, between two awaits.
Looping(c) == Scoped(c) /\ Inmost(c).at > 0 /\ ~Inmost(c).hooking

Idle == frames = <<>> /\ \A c \in Contexts : ~Looping(c)

\* A handler, a hook, or a task nobody waits for calls resolve(t) in context
\* c; startup and background code call it outside any.
Call(c, t) ==
    /\ Idle
    /\ c \in own => Scoped(c) \/ diScope[c] # <<>>
    /\ caller' = c
    /\ frames' = <<Frame(None, "caller", <<>>, <<t>>)>>
    /\ UNCHANGED <<resolutionStack, thrown, registered, scoping, made>>

Gone(map) == dropped \cup {e.inst : e \in Entries(singletons) \ Entries(map)}

\* registerInstance, and registerSingleton, which is the same.
Given(t) == [token |-> t, given |-> TRUE, ctx |-> None, destroyed |-> 0, holds |-> {}]

Unregister(t) ==
    /\ singletons' = Without(singletons, t)
    /\ factories' = [u \in DOMAIN factories \ {t} |-> factories[u]]

RegisterInstance(t) ==
    /\ Idle /\ Len(made) < MaxMade
    /\ made' = Append(made, Given(t))
    /\ singletons' = Put(singletons, t, Len(made) + 1)
    /\ dropped' = Gone(singletons')
    /\ UNCHANGED <<factories, snap, running, scoping>>

RegisterFactory(t) ==
    /\ Idle
    /\ \E b \in Bodies[t] :
          factories' = [u \in DOMAIN factories \cup {t} |-> IF u = t THEN b ELSE factories[u]]
    /\ UNCHANGED <<singletons, snap, dropped, running, scoping, made>>

Remove(t) ==
    /\ Idle /\ (t \in DOMAIN factories \/ Has(singletons, t))
    /\ Unregister(t)
    /\ dropped' = Gone(singletons')
    /\ UNCHANGED <<snap, running, scoping, made>>

Clear ==
    /\ Idle
    /\ singletons' = <<>> /\ factories' = <<>> /\ resolutionStack' = <<>>
    /\ dropped' = Gone(<<>>)
    /\ UNCHANGED <<snap, frames, thrown, caller, scoping, made>>

\* createTestingModule().overrideProvider(t)...compile(): t is removed, then
\* given a value, or a factory.
Compile(t) ==
    /\ Idle /\ snap = None
    /\ snap' = [singletons |-> singletons, factories |-> factories]
    /\ LET rest == Without(singletons, t) IN
          \/ /\ Len(made) < MaxMade /\ made' = Append(made, Given(t))
             /\ singletons' = Append(rest, [token |-> t, inst |-> Len(made) + 1])
             /\ factories' = [u \in DOMAIN factories \ {t} |-> factories[u]]
          \/ /\ singletons' = rest /\ UNCHANGED made
             /\ \E b \in Bodies[t] :
                   factories' = [u \in DOMAIN factories \cup {t} |-> IF u = t THEN b ELSE factories[u]]
    /\ dropped' = Gone(singletons')
    /\ UNCHANGED <<running, scoping>>

Cleanup ==
    /\ Idle /\ snap # None
    /\ singletons' = snap.singletons /\ factories' = snap.factories /\ snap' = None
    /\ dropped' = Gone(singletons')
    /\ UNCHANGED <<running, scoping, made>>

-----------------------------------------------------------------------------
(* runInScope.  A scope's `at' is 0 while its function runs, then the place *)
(* of the iteration over the map, which may grow meanwhile.                  *)

Present(c) == {diScope[c][i].token : i \in DOMAIN diScope[c]}

Enter(c) ==
    /\ Idle /\ Len(scopes[c]) < MaxDepth
    /\ Scoped(c) => Inmost(c).at = 0
    /\ c \in own => Scoped(c) \/ diScope[c] = <<>>
    /\ scopes' = [scopes EXCEPT ![c] = Append(@,
           [prev |-> Present(c), at |-> 0, hooking |-> FALSE, born |-> Len(made)])]
    /\ UNCHANGED <<diScope, own, rejected, registered, running, made>>

\* The map of runInScope's own context keeps what was destroyed.
Reuses(c) == c \in own /\ Len(scopes[c]) = 1

Moved(c, scope) == [scopes EXCEPT ![c] = Append(Front(@), scope)]

\* The function has returned or thrown.
Finish(c) ==
    /\ Idle /\ Scoped(c) /\ Inmost(c).at = 0
    /\ scopes' = Moved(c, [Inmost(c) EXCEPT !.at = 1])
    /\ UNCHANGED <<diScope, own, rejected, registered, running, made>>

Here(c) == diScope[c][Inmost(c).at]

\* Mutant: the place moves on although the entry was deleted.
PlaceAfterSkip(c) == Inmost(c).at + 1

PlaceAfter(c) == IF Reuses(c) THEN Inmost(c).at + 1 ELSE Inmost(c).at

\* The entry has been dealt with: go on to the next.
Visited(c) ==
    /\ scopes' = Moved(c, [Inmost(c) EXCEPT !.hooking = FALSE, !.at = PlaceAfter(c)])
    /\ diScope' = IF Reuses(c) THEN diScope ELSE [diScope EXCEPT ![c] = Without(@, Here(c).token)]

AtEnd(c) == Inmost(c).at > Len(diScope[c])

Teardown(c) ==
    /\ frames = <<>> /\ Looping(c) /\ ~AtEnd(c)
    /\ \/ /\ Here(c).token \in Inmost(c).prev
          /\ scopes' = Moved(c, [Inmost(c) EXCEPT !.at = @ + 1])
          /\ UNCHANGED <<diScope, made>>
       \/ /\ Here(c).token \notin Inmost(c).prev \cup Hooked
          /\ Visited(c) /\ UNCHANGED made
       \/ /\ Here(c).token \in Hooked \ Inmost(c).prev
          /\ made' = [made EXCEPT ![Here(c).inst].destroyed = @ + 1]
          /\ scopes' = Moved(c, [Inmost(c) EXCEPT !.hooking = TRUE])
          /\ UNCHANGED diScope
    /\ UNCHANGED <<own, rejected, registered, running>>

Hooking(c) == Idle /\ Scoped(c) /\ Inmost(c).hooking

HookSettles(c) ==
    /\ Hooking(c) /\ Visited(c)
    /\ UNCHANGED <<own, rejected, registered, running, made>>

Leave(c) ==
    /\ frames = <<>> /\ Looping(c) /\ AtEnd(c)
    /\ scopes' = [scopes EXCEPT ![c] = Front(@)]
    /\ UNCHANGED <<diScope, own, rejected, registered, running, made>>

\* The rest of the map stays as it is.
HookRejects(c) ==
    /\ Hooking(c)
    /\ scopes' = [scopes EXCEPT ![c] = Front(@)]
    /\ rejected' = rejected \cup {c}
    /\ UNCHANGED <<diScope, own, registered, running, made>>

RunInScope(c) ==
    Enter(c) \/ Finish(c) \/ Teardown(c) \/ HookSettles(c) \/ Leave(c) \/ HookRejects(c)

Register ==
    \/ Cleanup /\ UNCHANGED changes
    \/ /\ changes < MaxChanges /\ changes' = changes + 1
       /\ \/ Clear
          \/ \E t \in Changed : RegisterInstance(t) \/ RegisterFactory(t) \/ Remove(t) \/ Compile(t)

Next ==
    \/ Resolve \/ Register
    \/ \E c \in Contexts \cup {None} : \E t \in Roots : Call(c, t)
    \/ \E c \in Contexts : RunInScope(c)

Spec == Init /\ [][Next]_vars

-----------------------------------------------------------------------------
(* Properties. *)

Number == DOMAIN made
Entry == [token : Tokens, inst : Number]
ErrorOf == [error : {"circular", "resolution", "other"}, token : Tokens]

IsMap(map) == map \in Seq(Entry) /\ \A i, j \in DOMAIN map : map[i].token = map[j].token => i = j

\* Types; a map has one entry for a token, and the instances a frame has got exist.
TypeOK ==
    /\ IsMap(singletons) /\ \A c \in Contexts : IsMap(diScope[c])
    /\ DOMAIN factories \subseteq Tokens
    /\ \A t \in DOMAIN factories : factories[t] \in Bodies[t]
    /\ thrown \in ErrorOf \cup {None} /\ caller \in Contexts \cup {None}
    /\ \A i \in DOMAIN frames :
          /\ frames[i].token \in IF i = 1 THEN {None} ELSE Tokens
          /\ frames[i].got \subseteq Number
    /\ DOMAIN scopes = Contexts /\ own \subseteq Contexts
    /\ \A c \in Contexts : \A i \in DOMAIN scopes[c] : scopes[c][i].prev \subseteq Tokens
    /\ \A x \in Number : made[x].holds \subseteq 1..(x - 1)

\* No class is being resolved twice at once, so that resolve() ends
\* (resolutionStack, container.ts:100).
NoTokenTwice ==
    \A i, j \in DOMAIN frames : frames[i].token = frames[j].token => i = j

\* A resolution is refused as circular only when the class it asks for is being
\* resolved, whatever failed or was caught before: the names of calls that are
\* over are off the stack (container.ts:123, 141, 168).  Class names are distinct.
CircularMeansCycle ==
    [][(thrown = None /\ thrown' # None /\ thrown'.error = "circular")
         => \E i \in DOMAIN frames : frames[i].token = thrown'.token]_vars

Single(x) == Scope[made[x].token] = "singleton" /\ ~made[x].given

\* A @Singleton class has one instance, whoever resolved it, through a factory or
\* not, and whatever failed meanwhile, as long as its registration is not taken away.
OneSingleton ==
    \A x, y \in Number \ dropped :
        Single(x) /\ Single(y) /\ made[x].token = made[y].token => x = y

\* A singleton comes after the singletons it holds in the order of the map, which
\* shutdown() follows backwards: it is destroyed before what it depends on
\* (container.ts:431), also when other instances stand between the two.
DependenciesFirst ==
    \A i, j \in DOMAIN singletons :
        singletons[j].inst \in made[singletons[i].inst].holds => j < i

\* No singleton holds an instance of a request, directly or through what it holds:
\* it is given a proxy (container.ts:194).  Factories resolve no request-scoped class.
NoCaptive ==
    \A x \in Number : Single(x) =>
        \A y \in made[x].holds : Scope[made[y].token] # "request"

Visits(c) == Scoped(c) /\ Looping(c) /\ made' # made

\* A scope destroys only what was created while it ran (prevKeys, container.ts:400).
OwnInstancesOnly ==
    [][\A c \in Contexts : \A x \in Number :
         made'[x].destroyed # made[x].destroyed /\ Visits(c) => x > Inmost(c).born]_vars

\* When a scope ends, every instance that was created in it and has an onDestroy
\* has been destroyed, those created while others were being destroyed included.
ScopeLeavesNothing ==
    [][\A c \in Contexts \ rejected' : Len(scopes'[c]) < Len(scopes[c]) =>
         \A x \in Number :
            (/\ x > Inmost(c).born /\ made[x].ctx = c /\ ~made[x].given
             /\ Scope[made[x].token] = "request" /\ made[x].token \in Hooked)
            => made[x].destroyed > 0]_vars

\* onDestroy is called once, unless one of its context was rejected.
DestroyedOnce ==
    \A x \in Number : made[x].destroyed > 1 => made[x].ctx \in rejected

\* container.ts:407 says "a late resolve must not reuse a destroyed instance": not
\* so while its onDestroy is awaited, nor in a context of runInScope's own.
NoReuse ==
    [][\A t \in Tokens : Find(t) => \A x \in Existing(t) : made[x].destroyed = 0]_vars

\* core/testing.ts:21 says of useFactory "Replace the provider with a factory
\* function": not so of a request-scoped one, whose constructor is run all the same.
FactoryReplaces ==
    \A i \in DOMAIN frames : frames[i].via = "constructor" => frames[i].token \notin DOMAIN factories

\* core/testing.ts:89 says "clear any cached singleton so the override wins": what
\* resolves after compile() holds no instance of an overridden class from before.
Overridden == {t \in Tokens : snap # None /\ Has(snap.singletons, t) /\
    (Has(singletons, t) => Get(singletons, t) # Get(snap.singletons, t))}

OverrideWins ==
    [][\A t \in Tokens : Find(t) =>
         \A x \in Existing(t) : \A u \in Overridden :
            Get(snap.singletons, u) \notin made[x].holds]_vars
=============================================================================
