------------------------------- MODULE Wiring -------------------------------
(***************************************************************************)
(* describe() of the container (core/container.ts): what it tells of the   *)
(* wiring of some classes and of everything that is registered, from the   *)
(* metadata and the two maps, without resolving anything.  The order of    *)
(* the rows, and their printing, are left out.                             *)
(***************************************************************************)
EXTENDS Container

CONSTANT Plain  \* classes without @Injectable, which have no tokens

ASSUME PlainAssumption == Plain \subseteq Tokens /\ \A t \in Plain : Inject[t] = <<>>

InjectTokens(t) == {Inject[t][i] : i \in DOMAIN Inject[t]}

RegisteredTokens == {e.token : e \in Entries(singletons)} \cup DOMAIN factories

SelfProviding(t) == t \notin Bare \cup Plain

\* One row; a dependency is missing that is neither known nor provides itself.
Row(t, known) ==
    [token        |-> t,
     scope        |-> Scope[t],
     dependencies |-> Inject[t],
     missing      |-> {d \in InjectTokens(t) : d \notin known /\ ~SelfProviding(d)},
     registered   |-> IF t \in DOMAIN factories THEN "factory"
                      ELSE IF Has(singletons, t) THEN "instance" ELSE "class",
     resolved     |-> Has(singletons, t)]

\* Mutant: a row for what is known, and no more.
DescribedKnown(known) == known

\* What is known, and what provides itself among the dependencies, and theirs.
Described(known) ==
    LET reach[found \in SUBSET Tokens] ==
            LET more == found \cup {d \in UNION {InjectTokens(t) : t \in found} : SelfProviding(d)}
            IN  IF more = found THEN found ELSE reach[more]
    IN  reach[known]

Describe(targets) ==
    LET known == targets \cup RegisteredTokens IN {Row(t, known) : t \in Described(known)}

-----------------------------------------------------------------------------
\* The classes that are resolved other than as a dependency.
Uses(s) == {s[i] : i \in DOMAIN s}
Entrances ==
    (Roots \cup (UNION {Uses(Touches[t]) : t \in Tokens})
           \cup (UNION {UNION {Uses(b.uses) : b \in Bodies[t]} : t \in Tokens})) \ Bare

\* When a class cannot be made for want of a dependency that is no class and
\* that nobody registered, or that was removed since, describe() of the classes
\* the application enters by said that it is missing, in the row of the class
\* that asks for it, however deep that is.
LackIsTold ==
    [][(/\ thrown = None /\ thrown' # None
        /\ Top.token \in Bare /\ Top.via = "constructor" /\ frames[Len(frames) - 1].inject # <<>>)
        => \E row \in Describe(Entrances) :
              row.token = frames[Len(frames) - 1].token /\ Top.token \in row.missing]_vars

=============================================================================
