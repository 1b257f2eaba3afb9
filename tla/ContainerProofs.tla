--------------------------- MODULE ContainerProofs ---------------------------
(***************************************************************************)
(* Proofs about Container and Wiring: the types, the safety invariants of  *)
(* resolve(), what runInScope destroys, and what describe() tells.         *)
(***************************************************************************)
EXTENDS Wiring, FiniteSetTheorems, SequenceTheorems, TLAPS

-----------------------------------------------------------------------------
(* Maps. *)

EntryOf(n) == [token : Tokens, inst : 1..n]

MapOf(map, n) ==
    /\ map \in Seq(EntryOf(n))
    /\ \A i, j \in DOMAIN map : map[i].token = map[j].token => i = j

\* A map stays one when instances are added elsewhere.
LEMMA MapGrows ==
    ASSUME NEW map, NEW m \in Nat, NEW n \in Nat, m <= n, MapOf(map, m)
    PROVE  MapOf(map, n)
<1>1. EntryOf(m) \subseteq EntryOf(n)
  BY DEF EntryOf
<1>2. map \in Seq(EntryOf(n))
  BY <1>1, SeqMonotonic DEF MapOf
<1> QED BY <1>2 DEF MapOf

\* Putting under a token that is absent appends.
LEMMA PutAbsent ==
    ASSUME NEW map, NEW n \in Nat, MapOf(map, n), NEW t \in Tokens, NEW x \in 1..n, ~Has(map, t)
    PROVE  /\ Put(map, t, x) = Append(map, [token |-> t, inst |-> x])
           /\ MapOf(Put(map, t, x), n)
<1>1. Put(map, t, x) = Append(map, [token |-> t, inst |-> x])
  BY DEF Put
<1>2. Append(map, [token |-> t, inst |-> x]) \in Seq(EntryOf(n))
  <2>1. [token |-> t, inst |-> x] \in EntryOf(n)
    BY DEF EntryOf
  <2> QED BY <2>1 DEF MapOf
<1>3. \A i, j \in DOMAIN Append(map, [token |-> t, inst |-> x]) :
         Append(map, [token |-> t, inst |-> x])[i].token
           = Append(map, [token |-> t, inst |-> x])[j].token => i = j
  BY DEF MapOf, Has
<1> QED BY <1>1, <1>2, <1>3 DEF MapOf

\* Putting under a token that is present keeps the places.
LEMMA PutPresent ==
    ASSUME NEW map, NEW n \in Nat, MapOf(map, n), NEW t \in Tokens, NEW x \in 1..n, Has(map, t)
    PROVE  /\ MapOf(Put(map, t, x), n)
           /\ DOMAIN Put(map, t, x) = DOMAIN map
           /\ \A i \in DOMAIN map :
                 Put(map, t, x)[i] = IF map[i].token = t THEN [token |-> t, inst |-> x] ELSE map[i]
<1> DEFINE p == Put(map, t, x)
<1>1. p = [i \in DOMAIN map |-> IF map[i].token = t THEN [token |-> t, inst |-> x] ELSE map[i]]
  BY DEF Put
<1>2. p \in Seq(EntryOf(n))
  <2>1. [token |-> t, inst |-> x] \in EntryOf(n)
    BY DEF EntryOf
  <2>2. map \in [1..Len(map) -> EntryOf(n)] /\ Len(map) \in Nat /\ DOMAIN map = 1..Len(map)
    BY LenProperties DEF MapOf
  <2>3. p \in [1..Len(map) -> EntryOf(n)]
    BY <1>1, <2>1, <2>2
  <2> QED BY <2>2, <2>3, SeqDef
<1>3. \A i \in DOMAIN map : p[i].token = map[i].token
  BY <1>1
<1>4. \A i, j \in DOMAIN p : p[i].token = p[j].token => i = j
  BY <1>1, <1>3 DEF MapOf
<1> QED BY <1>1, <1>2, <1>4 DEF MapOf

LEMMA PutMap ==
    ASSUME NEW map, NEW n \in Nat, MapOf(map, n), NEW t \in Tokens, NEW x \in 1..n
    PROVE  MapOf(Put(map, t, x), n)
BY PutAbsent, PutPresent

LEMMA PlaceIn ==
    ASSUME NEW map, NEW t, Has(map, t)
    PROVE  Place(map, t) \in DOMAIN map /\ map[Place(map, t)].token = t
BY DEF Place, Has

\* Without keeps the other entries, in their order.
LEMMA WithoutMap ==
    ASSUME NEW map, NEW n \in Nat, MapOf(map, n), NEW t
    PROVE  /\ MapOf(Without(map, t), n)
           /\ ~Has(Without(map, t), t)
           /\ \A i \in DOMAIN map : map[i].token # t =>
                 \E j \in DOMAIN Without(map, t) : Without(map, t)[j] = map[i]
           /\ \A i, j \in DOMAIN Without(map, t) : \E k, l \in DOMAIN map :
                 /\ Without(map, t)[i] = map[k] /\ Without(map, t)[j] = map[l]
                 /\ k < l <=> i < j
<1>1. CASE ~Has(map, t)
  BY <1>1 DEF Without, Has
<1>2. CASE Has(map, t)
  <2> DEFINE p == Place(map, t)
             w == Without(map, t)
             Old(i) == IF i < p THEN i ELSE i + 1
  <2>1. p \in 1..Len(map) /\ map[p].token = t /\ Len(map) \in Nat /\ DOMAIN map = 1..Len(map)
    BY <1>2, PlaceIn DEF MapOf
  <2>2. w = [i \in 1..(Len(map) - 1) |-> IF i < p THEN map[i] ELSE map[i + 1]]
    BY <1>2 DEF Without
  <2> HIDE DEF p, w
  <2>3. DOMAIN w = 1..(Len(map) - 1) /\ \A i \in DOMAIN w : Old(i) \in DOMAIN map /\ w[i] = map[Old(i)] /\ Old(i) # p
    BY <2>1, <2>2
  <2>4. w \in Seq(EntryOf(n))
    <3>1. \A i \in 1..Len(map) : map[i] \in EntryOf(n)
      BY LenProperties DEF MapOf
    <3>2. \A i \in 1..(Len(map) - 1) : w[i] \in EntryOf(n)
      BY <2>3, <3>1, <2>1
    <3>3. w \in [1..(Len(map) - 1) -> EntryOf(n)]
      BY <2>2, <3>2
    <3> QED BY <2>1, <3>3, SeqDef
  <2>5. \A i, j \in DOMAIN w : (Old(i) < Old(j) <=> i < j) /\ (Old(i) = Old(j) => i = j)
    BY <2>1, <2>3
  <2>6. \A i, j \in DOMAIN w : w[i].token = w[j].token => i = j
    BY <2>3, <2>5 DEF MapOf
  <2>7. \A i \in DOMAIN w : w[i].token # t
    BY <2>1, <2>3 DEF MapOf
  <2>8. \A i \in DOMAIN map : map[i].token # t => \E j \in DOMAIN w : w[j] = map[i]
    <3> SUFFICES ASSUME NEW i \in DOMAIN map, map[i].token # t PROVE \E j \in DOMAIN w : w[j] = map[i]
      OBVIOUS
    <3>1. i # p
      BY <2>1
    <3>2. CASE i < p
      BY <3>2, <2>1, <2>3
    <3>3. CASE i > p
      <4>1. i - 1 \in DOMAIN w /\ Old(i - 1) = i
        BY <3>3, <2>1, <2>3
      <4> QED BY <4>1, <2>3
    <3> QED BY <3>1, <3>2, <3>3, <2>1
  <2> HIDE DEF Old
  <2>9. \A i, j \in DOMAIN w : \E k, l \in DOMAIN map : w[i] = map[k] /\ w[j] = map[l] /\ (k < l <=> i < j)
    BY <2>3, <2>5
  <2> QED BY <2>4, <2>6, <2>7, <2>8, <2>9 DEF w, MapOf, Has
<1> QED BY <1>1, <1>2

\* The map with one more entry at its end.
Appended(map, e, new) ==
    /\ Len(map) \in Nat /\ DOMAIN map = 1..Len(map) /\ DOMAIN new = 1..(Len(map) + 1)
    /\ \A i \in 1..Len(map) : new[i] = map[i]
    /\ new[Len(map) + 1] = e

LEMMA AppendedIn ==
    ASSUME NEW map, NEW e, NEW new, Appended(map, e, new), NEW i \in DOMAIN new
    PROVE  new[i] = e \/ (i \in DOMAIN map /\ new[i] = map[i])
<1>1. Len(map) \in Nat /\ i \in 1..(Len(map) + 1)
  BY DEF Appended
<1>2. i = Len(map) + 1 \/ i \in 1..Len(map)
  BY <1>1
<1> QED BY <1>2 DEF Appended

LEMMA AppendedMap ==
    ASSUME NEW map, NEW n \in Nat, MapOf(map, n), NEW t, NEW x
    PROVE  Appended(map, [token |-> t, inst |-> x], Append(map, [token |-> t, inst |-> x]))
<1> DEFINE e == [token |-> t, inst |-> x]
<1>1. \A i \in DOMAIN map : map[i] \in EntryOf(n)
  BY ElementOfSeq, LenProperties DEF MapOf
<1>2. map \in Seq(EntryOf(n) \cup {e})
  BY SeqMonotonic DEF MapOf
<1>3. e \in EntryOf(n) \cup {e}
  OBVIOUS
<1> HIDE DEF e
<1>4. Append(map, e) \in Seq(EntryOf(n) \cup {e})
  BY <1>2, <1>3, AppendProperties
<1>5. Len(map) \in Nat /\ DOMAIN map = 1..Len(map) /\ Len(Append(map, e)) = Len(map) + 1
  BY <1>2, <1>3, LenProperties, AppendProperties
<1>6. DOMAIN Append(map, e) = 1..(Len(map) + 1)
  BY <1>4, <1>5, LenProperties
<1>7. (\A i \in 1..Len(map) : Append(map, e)[i] = map[i]) /\ Append(map, e)[Len(map) + 1] = e
  BY <1>2, <1>3, AppendProperties
<1> QED BY <1>5, <1>6, <1>7 DEF Appended, e

LEMMA GetIn ==
    ASSUME NEW map, NEW n \in Nat, MapOf(map, n), NEW t, Has(map, t)
    PROVE  /\ Get(map, t) \in 1..n
           /\ \E i \in DOMAIN map : map[i] = [token |-> t, inst |-> Get(map, t)]
<1>1. Place(map, t) \in DOMAIN map /\ map[Place(map, t)].token = t
  BY PlaceIn
<1>2. map[Place(map, t)] \in EntryOf(n)
  BY <1>1, LenProperties DEF MapOf
<1>3. map[Place(map, t)] = [token |-> t, inst |-> map[Place(map, t)].inst]
  BY <1>1, <1>2 DEF EntryOf
<1> QED BY <1>1, <1>2, <1>3 DEF Get, EntryOf

-----------------------------------------------------------------------------
(* Stacks. *)

LEMMA FrontSeq ==
    ASSUME NEW S, NEW s \in Seq(S), s # <<>>
    PROVE  /\ Front(s) \in Seq(S) /\ Len(s) \in Nat \ {0} /\ Len(Front(s)) = Len(s) - 1
           /\ \A i \in 1..(Len(s) - 1) : Front(s)[i] = s[i]
           /\ Last(s) = s[Len(s)] /\ Last(s) \in S
<1>1. Len(s) \in Nat \ {0} /\ DOMAIN s = 1..Len(s) /\ \A i \in 1..Len(s) : s[i] \in S
  BY EmptySeq, LenProperties, ElementOfSeq
<1>2. /\ SubSeq(s, 1, Len(s) - 1) \in Seq(S)
      /\ Len(SubSeq(s, 1, Len(s) - 1)) = Len(s) - 1
      /\ \A i \in 1..(Len(s) - 1) : SubSeq(s, 1, Len(s) - 1)[i] = s[i]
  BY <1>1, SubSeqProperties
<1> QED BY <1>1, <1>2 DEF Front, Last

\* The last element is replaced.
LEMMA ReplaceLast ==
    ASSUME NEW S, NEW s \in Seq(S), s # <<>>, NEW e \in S, NEW r, r = Append(Front(s), e)
    PROVE  /\ r \in Seq(S) /\ r # <<>> /\ Len(r) = Len(s)
           /\ \A i \in 1..(Len(s) - 1) : r[i] = s[i]
           /\ r[Len(s)] = e
<1>1. Front(s) \in Seq(S) /\ Len(s) \in Nat \ {0} /\ Len(Front(s)) = Len(s) - 1
      /\ \A i \in 1..(Len(s) - 1) : Front(s)[i] = s[i]
  BY FrontSeq
<1> HIDE DEF Front
<1> QED BY <1>1, AppendProperties

-----------------------------------------------------------------------------
(* The invariant. *)

FrameOf(n) ==
    [token : Tokens \cup {None}, via : {"caller", "constructor", "factory"},
     inject : Seq(Tokens), body : Seq(Tokens), got : SUBSET (1..n)]

Instance ==
    [token : Tokens, given : BOOLEAN, ctx : Contexts \cup {None}, destroyed : Nat,
     holds : SUBSET Nat]

ScopeOf == [prev : SUBSET Tokens, at : Nat, hooking : BOOLEAN, born : Nat]

FactoriesOf(f) == DOMAIN f \subseteq Tokens /\ \A t \in DOMAIN f : f[t] \in Bodies[t]

MadeInv ==
    /\ made \in Seq(Instance)
    /\ \A x \in 1..Len(made) : made[x].holds \subseteq 1..(x - 1)

RegisteredInv ==
    /\ MapOf(singletons, Len(made)) /\ FactoriesOf(factories)
    /\ snap # None => MapOf(snap.singletons, Len(made)) /\ FactoriesOf(snap.factories)

ScopesInv ==
    /\ diScope = [c \in Contexts |-> diScope[c]] /\ \A c \in Contexts : MapOf(diScope[c], Len(made))
    /\ scopes \in [Contexts -> Seq(ScopeOf)] /\ own \subseteq Contexts

FramesInv ==
    /\ frames \in Seq(FrameOf(Len(made)))
    /\ thrown \in ErrorOf \cup {None} /\ caller \in Contexts \cup {None}

Names == {Name[t] : t \in Tokens}

\* Each call but the caller's runs what the frame below it asked for.
Runs(f, below, name) ==
    /\ f.token \in Tokens /\ f.via # "caller" /\ name = Name[f.token]
    /\ Asks(below) /\ ~Proxied(below) /\ f.token = Wanted(below)
    /\ Scope[f.token] = "request" => f.via = "constructor" /\ caller # None
    /\ f.via = "factory" => f.inject = <<>> /\ f.token \in DOMAIN factories

ChainInv == \A i \in 2..Len(frames) : Runs(frames[i], frames[i - 1], resolutionStack[i - 1])

\* resolutionStack has one name for every frame but the caller's.
NamesInv ==
    /\ resolutionStack \in Seq(Names)
    /\ frames = <<>> => resolutionStack = <<>>
    /\ frames # <<>> =>
          /\ Len(resolutionStack) + 1 = Len(frames)
          /\ frames[1].token = None /\ frames[1].via = "caller"

StackInv == NamesInv /\ ChainInv /\ NoTokenTwice

Inv == MadeInv /\ RegisteredInv /\ ScopesInv /\ FramesInv /\ StackInv

LEMMA Constants ==
    /\ Scope \in [Tokens -> {"singleton", "request", "transient"}]
    /\ Inject \in [Tokens -> Seq(Tokens)] /\ Touches \in [Tokens -> Seq(Tokens)]
    /\ \A t \in Tokens : Bodies[t] \subseteq Factory
    /\ FactoriesOf(Startup)
    /\ Roots \subseteq Tokens /\ Changed \subseteq Tokens
    /\ None \notin Contexts /\ None \notin Tokens
BY ContainerAssumption DEF ContainerAssumption, FactoriesOf

LEMMA FrameGrows ==
    ASSUME NEW m \in Nat, NEW n \in Nat, m <= n
    PROVE  FrameOf(m) \subseteq FrameOf(n)
BY DEF FrameOf

\* What a frame becomes when it is answered.
LEMMA AnsweredType ==
    ASSUME NEW n \in Nat, NEW f \in FrameOf(n), Asks(f), NEW x \in 1..n
    PROVE  /\ Answered(f, x) \in FrameOf(n)
           /\ Answered(f, x).token = f.token /\ Answered(f, x).via = f.via
           /\ f.inject = <<>> => Answered(f, x).inject = <<>>
           /\ Answered(f, x).got \subseteq f.got \cup {x}
<1>1. CASE f.inject # <<>>
  <2>1. Tail(f.inject) \in Seq(Tokens)
    BY <1>1, HeadTailProperties DEF FrameOf
  <2> QED BY <1>1, <2>1 DEF Answered, FrameOf
<1>2. CASE f.inject = <<>>
  <2>1. Tail(f.body) \in Seq(Tokens)
    BY <1>2, HeadTailProperties DEF FrameOf, Asks
  <2> QED BY <1>2, <2>1 DEF Answered, FrameOf
<1> QED BY <1>1, <1>2

LEMMA WantedType ==
    ASSUME NEW n \in Nat, NEW f \in FrameOf(n), Asks(f)
    PROVE  Wanted(f) \in Tokens
BY HeadTailProperties DEF FrameOf, Asks, Wanted

LEMMA TypeInit == Init => Inv
<1> SUFFICES ASSUME Init PROVE Inv
  OBVIOUS
<1>1. \A S : <<>> \in Seq(S) /\ Len(<<>>) = 0
  BY EmptySeq
<1>2. \A n : MapOf(<<>>, n)
  BY <1>1 DEF MapOf
<1>3. MadeInv
  BY <1>1 DEF Init, MadeInv
<1>4. RegisteredInv
  BY <1>2, Constants DEF Init, RegisteredInv
<1>5. ScopesInv
  BY <1>1, <1>2 DEF Init, ScopesInv
<1>6. FramesInv
  BY <1>1 DEF Init, FramesInv
<1>7. StackInv
  BY <1>1 DEF Init, StackInv, NamesInv, ChainInv, NoTokenTwice
<1> QED BY <1>3, <1>4, <1>5, <1>6, <1>7 DEF Inv

-----------------------------------------------------------------------------
(* The steps of resolve() but its returns. *)

LEMMA Kept ==
    ASSUME Inv, UNCHANGED <<registered, scoping, made>>
    PROVE  MadeInv' /\ RegisteredInv' /\ ScopesInv'
<1>1. MadeInv /\ RegisteredInv /\ ScopesInv
  BY DEF Inv
<1>2. MadeInv'
  BY <1>1 DEF MadeInv
<1>3. RegisteredInv'
  BY <1>1 DEF RegisteredInv, registered
<1>4. ScopesInv'
  BY <1>1 DEF ScopesInv, scoping
<1> QED BY <1>2, <1>3, <1>4

LEMMA FrameTypes ==
    ASSUME Inv
    PROVE  /\ Len(made) \in Nat /\ Len(frames) \in Nat
           /\ DOMAIN frames = 1..Len(frames)
           /\ \A i \in 1..Len(frames) : frames[i] \in FrameOf(Len(made))
           /\ frames # <<>> =>
                /\ Len(frames) \in Nat \ {0} /\ Top = frames[Len(frames)]
                /\ Top \in FrameOf(Len(made))
<1>1. frames \in Seq(FrameOf(Len(made))) /\ made \in Seq(Instance)
  BY DEF Inv, FramesInv, MadeInv
<1>2. Len(made) \in Nat /\ Len(frames) \in Nat /\ DOMAIN frames = 1..Len(frames)
      /\ \A i \in 1..Len(frames) : frames[i] \in FrameOf(Len(made))
  BY <1>1, LenProperties, ElementOfSeq
<1>3. frames # <<>> => Len(frames) \in Nat \ {0} /\ Top = frames[Len(frames)] /\ Top \in FrameOf(Len(made))
  BY <1>1, FrontSeq DEF Top
<1> QED BY <1>2, <1>3

\* The first m calls are those that were running.
SameCalls(m) == Len(frames') = m /\ \A i \in 1..m : frames'[i].token = frames[i].token

\* The first m calls, the last of which has moved on to e.
LastMoves(m, e) == Len(frames') = m /\ frames'[m] = e /\ \A i \in 1..(m - 1) : frames'[i] = frames[i]

\* The innermost frame moves on.
LEMMA TopMoves ==
    ASSUME Inv, frames # <<>>, NEW e \in FrameOf(Len(made)),
           e.token = Top.token, e.via = Top.via, Top.inject = <<>> => e.inject = <<>>,
           frames' = Append(Front(frames), e),
           UNCHANGED <<resolutionStack, caller, factories, made>>
    PROVE  /\ frames' \in Seq(FrameOf(Len(made'))) /\ StackInv'
           /\ SameCalls(Len(frames)) /\ LastMoves(Len(frames), e)
<1> DEFINE n == Len(frames)
<1>1. frames \in Seq(FrameOf(Len(made))) /\ n \in Nat \ {0} /\ Top = frames[n]
      /\ DOMAIN frames = 1..n
  BY FrameTypes DEF Inv, FramesInv
<1>2. /\ frames' \in Seq(FrameOf(Len(made))) /\ frames' # <<>> /\ Len(frames') = n
      /\ \A i \in 1..(n - 1) : frames'[i] = frames[i]
      /\ frames'[n] = e
  <2>1. frames' \in Seq(FrameOf(Len(made)))
    BY <1>1, ReplaceLast
  <2>5. Front(frames) \in Seq(FrameOf(Len(made))) /\ Len(Front(frames)) = n - 1
    BY <1>1, FrontSeq
  <2>6. Len(frames') = Len(Front(frames)) + 1 /\ frames'[Len(Front(frames)) + 1] = e
    BY <2>5, AppendProperties
  <2>2. frames' # <<>> /\ Len(frames') = n
    BY <1>1, <2>5, <2>6, EmptySeq
  <2>3. \A i \in 1..(n - 1) : frames'[i] = frames[i]
    BY <1>1, ReplaceLast
  <2>4. frames'[n] = e
    BY <1>1, <2>5, <2>6
  <2> QED BY <2>1, <2>2, <2>3, <2>4
<1>3. DOMAIN frames' = 1..n
  BY <1>2, LenProperties
<1>4. \A i \in 1..n : /\ frames'[i].token = frames[i].token /\ frames'[i].via = frames[i].via
                      /\ frames[i].inject = <<>> => frames'[i].inject = <<>>
  BY <1>1, <1>2
<1>5. StackInv
  BY DEF Inv
<1>6. \A i \in 2..n : i - 1 \in 1..(n - 1) /\ i \in 1..n
  BY <1>1
<1>7. NoTokenTwice'
  BY <1>1, <1>3, <1>4, <1>5 DEF StackInv, NoTokenTwice
<1>8. ChainInv'
  <2> SUFFICES ASSUME NEW i \in 2..n
               PROVE  Runs(frames[i], frames[i - 1], resolutionStack[i - 1])'
    BY <1>2 DEF ChainInv
  <2>1. Runs(frames[i], frames[i - 1], resolutionStack[i - 1])
    BY <1>5 DEF StackInv, ChainInv
  <2>2. frames'[i - 1] = frames[i - 1]
    BY <1>2, <1>6
  <2>3. frames'[i].token = frames[i].token /\ frames'[i].via = frames[i].via
        /\ (frames[i].inject = <<>> => frames'[i].inject = <<>>)
    BY <1>4, <1>6
  <2> QED BY <2>1, <2>2, <2>3 DEF Runs
<1>9. NamesInv'
  <2>1. frames'[1].token = frames[1].token /\ frames'[1].via = frames[1].via
    BY <1>1, <1>4
  <2> QED BY <1>2, <1>5, <2>1 DEF StackInv, NamesInv
<1>10. SameCalls(n) /\ LastMoves(n, e)
  BY <1>2, <1>4 DEF SameCalls, LastMoves
<1> QED BY <1>2, <1>7, <1>8, <1>9, <1>10 DEF StackInv

\* The innermost frame ends: what is left of the stack is one.
LEMMA TopEnds ==
    ASSUME Inv, Inner, NEW fs, fs = Front(frames)
    PROVE  /\ fs \in Seq(FrameOf(Len(made))) /\ fs # <<>> /\ resolutionStack # <<>>
           /\ Len(frames) \in Nat /\ Len(frames) > 1 /\ Top = frames[Len(frames)]
           /\ Len(fs) = Len(frames) - 1 /\ \A i \in 1..Len(fs) : fs[i] = frames[i]
           /\ Runs(Top, fs[Len(fs)], Last(resolutionStack))
           /\ Last(fs) = fs[Len(fs)]
<1> DEFINE n == Len(frames)
<1>1. StackInv /\ frames \in Seq(FrameOf(Len(made)))
  BY DEF Inv, FramesInv
<1>2. frames # <<>> /\ n \in Nat \ {0} /\ Top = frames[n] /\ DOMAIN frames = 1..n
  BY FrameTypes DEF Inner
<1>3. n > 1
  BY <1>1, <1>2 DEF StackInv, NamesInv, Inner
<1>4. resolutionStack \in Seq(Names) /\ Len(resolutionStack) = n - 1
  BY <1>1, <1>2, LenProperties DEF StackInv, NamesInv
<1>5. resolutionStack # <<>>
  BY <1>3, <1>4, EmptySeq
<1>6. /\ fs \in Seq(FrameOf(Len(made))) /\ Len(fs) = n - 1
      /\ \A i \in 1..(n - 1) : fs[i] = frames[i]
  BY <1>1, <1>2, FrontSeq
<1>7. fs # <<>>
  BY <1>3, <1>6, EmptySeq
<1>8. Last(resolutionStack) = resolutionStack[n - 1]
  BY <1>4, <1>5, FrontSeq
<1>9. Runs(frames[n], frames[n - 1], resolutionStack[n - 1])
  BY <1>1, <1>2, <1>3 DEF StackInv, ChainInv
<1>10. fs[n - 1] = frames[n - 1]
  BY <1>2, <1>3, <1>6
<1>11. Last(fs) = fs[Len(fs)]
  BY DEF Last
<1> QED BY <1>2, <1>3, <1>5, <1>6, <1>7, <1>8, <1>9, <1>10, <1>11

LEMMA TopGone ==
    ASSUME Inv, Inner, frames' = Front(frames), resolutionStack' = Front(resolutionStack),
           UNCHANGED <<caller, factories>>
    PROVE  StackInv' /\ SameCalls(Len(frames) - 1) /\ LastMoves(Len(frames) - 1, frames[Len(frames) - 1])
<1> DEFINE n == Len(frames)
<1>1. StackInv
  BY DEF Inv
<1>2. /\ frames' \in Seq(FrameOf(Len(made))) /\ frames' # <<>> /\ resolutionStack # <<>>
      /\ n \in Nat /\ n > 1 /\ Len(frames') = n - 1
      /\ \A i \in 1..(n - 1) : frames'[i] = frames[i]
  BY TopEnds
<1>3. resolutionStack \in Seq(Names) /\ Len(resolutionStack) = n - 1
  <2>1. frames # <<>> /\ resolutionStack \in Seq(Names) /\ Len(resolutionStack) + 1 = n
    BY <1>1 DEF StackInv, NamesInv, Inner
  <2>2. Len(resolutionStack) \in Nat
    BY <2>1, LenProperties
  <2> QED BY <1>2, <2>1, <2>2
<1>4. /\ resolutionStack' \in Seq(Names) /\ Len(resolutionStack') = n - 2
      /\ \A i \in 1..(n - 2) : resolutionStack'[i] = resolutionStack[i]
  <2> DEFINE m == Len(resolutionStack)
             r == resolutionStack'
  <2>1. resolutionStack \in Seq(Names) /\ resolutionStack # <<>> /\ r = Front(resolutionStack)
    BY <1>2, <1>3
  <2> HIDE DEF r
  <2>2. r \in Seq(Names) /\ Len(r) = m - 1 /\ \A i \in 1..(m - 1) : r[i] = resolutionStack[i]
    BY <2>1, FrontSeq
  <2> QED BY <1>2, <1>3, <2>2 DEF r
<1>5. DOMAIN frames' = 1..(n - 1) /\ DOMAIN frames = 1..n
  BY <1>2, LenProperties, FrameTypes
<1>6. NoTokenTwice'
  BY <1>1, <1>2, <1>5 DEF StackInv, NoTokenTwice
<1>7. ChainInv'
  <2> SUFFICES ASSUME NEW i \in 2..(n - 1)
               PROVE  Runs(frames[i], frames[i - 1], resolutionStack[i - 1])'
    BY <1>2 DEF ChainInv
  <2>1. i \in 2..n /\ i \in 1..(n - 1) /\ i - 1 \in 1..(n - 1) /\ i - 1 \in 1..(n - 2)
    BY <1>2
  <2>2. Runs(frames[i], frames[i - 1], resolutionStack[i - 1])
    BY <1>1, <2>1 DEF StackInv, ChainInv
  <2>3. frames'[i] = frames[i] /\ frames'[i - 1] = frames[i - 1] /\ resolutionStack'[i - 1] = resolutionStack[i - 1]
    BY <1>2, <1>4, <2>1
  <2> QED BY <2>2, <2>3 DEF Runs
<1>8. NamesInv'
  <2>1. frames'[1] = frames[1] /\ frames # <<>>
    BY <1>2 DEF Inner
  <2> QED BY <1>1, <1>2, <1>4, <2>1 DEF StackInv, NamesInv
<1>9. SameCalls(n - 1) /\ LastMoves(n - 1, frames[n - 1])
  BY <1>2 DEF SameCalls, LastMoves
<1> QED BY <1>6, <1>7, <1>8, <1>9 DEF StackInv

\* What a running step leaves alone: enough for the invariant to hold after it.
LEMMA FramesKept ==
    ASSUME Inv, frames' \in Seq(FrameOf(Len(made'))), StackInv',
           thrown' \in ErrorOf \cup {None}, caller' \in Contexts \cup {None},
           UNCHANGED <<registered, scoping, made>>
    PROVE  Inv'
BY Kept DEF Inv, FramesInv

LEMMA StackKept ==
    ASSUME Inv, UNCHANGED <<frames, resolutionStack, caller, factories, made>>
    PROVE  frames' \in Seq(FrameOf(Len(made'))) /\ StackInv'
<1>1. StackInv /\ frames \in Seq(FrameOf(Len(made)))
  BY DEF Inv, FramesInv
<1>2. NamesInv'
  BY <1>1 DEF StackInv, NamesInv
<1>3. ChainInv'
  BY <1>1 DEF StackInv, ChainInv, Runs
<1>4. NoTokenTwice'
  BY <1>1 DEF StackInv, NoTokenTwice
<1> QED BY <1>1, <1>2, <1>3, <1>4 DEF StackInv

LEMMA Running == Inv => thrown \in ErrorOf \cup {None} /\ caller \in Contexts \cup {None}
BY DEF Inv, FramesInv

LEMMA StepGiveProxy == ASSUME Inv, GiveProxy PROVE Inv'
<1> DEFINE e == [Top EXCEPT !.inject = Tail(@)]
<1>1. frames # <<>> /\ Top.inject # <<>> /\ Top \in FrameOf(Len(made))
  BY FrameTypes DEF GiveProxy, Resolving, Proxied
<1>2. Tail(Top.inject) \in Seq(Tokens)
  BY <1>1, HeadTailProperties DEF FrameOf
<1>3. e \in FrameOf(Len(made)) /\ e.token = Top.token /\ e.via = Top.via
  BY <1>1, <1>2 DEF FrameOf
<1>4. frames' = Append(Front(frames), e)
      /\ UNCHANGED <<resolutionStack, thrown, caller, registered, scoping, made>>
  BY DEF GiveProxy
<1> HIDE DEF e
<1>5. frames' \in Seq(FrameOf(Len(made'))) /\ StackInv'
  BY <1>1, <1>3, <1>4, TopMoves DEF registered
<1> QED BY <1>4, <1>5, FramesKept, Running

LEMMA StepRefuse == ASSUME Inv, NEW t \in Tokens, Refuse(t) PROVE Inv'
<1>1. thrown' \in ErrorOf
  BY DEF Refuse, ErrorOf
<1>2. UNCHANGED <<frames, resolutionStack, caller, registered, scoping, made>>
  BY DEF Refuse
<1> QED BY <1>1, <1>2, StackKept, FramesKept, Running DEF registered

\* What resolve() returns at once is an instance.
LEMMA ExistingType == ASSUME Inv, NEW t \in Tokens PROVE Existing(t) \subseteq 1..Len(made)
<1>1. MapOf(singletons, Len(made)) /\ Len(made) \in Nat
  BY FrameTypes DEF Inv, RegisteredInv
<1>2. \A c \in Contexts : MapOf(diScope[c], Len(made))
  BY DEF Inv, ScopesInv
<1>3. CASE Has(singletons, t)
  BY <1>1, <1>3, GetIn DEF Existing
<1>4. CASE ~Has(singletons, t) /\ Scope[t] = "request" /\ caller # None /\ Has(diScope[caller], t)
  <2>1. MapOf(diScope[caller], Len(made))
    BY <1>2, <1>4, Running
  <2>2. Get(diScope[caller], t) \in 1..Len(made)
    BY <1>1, <1>4, <2>1, GetIn
  <2> QED BY <1>4, <2>2 DEF Existing
<1> QED BY <1>3, <1>4 DEF Existing

LEMMA StepFind == ASSUME Inv, NEW t \in Tokens, Find(t) PROVE Inv'
<1>1. PICK x \in Existing(t) : frames' = Append(Front(frames), Answered(Top, x))
  BY DEF Find
<1>2. x \in 1..Len(made)
  BY <1>1, ExistingType
<1>3. frames # <<>> /\ Asks(Top) /\ Top \in FrameOf(Len(made)) /\ Len(made) \in Nat
  BY FrameTypes DEF Find, Asked, Resolving
<1> DEFINE e == Answered(Top, x)
<1>4. e \in FrameOf(Len(made)) /\ e.token = Top.token /\ e.via = Top.via
      /\ (Top.inject = <<>> => e.inject = <<>>)
  BY <1>2, <1>3, AnsweredType
<1>5. frames' = Append(Front(frames), e)
      /\ UNCHANGED <<resolutionStack, thrown, caller, registered, scoping, made>>
  BY <1>1 DEF Find
<1> HIDE DEF e
<1>6. frames' \in Seq(FrameOf(Len(made'))) /\ StackInv'
  BY <1>3, <1>4, <1>5, TopMoves DEF registered
<1> QED BY <1>5, <1>6, FramesKept, Running

LEMMA StepFail == ASSUME Inv, Fail PROVE Inv'
<1>1. frames # <<>> /\ Len(frames) > 1 /\ Top = frames[Len(frames)] /\ Len(frames) \in Nat
  BY TopEnds, FrameTypes DEF Fail, Resolving
<1>2. Top.token \in Tokens
  <2>1. Runs(frames[Len(frames)], frames[Len(frames) - 1], resolutionStack[Len(frames) - 1])
    BY <1>1 DEF Inv, StackInv, ChainInv
  <2> QED BY <1>1, <2>1 DEF Runs
<1>3. thrown' \in ErrorOf
  BY <1>2 DEF Fail, ErrorOf
<1>4. UNCHANGED <<frames, resolutionStack, caller, registered, scoping, made>>
  BY DEF Fail
<1> QED BY <1>3, <1>4, StackKept, FramesKept, Running DEF registered

LEMMA StepCatch == ASSUME Inv, Catch PROVE Inv'
<1> DEFINE e == [Top EXCEPT !.body = Tail(@)]
<1>1. frames # <<>> /\ Top.body # <<>> /\ Top \in FrameOf(Len(made))
  BY FrameTypes DEF Catch, Inner
<1>2. Tail(Top.body) \in Seq(Tokens)
  BY <1>1, HeadTailProperties DEF FrameOf
<1>3. e \in FrameOf(Len(made)) /\ e.token = Top.token /\ e.via = Top.via /\ e.inject = Top.inject
  BY <1>1, <1>2 DEF FrameOf
<1>4. frames' = Append(Front(frames), e) /\ thrown' = None
      /\ UNCHANGED <<resolutionStack, caller, registered, scoping, made>>
  BY DEF Catch
<1> HIDE DEF e
<1>5. frames' \in Seq(FrameOf(Len(made'))) /\ StackInv'
  BY <1>1, <1>3, <1>4, TopMoves DEF registered
<1> QED BY <1>4, <1>5, FramesKept, Running

LEMMA StepUnwind == ASSUME Inv, Unwind PROVE Inv'
<1>1. Inner /\ frames' = Front(frames) /\ resolutionStack' = Front(resolutionStack)
      /\ UNCHANGED <<caller, registered, scoping, made>>
  BY DEF Unwind, Popped
<1>2. frames' \in Seq(FrameOf(Len(made'))) /\ StackInv'
  BY <1>1, TopGone, TopEnds DEF registered
<1>3. thrown' \in ErrorOf
  <2>1. thrown \in ErrorOf
    BY Running DEF Unwind
  <2>2. Escaping(Top) \in {"circular", "resolution", "other"}
    BY <2>1 DEF Escaping, ErrorOf
  <2> QED BY <2>1, <2>2 DEF Unwind, ErrorOf
<1> QED BY <1>1, <1>2, <1>3, FramesKept, Running

LEMMA StepOver == ASSUME Inv, Over PROVE Inv'
<1>1. frames' = <<>> /\ thrown' = None /\ caller' = None
      /\ UNCHANGED <<resolutionStack, registered, scoping, made>>
  BY DEF Over
<1>2. resolutionStack = <<>>
  <2>1. frames # <<>> /\ Top = frames[Len(frames)] /\ Len(frames) \in Nat \ {0} /\ ~(Len(frames) > 1)
    <3>1. frames # <<>> /\ Top = frames[Len(frames)] /\ Len(frames) \in Nat \ {0} /\ Top.via = "caller"
      BY FrameTypes DEF Over, Inner
    <3>2. Len(frames) > 1 => Top.via # "caller"
      BY <3>1 DEF Inv, StackInv, ChainInv, Runs
    <3> QED BY <3>1, <3>2
  <2>2. resolutionStack \in Seq(Names) /\ Len(resolutionStack) + 1 = Len(frames)
    BY <2>1 DEF Inv, StackInv, NamesInv
  <2>3. Len(resolutionStack) \in Nat
    BY <2>2, LenProperties
  <2> QED BY <2>1, <2>2, <2>3, EmptySeq
<1>3. frames' \in Seq(FrameOf(Len(made'))) /\ Len(frames') = 0 /\ DOMAIN frames' = {}
  BY <1>1, EmptySeq
<1>4. StackInv'
  <2>1. resolutionStack \in Seq(Names)
    BY DEF Inv, StackInv, NamesInv
  <2>2. NamesInv'
    BY <1>1, <1>2, <2>1 DEF NamesInv
  <2>3. ChainInv'
    BY <1>3 DEF ChainInv
  <2>4. NoTokenTwice'
    BY <1>3 DEF NoTokenTwice
  <2> QED BY <2>2, <2>3, <2>4 DEF StackInv
<1> QED BY <1>1, <1>3, <1>4, FramesKept

LEMMA StepCall == ASSUME Inv, NEW c \in Contexts \cup {None}, NEW t \in Roots, Call(c, t) PROVE Inv'
<1> DEFINE e == Frame(None, "caller", <<>>, <<t>>)
<1>1. frames = <<>> /\ frames' = <<e>> /\ caller' = c
      /\ UNCHANGED <<resolutionStack, thrown, registered, scoping, made>>
  BY DEF Call, Idle
<1>2. e \in FrameOf(Len(made)) /\ e.token = None /\ e.via = "caller"
  <2>1. <<>> \in Seq(Tokens) /\ <<t>> \in Seq(Tokens)
    BY Constants
  <2> QED BY <2>1 DEF Frame, FrameOf
<1> HIDE DEF e
<1>3. frames' \in Seq(FrameOf(Len(made'))) /\ Len(frames') = 1 /\ DOMAIN frames' = 1..1 /\ frames'[1] = e
  BY <1>1, <1>2
<1>4. StackInv'
  <2>1. resolutionStack \in Seq(Names) /\ resolutionStack = <<>>
    BY <1>1 DEF Inv, StackInv, NamesInv
  <2>2. NamesInv'
    BY <1>1, <1>2, <1>3, <2>1 DEF NamesInv
  <2>3. ChainInv'
    BY <1>3 DEF ChainInv
  <2>4. NoTokenTwice'
    BY <1>3 DEF NoTokenTwice
  <2> QED BY <2>2, <2>3, <2>4 DEF StackInv
<1> QED BY <1>1, <1>3, <1>4, FramesKept, Running

LEMMA StepBegin == ASSUME Inv, NEW t \in Tokens, Begin(t) PROVE Inv'
<1> DEFINE n == Len(frames)
           e == IF t \in DOMAIN factories /\ Scope[t] # "request"
                  THEN Frame(t, "factory", <<>>, factories[t].uses)
                  ELSE Frame(t, "constructor", Inject[t], Touches[t])
<1>1. frames' = Append(frames, e) /\ resolutionStack' = Append(resolutionStack, Name[t])
      /\ UNCHANGED <<thrown, caller, registered, scoping, made>>
  BY DEF Begin
<1>2. frames # <<>> /\ Asks(Top) /\ ~Proxied(Top) /\ t = Wanted(Top) /\ ~Circular(t) /\ ~OutOfScope(t)
      /\ Existing(t) = {}
  BY DEF Begin, Asked, Resolving
<1>3. n \in Nat \ {0} /\ Top = frames[n] /\ DOMAIN frames = 1..n /\ frames \in Seq(FrameOf(Len(made)))
  BY <1>2, FrameTypes DEF Inv, FramesInv
<1>4. NamesInv /\ ChainInv /\ NoTokenTwice
  BY DEF Inv, StackInv
<1>5. /\ e \in FrameOf(Len(made)) /\ e.token = t /\ e.via # "caller"
      /\ Scope[t] = "request" => e.via = "constructor"
      /\ e.via = "factory" => e.inject = <<>> /\ t \in DOMAIN factories
  <2>1. \A u \in DOMAIN factories : factories[u] \in Factory
    BY Constants DEF Inv, RegisteredInv, FactoriesOf
  <2>2. CASE t \in DOMAIN factories /\ Scope[t] # "request"
    <3>1. factories[t].uses \in Seq(Tokens) /\ <<>> \in Seq(Tokens)
      BY <2>1, <2>2 DEF Factory
    <3> QED BY <2>2, <3>1 DEF Frame, FrameOf
  <2>3. CASE ~(t \in DOMAIN factories /\ Scope[t] # "request")
    <3>1. Inject[t] \in Seq(Tokens) /\ Touches[t] \in Seq(Tokens)
      BY Constants
    <3> QED BY <2>3, <3>1 DEF Frame, FrameOf
  <2> QED BY <2>2, <2>3
<1>6. Scope[t] = "request" => caller # None
  BY <1>2 DEF OutOfScope, Existing
<1> HIDE DEF e
<1>7. /\ frames' \in Seq(FrameOf(Len(made))) /\ Len(frames') = n + 1 /\ DOMAIN frames' = 1..(n + 1)
      /\ \A i \in 1..n : frames'[i] = frames[i]
      /\ frames'[n + 1] = e
  BY <1>1, <1>3, <1>5, AppendProperties, LenProperties
<1>8. /\ resolutionStack \in Seq(Names) /\ Len(resolutionStack) = n - 1
      /\ resolutionStack' \in Seq(Names) /\ Len(resolutionStack') = n
      /\ \A i \in 1..(n - 1) : resolutionStack'[i] = resolutionStack[i]
      /\ resolutionStack'[n] = Name[t]
  <2>1. resolutionStack \in Seq(Names) /\ Len(resolutionStack) = n - 1
    <3>1. resolutionStack \in Seq(Names)
      BY <1>4 DEF NamesInv
    <3>2. Len(resolutionStack) \in Nat
      BY <3>1, LenProperties
    <3>3. Len(resolutionStack) + 1 = n
      BY <1>2, <1>4 DEF NamesInv
    <3>4. n \in Nat \ {0}
      BY <1>3
    <3>5. Len(resolutionStack) = n - 1
      BY <3>2, <3>3, <3>4
    <3> QED BY <3>1, <3>5
  <2>2. Name[t] \in Names
    BY DEF Names
  <2>3. resolutionStack' = Append(resolutionStack, Name[t])
    BY <1>1
  <2>4. /\ resolutionStack' \in Seq(Names) /\ Len(resolutionStack') = Len(resolutionStack) + 1
        /\ \A i \in 1..Len(resolutionStack) : resolutionStack'[i] = resolutionStack[i]
        /\ resolutionStack'[Len(resolutionStack) + 1] = Name[t]
    BY <2>1, <2>2, <2>3, AppendProperties
  <2> QED BY <1>3, <2>1, <2>4
<1>9. \A i \in 1..n : frames[i].token # t
  <2>1. frames[1].token = None /\ None \notin Tokens
    BY <1>2, <1>4, Constants DEF NamesInv
  <2>2. \A i \in 2..n : frames[i].token # t
    <3> SUFFICES ASSUME NEW i \in 2..n, frames[i].token = t PROVE FALSE
      OBVIOUS
    <3>1. resolutionStack[i - 1] = Name[t]
      BY <1>4 DEF ChainInv, Runs
    <3>2. i - 1 \in DOMAIN resolutionStack
      BY <1>3, <1>8, LenProperties
    <3> QED BY <1>2, <3>1, <3>2 DEF Circular
  <2> QED BY <1>3, <2>1, <2>2
<1>10. NoTokenTwice'
  BY <1>3, <1>4, <1>5, <1>7, <1>9 DEF NoTokenTwice
<1>11. ChainInv'
  <2> SUFFICES ASSUME NEW i \in 2..(n + 1)
               PROVE  Runs(frames[i], frames[i - 1], resolutionStack[i - 1])'
    BY <1>7 DEF ChainInv
  <2>1. CASE i = n + 1
    <3>1. frames'[i] = e /\ frames'[i - 1] = Top /\ resolutionStack'[i - 1] = Name[t]
      BY <1>3, <1>7, <1>8, <2>1
    <3>2. caller' = caller /\ factories' = factories
      BY <1>1 DEF registered
    <3> QED BY <1>2, <1>5, <1>6, <3>1, <3>2 DEF Runs
  <2>2. CASE i # n + 1
    <3>1. i \in 2..n /\ i \in 1..n /\ i - 1 \in 1..n /\ i - 1 \in 1..(n - 1)
      BY <1>3, <2>2
    <3>2. Runs(frames[i], frames[i - 1], resolutionStack[i - 1])
      BY <1>4, <3>1 DEF ChainInv
    <3>3. frames'[i] = frames[i] /\ frames'[i - 1] = frames[i - 1] /\ resolutionStack'[i - 1] = resolutionStack[i - 1]
      BY <1>7, <1>8, <3>1
    <3>4. caller' = caller /\ factories' = factories
      BY <1>1 DEF registered
    <3> QED BY <3>2, <3>3, <3>4 DEF Runs
  <2> QED BY <2>1, <2>2
<1>12. NamesInv'
  <2>1. frames'[1] = frames[1] /\ frames' # <<>>
    BY <1>3, <1>7, EmptySeq
  <2> QED BY <1>2, <1>3, <1>4, <1>7, <1>8, <2>1 DEF NamesInv
<1>13. frames' \in Seq(FrameOf(Len(made')))
  BY <1>1, <1>7
<1> QED BY <1>1, <1>10, <1>11, <1>12, <1>13, FramesKept, Running DEF StackInv
-----------------------------------------------------------------------------
(* resolve() returns. *)

\* The innermost call is over and the one below it has its answer.
LEMMA StackReturns ==
    ASSUME Inv, Inner, NEW m \in Nat, Len(made) <= m, NEW x \in 1..m,
           frames' = Append(Front(Front(frames)), Answered(Last(Front(frames)), x)),
           resolutionStack' = Front(resolutionStack), UNCHANGED <<caller, factories>>
    PROVE  /\ frames' \in Seq(FrameOf(m)) /\ StackInv' /\ SameCalls(Len(frames) - 1)
           /\ LastMoves(Len(frames) - 1, Answered(frames[Len(frames) - 1], x))
<1> DEFINE n == Len(frames)
           fs == Front(frames)
           e == Answered(Last(fs), x)
<1>1. StackInv /\ Len(made) \in Nat
  BY FrameTypes DEF Inv
<1>2. /\ fs \in Seq(FrameOf(Len(made))) /\ fs # <<>> /\ resolutionStack # <<>>
      /\ n \in Nat /\ n > 1 /\ Len(fs) = n - 1
      /\ \A i \in 1..(n - 1) : fs[i] = frames[i]
      /\ Runs(Top, fs[n - 1], Last(resolutionStack)) /\ Last(fs) = fs[n - 1]
  BY TopEnds
<1> HIDE DEF fs
<1>3. fs \in Seq(FrameOf(m)) /\ Last(fs) \in FrameOf(m) /\ Asks(Last(fs)) /\ Last(fs) = frames[n - 1]
  <2>1. FrameOf(Len(made)) \subseteq FrameOf(m)
    BY <1>1, FrameGrows
  <2>2. Last(fs) \in FrameOf(Len(made))
    BY <1>2, FrontSeq
  <2>3. fs \in Seq(FrameOf(m))
    BY <1>2, <2>1, SeqMonotonic
  <2>4. fs[n - 1] = frames[n - 1]
    BY <1>2
  <2> QED BY <1>2, <2>1, <2>2, <2>3, <2>4 DEF Runs
<1>4. /\ e \in FrameOf(m) /\ e.token = frames[n - 1].token /\ e.via = frames[n - 1].via
      /\ frames[n - 1].inject = <<>> => e.inject = <<>>
  BY <1>3, AnsweredType
<1>5. frames' = Append(Front(fs), e)
  BY DEF fs
<1> HIDE DEF e
<1>6. /\ frames' \in Seq(FrameOf(m)) /\ frames' # <<>> /\ Len(frames') = n - 1
      /\ \A i \in 1..(n - 2) : frames'[i] = frames[i]
      /\ frames'[n - 1] = e
  <2> DEFINE r == frames'
  <2> HIDE DEF r
  <2>1. r = Append(Front(fs), e)
    BY <1>5 DEF r
  <2>2. /\ r \in Seq(FrameOf(m)) /\ r # <<>> /\ Len(r) = Len(fs)
        /\ \A i \in 1..(Len(fs) - 1) : r[i] = fs[i]
        /\ r[Len(fs)] = e
    <3>1. fs \in Seq(FrameOf(m)) /\ fs # <<>> /\ e \in FrameOf(m)
      BY <1>2, <1>3, <1>4
    <3>2. /\ Front(fs) \in Seq(FrameOf(m)) /\ Len(fs) \in Nat \ {0} /\ Len(Front(fs)) = Len(fs) - 1
          /\ \A i \in 1..(Len(fs) - 1) : Front(fs)[i] = fs[i]
      BY <3>1, FrontSeq
    <3> DEFINE ff == Front(fs)
    <3> HIDE DEF ff
    <3>3. ff \in Seq(FrameOf(m)) /\ r = Append(ff, e)
      BY <2>1, <3>2 DEF ff
    <3>4. r \in Seq(FrameOf(m)) /\ Len(r) = Len(ff) + 1 /\ r[Len(ff) + 1] = e
          /\ \A i \in 1..Len(ff) : r[i] = ff[i]
      BY <3>1, <3>3, AppendProperties
    <3>5. r # <<>>
      BY <3>2, <3>4, EmptySeq DEF ff
    <3> QED BY <3>2, <3>4, <3>5 DEF ff
  <2> QED BY <1>2, <2>2 DEF r
<1>7. /\ resolutionStack \in Seq(Names) /\ resolutionStack' \in Seq(Names)
      /\ Len(resolutionStack') = n - 2
      /\ \A i \in 1..(n - 2) : resolutionStack'[i] = resolutionStack[i]
  <2> DEFINE r == resolutionStack'
             k == Len(resolutionStack)
  <2>1. resolutionStack \in Seq(Names)
    BY <1>1 DEF StackInv, NamesInv
  <2>2. r = Front(resolutionStack)
    OBVIOUS
  <2> HIDE DEF r
  <2>3. r \in Seq(Names) /\ Len(r) = k - 1 /\ \A i \in 1..(k - 1) : r[i] = resolutionStack[i]
    BY <1>2, <2>1, <2>2, FrontSeq
  <2>4. k + 1 = n
    BY <1>1 DEF StackInv, NamesInv, Inner
  <2>5. k \in Nat
    BY <2>1, LenProperties
  <2>6. k = n - 1
    BY <1>2, <2>4, <2>5
  <2> QED BY <2>1, <2>3, <2>6 DEF r
<1>8. DOMAIN frames' = 1..(n - 1) /\ DOMAIN frames = 1..n
  BY <1>2, <1>6, LenProperties, FrameTypes
<1>9. \A i \in 1..(n - 1) :
         /\ frames'[i].token = frames[i].token /\ frames'[i].via = frames[i].via
         /\ frames[i].inject = <<>> => frames'[i].inject = <<>>
  BY <1>2, <1>4, <1>6
<1>10. NoTokenTwice'
  <2>1. 1..(n - 1) \subseteq 1..n
    BY <1>2
  <2>2. \A i, j \in 1..n : frames[i].token = frames[j].token => i = j
    BY <1>1, <1>8 DEF StackInv, NoTokenTwice
  <2>3. \A i, j \in 1..(n - 1) : frames'[i].token = frames'[j].token => i = j
    BY <1>9, <2>1, <2>2
  <2> QED BY <1>8, <2>3 DEF NoTokenTwice
<1>11. ChainInv'
  <2> SUFFICES ASSUME NEW i \in 2..(n - 1)
               PROVE  Runs(frames[i], frames[i - 1], resolutionStack[i - 1])'
    BY <1>6 DEF ChainInv
  <2>1. i \in 2..n /\ i \in 1..(n - 1) /\ i - 1 \in 1..(n - 2)
    BY <1>2
  <2>2. Runs(frames[i], frames[i - 1], resolutionStack[i - 1])
    BY <1>1, <2>1 DEF StackInv, ChainInv
  <2>3. frames'[i - 1] = frames[i - 1] /\ resolutionStack'[i - 1] = resolutionStack[i - 1]
    BY <1>6, <1>7, <2>1
  <2>4. /\ frames'[i].token = frames[i].token /\ frames'[i].via = frames[i].via
        /\ frames[i].inject = <<>> => frames'[i].inject = <<>>
    BY <1>9, <2>1
  <2> QED BY <2>2, <2>3, <2>4 DEF Runs
<1>12. NamesInv'
  <2>1. frames'[1].token = frames[1].token /\ frames'[1].via = frames[1].via
    BY <1>2, <1>9
  <2>2. frames[1].token = None /\ frames[1].via = "caller"
    BY <1>1 DEF StackInv, NamesInv, Inner
  <2>3. Len(resolutionStack') + 1 = Len(frames')
    BY <1>2, <1>6, <1>7
  <2> QED BY <1>6, <1>7, <2>1, <2>2, <2>3 DEF NamesInv
<1>13. SameCalls(n - 1) /\ LastMoves(n - 1, e)
  BY <1>2, <1>6, <1>9 DEF SameCalls, LastMoves
<1>14. e = Answered(frames[n - 1], x)
  BY <1>3 DEF e
<1> QED BY <1>6, <1>10, <1>11, <1>12, <1>13, <1>14 DEF StackInv

\* What is returned has been put where resolve() keeps it.
LEMMA ReturnKeeps ==
    ASSUME Inv, Resolving, Inner, NEW m \in Nat, Len(made) <= m, Len(made') = m, MadeInv',
           NEW x \in 1..m, Return(x)
    PROVE  Inv'
<1>1. Top.token \in Tokens /\ (Scope[Top.token] = "request" => caller \in Contexts)
  <2>1. Runs(Top, Front(frames)[Len(Front(frames))], Last(resolutionStack))
    BY TopEnds
  <2> QED BY <2>1, Running DEF Runs
<1>2. frames' \in Seq(FrameOf(m)) /\ StackInv'
  BY StackReturns DEF Return
<1>3. FramesInv'
  BY <1>2, Running DEF Return, FramesInv
<1>4. /\ MapOf(singletons, Len(made)) /\ FactoriesOf(factories)
      /\ snap # None => MapOf(snap.singletons, Len(made)) /\ FactoriesOf(snap.factories)
      /\ Len(made) \in Nat
  BY FrameTypes DEF Inv, RegisteredInv
<1>5. RegisteredInv'
  <2>1. MapOf(singletons', m)
    <3>1. MapOf(singletons, m)
      BY <1>4, MapGrows
    <3>2. MapOf(Put(singletons, Top.token, x), m)
      BY <1>1, <3>1, PutMap
    <3> QED BY <3>1, <3>2 DEF Return
  <2>2. snap # None => MapOf(snap.singletons, m)
    BY <1>4, MapGrows
  <2> QED BY <1>4, <2>1, <2>2 DEF Return, RegisteredInv
<1>6. ScopesInv'
  <2>1. ScopesInv
    BY DEF Inv
  <2>2. \A c \in Contexts : MapOf(diScope[c], m)
    BY <1>4, <2>1, MapGrows DEF ScopesInv
  <2>3. diScope' = [c \in Contexts |-> diScope'[c]] /\ \A c \in Contexts : MapOf(diScope'[c], m)
    <3>1. CASE Scope[Top.token] = "request"
      <4>1. caller \in Contexts
        BY <1>1, <3>1
      <4>2. MapOf(Put(diScope[caller], Top.token, x), m)
        BY <1>1, <2>2, <4>1, PutMap
      <4>3. diScope' = [diScope EXCEPT ![caller] = Put(diScope[caller], Top.token, x)]
        BY <3>1 DEF Return
      <4> DEFINE p == Put(diScope[caller], Top.token, x)
      <4> HIDE DEF p
      <4>4. diScope' = [diScope EXCEPT ![caller] = p] /\ MapOf(p, m) /\ diScope = [c \in Contexts |-> diScope[c]]
        BY <2>1, <4>2, <4>3 DEF p, ScopesInv
      <4>5. \A c \in Contexts : diScope'[c] = IF c = caller THEN p ELSE diScope[c]
        BY <4>4
      <4>6. diScope' = [c \in Contexts |-> diScope'[c]]
        BY <4>4
      <4> QED BY <2>2, <4>4, <4>5, <4>6
    <3>2. CASE Scope[Top.token] # "request"
      BY <2>1, <2>2, <3>2 DEF Return, ScopesInv
    <3> QED BY <3>1, <3>2
  <2> QED BY <2>1, <2>3 DEF Return, ScopesInv
<1> QED BY <1>2, <1>3, <1>5, <1>6 DEF Inv

LEMMA StepComplete == ASSUME Inv, Complete PROVE Inv'
<1>1. Resolving /\ Inner /\ Top \in FrameOf(Len(made)) /\ Len(made) \in Nat
  BY FrameTypes DEF Complete, Resolving
<1>2. MadeInv
  BY DEF Inv
<1>3. CASE made' = Append(made, Built(Top)) /\ Return(Len(made) + 1)
  <2>1. Top.token \in Tokens
    <3>1. Runs(Top, Front(frames)[Len(Front(frames))], Last(resolutionStack))
      BY <1>1, TopEnds
    <3> QED BY <3>1 DEF Runs
  <2> DEFINE b == Built(Top)
  <2>2. Top.got \subseteq 1..Len(made)
    BY <1>1 DEF FrameOf
  <2>3. \A x \in Top.got : made[x].holds \subseteq 1..Len(made)
    BY <1>1, <1>2, <2>2 DEF MadeInv
  <2>4. b.holds \subseteq 1..Len(made)
    BY <2>2, <2>3 DEF Built
  <2>5. b \in Instance
    BY <1>1, <2>1, <2>4, Running DEF Built, Instance
  <2> HIDE DEF b
  <2>6. /\ made' \in Seq(Instance) /\ Len(made') = Len(made) + 1
        /\ \A x \in 1..Len(made) : made'[x] = made[x]
        /\ made'[Len(made) + 1] = b
    BY <1>1, <1>2, <1>3, <2>5, AppendProperties DEF MadeInv, b
  <2>7. MadeInv'
    BY <1>1, <1>2, <2>4, <2>6 DEF MadeInv
  <2> QED BY <1>1, <1>3, <2>6, <2>7, ReturnKeeps
<1>4. CASE UNCHANGED made /\ \E x \in Top.got : Return(x)
  <2>1. PICK x \in Top.got : Return(x)
    BY <1>4
  <2>2. x \in 1..Len(made)
    BY <1>1 DEF FrameOf
  <2>3. MadeInv'
    BY <1>2, <1>4 DEF MadeInv
  <2> QED BY <1>1, <1>4, <2>1, <2>2, <2>3, ReturnKeeps
<1> QED BY <1>3, <1>4 DEF Complete

-----------------------------------------------------------------------------
(* Registrations: nothing is being resolved. *)

LEMMA RegisterKeeps ==
    ASSUME Inv, frames = <<>>, Len(made') \in Nat, Len(made) <= Len(made'),
           MadeInv', RegisteredInv', resolutionStack' \in {resolutionStack, <<>>},
           UNCHANGED <<frames, thrown, caller, scoping>>
    PROVE  Inv'
<1>1. \A S : <<>> \in Seq(S) /\ Len(<<>>) = 0 /\ DOMAIN <<>> = {}
  BY EmptySeq
<1>2. resolutionStack = <<>>
  BY DEF Inv, StackInv, NamesInv
<1>3. StackInv'
  <2>1. NamesInv'
    BY <1>1, <1>2 DEF NamesInv
  <2>2. ChainInv'
    BY <1>1 DEF ChainInv
  <2>3. NoTokenTwice'
    BY <1>1 DEF NoTokenTwice
  <2> QED BY <2>1, <2>2, <2>3 DEF StackInv
<1>4. FramesInv'
  BY <1>1, Running DEF FramesInv
<1>5. ScopesInv'
  <2>1. ScopesInv /\ Len(made) \in Nat
    BY FrameTypes DEF Inv
  <2>2. \A c \in Contexts : MapOf(diScope[c], Len(made'))
    BY <2>1, MapGrows DEF ScopesInv
  <2> QED BY <2>1, <2>2 DEF ScopesInv, scoping
<1> QED BY <1>3, <1>4, <1>5 DEF Inv

\* A new instance that was given to the container.
LEMMA GivenMade ==
    ASSUME Inv, NEW t \in Tokens, made' = Append(made, Given(t))
    PROVE  MadeInv' /\ Len(made) \in Nat /\ Len(made') = Len(made) + 1
<1>1. Given(t) \in Instance /\ Given(t).holds = {}
  BY Constants DEF Given, Instance
<1>2. MadeInv /\ Len(made) \in Nat
  BY FrameTypes DEF Inv
<1>3. /\ made' \in Seq(Instance) /\ Len(made') = Len(made) + 1
      /\ \A x \in 1..Len(made) : made'[x] = made[x]
      /\ made'[Len(made) + 1] = Given(t)
  BY <1>1, <1>2, AppendProperties DEF MadeInv
<1>4. \A x \in 1..Len(made') : made'[x].holds \subseteq 1..(x - 1)
  BY <1>1, <1>2, <1>3 DEF MadeInv
<1> QED BY <1>2, <1>3, <1>4 DEF MadeInv

LEMMA SameMade == ASSUME Inv, UNCHANGED made PROVE MadeInv' /\ Len(made) \in Nat /\ Len(made') = Len(made)
BY FrameTypes DEF Inv, MadeInv

\* The registrations and those saved, as the instances are or come to be.
LEMMA RegisteredGrows ==
    ASSUME Inv, NEW m \in Nat, Len(made) <= m
    PROVE  /\ MapOf(singletons, m) /\ FactoriesOf(factories)
           /\ snap # None => MapOf(snap.singletons, m) /\ FactoriesOf(snap.factories)
<1>1. RegisteredInv /\ Len(made) \in Nat
  BY FrameTypes DEF Inv
<1> QED BY <1>1, MapGrows DEF RegisteredInv

\* The factories with one more, and without one.
LEMMA FactoryPut ==
    ASSUME NEW f, FactoriesOf(f), NEW t \in Tokens, NEW b \in Bodies[t], NEW g,
           g = [u \in DOMAIN f \cup {t} |-> IF u = t THEN b ELSE f[u]]
    PROVE  FactoriesOf(g)
BY DEF FactoriesOf

LEMMA FactoryGone ==
    ASSUME NEW f, FactoriesOf(f), NEW t \in Tokens, NEW g,
           g = [u \in DOMAIN f \ {t} |-> f[u]]
    PROVE  FactoriesOf(g)
BY DEF FactoriesOf

LEMMA StepRegisterInstance == ASSUME Inv, NEW t \in Tokens, RegisterInstance(t) PROVE Inv'
<1> DEFINE n == Len(made) + 1
<1>1. MadeInv' /\ Len(made) \in Nat /\ Len(made') = n
  BY GivenMade DEF RegisterInstance
<1>2. MapOf(singletons, n) /\ FactoriesOf(factories)
      /\ (snap # None => MapOf(snap.singletons, n) /\ FactoriesOf(snap.factories))
  BY <1>1, RegisteredGrows
<1>3. MapOf(singletons', n)
  BY <1>1, <1>2, PutMap DEF RegisterInstance
<1>4. RegisteredInv'
  BY <1>1, <1>2, <1>3 DEF RegisterInstance, RegisteredInv
<1>5. frames = <<>> /\ UNCHANGED <<frames, resolutionStack, thrown, caller, scoping>>
  BY DEF RegisterInstance, Idle, running
<1> QED BY <1>1, <1>4, <1>5, RegisterKeeps

LEMMA StepRegisterFactory == ASSUME Inv, NEW t \in Tokens, RegisterFactory(t) PROVE Inv'
<1>1. MadeInv' /\ Len(made) \in Nat /\ Len(made') = Len(made)
  BY SameMade DEF RegisterFactory
<1>2. MapOf(singletons, Len(made)) /\ FactoriesOf(factories)
      /\ (snap # None => MapOf(snap.singletons, Len(made)) /\ FactoriesOf(snap.factories))
  BY <1>1, RegisteredGrows
<1>3. FactoriesOf(factories')
  BY <1>2, FactoryPut DEF RegisterFactory
<1>4. RegisteredInv'
  BY <1>1, <1>2, <1>3 DEF RegisterFactory, RegisteredInv
<1>5. frames = <<>> /\ UNCHANGED <<frames, resolutionStack, thrown, caller, scoping>>
  BY DEF RegisterFactory, Idle, running
<1> QED BY <1>1, <1>4, <1>5, RegisterKeeps

LEMMA StepRemove == ASSUME Inv, NEW t \in Tokens, Remove(t) PROVE Inv'
<1>1. MadeInv' /\ Len(made) \in Nat /\ Len(made') = Len(made)
  BY SameMade DEF Remove
<1>2. MapOf(singletons, Len(made)) /\ FactoriesOf(factories)
      /\ (snap # None => MapOf(snap.singletons, Len(made)) /\ FactoriesOf(snap.factories))
  BY <1>1, RegisteredGrows
<1>3. FactoriesOf(factories')
  BY <1>2, FactoryGone DEF Remove, Unregister
<1>4. MapOf(singletons', Len(made))
  BY <1>1, <1>2, WithoutMap DEF Remove, Unregister
<1>5. RegisteredInv'
  BY <1>1, <1>2, <1>3, <1>4 DEF Remove, RegisteredInv
<1>6. frames = <<>> /\ UNCHANGED <<frames, resolutionStack, thrown, caller, scoping>>
  BY DEF Remove, Idle, running
<1> QED BY <1>1, <1>5, <1>6, RegisterKeeps

LEMMA StepClear == ASSUME Inv, Clear PROVE Inv'
<1>1. MadeInv' /\ Len(made) \in Nat /\ Len(made') = Len(made)
  BY SameMade DEF Clear
<1>2. snap # None => MapOf(snap.singletons, Len(made)) /\ FactoriesOf(snap.factories)
  BY <1>1, RegisteredGrows
<1>3. MapOf(<<>>, Len(made)) /\ FactoriesOf(<<>>)
  BY EmptySeq DEF MapOf, FactoriesOf
<1>4. RegisteredInv'
  BY <1>1, <1>2, <1>3 DEF Clear, RegisteredInv
<1>5. frames = <<>> /\ resolutionStack' = <<>> /\ UNCHANGED <<frames, thrown, caller, scoping>>
  BY DEF Clear, Idle
<1> QED BY <1>1, <1>4, <1>5, RegisterKeeps

LEMMA StepCompile == ASSUME Inv, NEW t \in Tokens, Compile(t) PROVE Inv'
<1> DEFINE rest == Without(singletons, t)
           n == Len(made) + 1
           e == [token |-> t, inst |-> n]
<1>1. frames = <<>> /\ UNCHANGED <<frames, resolutionStack, thrown, caller, scoping>>
      /\ snap' = [singletons |-> singletons, factories |-> factories]
  BY DEF Compile, Idle, running
<1>2. CASE /\ made' = Append(made, Given(t)) /\ singletons' = Append(rest, e)
           /\ factories' = [u \in DOMAIN factories \ {t} |-> factories[u]]
  <2>1. MadeInv' /\ Len(made) \in Nat /\ Len(made') = n
    BY <1>2, GivenMade
  <2>2. MapOf(singletons, n) /\ FactoriesOf(factories)
    BY <2>1, RegisteredGrows
  <2>3. MapOf(rest, n) /\ ~Has(rest, t)
    BY <2>1, <2>2, WithoutMap
  <2>4. Put(rest, t, n) = Append(rest, e) /\ MapOf(Put(rest, t, n), n)
    BY <2>1, <2>3, PutAbsent
  <2>5. FactoriesOf(factories')
    BY <1>2, <2>2, FactoryGone
  <2>6. RegisteredInv'
    BY <1>1, <1>2, <2>1, <2>2, <2>4, <2>5 DEF RegisteredInv
  <2> QED BY <1>1, <2>1, <2>6, RegisterKeeps
<1>3. CASE /\ singletons' = rest /\ UNCHANGED made
           /\ \E b \in Bodies[t] :
                 factories' = [u \in DOMAIN factories \cup {t} |-> IF u = t THEN b ELSE factories[u]]
  <2>1. MadeInv' /\ Len(made) \in Nat /\ Len(made') = Len(made)
    BY <1>3, SameMade
  <2>2. MapOf(singletons, Len(made)) /\ FactoriesOf(factories)
    BY <2>1, RegisteredGrows
  <2>3. MapOf(rest, Len(made))
    BY <2>1, <2>2, WithoutMap
  <2>4. FactoriesOf(factories')
    BY <1>3, <2>2, FactoryPut
  <2>5. RegisteredInv'
    BY <1>1, <1>3, <2>1, <2>2, <2>3, <2>4 DEF RegisteredInv
  <2> QED BY <1>1, <2>1, <2>5, RegisterKeeps
<1> QED BY <1>2, <1>3 DEF Compile

LEMMA StepCleanup == ASSUME Inv, Cleanup PROVE Inv'
<1>1. MadeInv' /\ Len(made) \in Nat /\ Len(made') = Len(made)
  BY SameMade DEF Cleanup
<1>2. snap # None => MapOf(snap.singletons, Len(made)) /\ FactoriesOf(snap.factories)
  BY <1>1, RegisteredGrows
<1>3. RegisteredInv'
  BY <1>1, <1>2 DEF Cleanup, RegisteredInv
<1>4. frames = <<>> /\ UNCHANGED <<frames, resolutionStack, thrown, caller, scoping>>
  BY DEF Cleanup, Idle, running
<1> QED BY <1>1, <1>3, <1>4, RegisterKeeps

-----------------------------------------------------------------------------
(* Scopes. *)

LEMMA ScopeKeeps ==
    ASSUME Inv, frames = <<>>, Len(made') = Len(made), MadeInv', ScopesInv',
           UNCHANGED <<registered, running>>
    PROVE  Inv'
<1>1. UNCHANGED <<singletons, factories, snap, frames, resolutionStack, thrown, caller>>
  BY DEF registered, running
<1>2. RegisteredInv /\ FramesInv /\ StackInv
  BY DEF Inv
<1>3. RegisteredInv'
  BY <1>1, <1>2 DEF RegisteredInv
<1>4. FramesInv'
  BY <1>1, <1>2 DEF FramesInv
<1>5. StackInv'
  <2>1. NamesInv'
    BY <1>1, <1>2 DEF StackInv, NamesInv
  <2>2. ChainInv'
    BY <1>1, <1>2 DEF StackInv, ChainInv, Runs
  <2>3. NoTokenTwice'
    BY <1>1, <1>2 DEF StackInv, NoTokenTwice
  <2> QED BY <2>1, <2>2, <2>3 DEF StackInv
<1> QED BY <1>3, <1>4, <1>5 DEF Inv

\* A context's scopes become s.
LEMMA ScopesMove ==
    ASSUME Inv, NEW c \in Contexts, NEW s \in Seq(ScopeOf), scopes' = [scopes EXCEPT ![c] = s],
           UNCHANGED <<diScope, own>>, Len(made') = Len(made)
    PROVE  ScopesInv'
<1>1. ScopesInv
  BY DEF Inv
<1>2. scopes' \in [Contexts -> Seq(ScopeOf)]
  BY <1>1 DEF ScopesInv
<1> QED BY <1>1, <1>2 DEF ScopesInv

LEMMA InmostType ==
    ASSUME Inv, NEW c \in Contexts, Scoped(c)
    PROVE  Inmost(c) \in ScopeOf /\ scopes[c] \in Seq(ScopeOf) /\ Front(scopes[c]) \in Seq(ScopeOf)
BY FrontSeq DEF Inv, ScopesInv, Scoped, Inmost

LEMMA MovedType ==
    ASSUME Inv, NEW c \in Contexts, Scoped(c), NEW e \in ScopeOf
    PROVE  /\ Append(Front(scopes[c]), e) \in Seq(ScopeOf)
           /\ Moved(c, e) = [scopes EXCEPT ![c] = Append(Front(scopes[c]), e)]
<1>1. Front(scopes[c]) \in Seq(ScopeOf)
  BY InmostType
<1> DEFINE f == Front(scopes[c])
<1> HIDE DEF f
<1>2. Append(f, e) \in Seq(ScopeOf)
  BY <1>1, AppendProperties DEF f
<1>3. Moved(c, e) = [scopes EXCEPT ![c] = Append(Front(scopes[c]), e)]
  BY DEF Moved
<1> QED BY <1>2, <1>3 DEF f

LEMMA StepEnter == ASSUME Inv, NEW c \in Contexts, Enter(c) PROVE Inv'
<1> DEFINE e == [prev |-> Present(c), at |-> 0, hooking |-> FALSE, born |-> Len(made)]
           s == Append(scopes[c], e)
<1>1. MadeInv' /\ Len(made) \in Nat /\ Len(made') = Len(made)
  BY SameMade DEF Enter
<1>2. frames = <<>> /\ UNCHANGED <<diScope, own, registered, running>> /\ scopes' = [scopes EXCEPT ![c] = s]
  BY DEF Enter, Idle
<1>3. Present(c) \subseteq Tokens
  <2>1. diScope[c] \in Seq(EntryOf(Len(made)))
    BY DEF Inv, ScopesInv, MapOf
  <2>2. \A i \in DOMAIN diScope[c] : diScope[c][i] \in EntryOf(Len(made))
    BY <2>1, ElementOfSeq, LenProperties
  <2> QED BY <2>2 DEF Present, EntryOf
<1>4. e \in ScopeOf
  BY <1>1, <1>3 DEF ScopeOf
<1>5. scopes[c] \in Seq(ScopeOf)
  BY DEF Inv, ScopesInv
<1> HIDE DEF e
<1>6. s \in Seq(ScopeOf)
  BY <1>4, <1>5, AppendProperties
<1> HIDE DEF s
<1> QED BY <1>1, <1>2, <1>6, ScopesMove, ScopeKeeps

LEMMA StepFinish == ASSUME Inv, NEW c \in Contexts, Finish(c) PROVE Inv'
<1> DEFINE e == [Inmost(c) EXCEPT !.at = 1]
<1>1. MadeInv' /\ Len(made) \in Nat /\ Len(made') = Len(made)
  BY SameMade DEF Finish
<1>2. frames = <<>> /\ UNCHANGED <<diScope, own, registered, running>> /\ scopes' = Moved(c, e) /\ Scoped(c)
  BY DEF Finish, Idle
<1>3. e \in ScopeOf
  BY <1>2, InmostType DEF ScopeOf
<1> HIDE DEF e
<1> DEFINE s == Append(Front(scopes[c]), e)
<1>4. s \in Seq(ScopeOf) /\ scopes' = [scopes EXCEPT ![c] = s]
  BY <1>2, <1>3, MovedType
<1> HIDE DEF s
<1> QED BY <1>1, <1>2, <1>4, ScopesMove, ScopeKeeps

\* An entry is left behind, in the map or not.
LEMMA VisitedKeeps ==
    ASSUME Inv, NEW c \in Contexts, Scoped(c), Visited(c), UNCHANGED <<own, made>>
    PROVE  ScopesInv'
<1> DEFINE e == [Inmost(c) EXCEPT !.hooking = FALSE, !.at = PlaceAfter(c)]
           s == Append(Front(scopes[c]), e)
<1>1. ScopesInv
  BY DEF Inv
<1>2. e \in ScopeOf
  <2>1. Inmost(c) \in ScopeOf
    BY InmostType
  <2>2. PlaceAfter(c) \in Nat
    BY <2>1 DEF ScopeOf, PlaceAfter
  <2> QED BY <2>1, <2>2 DEF ScopeOf
<1>3. s \in Seq(ScopeOf) /\ scopes' = [scopes EXCEPT ![c] = s]
  BY <1>2, MovedType DEF Visited
<1> HIDE DEF s
<1>4. scopes' \in [Contexts -> Seq(ScopeOf)]
  BY <1>1, <1>3 DEF ScopesInv
<1> DEFINE w == Without(diScope[c], Here(c).token)
<1>5. MapOf(w, Len(made))
  BY <1>1, WithoutMap, FrameTypes DEF ScopesInv
<1>6. diScope' = diScope \/ diScope' = [diScope EXCEPT ![c] = w]
  BY DEF Visited
<1> HIDE DEF w
<1>7. diScope' = [k \in Contexts |-> diScope'[k]] /\ \A k \in Contexts : MapOf(diScope'[k], Len(made))
  BY <1>1, <1>5, <1>6 DEF ScopesInv
<1> QED BY <1>1, <1>4, <1>7 DEF ScopesInv

LEMMA StepTeardown == ASSUME Inv, NEW c \in Contexts, Teardown(c) PROVE Inv'
<1>1. frames = <<>> /\ Scoped(c) /\ ~AtEnd(c) /\ Inmost(c).at > 0 /\ UNCHANGED <<own, registered, running>>
  BY DEF Teardown, Looping
<1>2. Inmost(c) \in ScopeOf /\ ScopesInv /\ MadeInv
  BY <1>1, InmostType DEF Inv
<1>3. CASE scopes' = Moved(c, [Inmost(c) EXCEPT !.at = @ + 1]) /\ UNCHANGED <<diScope, made>>
  <2> DEFINE e == [Inmost(c) EXCEPT !.at = @ + 1]
             s == Append(Front(scopes[c]), e)
  <2>1. e \in ScopeOf
    BY <1>2 DEF ScopeOf
  <2>2. s \in Seq(ScopeOf) /\ scopes' = [scopes EXCEPT ![c] = s]
    BY <1>1, <1>3, <2>1, MovedType
  <2> HIDE DEF s
  <2>3. MadeInv' /\ Len(made') = Len(made)
    BY <1>3, SameMade
  <2> QED BY <1>1, <1>3, <2>2, <2>3, ScopesMove, ScopeKeeps
<1>4. CASE Visited(c) /\ UNCHANGED made
  BY <1>1, <1>4, VisitedKeeps, SameMade, ScopeKeeps
<1>5. CASE /\ made' = [made EXCEPT ![Here(c).inst].destroyed = @ + 1]
           /\ scopes' = Moved(c, [Inmost(c) EXCEPT !.hooking = TRUE])
           /\ UNCHANGED diScope
  <2> DEFINE x == Here(c).inst
             e == [Inmost(c) EXCEPT !.hooking = TRUE]
             s == Append(Front(scopes[c]), e)
  <2>1. x \in 1..Len(made)
    <3>1. diScope[c] \in Seq(EntryOf(Len(made)))
      BY <1>2 DEF ScopesInv, MapOf
    <3>2. Inmost(c).at \in 1..Len(diScope[c])
      BY <1>1, <1>2, <3>1, LenProperties DEF AtEnd, ScopeOf
    <3>3. Here(c) \in EntryOf(Len(made))
      BY <3>1, <3>2, ElementOfSeq DEF Here
    <3> QED BY <3>3 DEF EntryOf
  <2> HIDE DEF x
  <2>2. made \in Seq(Instance) /\ Len(made) \in Nat /\ DOMAIN made = 1..Len(made) /\ made \in [1..Len(made) -> Instance]
    BY <1>2, LenProperties DEF MadeInv
  <2>3. made' = [made EXCEPT ![x] = [made[x] EXCEPT !.destroyed = made[x].destroyed + 1]]
    BY <1>5 DEF x
  <2>4. [made[x] EXCEPT !.destroyed = made[x].destroyed + 1] \in Instance
    BY <2>1, <2>2 DEF Instance
  <2>5. made' \in [1..Len(made) -> Instance]
    BY <2>2, <2>3, <2>4
  <2>6. made' \in Seq(Instance) /\ Len(made') = Len(made)
    BY <2>2, <2>5, SeqDef, LenProperties
  <2>7. \A y \in 1..Len(made) : made'[y].holds = made[y].holds
    BY <2>1, <2>2, <2>3 DEF Instance
  <2>8. MadeInv'
    BY <1>2, <2>6, <2>7 DEF MadeInv
  <2>9. e \in ScopeOf
    BY <1>2 DEF ScopeOf
  <2>10. s \in Seq(ScopeOf) /\ scopes' = [scopes EXCEPT ![c] = s]
    BY <1>1, <1>5, <2>9, MovedType
  <2> HIDE DEF s
  <2> QED BY <1>1, <1>5, <2>6, <2>8, <2>10, ScopesMove, ScopeKeeps
<1> QED BY <1>3, <1>4, <1>5 DEF Teardown

LEMMA StepHookSettles == ASSUME Inv, NEW c \in Contexts, HookSettles(c) PROVE Inv'
<1>1. frames = <<>> /\ Scoped(c) /\ Visited(c) /\ UNCHANGED <<own, registered, running, made>>
  BY DEF HookSettles, Hooking, Idle
<1> QED BY <1>1, VisitedKeeps, SameMade, ScopeKeeps

LEMMA ScopePopped ==
    ASSUME Inv, NEW c \in Contexts, frames = <<>>, Scoped(c),
           scopes' = [scopes EXCEPT ![c] = Front(@)], UNCHANGED <<diScope, own, registered, running, made>>
    PROVE  Inv'
<1> DEFINE s == Front(scopes[c])
<1>1. s \in Seq(ScopeOf) /\ scopes' = [scopes EXCEPT ![c] = s]
  BY InmostType
<1> HIDE DEF s
<1>2. MadeInv' /\ Len(made') = Len(made)
  BY SameMade
<1> QED BY <1>1, <1>2, ScopesMove, ScopeKeeps

LEMMA StepLeave == ASSUME Inv, NEW c \in Contexts, Leave(c) PROVE Inv'
BY ScopePopped DEF Leave, Looping

LEMMA StepHookRejects == ASSUME Inv, NEW c \in Contexts, HookRejects(c) PROVE Inv'
BY ScopePopped DEF HookRejects, Hooking, Idle

-----------------------------------------------------------------------------
(* Theorems. *)

LEMMA Step == ASSUME Inv, [Next]_vars PROVE Inv'
<1>1. CASE Resolve
  BY <1>1, StepGiveProxy, StepComplete, StepFail, StepCatch, StepUnwind, StepOver, StepRefuse,
     StepFind, StepBegin DEF Resolve
<1>2. CASE Register
  BY <1>2, Constants, StepCleanup, StepClear, StepRegisterInstance, StepRegisterFactory, StepRemove,
     StepCompile DEF Register
<1>3. CASE \E c \in Contexts \cup {None} : \E t \in Roots : Call(c, t)
  BY <1>3, StepCall
<1>4. CASE \E c \in Contexts : RunInScope(c)
  BY <1>4, StepEnter, StepFinish, StepTeardown, StepHookSettles, StepLeave, StepHookRejects DEF RunInScope
<1>5. CASE UNCHANGED vars
  <2>1. UNCHANGED <<registered, scoping, made, frames, resolutionStack, thrown, caller>>
    BY <1>5 DEF vars, running
  <2> QED BY <2>1, StackKept, FramesKept, Running DEF registered
<1> QED BY <1>1, <1>2, <1>3, <1>4, <1>5 DEF Next

\* The invariant holds: the frames, the names and the maps fit together.
THEOREM Invariant == Spec => []Inv
<1>1. Init => Inv
  BY TypeInit
<1>2. Inv /\ [Next]_vars => Inv'
  BY Step
<1> QED BY <1>1, <1>2, PTL DEF Spec

\* A token that is being resolved is not resolved again within: the stack of
\* calls has at most a frame for each.
THEOREM NoTokenTwiceHolds == Spec => []NoTokenTwice
<1>1. Inv => NoTokenTwice
  BY DEF Inv, StackInv
<1> QED BY <1>1, Invariant, PTL

\* The types of the module.
THEOREM TypeCorrect == Spec => []TypeOK
<1>1. Inv => TypeOK
  <2> SUFFICES ASSUME Inv PROVE TypeOK
    OBVIOUS
  <2>1. Number = 1..Len(made) /\ Len(made) \in Nat
    BY LenProperties DEF Inv, MadeInv, Number
  <2>2. \A map : MapOf(map, Len(made)) => IsMap(map)
    BY <2>1 DEF MapOf, IsMap, EntryOf, Entry
  <2>3. IsMap(singletons) /\ \A c \in Contexts : IsMap(diScope[c])
    BY <2>2 DEF Inv, RegisteredInv, ScopesInv
  <2>4. DOMAIN factories \subseteq Tokens /\ \A t \in DOMAIN factories : factories[t] \in Bodies[t]
    BY DEF Inv, RegisteredInv, FactoriesOf
  <2>5. \A i \in DOMAIN frames :
           frames[i].token \in (IF i = 1 THEN {None} ELSE Tokens) /\ frames[i].got \subseteq Number
    <3> SUFFICES ASSUME NEW i \in DOMAIN frames
                 PROVE  /\ frames[i].token \in (IF i = 1 THEN {None} ELSE Tokens)
                        /\ frames[i].got \subseteq Number
      OBVIOUS
    <3>1. i \in 1..Len(frames) /\ frames[i] \in FrameOf(Len(made)) /\ Len(frames) \in Nat
      BY FrameTypes
    <3>2. CASE i = 1
      <4>1. frames # <<>>
        BY <3>1, EmptySeq
      <4> QED BY <2>1, <3>1, <3>2, <4>1 DEF Inv, StackInv, NamesInv, FrameOf
    <3>3. CASE i # 1
      <4>1. i \in 2..Len(frames)
        BY <3>1, <3>3
      <4>2. Runs(frames[i], frames[i - 1], resolutionStack[i - 1])
        BY <4>1 DEF Inv, StackInv, ChainInv
      <4> QED BY <2>1, <3>1, <3>3, <4>2 DEF Runs, FrameOf
    <3> QED BY <3>2, <3>3
  <2>6. DOMAIN scopes = Contexts /\ own \subseteq Contexts
        /\ \A c \in Contexts : \A i \in DOMAIN scopes[c] : scopes[c][i].prev \subseteq Tokens
    <3>1. scopes \in [Contexts -> Seq(ScopeOf)] /\ own \subseteq Contexts
      BY DEF Inv, ScopesInv
    <3>2. \A c \in Contexts : \A i \in DOMAIN scopes[c] : scopes[c][i] \in ScopeOf
      BY <3>1, ElementOfSeq, LenProperties
    <3> QED BY <3>1, <3>2 DEF ScopeOf
  <2>7. \A x \in Number : made[x].holds \subseteq 1..(x - 1)
    BY <2>1 DEF Inv, MadeInv
  <2> QED BY <2>3, <2>4, <2>5, <2>6, <2>7, Running DEF TypeOK
<1> QED BY <1>1, Invariant, PTL

\* When class names are distinct, a resolution is refused as circular only if the
\* class is being resolved: no failed or caught call leaves its name behind.
THEOREM CircularMeansCycleHolds ==
    ASSUME \A s, t \in Tokens : Name[s] = Name[t] => s = t
    PROVE  Spec => CircularMeansCycle
<1> DEFINE P == (thrown = None /\ thrown' # None /\ thrown'.error = "circular")
                  => \E i \in DOMAIN frames : frames[i].token = thrown'.token
<1>1. Inv /\ [Next]_vars => P
  <2> SUFFICES ASSUME Inv, [Next]_vars, thrown = None, thrown' # None, thrown'.error = "circular"
               PROVE  \E i \in DOMAIN frames : frames[i].token = thrown'.token
    OBVIOUS
  <2>1. PICK t \in Tokens : Refuse(t) /\ Circular(t)
    <3>1. Resolve
      BY DEF Next, Register, Cleanup, Clear, RegisterInstance, RegisterFactory, Remove, Compile, Call,
             RunInScope, Enter, Finish, Teardown, HookSettles, Leave, HookRejects, running, vars
    <3>2. ~(GiveProxy \/ Complete \/ Fail \/ Catch \/ Unwind \/ Over)
      BY DEF GiveProxy, Complete, Return, Fail, Catch, Unwind, Over
    <3>3. \A t \in Tokens : ~(Find(t) \/ Begin(t))
      BY DEF Find, Begin
    <3>4. PICK t \in Tokens : Refuse(t)
      BY <3>1, <3>2, <3>3 DEF Resolve
    <3>5. Circular(t)
      BY <3>4 DEF Refuse
    <3> QED BY <3>4, <3>5
  <2>2. thrown'.token = t
    BY <2>1 DEF Refuse
  <2>3. PICK i \in DOMAIN resolutionStack : resolutionStack[i] = Name[t]
    BY <2>1 DEF Circular
  <2>4. i \in Nat /\ i + 1 \in 2..Len(frames)
    <3>1. resolutionStack \in Seq(Names)
      BY DEF Inv, StackInv, NamesInv
    <3>2. DOMAIN resolutionStack = 1..Len(resolutionStack) /\ Len(resolutionStack) \in Nat
      BY <3>1, LenProperties
    <3>3. resolutionStack # <<>>
      BY <2>3, <3>2, EmptySeq
    <3>4. Len(resolutionStack) + 1 = Len(frames)
      BY <3>3 DEF Inv, StackInv, NamesInv
    <3> QED BY <2>3, <3>2, <3>4
  <2>5. Runs(frames[i + 1], frames[i + 1 - 1], resolutionStack[i + 1 - 1])
    BY <2>4 DEF Inv, StackInv, ChainInv
  <2>6. frames[i + 1].token \in Tokens /\ Name[t] = Name[frames[i + 1].token]
    BY <2>3, <2>4, <2>5 DEF Runs
  <2>7. i + 1 \in DOMAIN frames
    BY <2>4, FrameTypes
  <2> QED BY <2>2, <2>6, <2>7
<1> QED BY <1>1, Invariant, PTL DEF Spec, CircularMeansCycle

-----------------------------------------------------------------------------
(* One instance of a singleton. *)

\* What is being resolved has no entry yet.
Absent == \A i \in 2..Len(frames) : ~Has(singletons, frames[i].token)

\* A singleton that was not dropped has its entry.
Holding ==
    \A x \in 1..Len(made) : x \notin dropped /\ Single(x) =>
        \E i \in DOMAIN singletons : singletons[i] = [token |-> made[x].token, inst |-> x]

\* Calls that go on are the same calls.
LEMMA CallsGiveProxy == ASSUME Inv, GiveProxy PROVE SameCalls(Len(frames))
<1> DEFINE e == [Top EXCEPT !.inject = Tail(@)]
<1>1. frames # <<>> /\ Top.inject # <<>> /\ Top \in FrameOf(Len(made))
  BY FrameTypes DEF GiveProxy, Resolving, Proxied
<1>2. Tail(Top.inject) \in Seq(Tokens)
  BY <1>1, HeadTailProperties DEF FrameOf
<1>3. e \in FrameOf(Len(made)) /\ e.token = Top.token /\ e.via = Top.via
  BY <1>1, <1>2 DEF FrameOf
<1>4. frames' = Append(Front(frames), e)
      /\ UNCHANGED <<resolutionStack, caller, factories, made>>
  BY DEF GiveProxy, registered
<1> HIDE DEF e
<1> QED BY <1>1, <1>3, <1>4, TopMoves

LEMMA CallsFind == ASSUME Inv, NEW t \in Tokens, Find(t) PROVE SameCalls(Len(frames))
<1>1. PICK x \in Existing(t) : frames' = Append(Front(frames), Answered(Top, x))
  BY DEF Find
<1>2. x \in 1..Len(made)
  BY <1>1, ExistingType
<1>3. frames # <<>> /\ Asks(Top) /\ Top \in FrameOf(Len(made)) /\ Len(made) \in Nat
  BY FrameTypes DEF Find, Asked, Resolving
<1> DEFINE e == Answered(Top, x)
<1>4. e \in FrameOf(Len(made)) /\ e.token = Top.token /\ e.via = Top.via
      /\ (Top.inject = <<>> => e.inject = <<>>)
  BY <1>2, <1>3, AnsweredType
<1>5. frames' = Append(Front(frames), e)
      /\ UNCHANGED <<resolutionStack, caller, factories, made>>
  BY <1>1 DEF Find, registered
<1> HIDE DEF e
<1> QED BY <1>3, <1>4, <1>5, TopMoves

LEMMA CallsCatch == ASSUME Inv, Catch PROVE SameCalls(Len(frames))
<1> DEFINE e == [Top EXCEPT !.body = Tail(@)]
<1>1. frames # <<>> /\ Top.body # <<>> /\ Top \in FrameOf(Len(made))
  BY FrameTypes DEF Catch, Inner
<1>2. Tail(Top.body) \in Seq(Tokens)
  BY <1>1, HeadTailProperties DEF FrameOf
<1>3. e \in FrameOf(Len(made)) /\ e.token = Top.token /\ e.via = Top.via /\ e.inject = Top.inject
  BY <1>1, <1>2 DEF FrameOf
<1>4. frames' = Append(Front(frames), e)
      /\ UNCHANGED <<resolutionStack, caller, factories, made>>
  BY DEF Catch, registered
<1> HIDE DEF e
<1> QED BY <1>1, <1>3, <1>4, TopMoves

\* Putting brings no other token.
LEMMA PutOthers ==
    ASSUME NEW map, NEW n \in Nat, MapOf(map, n), NEW t \in Tokens, NEW x \in 1..n, NEW u, u # t, ~Has(map, u)
    PROVE  ~Has(Put(map, t, x), u)
<1> DEFINE p == Put(map, t, x)
<1>1. CASE Has(map, t)
  <2>1. /\ DOMAIN p = DOMAIN map
        /\ \A i \in DOMAIN map : p[i] = IF map[i].token = t THEN [token |-> t, inst |-> x] ELSE map[i]
    BY <1>1, PutPresent
  <2> HIDE DEF p
  <2>2. \A i \in DOMAIN p : p[i].token = map[i].token
    BY <2>1
  <2>3. ~Has(p, u)
    BY <2>1, <2>2 DEF Has
  <2> QED BY <2>3 DEF p
<1>2. CASE ~Has(map, t)
  <2>1. p = Append(map, [token |-> t, inst |-> x])
    BY <1>2, PutAbsent
  <2>2. Appended(map, [token |-> t, inst |-> x], p)
    BY <2>1, AppendedMap
  <2> HIDE DEF p
  <2>3. \A i \in DOMAIN p : p[i].token # u
    BY <2>2, AppendedIn DEF Has
  <2>4. ~Has(p, u)
    BY <2>3 DEF Has
  <2> QED BY <2>4 DEF p
<1> QED BY <1>1, <1>2

LEMMA AbsentKept ==
    ASSUME Inv, Absent, NEW m \in Nat, m <= Len(frames), SameCalls(m), UNCHANGED singletons
    PROVE  Absent'
<1>1. 2..Len(frames') \subseteq 2..Len(frames) /\ 2..Len(frames') \subseteq 1..m
  BY FrameTypes DEF SameCalls
<1> QED BY <1>1 DEF Absent, SameCalls

LEMMA AbsentBegin == ASSUME Inv, Absent, NEW t \in Tokens, Begin(t) PROVE Absent'
<1> DEFINE n == Len(frames)
           e == IF t \in DOMAIN factories /\ Scope[t] # "request"
                  THEN Frame(t, "factory", <<>>, factories[t].uses)
                  ELSE Frame(t, "constructor", Inject[t], Touches[t])
<1>1. frames' = Append(frames, e) /\ UNCHANGED singletons
  BY DEF Begin, registered
<1>2. e.token = t
  BY DEF Frame
<1>3. ~Has(singletons, t)
  BY DEF Begin, Existing
<1>4. n \in Nat /\ DOMAIN frames = 1..n
  BY FrameTypes
<1> HIDE DEF e
<1>5. Len(frames') = n + 1 /\ frames'[n + 1] = e /\ \A i \in 1..n : frames'[i] = frames[i]
  BY <1>1, <1>4, FrameTypes DEF Inv, FramesInv
<1>6. \A i \in 2..(n + 1) : i = n + 1 \/ (i \in 2..n /\ i \in 1..n)
  BY <1>4
<1> QED BY <1>1, <1>2, <1>3, <1>5, <1>6 DEF Absent

\* The other tokens that are being resolved are not that of the call that returns.
LEMMA AbsentReturn ==
    ASSUME Inv, Absent, Inner, NEW m \in Nat, Len(made) <= m, NEW x \in 1..m, Return(x)
    PROVE  Absent'
<1> DEFINE n == Len(frames)
<1>1. n \in Nat /\ n > 1 /\ Top = frames[n] /\ DOMAIN frames = 1..n
  BY TopEnds, FrameTypes
<1>2. SameCalls(n - 1)
  BY StackReturns DEF Return
<1>3. \A i \in 2..(n - 1) : i \in 2..n /\ i \in 1..(n - 1) /\ i \in 1..n /\ i # n
  <2>1. n \in Nat /\ n > 1
    BY <1>1
  <2> HIDE DEF n
  <2> QED BY <2>1
<1>4. \A i \in 2..(n - 1) : frames[i].token # Top.token
  <2>1. \A i, j \in 1..n : frames[i].token = frames[j].token => i = j
    BY <1>1 DEF Inv, StackInv, NoTokenTwice
  <2>2. n \in 1..n /\ Top = frames[n]
    BY <1>1
  <2> QED BY <1>3, <2>1, <2>2
<1>5. \A t : ~Has(singletons, t) /\ t # Top.token => ~Has(Put(singletons, Top.token, x), t)
  <2>1. MapOf(singletons, m) /\ Len(made) \in Nat
    BY RegisteredGrows, FrameTypes
  <2>2. Top.token \in Tokens
    <3>1. Runs(Top, Front(frames)[Len(Front(frames))], Last(resolutionStack))
      BY TopEnds
    <3> QED BY <3>1 DEF Runs
  <2> QED BY <2>1, <2>2, PutOthers
<1>6. singletons' = singletons \/ singletons' = Put(singletons, Top.token, x)
  BY DEF Return
<1>7. \A i \in 2..(n - 1) : ~Has(singletons', frames[i].token)
  BY <1>3, <1>4, <1>5, <1>6 DEF Absent
<1>8. Len(frames') = n - 1 /\ \A i \in 2..(n - 1) : frames'[i].token = frames[i].token
  BY <1>2, <1>3 DEF SameCalls
<1> QED BY <1>7, <1>8 DEF Absent

LEMMA AbsentStep == ASSUME Inv, Absent, [Next]_vars PROVE Absent'
<1>1. CASE UNCHANGED <<frames, singletons>>
  BY <1>1 DEF Absent
<1>2. CASE Len(frames') \in Nat /\ Len(frames') < 2
  BY <1>2 DEF Absent
<1>3. CASE Resolve
  <2>1. CASE Over
    BY <1>2, <2>1, EmptySeq DEF Over
  <2>2. CASE Fail \/ \E t \in Tokens : Refuse(t)
    BY <1>1, <2>2 DEF Fail, Refuse, registered
  <2>3. CASE Unwind
    <3>1. SameCalls(Len(frames) - 1) /\ UNCHANGED singletons
      BY <2>3, TopGone DEF Unwind, Popped, registered
    <3>2. Len(frames) \in Nat /\ Len(frames) > 1
      BY <2>3, TopEnds DEF Unwind
    <3> QED BY <3>1, <3>2, AbsentKept
  <2>4. CASE Complete
    <3>1. Inner /\ Len(made) \in Nat /\ Top.got \subseteq 1..Len(made)
      BY <2>4, FrameTypes DEF Complete, Resolving, FrameOf
    <3>2. Return(Len(made) + 1) \/ \E x \in Top.got : Return(x)
      BY <2>4 DEF Complete
    <3>3. CASE Return(Len(made) + 1)
      <4>1. Len(made) + 1 \in Nat /\ Len(made) <= Len(made) + 1 /\ Len(made) + 1 \in 1..(Len(made) + 1)
        BY <3>1
      <4> QED BY <3>1, <3>3, <4>1, AbsentReturn
    <3>4. CASE \E x \in Top.got : Return(x)
      BY <3>1, <3>4, AbsentReturn
    <3> QED BY <3>2, <3>3, <3>4
  <2>5. CASE GiveProxy \/ Catch \/ \E t \in Tokens : Find(t)
    <3>1. SameCalls(Len(frames))
      BY <2>5, CallsGiveProxy, CallsFind, CallsCatch
    <3>2. UNCHANGED singletons /\ Len(frames) \in Nat
      BY <2>5, FrameTypes DEF GiveProxy, Catch, Find, registered
    <3> QED BY <3>1, <3>2, AbsentKept
  <2> QED BY <1>3, <2>1, <2>2, <2>3, <2>4, <2>5, AbsentBegin DEF Resolve
<1>4. CASE Register
  <2>1. frames' = <<>>
    BY <1>4 DEF Register, Cleanup, Clear, RegisterInstance, RegisterFactory, Remove, Compile, Idle, running
  <2> QED BY <1>2, <2>1, EmptySeq
<1>5. CASE \E c \in Contexts \cup {None} : \E t \in Roots : Call(c, t)
  <2>1. Len(frames') = 1
    BY <1>5 DEF Call
  <2> QED BY <1>2, <2>1
<1>6. CASE \E c \in Contexts : RunInScope(c)
  BY <1>1, <1>6 DEF RunInScope, Enter, Finish, Teardown, HookSettles, Leave, HookRejects, registered, running
<1>7. CASE UNCHANGED vars
  BY <1>1, <1>7 DEF vars, registered, running
<1> QED BY <1>3, <1>4, <1>5, <1>6, <1>7 DEF Next

\* Instances keep what they are made of.
Extends(h, g) ==
    /\ Len(h) \in Nat /\ Len(g) \in Nat /\ Len(h) <= Len(g)
    /\ \A x \in 1..Len(h) :
          g[x].token = h[x].token /\ g[x].given = h[x].given /\ g[x].holds = h[x].holds

LEMMA AppendExtends ==
    ASSUME NEW h \in Seq(Instance), NEW b \in Instance, NEW g, g = Append(h, b)
    PROVE  Extends(h, g) /\ Len(g) = Len(h) + 1 /\ g[Len(h) + 1] = b
<1>1. Len(h) \in Nat
  BY LenProperties
<1> QED BY <1>1, AppendProperties DEF Extends

\* A call that returns adds its instance at the end of the map, or leaves the map alone.
LEMMA ReturnAppends ==
    ASSUME Inv, Absent, Inner, NEW x, Return(x)
    PROVE  /\ Top.token \in Tokens
           /\ \/ ~Keeps(Top) /\ singletons' = singletons
              \/ /\ Keeps(Top) /\ singletons' = Append(singletons, [token |-> Top.token, inst |-> x])
                 /\ Appended(singletons, [token |-> Top.token, inst |-> x], singletons')
<1>1. Top.token \in Tokens
  <2>1. Runs(Top, Front(frames)[Len(Front(frames))], Last(resolutionStack))
    BY TopEnds
  <2> QED BY <2>1 DEF Runs
<1>2. ~Has(singletons, Top.token)
  <2>1. Len(frames) \in Nat /\ Len(frames) > 1 /\ Top = frames[Len(frames)]
    BY TopEnds
  <2>2. Len(frames) \in 2..Len(frames)
    BY <2>1
  <2> QED BY <2>1, <2>2 DEF Absent
<1>3. MapOf(singletons, Len(made)) /\ Len(made) \in Nat
  BY RegisteredGrows, FrameTypes
<1>4. CASE Keeps(Top)
  <2>1. singletons' = Append(singletons, [token |-> Top.token, inst |-> x])
    BY <1>2, <1>4 DEF Return, Put
  <2> QED BY <1>1, <1>3, <1>4, <2>1, AppendedMap
<1>5. CASE ~Keeps(Top)
  BY <1>1, <1>5 DEF Return
<1> QED BY <1>4, <1>5

LEMMA HoldingKept ==
    ASSUME Inv, Holding, Extends(made, made'),
           \A x \in 1..Len(made') : x \in 1..Len(made) \/ x \in dropped' \/ ~Single(x)',
           dropped \subseteq dropped',
           \A i \in DOMAIN singletons :
              singletons[i].inst \in dropped' \/ \E j \in DOMAIN singletons' : singletons'[j] = singletons[i]
    PROVE  Holding'
<1> SUFFICES ASSUME NEW x \in 1..Len(made'), x \notin dropped', Single(x)'
             PROVE  \E j \in DOMAIN singletons' : singletons'[j] = [token |-> made'[x].token, inst |-> x]
  BY DEF Holding
<1>1. x \in 1..Len(made) /\ made'[x].token = made[x].token /\ made'[x].given = made[x].given
  BY DEF Extends
<1>2. Single(x) /\ x \notin dropped
  BY <1>1 DEF Single
<1>3. PICK i \in DOMAIN singletons : singletons[i] = [token |-> made[x].token, inst |-> x]
  BY <1>1, <1>2 DEF Holding
<1> QED BY <1>1, <1>3

\* Steps that change neither the registrations nor the instances' tokens.
LEMMA HoldingSame ==
    ASSUME Inv, Holding, UNCHANGED <<singletons, dropped, made>>
    PROVE  Holding'
BY DEF Holding, Single

LEMMA HoldingComplete == ASSUME Inv, Absent, Holding, Complete PROVE Holding'
<1>1. Inner /\ dropped' = dropped /\ made \in Seq(Instance) /\ Len(made) \in Nat
  BY FrameTypes DEF Complete, Return, Inv, MadeInv
<1>2. CASE made' = Append(made, Built(Top)) /\ Return(Len(made) + 1)
  <2> DEFINE n == Len(made) + 1
  <2>1. MadeInv'
    BY StepComplete DEF Inv
  <2>2. \A x \in 1..Len(made) : made'[x] = made[x]
    BY <1>1, <1>2
  <2>3. made'[n].token = Top.token /\ Len(made') = n
    BY <1>1, <1>2 DEF Built
  <2>4. /\ Top.token \in Tokens
        /\ \/ ~Keeps(Top) /\ singletons' = singletons
           \/ /\ Keeps(Top)
              /\ Appended(singletons, [token |-> Top.token, inst |-> n], singletons')
    BY <1>1, <1>2, ReturnAppends
  <2> SUFFICES ASSUME NEW x \in 1..n, x \notin dropped, Single(x)'
               PROVE  \E i \in DOMAIN singletons' : singletons'[i] = [token |-> made'[x].token, inst |-> x]
    BY <1>1, <2>3 DEF Holding
  <2>5. CASE x = n
    <3>1. Keeps(Top)
      BY <2>3, <2>5 DEF Single, Keeps
    <3>2. Appended(singletons, [token |-> Top.token, inst |-> n], singletons')
      BY <2>4, <3>1
    <3>3. Len(singletons) + 1 \in DOMAIN singletons'
          /\ singletons'[Len(singletons) + 1] = [token |-> Top.token, inst |-> n]
      BY <3>2 DEF Appended
    <3> QED BY <2>3, <2>5, <3>3
  <2>6. CASE x # n
    <3>1. x \in 1..Len(made)
      BY <1>1, <2>6
    <3>2. Single(x) /\ made'[x].token = made[x].token
      BY <2>2, <3>1 DEF Single
    <3>3. PICK i \in DOMAIN singletons : singletons[i] = [token |-> made[x].token, inst |-> x]
      BY <3>1, <3>2 DEF Holding
    <3>4. i \in DOMAIN singletons' /\ singletons'[i] = singletons[i]
      BY <2>4, <3>3 DEF Appended
    <3> QED BY <3>2, <3>3, <3>4
  <2> QED BY <2>5, <2>6
<1>3. CASE UNCHANGED made /\ \E x \in Top.got : Return(x)
  <2>1. PICK x : Return(x)
    BY <1>3
  <2>2. \A i \in DOMAIN singletons : i \in DOMAIN singletons' /\ singletons'[i] = singletons[i]
    <3>1. \/ singletons' = singletons
          \/ Appended(singletons, [token |-> Top.token, inst |-> x], singletons')
      BY <1>1, <2>1, ReturnAppends
    <3> QED BY <3>1 DEF Appended
  <2>3. Extends(made, made')
    BY <1>1, <1>3 DEF Extends
  <2> QED BY <1>1, <1>3, <2>2, <2>3, HoldingKept
<1> QED BY <1>2, <1>3 DEF Complete

\* What a change of the registrations takes away is dropped.
LEMMA GoneDropped ==
    ASSUME dropped' = Gone(singletons')
    PROVE  /\ dropped \subseteq dropped'
           /\ \A i \in DOMAIN singletons :
                 singletons[i].inst \in dropped' \/ \E j \in DOMAIN singletons' : singletons'[j] = singletons[i]
BY DEF Gone, Entries

LEMMA HoldingRegister == ASSUME Inv, Holding, Register PROVE Holding'
<1>1. made \in Seq(Instance) /\ Len(made) \in Nat
  BY FrameTypes DEF Inv, MadeInv
<1>2. ASSUME dropped' = Gone(singletons'),
             UNCHANGED made \/ \E t \in Tokens : made' = Append(made, Given(t))
      PROVE  Holding'
  <2>1. CASE UNCHANGED made
    <3>1. Extends(made, made') /\ \A x \in 1..Len(made') : x \in 1..Len(made)
      BY <1>1, <2>1 DEF Extends
    <3> QED BY <1>2, <3>1, GoneDropped, HoldingKept
  <2>2. CASE \E t \in Tokens : made' = Append(made, Given(t))
    <3>1. PICK t \in Tokens : made' = Append(made, Given(t))
      BY <2>2
    <3>2. Given(t) \in Instance /\ Given(t).given
      BY Constants DEF Given, Instance
    <3>3. Extends(made, made') /\ Len(made') = Len(made) + 1 /\ made'[Len(made) + 1] = Given(t)
      BY <1>1, <3>1, <3>2, AppendExtends
    <3>4. \A x \in 1..Len(made') : x \in 1..Len(made) \/ ~Single(x)'
      BY <1>1, <3>2, <3>3 DEF Single
    <3> QED BY <1>2, <3>3, <3>4, GoneDropped, HoldingKept
  <2> QED BY <1>2, <2>1, <2>2
<1>3. CASE Cleanup \/ Clear \/ \E t \in Changed : Remove(t)
  BY <1>2, <1>3 DEF Cleanup, Clear, Remove
<1>4. CASE \E t \in Changed : RegisterInstance(t) \/ Compile(t)
  <2>1. dropped' = Gone(singletons')
    BY <1>4 DEF RegisterInstance, Compile
  <2>2. UNCHANGED made \/ \E t \in Tokens : made' = Append(made, Given(t))
    BY <1>4, Constants DEF RegisterInstance, Compile
  <2> QED BY <1>2, <2>1, <2>2
<1>5. CASE \E t \in Changed : RegisterFactory(t)
  BY <1>5, HoldingSame DEF RegisterFactory
<1> QED BY <1>3, <1>4, <1>5 DEF Register

\* A scope makes nothing: it counts what it destroys.
LEMMA ScopeExtends ==
    ASSUME Inv, NEW c \in Contexts, RunInScope(c)
    PROVE  Extends(made, made') /\ Len(made') = Len(made) /\ UNCHANGED <<singletons, dropped, snap>>
<1>1. UNCHANGED <<singletons, dropped, snap>>
  BY DEF RunInScope, Enter, Finish, Teardown, HookSettles, Leave, HookRejects, registered
<1>2. made \in Seq(Instance) /\ Len(made) \in Nat
  BY FrameTypes DEF Inv, MadeInv
<1>3. CASE UNCHANGED made
  BY <1>1, <1>2, <1>3 DEF Extends
<1>4. CASE Teardown(c) /\ made' = [made EXCEPT ![Here(c).inst].destroyed = @ + 1]
  <2> DEFINE x == Here(c).inst
  <2> HIDE DEF x
  <2>1. /\ made' = [made EXCEPT ![x] = [made[x] EXCEPT !.destroyed = made[x].destroyed + 1]]
        /\ made' \in Seq(Instance)
    <3>1. Inv'
      BY <1>4, StepTeardown
    <3> QED BY <1>4, <3>1 DEF x, Inv, MadeInv
  <2>2. DOMAIN made = 1..Len(made) /\ Len(made') = Len(made) /\ \A y \in 1..Len(made) : made[y] \in Instance
    BY <1>2, <2>1, LenProperties, ElementOfSeq
  <2>3. Extends(made, made')
    BY <1>2, <2>1, <2>2 DEF Extends, Instance
  <2> QED BY <1>1, <2>2, <2>3
<1> QED BY <1>3, <1>4 DEF RunInScope, Enter, Finish, Teardown, HookSettles, Leave, HookRejects

LEMMA HoldingStep == ASSUME Inv, Absent, Holding, [Next]_vars PROVE Holding'
<1>1. CASE Resolve
  BY <1>1, HoldingComplete, HoldingSame
     DEF Resolve, GiveProxy, Fail, Catch, Unwind, Over, Refuse, Find, Begin, registered
<1>2. CASE Register
  BY <1>2, HoldingRegister
<1>3. CASE \E c \in Contexts \cup {None} : \E t \in Roots : Call(c, t)
  BY <1>3, HoldingSame DEF Call, registered
<1>4. CASE \E c \in Contexts : RunInScope(c)
  <2>1. Extends(made, made') /\ Len(made') = Len(made) /\ UNCHANGED <<singletons, dropped>>
    BY <1>4, ScopeExtends
  <2> QED BY <2>1, HoldingKept
<1>5. CASE UNCHANGED vars
  BY <1>5, HoldingSame DEF vars, registered
<1> QED BY <1>1, <1>2, <1>3, <1>4, <1>5 DEF Next

\* A @Singleton class has one instance as long as its registration is not taken away,
\* with any factories, aliases among them, and whatever fails.
THEOREM OneSingletonHolds == Spec => []OneSingleton
<1>1. Init => Absent /\ Holding
  BY EmptySeq DEF Init, Absent, Holding
<1>2. Inv /\ Absent /\ Holding /\ [Next]_vars => (Absent /\ Holding)'
  BY AbsentStep, HoldingStep
<1>3. Inv /\ Holding => OneSingleton
  <2> SUFFICES ASSUME Inv, Holding,
                      NEW x \in Number \ dropped, NEW y \in Number \ dropped,
                      Single(x), Single(y), made[x].token = made[y].token
               PROVE  x = y
    BY DEF OneSingleton
  <2>1. x \in 1..Len(made) /\ y \in 1..Len(made)
    BY LenProperties DEF Number, Inv, MadeInv
  <2>2. PICK i \in DOMAIN singletons : singletons[i] = [token |-> made[x].token, inst |-> x]
    BY <2>1 DEF Holding
  <2>3. PICK j \in DOMAIN singletons : singletons[j] = [token |-> made[y].token, inst |-> y]
    BY <2>1 DEF Holding
  <2>4. i = j
    BY <2>2, <2>3 DEF Inv, RegisteredInv, MapOf
  <2> QED BY <2>2, <2>3, <2>4
<1> QED BY <1>1, <1>2, <1>3, Invariant, PTL DEF Spec

-----------------------------------------------------------------------------
(* The order of the singletons. *)

\* A map whose entries come after what they hold; h says what instances hold.
OrderedIn(map, h) ==
    \A i, j \in DOMAIN map : map[j].inst \in h[map[i].inst].holds => j < i

Ordered == OrderedIn(singletons, made) /\ (snap # None => OrderedIn(snap.singletons, made))

LEMMA MapInst ==
    ASSUME NEW map, NEW n \in Nat, MapOf(map, n)
    PROVE  /\ Len(map) \in Nat /\ DOMAIN map = 1..Len(map)
           /\ \A i \in 1..Len(map) : map[i].inst \in 1..n
<1>1. Len(map) \in Nat /\ DOMAIN map = 1..Len(map) /\ \A i \in 1..Len(map) : map[i] \in EntryOf(n)
  BY LenProperties, ElementOfSeq DEF MapOf
<1> QED BY <1>1 DEF EntryOf

LEMMA OrderedGrows ==
    ASSUME NEW h, NEW g, Extends(h, g), NEW map, MapOf(map, Len(h)), OrderedIn(map, h)
    PROVE  OrderedIn(map, g)
<1>1. DOMAIN map = 1..Len(map) /\ \A i \in 1..Len(map) : map[i].inst \in 1..Len(h)
  BY MapInst DEF Extends
<1> QED BY <1>1 DEF OrderedIn, Extends

\* What is new and comes last is held by nothing that came before.
LEMMA OrderedAppended ==
    ASSUME NEW g, NEW n \in Nat, NEW map, MapOf(map, n), OrderedIn(map, g),
           \A y \in 1..(n + 1) : g[y].holds \subseteq 1..(y - 1),
           NEW e, e.inst = n + 1, NEW new, Appended(map, e, new)
    PROVE  OrderedIn(new, g)
<1> DEFINE k == Len(map)
<1>1. k \in Nat /\ DOMAIN map = 1..k /\ \A i \in 1..k : map[i].inst \in 1..n
  BY MapInst
<1>2. DOMAIN new = 1..(k + 1) /\ (\A i \in 1..k : new[i] = map[i]) /\ new[k + 1] = e
  BY DEF Appended
<1> HIDE DEF k
<1> SUFFICES ASSUME NEW i \in 1..(k + 1), NEW j \in 1..(k + 1), new[j].inst \in g[new[i].inst].holds
             PROVE  j < i
  BY <1>2 DEF OrderedIn
<1>3. new[i].inst \in 1..(n + 1)
  BY <1>1, <1>2
<1>4. new[j].inst # n + 1
  BY <1>3
<1>5. j \in 1..k
  BY <1>1, <1>2, <1>4
<1>6. CASE i = k + 1
  BY <1>1, <1>5, <1>6
<1>7. CASE i # k + 1
  <2>1. i \in 1..k
    BY <1>1, <1>7
  <2>2. new[i] = map[i] /\ new[j] = map[j]
    BY <1>2, <1>5, <2>1
  <2> QED BY <1>1, <1>5, <2>1, <2>2 DEF OrderedIn
<1> QED BY <1>6, <1>7

\* What is new and holds nothing may also replace an entry.
LEMMA OrderedPut ==
    ASSUME NEW g, NEW n \in Nat, NEW map, MapOf(map, n), OrderedIn(map, g),
           \A y \in 1..(n + 1) : g[y].holds \subseteq 1..(y - 1), g[n + 1].holds = {},
           NEW t \in Tokens
    PROVE  OrderedIn(Put(map, t, n + 1), g)
<1> DEFINE e == [token |-> t, inst |-> n + 1]
           p == Put(map, t, n + 1)
<1>1. MapOf(map, n + 1)
  BY MapGrows
<1>2. CASE ~Has(map, t)
  <2>1. p = Append(map, e)
    BY <1>1, <1>2, PutAbsent
  <2>2. Appended(map, e, Append(map, e))
    BY AppendedMap
  <2> QED BY <2>1, <2>2, OrderedAppended
<1>3. CASE Has(map, t)
  <2>1. DOMAIN p = DOMAIN map /\ \A i \in DOMAIN map : p[i] = IF map[i].token = t THEN e ELSE map[i]
    BY <1>1, <1>3, PutPresent
  <2>2. DOMAIN map = 1..Len(map) /\ Len(map) \in Nat /\ \A i \in 1..Len(map) : map[i].inst \in 1..n
    BY MapInst
  <2> HIDE DEF p
  <2> SUFFICES ASSUME NEW i \in DOMAIN map, NEW j \in DOMAIN map, p[j].inst \in g[p[i].inst].holds
               PROVE  j < i
    BY <2>1 DEF OrderedIn, p
  <2>3. p[i].inst \in 1..(n + 1)
    BY <2>1, <2>2
  <2>4. p[i].inst # n + 1 /\ p[j].inst # n + 1
    BY <2>3
  <2>5. p[i] = map[i] /\ p[j] = map[j]
    BY <2>1, <2>4
  <2> QED BY <2>5 DEF OrderedIn
<1> QED BY <1>2, <1>3

LEMMA OrderedWithout ==
    ASSUME NEW g, NEW n \in Nat, NEW map, MapOf(map, n), OrderedIn(map, g), NEW t
    PROVE  OrderedIn(Without(map, t), g)
<1> DEFINE w == Without(map, t)
<1>1. \A i, j \in DOMAIN w : \E k, l \in DOMAIN map :
         w[i] = map[k] /\ w[j] = map[l] /\ (k < l <=> i < j)
  BY WithoutMap
<1> HIDE DEF w
<1>2. OrderedIn(w, g)
  BY <1>1 DEF OrderedIn
<1> QED BY <1>2 DEF w

\* Nothing was made and nothing registered.
LEMMA OrderedSame ==
    ASSUME Ordered, UNCHANGED <<singletons, snap, made>>
    PROVE  Ordered'
BY DEF Ordered

\* Factories of singletons return something new.
NoAlias == \A t \in Tokens : Scope[t] = "singleton" => \A b \in Bodies[t] : ~b.same

LEMMA OrderedComplete == ASSUME NoAlias, Inv, Absent, Ordered, Complete PROVE Ordered'
<1>1. Inner /\ snap' = snap /\ made \in Seq(Instance) /\ Len(made) \in Nat
      /\ MapOf(singletons, Len(made)) /\ (snap # None => MapOf(snap.singletons, Len(made)))
  BY FrameTypes DEF Complete, Return, Inv, MadeInv, RegisteredInv
<1>2. CASE made' = Append(made, Built(Top)) /\ Return(Len(made) + 1)
  <2> DEFINE n == Len(made)
  <2>1. MadeInv'
    BY StepComplete DEF Inv
  <2>2. Len(made') = n + 1 /\ \A x \in 1..n : made'[x] = made[x]
    BY <1>1, <1>2
  <2>3. Extends(made, made')
    BY <1>1, <2>2 DEF Extends
  <2>4. snap # None => OrderedIn(snap.singletons, made')
    BY <1>1, <2>3, OrderedGrows DEF Ordered
  <2>5. OrderedIn(singletons, made')
    BY <1>1, <2>3, OrderedGrows DEF Ordered
  <2>6. \A y \in 1..(n + 1) : made'[y].holds \subseteq 1..(y - 1)
    BY <2>1, <2>2 DEF MadeInv
  <2>7. \/ singletons' = singletons
        \/ Appended(singletons, [token |-> Top.token, inst |-> n + 1], singletons')
    BY <1>1, <1>2, ReturnAppends
  <2> DEFINE e == [token |-> Top.token, inst |-> n + 1]
             g == made'
             new == singletons'
  <2>8. e.inst = n + 1
    OBVIOUS
  <2> HIDE DEF e, g, new
  <2>9. OrderedIn(new, g)
    <3>1. CASE new = singletons
      BY <2>5, <3>1 DEF g
    <3>2. CASE Appended(singletons, e, new)
      <4>1. OrderedIn(singletons, g) /\ \A y \in 1..(n + 1) : g[y].holds \subseteq 1..(y - 1)
        BY <2>5, <2>6 DEF g
      <4> QED BY <1>1, <2>8, <3>2, <4>1, OrderedAppended
    <3> QED BY <2>7, <3>1, <3>2 DEF e, new
  <2> QED BY <1>1, <2>4, <2>9 DEF Ordered, g, new
<1>3. CASE Passes(Top) /\ UNCHANGED made /\ \E x \in Top.got : Return(x)
  <2>1. ~Keeps(Top)
    <3>1. Runs(Top, Front(frames)[Len(Front(frames))], Last(resolutionStack))
      BY <1>1, TopEnds
    <3>2. Top.token \in Tokens /\ factories[Top.token] \in Bodies[Top.token]
      BY <1>3, <3>1 DEF Passes, Runs, Inv, RegisteredInv, FactoriesOf
    <3> QED BY <1>3, <3>2 DEF NoAlias, Passes, Keeps
  <2>2. UNCHANGED singletons
    BY <1>3, <2>1 DEF Return
  <2> QED BY <1>1, <1>3, <2>2, OrderedSame
<1> QED BY <1>2, <1>3 DEF Complete

LEMMA OrderedRegister == ASSUME Inv, Ordered, Register PROVE Ordered'
<1>1. /\ made \in Seq(Instance) /\ Len(made) \in Nat
      /\ MapOf(singletons, Len(made)) /\ (snap # None => MapOf(snap.singletons, Len(made)))
  BY FrameTypes DEF Inv, MadeInv, RegisteredInv
<1>2. ASSUME NEW t \in Tokens, made' = Append(made, Given(t))
      PROVE  /\ Len(made') = Len(made) + 1 /\ OrderedIn(singletons, made')
             /\ snap # None => OrderedIn(snap.singletons, made')
             /\ made'[Len(made) + 1].holds = {}
             /\ \A y \in 1..(Len(made) + 1) : made'[y].holds \subseteq 1..(y - 1)
  <2>1. Given(t) \in Instance /\ Given(t).holds = {}
    BY Constants DEF Given, Instance
  <2>2. Extends(made, made') /\ Len(made') = Len(made) + 1 /\ made'[Len(made) + 1] = Given(t)
    BY <1>1, <1>2, <2>1, AppendExtends
  <2>3. \A y \in 1..(Len(made) + 1) : made'[y].holds \subseteq 1..(y - 1)
    <3>1. MadeInv'
      BY <1>2, GivenMade
    <3> QED BY <2>2, <3>1 DEF MadeInv
  <2> QED BY <1>1, <2>1, <2>2, <2>3, OrderedGrows DEF Ordered
<1>3. CASE Cleanup
  BY <1>3 DEF Cleanup, Ordered
<1>4. CASE Clear
  BY <1>4 DEF Clear, Ordered, OrderedIn
<1>5. ASSUME NEW t \in Changed PROVE RegisterInstance(t) => Ordered'
  <2> SUFFICES ASSUME RegisterInstance(t) PROVE Ordered'
    OBVIOUS
  <2>1. t \in Tokens
    BY Constants
  <2>2. /\ made' = Append(made, Given(t)) /\ snap' = snap
        /\ singletons' = Put(singletons, t, Len(made) + 1)
    BY DEF RegisterInstance
  <2> DEFINE g == made'
  <2>3. /\ OrderedIn(singletons, g) /\ g[Len(made) + 1].holds = {}
        /\ snap # None => OrderedIn(snap.singletons, g)
        /\ \A y \in 1..(Len(made) + 1) : g[y].holds \subseteq 1..(y - 1)
    BY <1>2, <2>1, <2>2
  <2> HIDE DEF g
  <2>4. OrderedIn(Put(singletons, t, Len(made) + 1), g)
    BY <1>1, <2>1, <2>3, OrderedPut
  <2> QED BY <2>2, <2>3, <2>4 DEF Ordered, g
<1>6. ASSUME NEW t \in Changed PROVE RegisterFactory(t) => Ordered'
  BY OrderedSame DEF RegisterFactory
<1>7. ASSUME NEW t \in Changed PROVE Remove(t) => Ordered'
  BY <1>1, OrderedWithout DEF Remove, Unregister, Ordered
<1>8. ASSUME NEW t \in Changed PROVE Compile(t) => Ordered'
  <2> SUFFICES ASSUME Compile(t) PROVE Ordered'
    OBVIOUS
  <2> DEFINE rest == Without(singletons, t)
             e == [token |-> t, inst |-> Len(made) + 1]
  <2>1. t \in Tokens /\ snap' = [singletons |-> singletons, factories |-> factories] /\ MapOf(rest, Len(made))
    BY <1>1, Constants, WithoutMap DEF Compile
  <2>2. CASE made' = Append(made, Given(t)) /\ singletons' = Append(rest, e)
    <3> DEFINE g == made'
    <3>1. /\ OrderedIn(singletons, g)
          /\ \A y \in 1..(Len(made) + 1) : g[y].holds \subseteq 1..(y - 1)
      BY <1>2, <2>1, <2>2
    <3>2. Appended(rest, e, Append(rest, e))
      BY <1>1, <2>1, AppendedMap
    <3>3. e.inst = Len(made) + 1
      OBVIOUS
    <3> HIDE DEF g, e
    <3>4. OrderedIn(rest, g)
      BY <1>1, <3>1, OrderedWithout
    <3> HIDE DEF rest
    <3>5. OrderedIn(Append(rest, e), g)
      BY <1>1, <2>1, <3>1, <3>2, <3>3, <3>4, OrderedAppended
    <3> QED BY <2>1, <2>2, <3>1, <3>5 DEF Ordered, g
  <2>3. CASE UNCHANGED made /\ singletons' = rest
    <3>1. OrderedIn(rest, made)
      BY <1>1, OrderedWithout DEF Ordered
    <3> HIDE DEF rest
    <3> QED BY <2>1, <2>3, <3>1 DEF Ordered
  <2> QED BY <2>2, <2>3 DEF Compile
<1> QED BY <1>3, <1>4, <1>5, <1>6, <1>7, <1>8 DEF Register

LEMMA OrderedStep == ASSUME NoAlias, Inv, Absent, Ordered, [Next]_vars PROVE Ordered'
<1>1. CASE Resolve
  BY <1>1, OrderedComplete, OrderedSame
     DEF Resolve, GiveProxy, Fail, Catch, Unwind, Over, Refuse, Find, Begin, registered
<1>2. CASE Register
  BY <1>2, OrderedRegister
<1>3. CASE \E c \in Contexts \cup {None} : \E t \in Roots : Call(c, t)
  BY <1>3, OrderedSame DEF Call, registered
<1>4. CASE \E c \in Contexts : RunInScope(c)
  <2>1. Extends(made, made') /\ UNCHANGED <<singletons, snap>>
    BY <1>4, ScopeExtends
  <2>2. MapOf(singletons, Len(made)) /\ (snap # None => MapOf(snap.singletons, Len(made)))
    BY DEF Inv, RegisteredInv
  <2> DEFINE g == made'
  <2> HIDE DEF g
  <2>3. Extends(made, g)
    BY <2>1 DEF g
  <2>4. OrderedIn(singletons, g) /\ (snap # None => OrderedIn(snap.singletons, g))
    BY <2>2, <2>3, OrderedGrows DEF Ordered
  <2> QED BY <2>1, <2>4 DEF Ordered, g
<1>5. CASE UNCHANGED vars
  BY <1>5, OrderedSame DEF vars, registered
<1> QED BY <1>1, <1>2, <1>3, <1>4, <1>5 DEF Next

\* Unless a singleton's factory may return what has another token, the map that shutdown()
\* follows backwards has a singleton after those it holds, whatever is registered anew.
THEOREM DependenciesFirstHolds == ASSUME NoAlias PROVE Spec => []DependenciesFirst
<1>1. Init => Absent /\ Ordered
  BY EmptySeq DEF Init, Absent, Ordered, OrderedIn
<1>2. Inv /\ Absent /\ Ordered /\ [Next]_vars => (Absent /\ Ordered)'
  BY AbsentStep, OrderedStep
<1>3. Ordered => DependenciesFirst
  BY DEF Ordered, OrderedIn, DependenciesFirst
<1> QED BY <1>1, <1>2, <1>3, Invariant, PTL DEF Spec

-----------------------------------------------------------------------------
(* Singletons and requests. *)

\* Factories resolve no class that is request-scoped.
NoRequestUses ==
    \A t \in Tokens : \A b \in Bodies[t] : \A k \in DOMAIN b.uses : Scope[b.uses[k]] # "request"

\* What a call has got, or a factory is still to resolve, is of no request.
FreeFrame(f, h) ==
    /\ \A y \in f.got : Scope[h[y].token] # "request"
    /\ f.via = "factory" => \A k \in DOMAIN f.body : Scope[f.body[k]] # "request"

FreeMap(map, h) ==
    \A i \in DOMAIN map : Scope[map[i].token] # "request" => Scope[h[map[i].inst].token] # "request"

FreeMaps(h) == FreeMap(singletons, h) /\ (snap # None => FreeMap(snap.singletons, h))
FreeHolds(h) == \A x \in 1..Len(h) : \A y \in h[x].holds : Scope[h[y].token] # "request"
FreeFrames(h) == \A i \in 1..Len(frames) : FreeFrame(frames[i], h)

Free == FreeMaps(made) /\ FreeHolds(made) /\ FreeFrames(made)

LEMMA FreeMapGrows ==
    ASSUME NEW h, NEW g, Extends(h, g), NEW map, MapOf(map, Len(h)), FreeMap(map, h)
    PROVE  FreeMap(map, g)
<1>1. DOMAIN map = 1..Len(map) /\ \A i \in 1..Len(map) : map[i].inst \in 1..Len(h)
  BY MapInst DEF Extends
<1> QED BY <1>1 DEF FreeMap, Extends

LEMMA FreeFrameGrows ==
    ASSUME NEW h, NEW g, Extends(h, g), NEW f \in FrameOf(Len(h)), FreeFrame(f, h)
    PROVE  FreeFrame(f, g)
<1>1. f.got \subseteq 1..Len(h)
  BY DEF FrameOf
<1> QED BY <1>1 DEF FreeFrame, Extends

\* What grows stays free, when what is new holds nothing of a request.
LEMMA FreeGrows ==
    ASSUME Inv, Free, NEW g, Extends(made, g),
           \A x \in 1..Len(g) : x \notin 1..Len(made) =>
              \A y \in g[x].holds : y \in 1..Len(made) /\ Scope[made[y].token] # "request"
    PROVE  FreeMaps(g) /\ FreeHolds(g) /\ FreeFrames(g)
<1>1. FreeMaps(g)
  BY FreeMapGrows DEF Free, FreeMaps, Inv, RegisteredInv
<1>2. FreeHolds(g)
  <2> SUFFICES ASSUME NEW x \in 1..Len(g), NEW y \in g[x].holds PROVE Scope[g[y].token] # "request"
    BY DEF FreeHolds
  <2>1. y \in 1..Len(made) /\ Scope[made[y].token] # "request"
    <3>1. CASE x \in 1..Len(made)
      <4>1. y \in made[x].holds /\ made[x].holds \subseteq 1..(x - 1)
        BY <3>1 DEF Extends, Inv, MadeInv
      <4> QED BY <3>1, <4>1, FrameTypes DEF Free, FreeHolds
    <3>2. CASE x \notin 1..Len(made)
      BY <3>2
    <3> QED BY <3>1, <3>2
  <2> QED BY <2>1 DEF Extends
<1>3. FreeFrames(g)
  BY FrameTypes, FreeFrameGrows DEF Free, FreeFrames
<1> QED BY <1>1, <1>2, <1>3

LEMMA AnsweredFree ==
    ASSUME NEW n \in Nat, NEW f \in FrameOf(n), Asks(f), ~Proxied(f), NEW h, FreeFrame(f, h), NEW x,
           Scope[Wanted(f)] # "request" => Scope[h[x].token] # "request"
    PROVE  FreeFrame(Answered(f, x), h)
<1>1. CASE f.inject # <<>>
  <2>1. Scope[Wanted(f)] # "request"
    BY <1>1 DEF Proxied, Wanted
  <2>2. Answered(f, x).got = f.got \cup {x} /\ Answered(f, x).body = f.body /\ Answered(f, x).via = f.via
    BY <1>1 DEF Answered, FrameOf
  <2> QED BY <2>1, <2>2 DEF FreeFrame
<1>2. CASE f.inject = <<>>
  <2>1. f.body \in Seq(Tokens) /\ f.body # <<>> /\ Wanted(f) = Head(f.body)
    BY <1>2 DEF Asks, Wanted, FrameOf
  <2>2. /\ Answered(f, x).via = f.via /\ Answered(f, x).body = Tail(f.body)
        /\ Answered(f, x).got = IF f.via = "factory" THEN f.got \cup {x} ELSE f.got
    BY <1>2 DEF Answered, FrameOf
  <2>3. CASE f.via = "factory"
    <3>1. \A k \in DOMAIN f.body : Scope[f.body[k]] # "request"
      BY <2>3 DEF FreeFrame
    <3>2. Head(f.body) = f.body[1] /\ Len(f.body) \in Nat \ {0} /\ DOMAIN f.body = 1..Len(f.body)
      BY <2>1, EmptySeq, LenProperties, HeadTailProperties
    <3>3. Scope[Wanted(f)] # "request"
      BY <2>1, <3>1, <3>2
    <3> DEFINE r == Tail(f.body)
    <3>4. r \in Seq(Tokens) /\ Len(r) = Len(f.body) - 1 /\ \A k \in 1..Len(r) : r[k] = f.body[k + 1]
      BY <2>1, HeadTailProperties
    <3> HIDE DEF r
    <3>5. DOMAIN r = 1..Len(r)
      BY <3>4, LenProperties
    <3>6. \A k \in DOMAIN r : Scope[r[k]] # "request"
      <4> SUFFICES ASSUME NEW k \in 1..Len(r) PROVE Scope[r[k]] # "request"
        BY <3>5
      <4>1. k + 1 \in DOMAIN f.body
        BY <3>2, <3>4
      <4> QED BY <3>1, <3>4, <4>1
    <3> QED BY <2>2, <3>3, <3>6 DEF FreeFrame, r
  <2>4. CASE f.via # "factory"
    BY <2>2, <2>4 DEF FreeFrame
  <2> QED BY <2>3, <2>4
<1> QED BY <1>1, <1>2

\* The calls that go on stay free.
LEMMA FreeFramesMove ==
    ASSUME Inv, NEW g, FreeFrames(g), NEW m \in Nat, m <= Len(frames), NEW e, LastMoves(m, e),
           FreeFrame(e, g)
    PROVE  \A i \in 1..Len(frames') : FreeFrame(frames'[i], g)
<1> SUFFICES ASSUME NEW i \in 1..m PROVE FreeFrame(frames'[i], g)
  BY DEF LastMoves
<1>1. CASE i = m
  BY <1>1 DEF LastMoves
<1>2. CASE i # m
  <2>1. i \in 1..(m - 1) /\ i \in 1..Len(frames)
    BY <1>2, FrameTypes
  <2> QED BY <2>1 DEF LastMoves, FreeFrames
<1> QED BY <1>1, <1>2

\* An instance that is found under a token of no request is of no request.
LEMMA FreeFound ==
    ASSUME Inv, Free, NEW t \in Tokens, Scope[t] # "request", NEW x \in Existing(t)
    PROVE  Scope[made[x].token] # "request"
<1>1. Has(singletons, t) /\ x = Get(singletons, t)
  BY DEF Existing
<1>2. MapOf(singletons, Len(made)) /\ Len(made) \in Nat
  BY FrameTypes DEF Inv, RegisteredInv
<1>3. PICK i \in DOMAIN singletons : singletons[i] = [token |-> t, inst |-> x]
  BY <1>1, <1>2, GetIn
<1> QED BY <1>3 DEF Free, FreeMaps, FreeMap

LEMMA FreeGiveProxy == ASSUME Inv, Free, GiveProxy PROVE FreeFrames(made)'
<1> DEFINE e == [Top EXCEPT !.inject = Tail(@)]
           n == Len(frames)
<1>1. frames # <<>> /\ Top.inject # <<>> /\ Top \in FrameOf(Len(made)) /\ n \in Nat \ {0} /\ Top = frames[n]
  BY FrameTypes DEF GiveProxy, Resolving, Proxied
<1>2. Tail(Top.inject) \in Seq(Tokens)
  BY <1>1, HeadTailProperties DEF FrameOf
<1>3. /\ e \in FrameOf(Len(made)) /\ e.token = Top.token /\ e.via = Top.via
      /\ e.got = Top.got /\ e.body = Top.body
  BY <1>1, <1>2 DEF FrameOf
<1>4. frames' = Append(Front(frames), e) /\ UNCHANGED <<resolutionStack, caller, factories, made>>
  BY DEF GiveProxy, registered
<1>5. FreeFrames(made) /\ FreeFrame(Top, made)
  BY <1>1 DEF Free, FreeFrames
<1>6. FreeFrame(e, made)
  BY <1>3, <1>5 DEF FreeFrame
<1> HIDE DEF e
<1>7. LastMoves(n, e)
  BY <1>1, <1>3, <1>4, TopMoves
<1>8. \A i \in 1..Len(frames') : FreeFrame(frames'[i], made)
  BY <1>1, <1>5, <1>6, <1>7, FreeFramesMove
<1> QED BY <1>4, <1>8 DEF FreeFrames

LEMMA FreeCatch == ASSUME Inv, Free, Catch PROVE FreeFrames(made)'
<1> DEFINE e == [Top EXCEPT !.body = Tail(@)]
           n == Len(frames)
<1>1. /\ frames # <<>> /\ Top.body # <<>> /\ Top.inject = <<>> /\ Top \in FrameOf(Len(made))
      /\ n \in Nat \ {0} /\ Top = frames[n]
  BY FrameTypes DEF Catch, Inner
<1>2. Tail(Top.body) \in Seq(Tokens)
  BY <1>1, HeadTailProperties DEF FrameOf
<1>3. /\ e \in FrameOf(Len(made)) /\ e.token = Top.token /\ e.via = Top.via /\ e.inject = Top.inject
      /\ e.got = Top.got /\ e.body = Tail(Top.body)
  BY <1>1, <1>2 DEF FrameOf
<1>4. frames' = Append(Front(frames), e) /\ UNCHANGED <<resolutionStack, caller, factories, made>>
  BY DEF Catch, registered
<1>5. FreeFrames(made) /\ FreeFrame(Top, made)
  BY <1>1 DEF Free, FreeFrames
<1>6. FreeFrame(e, made)
  <2> DEFINE r == Tail(Top.body)
  <2>1. Top.body \in Seq(Tokens)
    BY <1>1 DEF FrameOf
  <2>2. /\ r \in Seq(Tokens) /\ Len(r) = Len(Top.body) - 1 /\ Len(Top.body) \in Nat \ {0}
        /\ \A k \in 1..Len(r) : r[k] = Top.body[k + 1]
    BY <1>1, <2>1, HeadTailProperties, EmptySeq, LenProperties
  <2> HIDE DEF r
  <2>3. \A k \in DOMAIN r : r[k] = Top.body[k + 1] /\ k + 1 \in DOMAIN Top.body
    BY <2>1, <2>2, LenProperties
  <2> QED BY <1>3, <1>5, <2>3 DEF FreeFrame, r
<1> HIDE DEF e
<1>7. LastMoves(n, e)
  BY <1>1, <1>3, <1>4, TopMoves
<1>8. \A i \in 1..Len(frames') : FreeFrame(frames'[i], made)
  BY <1>1, <1>5, <1>6, <1>7, FreeFramesMove
<1> QED BY <1>4, <1>8 DEF FreeFrames

LEMMA FreeFind == ASSUME Inv, Free, NEW t \in Tokens, Find(t) PROVE FreeFrames(made)'
<1> DEFINE n == Len(frames)
<1>1. PICK x \in Existing(t) : frames' = Append(Front(frames), Answered(Top, x))
  BY DEF Find
<1>2. x \in 1..Len(made)
  BY <1>1, ExistingType
<1>3. /\ frames # <<>> /\ Asks(Top) /\ ~Proxied(Top) /\ t = Wanted(Top) /\ Top \in FrameOf(Len(made))
      /\ Len(made) \in Nat /\ n \in Nat \ {0} /\ Top = frames[n]
  BY FrameTypes DEF Find, Asked, Resolving
<1> DEFINE e == Answered(Top, x)
<1>4. e \in FrameOf(Len(made)) /\ e.token = Top.token /\ e.via = Top.via
      /\ (Top.inject = <<>> => e.inject = <<>>)
  BY <1>2, <1>3, AnsweredType
<1>5. frames' = Append(Front(frames), e)
      /\ UNCHANGED <<resolutionStack, caller, factories, made>>
  BY <1>1 DEF Find, registered
<1>6. FreeFrames(made) /\ FreeFrame(Top, made)
  BY <1>3 DEF Free, FreeFrames
<1>7. FreeFrame(e, made)
  <2>1. Scope[Wanted(Top)] # "request" => Scope[made[x].token] # "request"
    BY <1>1, <1>3, FreeFound
  <2> QED BY <1>3, <1>6, <2>1, AnsweredFree
<1> HIDE DEF e
<1>8. LastMoves(n, e)
  BY <1>3, <1>4, <1>5, TopMoves
<1>9. \A i \in 1..Len(frames') : FreeFrame(frames'[i], made)
  BY <1>3, <1>6, <1>7, <1>8, FreeFramesMove
<1> QED BY <1>5, <1>9 DEF FreeFrames

LEMMA FreeBegin == ASSUME NoRequestUses, Inv, Free, NEW t \in Tokens, Begin(t) PROVE FreeFrames(made)'
<1> DEFINE n == Len(frames)
           e == IF t \in DOMAIN factories /\ Scope[t] # "request"
                  THEN Frame(t, "factory", <<>>, factories[t].uses)
                  ELSE Frame(t, "constructor", Inject[t], Touches[t])
<1>1. frames' = Append(frames, e) /\ UNCHANGED made
  BY DEF Begin
<1>2. \A u \in DOMAIN factories : factories[u] \in Bodies[u] /\ u \in Tokens
  BY DEF Inv, RegisteredInv, FactoriesOf
<1>3. FreeFrame(e, made)
  BY <1>2 DEF Frame, FreeFrame, NoRequestUses
<1> HIDE DEF e
<1>4. n \in Nat /\ Len(frames') = n + 1 /\ frames'[n + 1] = e /\ \A i \in 1..n : frames'[i] = frames[i]
  BY <1>1, FrameTypes DEF Inv, FramesInv
<1>5. \A i \in 1..(n + 1) : i \in 1..n \/ i = n + 1
  BY <1>4
<1> QED BY <1>1, <1>3, <1>4, <1>5 DEF Free, FreeFrames

LEMMA FreeUnwind == ASSUME Inv, Free, Unwind PROVE FreeFrames(made)'
<1> DEFINE n == Len(frames)
<1>1. LastMoves(n - 1, frames[n - 1]) /\ UNCHANGED made
  BY TopGone DEF Unwind, Popped, registered
<1>2. n \in Nat /\ n > 1
  BY TopEnds DEF Unwind
<1> HIDE DEF n
<1>3. \A i \in 1..(n - 1) : frames'[i] = frames[i] /\ i \in 1..n
  <2> SUFFICES ASSUME NEW i \in 1..(n - 1) PROVE frames'[i] = frames[i] /\ i \in 1..n
    OBVIOUS
  <2>1. CASE i = n - 1
    BY <1>1, <1>2, <2>1 DEF LastMoves
  <2>2. CASE i # n - 1
    <3>1. i \in 1..(n - 1 - 1)
      BY <1>2, <2>2
    <3> QED BY <1>1, <1>2, <3>1 DEF LastMoves
  <2> QED BY <2>1, <2>2
<1> QED BY <1>1, <1>3 DEF Free, FreeFrames, LastMoves, n

\* A call returns x, which is of a request only if the call's token is.
LEMMA FreeReturn ==
    ASSUME Inv, Absent, Inner, NEW m \in Nat, Len(made) <= m, NEW x \in 1..m, Return(x), NEW g,
           FreeMaps(g), FreeFrames(g), Scope[Top.token] # "request" => Scope[g[x].token] # "request"
    PROVE  /\ \A i \in 1..Len(frames') : FreeFrame(frames'[i], g)
           /\ FreeMap(singletons', g)
<1> DEFINE n == Len(frames)
<1>1. /\ n \in Nat /\ n > 1 /\ Asks(frames[n - 1]) /\ ~Proxied(frames[n - 1])
      /\ Top.token = Wanted(frames[n - 1])
  <2> DEFINE fs == Front(frames)
  <2>1. /\ n \in Nat /\ n > 1 /\ Len(fs) = n - 1 /\ \A i \in 1..Len(fs) : fs[i] = frames[i]
        /\ Runs(Top, fs[Len(fs)], Last(resolutionStack))
    BY TopEnds
  <2> HIDE DEF fs
  <2>2. fs[Len(fs)] = frames[n - 1]
    BY <2>1
  <2> QED BY <2>1, <2>2 DEF Runs
<1>2. LastMoves(n - 1, Answered(frames[n - 1], x))
  BY StackReturns DEF Return
<1>3. n - 1 \in 1..n /\ n - 1 \in Nat /\ n - 1 <= n
  <2>1. n \in Nat /\ n > 1
    BY <1>1
  <2> HIDE DEF n
  <2> QED BY <2>1
<1>4. frames[n - 1] \in FrameOf(Len(made)) /\ Len(made) \in Nat /\ FreeFrame(frames[n - 1], g)
  BY <1>3, FrameTypes DEF FreeFrames
<1>5. FreeFrame(Answered(frames[n - 1], x), g)
  BY <1>1, <1>4, AnsweredFree
<1>6. \A i \in 1..Len(frames') : FreeFrame(frames'[i], g)
  BY <1>2, <1>3, <1>5, FreeFramesMove
<1>7. FreeMap(singletons', g)
  <2>1. \/ singletons' = singletons
        \/ Appended(singletons, [token |-> Top.token, inst |-> x], singletons')
    BY ReturnAppends
  <2> DEFINE w == singletons'
  <2> HIDE DEF w
  <2>2. FreeMap(singletons, g)
    BY DEF FreeMaps
  <2>3. FreeMap(w, g)
    <3>1. CASE Appended(singletons, [token |-> Top.token, inst |-> x], w)
      <4> DEFINE e == [token |-> Top.token, inst |-> x]
      <4>1. Appended(singletons, e, w)
        BY <3>1
      <4> HIDE DEF e
      <4>2. \A i \in DOMAIN w : w[i] = e \/ (i \in DOMAIN singletons /\ w[i] = singletons[i])
        BY <4>1, AppendedIn
      <4> QED BY <2>2, <4>2 DEF FreeMap, e
    <3>2. CASE w = singletons
      BY <2>2, <3>2
    <3> QED BY <2>1, <3>1, <3>2 DEF w
  <2> QED BY <2>3 DEF w
<1> QED BY <1>6, <1>7

LEMMA FreeComplete == ASSUME Inv, Absent, Free, Complete PROVE Free'
<1>1. /\ Inner /\ snap' = snap /\ made \in Seq(Instance) /\ Len(made) \in Nat
      /\ Top \in FrameOf(Len(made)) /\ FreeFrame(Top, made)
  BY FrameTypes DEF Complete, Resolving, Return, Inv, MadeInv, Free, FreeFrames
<1> DEFINE g == made'
<1>2. CASE g = Append(made, Built(Top)) /\ Return(Len(made) + 1)
  <2> DEFINE n == Len(made)
  <2>1. Len(g) = n + 1 /\ g[n + 1] = Built(Top) /\ \A x \in 1..n : g[x] = made[x]
    BY <1>1, <1>2
  <2>2. Extends(made, g)
    BY <1>1, <2>1 DEF Extends
  <2>3. \A y \in Built(Top).holds : y \in 1..n /\ Scope[made[y].token] # "request"
    <3>1. \A x \in Top.got : x \in 1..n /\ Scope[made[x].token] # "request"
      BY <1>1 DEF FreeFrame, FrameOf
    <3>2. \A x \in 1..n : \A y \in made[x].holds : y \in 1..n /\ Scope[made[y].token] # "request"
      BY <1>1 DEF Free, FreeHolds, Inv, MadeInv
    <3> QED BY <3>1, <3>2 DEF Built
  <2>4. \A x \in 1..Len(g) : x \notin 1..n =>
           \A y \in g[x].holds : y \in 1..n /\ Scope[made[y].token] # "request"
    BY <1>1, <2>1, <2>3
  <2> HIDE DEF g
  <2>5. FreeMaps(g) /\ FreeHolds(g) /\ FreeFrames(g)
    BY <2>2, <2>4, FreeGrows
  <2>6. g[n + 1].token = Top.token
    BY <2>1 DEF Built
  <2>7. n + 1 \in Nat /\ n <= n + 1 /\ n + 1 \in 1..(n + 1)
    BY <1>1
  <2>8. (\A i \in 1..Len(frames') : FreeFrame(frames'[i], g)) /\ FreeMap(singletons', g)
    BY <1>1, <1>2, <2>5, <2>6, <2>7, FreeReturn
  <2> QED BY <1>1, <2>5, <2>8 DEF g, Free, FreeMaps, FreeHolds, FreeFrames
<1>3. CASE UNCHANGED made /\ \E x \in Top.got : Return(x)
  <2>1. PICK x \in Top.got : Return(x)
    BY <1>3
  <2>2. x \in 1..Len(made) /\ Scope[made[x].token] # "request"
    BY <1>1 DEF FreeFrame, FrameOf
  <2>3. FreeMaps(made) /\ FreeHolds(made) /\ FreeFrames(made)
    BY DEF Free
  <2>4. (\A i \in 1..Len(frames') : FreeFrame(frames'[i], made)) /\ FreeMap(singletons', made)
    BY <1>1, <2>1, <2>2, <2>3, FreeReturn
  <2> QED BY <1>1, <1>3, <2>3, <2>4 DEF Free, FreeMaps, FreeHolds, FreeFrames
<1> QED BY <1>2, <1>3 DEF Complete

\* A step that leaves the registrations and the calls alone, or ends the calls.
LEMMA FreeKept ==
    ASSUME Inv, Free, Extends(made, made'), Len(made') = Len(made), UNCHANGED <<singletons, snap>>,
           frames' = frames \/ \A i \in 1..Len(frames') : FreeFrame(frames'[i], made')
    PROVE  Free'
<1> DEFINE g == made'
<1>1. Extends(made, g) /\ Len(g) = Len(made) /\ (FreeFrames(g) => FreeFrames(made)')
  BY DEF FreeFrames
<1> HIDE DEF g
<1>2. FreeMaps(g) /\ FreeHolds(g) /\ FreeFrames(g)
  BY <1>1, FreeGrows
<1> QED BY <1>2 DEF Free, FreeMaps, FreeHolds, FreeFrames, g

LEMMA FreeResolve == ASSUME NoRequestUses, Inv, Absent, Free, Resolve PROVE Free'
<1>1. ASSUME FreeFrames(made)', UNCHANGED <<singletons, snap, made>> PROVE Free'
  BY <1>1 DEF Free, FreeMaps, FreeHolds
<1>2. CASE GiveProxy
  BY <1>1, <1>2, FreeGiveProxy DEF GiveProxy, registered
<1>3. CASE Complete
  BY <1>3, FreeComplete
<1>4. CASE Fail \/ \E t \in Tokens : Refuse(t)
  <2>1. UNCHANGED <<frames, singletons, snap, made>>
    BY <1>4 DEF Fail, Refuse, registered
  <2> QED BY <1>1, <2>1 DEF Free, FreeFrames
<1>5. CASE Catch
  BY <1>1, <1>5, FreeCatch DEF Catch, registered
<1>6. CASE Unwind
  BY <1>1, <1>6, FreeUnwind DEF Unwind, registered
<1>7. CASE Over
  <2>1. Len(frames') = 0 /\ UNCHANGED <<singletons, snap, made>>
    BY <1>7, EmptySeq DEF Over, registered
  <2> QED BY <1>1, <2>1 DEF FreeFrames
<1>8. CASE \E t \in Tokens : Find(t)
  BY <1>1, <1>8, FreeFind DEF Find, registered
<1>9. CASE \E t \in Tokens : Begin(t)
  BY <1>1, <1>9, FreeBegin DEF Begin, registered
<1> QED BY <1>2, <1>3, <1>4, <1>5, <1>6, <1>7, <1>8, <1>9 DEF Resolve

LEMMA FreePut ==
    ASSUME NEW g, NEW n \in Nat, NEW map, MapOf(map, n), FreeMap(map, g), NEW t \in Tokens,
           NEW x \in 1..n, Scope[t] # "request" => Scope[g[x].token] # "request"
    PROVE  FreeMap(Put(map, t, x), g)
<1> DEFINE e == [token |-> t, inst |-> x]
           p == Put(map, t, x)
<1>1. CASE ~Has(map, t)
  <2>1. p = Append(map, e) /\ Appended(map, e, Append(map, e))
    BY <1>1, PutAbsent, AppendedMap
  <2> HIDE DEF p, e
  <2>2. Appended(map, e, p)
    BY <2>1
  <2>3. \A i \in DOMAIN p : p[i] = e \/ (i \in DOMAIN map /\ p[i] = map[i])
    BY <2>2, AppendedIn
  <2>4. FreeMap(p, g)
    BY <2>3 DEF FreeMap, e
  <2> QED BY <2>4 DEF p
<1>2. CASE Has(map, t)
  <2>1. DOMAIN p = DOMAIN map /\ \A i \in DOMAIN map : p[i] = IF map[i].token = t THEN e ELSE map[i]
    BY <1>2, PutPresent
  <2> HIDE DEF p
  <2>2. FreeMap(p, g)
    BY <2>1 DEF FreeMap
  <2> QED BY <2>2 DEF p
<1> QED BY <1>1, <1>2

LEMMA FreeWithout ==
    ASSUME NEW g, NEW n \in Nat, NEW map, MapOf(map, n), FreeMap(map, g), NEW t
    PROVE  FreeMap(Without(map, t), g)
<1> DEFINE w == Without(map, t)
<1>1. \A i, j \in DOMAIN w : \E k, l \in DOMAIN map :
         w[i] = map[k] /\ w[j] = map[l] /\ (k < l <=> i < j)
  BY WithoutMap
<1> HIDE DEF w
<1>2. FreeMap(w, g)
  BY <1>1 DEF FreeMap
<1> QED BY <1>2 DEF w

LEMMA FreeRegister == ASSUME Inv, Free, Register PROVE Free'
<1>1. /\ made \in Seq(Instance) /\ Len(made) \in Nat /\ frames' = <<>>
      /\ MapOf(singletons, Len(made)) /\ (snap # None => MapOf(snap.singletons, Len(made)))
  BY FrameTypes DEF Inv, MadeInv, RegisteredInv, Register, Cleanup, Clear, RegisterInstance,
     RegisterFactory, Remove, Compile, Idle, running
<1>2. FreeFrames(made)'
  <2>1. Len(frames') = 0
    BY <1>1, EmptySeq
  <2> QED BY <2>1 DEF FreeFrames
<1>3. ASSUME NEW t \in Tokens, made' = Append(made, Given(t))
      PROVE  /\ Len(made') = Len(made) + 1 /\ made'[Len(made) + 1].token = t
             /\ FreeMaps(made') /\ FreeHolds(made')
  <2> DEFINE g == made'
  <2>1. Given(t) \in Instance /\ Given(t).holds = {} /\ Given(t).token = t
    BY Constants DEF Given, Instance
  <2>2. Extends(made, g) /\ Len(g) = Len(made) + 1 /\ g[Len(made) + 1] = Given(t)
    BY <1>1, <1>3, <2>1, AppendExtends
  <2>3. \A x \in 1..Len(g) : x \notin 1..Len(made) =>
           \A y \in g[x].holds : y \in 1..Len(made) /\ Scope[made[y].token] # "request"
    BY <1>1, <2>1, <2>2
  <2> HIDE DEF g
  <2>4. FreeMaps(g) /\ FreeHolds(g)
    BY <2>2, <2>3, FreeGrows
  <2> QED BY <2>1, <2>2, <2>4 DEF g
<1>4. CASE Cleanup
  BY <1>2, <1>4 DEF Cleanup, Free, FreeMaps, FreeHolds
<1>5. CASE Clear
  BY <1>2, <1>5 DEF Clear, Free, FreeMaps, FreeMap, FreeHolds
<1>6. ASSUME NEW t \in Changed PROVE RegisterInstance(t) => Free'
  <2> SUFFICES ASSUME RegisterInstance(t) PROVE Free'
    OBVIOUS
  <2> DEFINE g == made'
             n == Len(made) + 1
  <2>1. /\ t \in Tokens /\ snap' = snap /\ singletons' = Put(singletons, t, n) /\ FreeHolds(g)
        /\ FreeMaps(g) /\ g[n].token = t
    BY <1>3, Constants DEF RegisterInstance
  <2>2. MapOf(singletons, n) /\ n \in Nat /\ n \in 1..n
    BY <1>1, MapGrows
  <2> HIDE DEF g, n
  <2>3. FreeMap(Put(singletons, t, n), g)
    BY <2>1, <2>2, FreePut DEF FreeMaps
  <2> QED BY <1>2, <2>1, <2>3 DEF g, Free, FreeMaps, FreeHolds
<1>7. ASSUME NEW t \in Changed PROVE RegisterFactory(t) => Free'
  BY <1>2 DEF RegisterFactory, Free, FreeMaps, FreeHolds
<1>8. ASSUME NEW t \in Changed PROVE Remove(t) => Free'
  BY <1>1, <1>2, FreeWithout DEF Remove, Unregister, Free, FreeMaps, FreeHolds
<1>9. ASSUME NEW t \in Changed PROVE Compile(t) => Free'
  <2> SUFFICES ASSUME Compile(t) PROVE Free'
    OBVIOUS
  <2> DEFINE rest == Without(singletons, t)
             n == Len(made) + 1
             e == [token |-> t, inst |-> n]
             g == made'
  <2>1. /\ t \in Tokens /\ snap' = [singletons |-> singletons, factories |-> factories]
        /\ MapOf(rest, Len(made)) /\ ~Has(rest, t)
    BY <1>1, Constants, WithoutMap DEF Compile
  <2>2. CASE made' = Append(made, Given(t)) /\ singletons' = Append(rest, e)
    <3>1. g[n].token = t /\ FreeMap(singletons, g) /\ FreeHolds(g)
      BY <1>3, <2>1, <2>2 DEF FreeMaps
    <3>2. MapOf(rest, n) /\ n \in Nat /\ n \in 1..n
      BY <1>1, <2>1, MapGrows
    <3>3. Put(rest, t, n) = Append(rest, e)
      BY <2>1, <3>2, PutAbsent
    <3> HIDE DEF g, n
    <3>4. FreeMap(rest, g)
      BY <1>1, <3>1, FreeWithout
    <3>5. FreeMap(Put(rest, t, n), g)
      BY <2>1, <3>1, <3>2, <3>4, FreePut
    <3> QED BY <1>2, <2>1, <2>2, <3>1, <3>3, <3>5 DEF g, Free, FreeMaps, FreeHolds
  <2>3. CASE UNCHANGED made /\ singletons' = rest
    <3>1. FreeMap(rest, made) /\ FreeMap(singletons, made) /\ FreeHolds(made)
      BY <1>1, FreeWithout DEF Free, FreeMaps
    <3> HIDE DEF rest
    <3> QED BY <1>2, <2>1, <2>3, <3>1 DEF Free, FreeMaps, FreeHolds
  <2> QED BY <2>2, <2>3 DEF Compile
<1> QED BY <1>4, <1>5, <1>6, <1>7, <1>8, <1>9 DEF Register

LEMMA FreeStep == ASSUME NoRequestUses, Inv, Absent, Free, [Next]_vars PROVE Free'
<1>1. CASE Resolve
  BY <1>1, FreeResolve
<1>2. CASE Register
  BY <1>2, FreeRegister
<1>3. CASE \E c \in Contexts \cup {None} : \E t \in Roots : Call(c, t)
  <2> DEFINE e(t) == Frame(None, "caller", <<>>, <<t>>)
  <2>1. PICK t \in Roots : frames' = <<e(t)>>
    BY <1>3 DEF Call
  <2>2. FreeFrame(e(t), made)
    BY DEF FreeFrame, Frame
  <2>3. Extends(made, made') /\ UNCHANGED <<singletons, snap, made>>
    BY <1>3, FrameTypes DEF Call, registered, Extends
  <2> HIDE DEF e
  <2>4. \A i \in 1..Len(frames') : FreeFrame(frames'[i], made')
    BY <2>1, <2>2, <2>3
  <2> QED BY <2>3, <2>4, FreeKept
<1>4. CASE \E c \in Contexts : RunInScope(c)
  <2>1. Extends(made, made') /\ Len(made') = Len(made) /\ UNCHANGED <<singletons, snap>>
    BY <1>4, ScopeExtends
  <2>2. UNCHANGED frames
    BY <1>4 DEF RunInScope, Enter, Finish, Teardown, HookSettles, Leave, HookRejects, running
  <2> QED BY <2>1, <2>2, FreeKept
<1>5. CASE UNCHANGED vars
  <2>1. Extends(made, made') /\ UNCHANGED <<singletons, snap, made, frames>>
    BY <1>5, FrameTypes DEF vars, registered, running, Extends
  <2> QED BY <2>1, FreeKept
<1> QED BY <1>1, <1>2, <1>3, <1>4, <1>5 DEF Next

\* No instance of a request ends up in a singleton, directly or through others, when
\* no factory resolves one.
THEOREM NoCaptiveHolds == ASSUME NoRequestUses PROVE Spec => []NoCaptive
<1>1. Init => Absent /\ Free
  BY EmptySeq DEF Init, Absent, Free, FreeMaps, FreeMap, FreeHolds, FreeFrames
<1>2. Inv /\ Absent /\ Free /\ [Next]_vars => (Absent /\ Free)'
  BY AbsentStep, FreeStep
<1>3. Inv /\ Free => NoCaptive
  BY LenProperties DEF Inv, MadeInv, Free, FreeHolds, NoCaptive, Number
<1> QED BY <1>1, <1>2, <1>3, Invariant, PTL DEF Spec

-----------------------------------------------------------------------------
(* Scopes over the map of their context. *)

\* The scopes of a context, over its map, when there are n instances: a scope found
\* what the scopes around it found, and it tells by prev what was there when it began.
Nested(map, stack, n) ==
    /\ \A i \in 1..Len(stack) :
          stack[i].born <= n /\ stack[i].prev \subseteq {map[k].token : k \in DOMAIN map}
    /\ \A i, j \in 1..Len(stack) : i <= j => stack[i].prev \subseteq stack[j].prev
    /\ \A i \in 1..Len(stack) : \A k \in DOMAIN map :
          map[k].token \in stack[i].prev <=> map[k].inst <= stack[i].born
    /\ \A i \in 1..(Len(stack) - 1) : stack[i].at = 0 /\ ~stack[i].hooking

\* What the loop of the innermost scope has passed: it was there before, or needs
\* no onDestroy, or was destroyed; h says which instances were.
Passed(map, stack, h) ==
    stack # <<>> =>
        LET s == stack[Len(stack)] IN
        /\ \A k \in DOMAIN map : k < s.at =>
              map[k].token \in s.prev \/ map[k].token \notin Hooked \/ h[map[k].inst].destroyed > 0
        /\ s.hooking => /\ s.at \in DOMAIN map /\ map[s.at].token \notin s.prev
                        /\ h[map[s.at].inst].destroyed > 0

LEMMA NestedGrows ==
    ASSUME NEW map, NEW stack, NEW m \in Nat, NEW n \in Nat, m <= n, Nested(map, stack, m),
           \A i \in 1..Len(stack) : stack[i].born \in Nat
    PROVE  Nested(map, stack, n)
BY DEF Nested

LEMMA NestedPut ==
    ASSUME NEW map, NEW stack \in Seq(ScopeOf), NEW m \in Nat, NEW n \in Nat, m < n,
           Nested(map, stack, m), NEW t, ~Has(map, t), NEW new,
           Appended(map, [token |-> t, inst |-> n], new)
    PROVE  Nested(new, stack, n)
<1>1. \A i \in 1..Len(stack) : stack[i].born \in Nat
  <2>1. \A i \in 1..Len(stack) : stack[i] \in ScopeOf
    BY ElementOfSeq
  <2> QED BY <2>1 DEF ScopeOf
<1>2. \A k \in DOMAIN map : k \in DOMAIN new /\ new[k] = map[k]
  BY DEF Appended
<1>3. {map[k].token : k \in DOMAIN map} \subseteq {new[k].token : k \in DOMAIN new}
  BY <1>2
<1>4. ASSUME NEW i \in 1..Len(stack), NEW k \in DOMAIN new
      PROVE  new[k].token \in stack[i].prev <=> new[k].inst <= stack[i].born
  <2>1. CASE new[k] = [token |-> t, inst |-> n]
    <3>1. t \notin stack[i].prev
      BY DEF Nested, Has
    <3>2. stack[i].born <= m
      BY DEF Nested
    <3> QED BY <1>1, <2>1, <3>1, <3>2
  <2>2. CASE k \in DOMAIN map /\ new[k] = map[k]
    BY <2>2 DEF Nested
  <2> QED BY <2>1, <2>2, AppendedIn
<1>5. \A i \in 1..Len(stack) : stack[i].born <= n
  BY <1>1 DEF Nested
<1> QED BY <1>3, <1>4, <1>5 DEF Nested

LEMMA NestedEnters ==
    ASSUME NEW n \in Nat, NEW map, MapOf(map, n), NEW stack \in Seq(ScopeOf), Nested(map, stack, n),
           stack # <<>> => stack[Len(stack)].at = 0 /\ ~stack[Len(stack)].hooking,
           NEW e \in ScopeOf, e.prev = {map[k].token : k \in DOMAIN map}, e.born = n, NEW new,
           new = Append(stack, e)
    PROVE  Nested(map, new, n)
<1> DEFINE l == Len(stack)
<1>1. l \in Nat /\ Len(new) = l + 1 /\ new[l + 1] = e /\ \A i \in 1..l : new[i] = stack[i]
  BY LenProperties, AppendProperties
<1>2. l = 0 \/ (l \in 1..l /\ stack # <<>>)
  BY <1>1, EmptySeq
<1> HIDE DEF l
<1>3. \A i \in 1..(l + 1) : i = l + 1 \/ i \in 1..l
  BY <1>1
<1>4. \A k \in DOMAIN map : map[k].inst <= n /\ map[k].token \in e.prev
  <2>1. \A k \in DOMAIN map : map[k] \in EntryOf(n)
    BY ElementOfSeq, LenProperties DEF MapOf
  <2> QED BY <2>1 DEF EntryOf
<1>5. \A i \in 1..l : stack[i].prev \subseteq e.prev
  BY DEF Nested, l
<1>6. \A i \in 1..l : i \in 1..(l - 1) \/ (i = l /\ stack # <<>>)
  BY <1>1, <1>2
<1>7. \A i \in 1..l : stack[i].at = 0 /\ ~stack[i].hooking
  BY <1>6 DEF Nested, l
<1>8. \A i, j \in 1..(l + 1) : i <= j => new[i].prev \subseteq new[j].prev
  <2> SUFFICES ASSUME NEW i \in 1..(l + 1), NEW j \in 1..(l + 1), i <= j
               PROVE  new[i].prev \subseteq new[j].prev
    OBVIOUS
  <2>1. CASE j = l + 1
    BY <1>1, <1>3, <1>5, <2>1
  <2>2. CASE j \in 1..l
    <3>1. i \in 1..l
      BY <1>1, <2>2
    <3> QED BY <1>1, <2>2, <3>1 DEF Nested, l
  <2> QED BY <1>3, <2>1, <2>2
<1>9. \A i \in 1..(l + 1) : \A k \in DOMAIN map : map[k].token \in new[i].prev <=> map[k].inst <= new[i].born
  <2> SUFFICES ASSUME NEW i \in 1..(l + 1), NEW k \in DOMAIN map
               PROVE  map[k].token \in new[i].prev <=> map[k].inst <= new[i].born
    OBVIOUS
  <2>1. CASE i = l + 1
    BY <1>1, <1>4, <2>1
  <2>2. CASE i \in 1..l
    BY <1>1, <2>2 DEF Nested, l
  <2> QED BY <1>3, <2>1, <2>2
<1>10. \A i \in 1..(l + 1) : new[i].born <= n /\ new[i].prev \subseteq {map[k].token : k \in DOMAIN map}
  <2> SUFFICES ASSUME NEW i \in 1..(l + 1)
               PROVE  new[i].born <= n /\ new[i].prev \subseteq {map[k].token : k \in DOMAIN map}
    OBVIOUS
  <2>1. CASE i = l + 1
    BY <1>1, <2>1
  <2>2. CASE i \in 1..l
    BY <1>1, <2>2 DEF Nested, l
  <2> QED BY <1>3, <2>1, <2>2
<1>11. \A i \in 1..(Len(new) - 1) : new[i].at = 0 /\ ~new[i].hooking
  BY <1>1, <1>7
<1> QED BY <1>1, <1>8, <1>9, <1>10, <1>11 DEF Nested

\* A scope that goes on keeps what it found.
GoesOn(s, e) == e.prev = s.prev /\ e.born = s.born

LEMMA NestedMoved ==
    ASSUME NEW n, NEW map, NEW stack \in Seq(ScopeOf), stack # <<>>, Nested(map, stack, n),
           NEW e \in ScopeOf, GoesOn(stack[Len(stack)], e),
           NEW new, new = Append(Front(stack), e)
    PROVE  Nested(map, new, n) /\ Len(new) = Len(stack) /\ new # <<>> /\ new[Len(stack)] = e
<1> DEFINE l == Len(stack)
<1>1. l \in Nat \ {0} /\ new # <<>> /\ Len(new) = l /\ new[l] = e /\ \A i \in 1..(l - 1) : new[i] = stack[i]
  <2>1. l \in Nat \ {0}
    BY FrontSeq
  <2> DEFINE f == Front(stack)
  <2>2. f \in Seq(ScopeOf) /\ Len(f) = l - 1 /\ \A i \in 1..(l - 1) : f[i] = stack[i]
    BY FrontSeq
  <2>3. new = Append(f, e)
    OBVIOUS
  <2> HIDE DEF f
  <2>4. /\ new \in Seq(ScopeOf) /\ Len(new) = Len(f) + 1 /\ new[Len(f) + 1] = e
        /\ \A i \in 1..Len(f) : new[i] = f[i]
    BY <2>2, <2>3, AppendProperties
  <2>5. new # <<>>
    BY <2>1, <2>2, <2>4, EmptySeq
  <2> QED BY <2>1, <2>2, <2>4, <2>5
<1> HIDE DEF l
<1>2. \A i \in 1..l : i = l \/ i \in 1..(l - 1)
  BY <1>1
<1>3. \A i \in 1..l : new[i].prev = stack[i].prev /\ new[i].born = stack[i].born
  BY <1>1, <1>2 DEF l, GoesOn
<1>4. \A i \in 1..(l - 1) : new[i].at = 0 /\ ~new[i].hooking
  BY <1>1 DEF Nested, l
<1>5. Nested(map, new, n)
  BY <1>1, <1>3, <1>4 DEF Nested, l
<1> QED BY <1>1, <1>5 DEF l

LEMMA NestedWithout ==
    ASSUME NEW n \in Nat, NEW map, MapOf(map, n), NEW stack \in Seq(ScopeOf), stack # <<>>, Nested(map, stack, n),
           NEW t, t \notin stack[Len(stack)].prev
    PROVE  Nested(Without(map, t), stack, n)
<1> DEFINE w == Without(map, t)
           l == Len(stack)
<1>1. /\ \A i \in DOMAIN map : map[i].token # t => \E j \in DOMAIN w : w[j] = map[i]
      /\ \A i \in DOMAIN w : \E k \in DOMAIN map : w[i] = map[k]
  BY WithoutMap
<1>2. l \in Nat \ {0} /\ \A i \in 1..l : i <= l /\ l \in 1..l
  BY FrontSeq
<1>3. \A i \in 1..l : t \notin stack[i].prev
  BY <1>2 DEF Nested
<1> HIDE DEF w, l
<1>4. \A i \in 1..l : stack[i].prev \subseteq {w[k].token : k \in DOMAIN w}
  <2> SUFFICES ASSUME NEW i \in 1..l, NEW u \in stack[i].prev PROVE \E k \in DOMAIN w : w[k].token = u
    OBVIOUS
  <2>1. PICK k \in DOMAIN map : map[k].token = u
    BY DEF Nested, l
  <2>2. u # t
    BY <1>3
  <2> QED BY <1>1, <2>1, <2>2
<1>5. \A i \in 1..l : \A k \in DOMAIN w : w[k].token \in stack[i].prev <=> w[k].inst <= stack[i].born
  <2> SUFFICES ASSUME NEW i \in 1..l, NEW k \in DOMAIN w
               PROVE  w[k].token \in stack[i].prev <=> w[k].inst <= stack[i].born
    OBVIOUS
  <2>1. PICK j \in DOMAIN map : w[k] = map[j]
    BY <1>1
  <2> QED BY <2>1 DEF Nested, l
<1> QED BY <1>4, <1>5 DEF Nested, l, w

LEMMA NestedPopped ==
    ASSUME NEW n, NEW map, NEW stack \in Seq(ScopeOf), stack # <<>>, Nested(map, stack, n), NEW new, new = Front(stack)
    PROVE  /\ Nested(map, new, n) /\ Len(new) = Len(stack) - 1
           /\ new # <<>> => new[Len(new)].at = 0 /\ ~new[Len(new)].hooking
<1> DEFINE l == Len(stack)
<1>1. l \in Nat \ {0} /\ Len(new) = l - 1 /\ (\A i \in 1..(l - 1) : new[i] = stack[i]) /\ new \in Seq(ScopeOf)
  BY FrontSeq
<1>2. new # <<>> => l - 1 \in 1..(l - 1)
  <2>1. new # <<>> => Len(new) # 0
    BY <1>1, EmptySeq
  <2> QED BY <1>1, <2>1
<1> HIDE DEF l
<1>3. \A i \in 1..(l - 1) : i \in 1..l
  BY <1>1
<1>4. \A i \in 1..(l - 2) : i \in 1..(l - 1)
  BY <1>1
<1>5. \A i \in 1..(l - 1) : stack[i].at = 0 /\ ~stack[i].hooking
  BY DEF Nested, l
<1>6. Nested(map, new, n)
  <2>1. \A i \in 1..(l - 1) : stack[i].born <= n /\ stack[i].prev \subseteq {map[k].token : k \in DOMAIN map}
    BY <1>3 DEF Nested, l
  <2>2. \A i, j \in 1..(l - 1) : i <= j => stack[i].prev \subseteq stack[j].prev
    BY <1>3 DEF Nested, l
  <2>3. \A i \in 1..(l - 1) : \A k \in DOMAIN map : map[k].token \in stack[i].prev <=> map[k].inst <= stack[i].born
    BY <1>3 DEF Nested, l
  <2>4. \A i \in 1..(Len(new) - 1) : new[i].at = 0 /\ ~new[i].hooking
    BY <1>1, <1>4, <1>5
  <2> QED BY <1>1, <2>1, <2>2, <2>3, <2>4 DEF Nested
<1> QED BY <1>1, <1>2, <1>5, <1>6 DEF l

-----------------------------------------------------------------------------
(* What scopes destroy. *)

\* What is being resolved for a request has no entry in its context either.
ScopedAbsent ==
    \A i \in 2..Len(frames) : Scope[frames[i].token] = "request" => ~Has(diScope[caller], frames[i].token)

\* An instance of a request whose class has an onDestroy.
Cared(x) == Scope[made[x].token] = "request" /\ ~made[x].given /\ made[x].token \in Hooked

\* As long as it is not destroyed, it is in its context's map.
InItsMap ==
    \A x \in 1..Len(made) : Cared(x) /\ made[x].destroyed = 0 =>
        /\ made[x].ctx \in Contexts
        /\ \E i \in DOMAIN diScope[made[x].ctx] :
              diScope[made[x].ctx][i] = [token |-> made[x].token, inst |-> x]

\* The loop of one teardown runs at a time, and no resolution with it.
OneLoops ==
    /\ \A c, d \in Contexts : Looping(c) /\ Looping(d) => c = d
    /\ frames # <<>> => \A c \in Contexts : ~Looping(c)

ScopeInv ==
    /\ InItsMap
    /\ \A c \in Contexts : Nested(diScope[c], scopes[c], Len(made)) /\ Passed(diScope[c], scopes[c], made)

Tidy == ScopedAbsent /\ OneLoops /\ ScopeInv

LEMMA ScopedTypes ==
    ASSUME Inv
    PROVE  /\ Len(made) \in Nat /\ made \in Seq(Instance)
           /\ \A c \in Contexts :
                 /\ MapOf(diScope[c], Len(made)) /\ scopes[c] \in Seq(ScopeOf)
                 /\ \A i \in 1..Len(scopes[c]) : scopes[c][i] \in ScopeOf /\ scopes[c][i].born \in Nat
                 /\ \A k \in DOMAIN diScope[c] : diScope[c][k] \in EntryOf(Len(made))
<1>1. made \in Seq(Instance) /\ Len(made) \in Nat
  BY FrameTypes DEF Inv, MadeInv
<1>2. \A c \in Contexts : MapOf(diScope[c], Len(made)) /\ scopes[c] \in Seq(ScopeOf)
  BY DEF Inv, ScopesInv
<1>3. \A c \in Contexts : \A i \in 1..Len(scopes[c]) : scopes[c][i] \in ScopeOf
  BY <1>2, ElementOfSeq
<1>4. \A c \in Contexts : \A i \in 1..Len(scopes[c]) : scopes[c][i].born \in Nat
  BY <1>3 DEF ScopeOf
<1>5. \A c \in Contexts : \A k \in DOMAIN diScope[c] : diScope[c][k] \in EntryOf(Len(made))
  BY <1>2, LenProperties, ElementOfSeq DEF MapOf
<1> QED BY <1>1, <1>2, <1>3, <1>4, <1>5

\* Instances come to be, none of them one that a scope has to destroy.
LEMMA ScopeQuiet ==
    ASSUME Inv, ScopeInv, UNCHANGED <<diScope, scopes>>, Len(made') \in Nat, Len(made) <= Len(made'),
           \A x \in 1..Len(made) : made'[x] = made[x],
           \A x \in 1..Len(made') : x \in 1..Len(made) \/ made'[x].given \/ Scope[made'[x].token] # "request"
    PROVE  ScopeInv'
<1>1. InItsMap'
  <2> SUFFICES ASSUME NEW x \in 1..Len(made'), Cared(x)', made'[x].destroyed = 0
               PROVE  /\ made'[x].ctx \in Contexts
                      /\ \E i \in DOMAIN diScope[made'[x].ctx] :
                            diScope[made'[x].ctx][i] = [token |-> made'[x].token, inst |-> x]
    BY DEF InItsMap
  <2>1. x \in 1..Len(made) /\ made'[x] = made[x]
    BY DEF Cared
  <2>2. Cared(x)
    BY <2>1 DEF Cared
  <2> QED BY <2>1, <2>2 DEF ScopeInv, InItsMap
<1>2. \A c \in Contexts : Nested(diScope[c], scopes[c], Len(made'))
  BY ScopedTypes, NestedGrows DEF ScopeInv
<1>3. \A c \in Contexts : Passed(diScope[c], scopes[c], made')
  <2> SUFFICES ASSUME NEW c \in Contexts PROVE Passed(diScope[c], scopes[c], made')
    OBVIOUS
  <2>1. \A k \in DOMAIN diScope[c] : made'[diScope[c][k].inst] = made[diScope[c][k].inst]
    BY ScopedTypes DEF EntryOf
  <2> QED BY <2>1 DEF ScopeInv, Passed
<1> QED BY <1>1, <1>2, <1>3 DEF ScopeInv

LEMMA ScopeSame == ASSUME Inv, ScopeInv, UNCHANGED <<diScope, scopes, made>> PROVE ScopeInv'
BY ScopedTypes, ScopeQuiet

\* Where a call of resolve() for a request puts its instance.
LEMMA ReturnScopes ==
    ASSUME Inv, ScopedAbsent, Inner, NEW x, Return(x)
    PROVE  /\ Top.token \in Tokens
           /\ Scope[Top.token] # "request" => diScope' = diScope
           /\ Scope[Top.token] = "request" =>
                /\ caller \in Contexts /\ Top.via = "constructor" /\ ~Has(diScope[caller], Top.token)
                /\ Appended(diScope[caller], [token |-> Top.token, inst |-> x], diScope'[caller])
                /\ \A c \in Contexts : c # caller => diScope'[c] = diScope[c]
<1>1. Top.token \in Tokens /\ (Scope[Top.token] = "request" => Top.via = "constructor" /\ caller \in Contexts)
  <2>1. Runs(Top, Front(frames)[Len(Front(frames))], Last(resolutionStack))
    BY TopEnds
  <2> QED BY <2>1, Running DEF Runs
<1>2. Scope[Top.token] # "request" => diScope' = diScope
  BY DEF Return
<1>3. ASSUME Scope[Top.token] = "request"
      PROVE  /\ ~Has(diScope[caller], Top.token)
             /\ Appended(diScope[caller], [token |-> Top.token, inst |-> x], diScope'[caller])
             /\ \A c \in Contexts : c # caller => diScope'[c] = diScope[c]
  <2>1. ~Has(diScope[caller], Top.token)
    <3>1. Len(frames) \in Nat /\ Len(frames) > 1 /\ Top = frames[Len(frames)]
      BY TopEnds
    <3>2. Len(frames) \in 2..Len(frames)
      BY <3>1
    <3> QED BY <1>3, <3>1, <3>2 DEF ScopedAbsent
  <2>2. MapOf(diScope[caller], Len(made)) /\ Len(made) \in Nat
    BY <1>1, <1>3, ScopedTypes
  <2> DEFINE a == Append(diScope[caller], [token |-> Top.token, inst |-> x])
  <2>3. Appended(diScope[caller], [token |-> Top.token, inst |-> x], a)
    BY <2>2, AppendedMap
  <2>4. diScope' = [diScope EXCEPT ![caller] = a]
    BY <1>3, <2>1 DEF Return, Put
  <2> HIDE DEF a
  <2>5. diScope = [c \in Contexts |-> diScope[c]]
    BY DEF Inv, ScopesInv
  <2>6. diScope'[caller] = a /\ \A c \in Contexts : c # caller => diScope'[c] = diScope[c]
    BY <1>1, <1>3, <2>4, <2>5
  <2> QED BY <2>1, <2>3, <2>6
<1> QED BY <1>1, <1>2, <1>3

LEMMA ScopeComplete == ASSUME Inv, ScopedAbsent, OneLoops, ScopeInv, Complete PROVE ScopeInv'
<1>1. Inner /\ frames # <<>> /\ made \in Seq(Instance) /\ Len(made) \in Nat /\ scopes' = scopes
  BY ScopedTypes DEF Complete, Return, Inner
<1>2. CASE made' = Append(made, Built(Top)) /\ Return(Len(made) + 1)
  <2> DEFINE n == Len(made) + 1
  <2>1. /\ Len(made') = n /\ (\A x \in 1..Len(made) : made'[x] = made[x])
        /\ made'[n] = Built(Top)
    BY <1>1, <1>2
  <2>2. n \in Nat /\ Len(made) < n /\ \A x \in 1..n : x = n \/ x \in 1..Len(made)
    BY <1>1
  <2>3. made'[n].token = Top.token /\ made'[n].ctx = caller /\ ~made'[n].given
    BY <2>1 DEF Built
  <2>4. CASE Scope[Top.token] # "request"
    <3>1. diScope' = diScope
      BY <1>1, <1>2, <2>4, ReturnScopes
    <3> HIDE DEF n
    <3> QED BY <1>1, <2>1, <2>2, <2>3, <2>4, <3>1, ScopeQuiet
  <2>5. CASE Scope[Top.token] = "request"
    <3> DEFINE e == [token |-> Top.token, inst |-> n]
    <3>1. /\ caller \in Contexts /\ ~Has(diScope[caller], Top.token)
          /\ Appended(diScope[caller], e, diScope'[caller])
          /\ \A c \in Contexts : c # caller => diScope'[c] = diScope[c]
      BY <1>1, <1>2, <2>5, ReturnScopes
    <3> HIDE DEF n
    <3>2. \A c \in Contexts : \A k \in DOMAIN diScope[c] : k \in DOMAIN diScope'[c] /\ diScope'[c][k] = diScope[c][k]
      BY <3>1 DEF Appended
    <3>3. InItsMap'
      <4> SUFFICES ASSUME NEW x \in 1..n, Cared(x)', made'[x].destroyed = 0
                   PROVE  /\ made'[x].ctx \in Contexts
                          /\ \E i \in DOMAIN diScope'[made'[x].ctx] :
                                diScope'[made'[x].ctx][i] = [token |-> made'[x].token, inst |-> x]
        BY <2>1 DEF InItsMap
      <4>1. CASE x = n
        <5>1. Len(diScope[caller]) + 1 \in DOMAIN diScope'[caller] /\ diScope'[caller][Len(diScope[caller]) + 1] = e
          BY <3>1 DEF Appended
        <5> QED BY <2>3, <3>1, <4>1, <5>1
      <4>2. CASE x \in 1..Len(made)
        <5>1. made'[x] = made[x]
          BY <2>1, <4>2
        <5>2. Cared(x)
          BY <5>1 DEF Cared
        <5>3. made[x].ctx \in Contexts /\ \E i \in DOMAIN diScope[made[x].ctx] :
                   diScope[made[x].ctx][i] = [token |-> made[x].token, inst |-> x]
          BY <4>2, <5>1, <5>2 DEF ScopeInv, InItsMap
        <5> QED BY <3>2, <5>1, <5>3
      <4> QED BY <2>2, <4>1, <4>2
    <3>4. ASSUME NEW c \in Contexts PROVE Nested(diScope'[c], scopes[c], n)
      <4>1. Nested(diScope[c], scopes[c], Len(made)) /\ scopes[c] \in Seq(ScopeOf)
            /\ \A i \in 1..Len(scopes[c]) : scopes[c][i].born \in Nat
        BY ScopedTypes DEF ScopeInv
      <4>2. CASE c = caller
        BY <1>1, <2>2, <3>1, <4>1, <4>2, NestedPut
      <4>3. CASE c # caller
        <5>1. Len(made) <= n
          BY <1>1, <2>2
        <5> QED BY <1>1, <2>2, <3>1, <4>1, <4>3, <5>1, NestedGrows
      <4> QED BY <4>2, <4>3
    <3>5. ASSUME NEW c \in Contexts PROVE Passed(diScope'[c], scopes[c], made')
      <4> DEFINE s == scopes[c][Len(scopes[c])]
      <4>1. \A k \in DOMAIN diScope[c] : made'[diScope[c][k].inst] = made[diScope[c][k].inst]
        BY <2>1, ScopedTypes DEF EntryOf
      <4>2. Passed(diScope[c], scopes[c], made)
        BY DEF ScopeInv
      <4>3. CASE c # caller
        BY <3>1, <4>1, <4>2, <4>3 DEF Passed
      <4>4. CASE c = caller /\ scopes[c] # <<>>
        <5>1. s \in ScopeOf
          <6>1. scopes[c] \in Seq(ScopeOf)
            BY ScopedTypes
          <6>2. Last(scopes[c]) \in ScopeOf
            BY <4>4, <6>1, FrontSeq
          <6> QED BY <6>2 DEF Last
        <5>2. s.at = 0 \/ s.hooking
          <6>1. ~Looping(c)
            BY <1>1 DEF OneLoops
          <6> QED BY <4>4, <5>1, <6>1 DEF Looping, Scoped, Inmost, Last, ScopeOf
        <5>3. \A k \in DOMAIN diScope'[c] : k < s.at => k \in DOMAIN diScope[c]
          <6> SUFFICES ASSUME NEW k \in DOMAIN diScope'[c], k < s.at PROVE k \in DOMAIN diScope[c]
            OBVIOUS
          <6>1. Len(diScope[c]) \in Nat /\ DOMAIN diScope[c] = 1..Len(diScope[c])
                /\ DOMAIN diScope'[c] = 1..(Len(diScope[c]) + 1)
            BY <3>1, <4>4 DEF Appended
          <6>2. s.hooking => s.at \in DOMAIN diScope[c]
            BY <4>2, <4>4 DEF Passed
          <6>3. s.at \in Nat
            BY <5>1 DEF ScopeOf
          <6> HIDE DEF s
          <6> QED BY <5>2, <6>1, <6>2, <6>3
        <5> QED BY <3>2, <4>1, <4>2, <4>4, <5>3 DEF Passed
      <4>5. CASE scopes[c] = <<>>
        BY <4>5 DEF Passed
      <4> QED BY <4>3, <4>4, <4>5
    <3> QED BY <1>1, <2>1, <3>3, <3>4, <3>5 DEF ScopeInv
  <2> QED BY <2>4, <2>5
<1>3. CASE Passes(Top) /\ UNCHANGED made /\ \E x \in Top.got : Return(x)
  <2>1. PICK x : Return(x)
    BY <1>3
  <2>2. Scope[Top.token] # "request"
    BY <1>1, <1>3, <2>1, ReturnScopes DEF Passes
  <2>3. diScope' = diScope
    BY <1>1, <2>1, <2>2, ReturnScopes
  <2> QED BY <1>1, <1>3, <2>3, ScopeSame
<1> QED BY <1>2, <1>3 DEF Complete

\* A step of the scopes of one context: what leaves its map was destroyed or needs no onDestroy.
LEMMA ScopeMoves ==
    ASSUME Inv, ScopeInv, NEW c \in Contexts,
           \A d \in Contexts \ {c} : diScope'[d] = diScope[d] /\ scopes'[d] = scopes[d],
           Len(made') = Len(made),
           \A x \in 1..Len(made) :
              /\ made'[x].token = made[x].token /\ made'[x].given = made[x].given /\ made'[x].ctx = made[x].ctx
              /\ made[x].destroyed > 0 => made'[x].destroyed > 0
              /\ made'[x].destroyed = 0 => made[x].destroyed = 0,
           Nested(diScope'[c], scopes'[c], Len(made)), Passed(diScope'[c], scopes'[c], made'),
           \A k \in DOMAIN diScope[c] :
              \/ \E j \in DOMAIN diScope'[c] : diScope'[c][j] = diScope[c][k]
              \/ diScope[c][k].token \notin Hooked
              \/ made'[diScope[c][k].inst].destroyed > 0
    PROVE  ScopeInv'
<1>1. InItsMap'
  <2> SUFFICES ASSUME NEW x \in 1..Len(made), Cared(x)', made'[x].destroyed = 0
               PROVE  /\ made'[x].ctx \in Contexts
                      /\ \E i \in DOMAIN diScope'[made'[x].ctx] :
                            diScope'[made'[x].ctx][i] = [token |-> made'[x].token, inst |-> x]
    BY DEF InItsMap
  <2>1. Cared(x) /\ made[x].destroyed = 0 /\ made'[x].token = made[x].token /\ made'[x].ctx = made[x].ctx
        /\ made[x].token \in Hooked
    BY DEF Cared
  <2>2. made[x].ctx \in Contexts
    BY <2>1 DEF ScopeInv, InItsMap
  <2>3. PICK i \in DOMAIN diScope[made[x].ctx] : diScope[made[x].ctx][i] = [token |-> made[x].token, inst |-> x]
    BY <2>1 DEF ScopeInv, InItsMap
  <2>4. CASE made[x].ctx = c
    <3>1. \E j \in DOMAIN diScope'[c] : diScope'[c][j] = diScope[c][i]
      BY <2>1, <2>3, <2>4
    <3> QED BY <2>1, <2>2, <2>3, <2>4, <3>1
  <2>5. CASE made[x].ctx # c
    BY <2>1, <2>2, <2>3, <2>5
  <2> QED BY <2>4, <2>5
<1>2. \A d \in Contexts : Nested(diScope'[d], scopes'[d], Len(made'))
  BY DEF ScopeInv
<1>3. \A d \in Contexts : Passed(diScope'[d], scopes'[d], made')
  <2> SUFFICES ASSUME NEW d \in Contexts \ {c} PROVE Passed(diScope[d], scopes[d], made')
    OBVIOUS
  <2>1. Passed(diScope[d], scopes[d], made)
    BY DEF ScopeInv
  <2>2. \A k \in DOMAIN diScope[d] : diScope[d][k].inst \in 1..Len(made)
    BY ScopedTypes DEF EntryOf
  <2> QED BY <2>1, <2>2 DEF Passed
<1> QED BY <1>1, <1>2, <1>3 DEF ScopeInv

\* The innermost scope, and the stack of scopes with it replaced or removed.
LEMMA InmostScope ==
    ASSUME Inv, NEW c \in Contexts, Scoped(c)
    PROVE  /\ scopes[c] \in Seq(ScopeOf) /\ scopes[c] # <<>> /\ Inmost(c) = scopes[c][Len(scopes[c])]
           /\ Inmost(c) \in ScopeOf /\ Inmost(c).at \in Nat /\ Len(made) \in Nat /\ MapOf(diScope[c], Len(made))
           /\ DOMAIN diScope[c] = 1..Len(diScope[c]) /\ Len(diScope[c]) \in Nat
<1>1. Inmost(c) \in ScopeOf /\ scopes[c] \in Seq(ScopeOf) /\ scopes[c] # <<>>
  BY InmostType DEF Scoped
<1>2. Inmost(c).at \in Nat
  BY <1>1 DEF ScopeOf
<1>3. Len(made) \in Nat /\ MapOf(diScope[c], Len(made))
  BY ScopedTypes
<1>4. DOMAIN diScope[c] = 1..Len(diScope[c]) /\ Len(diScope[c]) \in Nat
  BY <1>3, LenProperties DEF MapOf
<1> QED BY <1>1, <1>2, <1>3, <1>4 DEF Inmost, Last

LEMMA ScopeEnter == ASSUME Inv, ScopeInv, NEW c \in Contexts, Enter(c) PROVE ScopeInv'
<1> DEFINE e == [prev |-> Present(c), at |-> 0, hooking |-> FALSE, born |-> Len(made)]
           new == Append(scopes[c], e)
<1>1. scopes' = [scopes EXCEPT ![c] = new] /\ diScope' = diScope /\ made' = made
  BY DEF Enter
<1>2. /\ scopes \in [Contexts -> Seq(ScopeOf)] /\ scopes[c] \in Seq(ScopeOf)
      /\ MapOf(diScope[c], Len(made)) /\ Len(made) \in Nat
  BY ScopedTypes DEF Inv, ScopesInv
<1>3. Present(c) = {diScope[c][k].token : k \in DOMAIN diScope[c]} /\ Present(c) \subseteq Tokens
  BY ScopedTypes DEF Present, EntryOf
<1>4. e \in ScopeOf /\ e.prev = {diScope[c][k].token : k \in DOMAIN diScope[c]} /\ e.born = Len(made)
      /\ e.at = 0 /\ ~e.hooking
  BY <1>2, <1>3 DEF ScopeOf
<1>5. scopes[c] # <<>> => scopes[c][Len(scopes[c])].at = 0 /\ ~scopes[c][Len(scopes[c])].hooking
  <2> SUFFICES ASSUME scopes[c] # <<>>
               PROVE  scopes[c][Len(scopes[c])].at = 0 /\ ~scopes[c][Len(scopes[c])].hooking
    OBVIOUS
  <2>1. Scoped(c) /\ Inmost(c).at = 0
    BY DEF Enter, Scoped
  <2>2. Inmost(c) = scopes[c][Len(scopes[c])] /\ DOMAIN diScope[c] = 1..Len(diScope[c])
    BY <2>1, InmostScope
  <2>3. Passed(diScope[c], scopes[c], made)
    BY DEF ScopeInv
  <2> QED BY <2>1, <2>2, <2>3 DEF Passed
<1> HIDE DEF e
<1>6. Nested(diScope[c], scopes[c], Len(made))
  BY DEF ScopeInv
<1>7. Nested(diScope[c], new, Len(made))
  BY <1>2, <1>4, <1>5, <1>6, NestedEnters
<1>8. new # <<>> /\ new[Len(new)] = e
  BY <1>2, <1>4, AppendProperties, EmptySeq
<1> HIDE DEF new
<1>9. Passed(diScope[c], new, made)
  <2>1. \A k \in DOMAIN diScope[c] : ~(k < 0)
    BY <1>2, LenProperties DEF MapOf
  <2> QED BY <1>4, <1>8, <2>1 DEF Passed
<1>10. scopes'[c] = new /\ \A d \in Contexts \ {c} : scopes'[d] = scopes[d]
  BY <1>1, <1>2
<1> QED BY <1>1, <1>7, <1>9, <1>10, ScopeMoves

\* The innermost scope goes on to e.
LEMMA ScopeGoesOn ==
    ASSUME Inv, ScopeInv, NEW c \in Contexts, Scoped(c), NEW e \in ScopeOf,
           e.prev = Inmost(c).prev, e.born = Inmost(c).born, scopes' = Moved(c, e)
    PROVE  /\ Nested(diScope[c], scopes'[c], Len(made)) /\ scopes'[c] \in Seq(ScopeOf)
           /\ scopes'[c] # <<>> /\ scopes'[c][Len(scopes'[c])] = e
           /\ \A d \in Contexts \ {c} : scopes'[d] = scopes[d]
<1> DEFINE new == Append(Front(scopes[c]), e)
<1>1. scopes \in [Contexts -> Seq(ScopeOf)] /\ scopes[c] \in Seq(ScopeOf)
      /\ scopes[c] # <<>> /\ Inmost(c) = scopes[c][Len(scopes[c])]
  BY InmostScope DEF Inv, ScopesInv
<1>2. scopes' = [scopes EXCEPT ![c] = new] /\ new \in Seq(ScopeOf)
  BY MovedType
<1>3. Nested(diScope[c], scopes[c], Len(made))
  BY DEF ScopeInv
<1> HIDE DEF new
<1>4. Nested(diScope[c], new, Len(made)) /\ Len(new) = Len(scopes[c]) /\ new # <<>> /\ new[Len(scopes[c])] = e
  <2>1. e.prev = scopes[c][Len(scopes[c])].prev /\ e.born = scopes[c][Len(scopes[c])].born
    BY <1>1
  <2>2. new = Append(Front(scopes[c]), e)
    BY DEF new
  <2>3. GoesOn(scopes[c][Len(scopes[c])], e)
    BY <2>1 DEF GoesOn
  <2> DEFINE stack == scopes[c]
             map == diScope[c]
             n == Len(made)
  <2>4. stack \in Seq(ScopeOf) /\ stack # <<>> /\ Nested(map, stack, n) /\ GoesOn(stack[Len(stack)], e)
        /\ new = Append(Front(stack), e)
    BY <1>1, <1>3, <2>2, <2>3
  <2> HIDE DEF stack, map, n
  <2>5. Nested(map, new, n)
    BY <2>4, NestedMoved
  <2>6. Len(new) = Len(stack)
    BY <2>4, NestedMoved
  <2>7. new # <<>>
    BY <2>4, NestedMoved
  <2>8. new[Len(stack)] = e
    BY <2>4, NestedMoved
  <2> QED BY <2>5, <2>6, <2>7, <2>8 DEF stack, map, n
<1>5. scopes'[c] = new /\ \A d \in Contexts \ {c} : scopes'[d] = scopes[d]
  BY <1>1, <1>2
<1> QED BY <1>2, <1>4, <1>5

LEMMA ScopeFinish == ASSUME Inv, ScopeInv, NEW c \in Contexts, Finish(c) PROVE ScopeInv'
<1> DEFINE e == [Inmost(c) EXCEPT !.at = 1]
<1>1. scopes' = Moved(c, e) /\ diScope' = diScope /\ made' = made /\ Scoped(c) /\ Inmost(c).at = 0
  BY DEF Finish
<1>2. /\ Inmost(c) = scopes[c][Len(scopes[c])] /\ scopes[c] # <<>>
      /\ Inmost(c) \in ScopeOf /\ DOMAIN diScope[c] = 1..Len(diScope[c])
  BY <1>1, InmostScope
<1>3. ~Inmost(c).hooking
  BY <1>1, <1>2 DEF ScopeInv, Passed
<1>4. e \in ScopeOf /\ e.prev = Inmost(c).prev /\ e.born = Inmost(c).born /\ e.at = 1 /\ ~e.hooking
  BY <1>2, <1>3 DEF ScopeOf
<1> HIDE DEF e
<1>5. /\ Nested(diScope[c], scopes'[c], Len(made)) /\ scopes'[c][Len(scopes'[c])] = e
      /\ \A d \in Contexts \ {c} : scopes'[d] = scopes[d]
  BY <1>1, <1>4, ScopeGoesOn
<1>6. Passed(diScope[c], scopes'[c], made)
  BY <1>2, <1>4, <1>5 DEF Passed
<1> QED BY <1>1, <1>5, <1>6, ScopeMoves

\* Before the place where an entry was, the map without it is the same.
LEMMA WithoutAt ==
    ASSUME NEW map, NEW n \in Nat, MapOf(map, n), NEW p \in DOMAIN map
    PROVE  \A k \in DOMAIN Without(map, map[p].token) : k < p =>
              k \in DOMAIN map /\ Without(map, map[p].token)[k] = map[k]
<1> DEFINE t == map[p].token
<1>1. Has(map, t)
  BY DEF Has
<1>2. Place(map, t) = p
  BY <1>1, PlaceIn DEF MapOf
<1>3. DOMAIN map = 1..Len(map) /\ Len(map) \in Nat
  BY LenProperties DEF MapOf
<1>4. Without(map, t) = [i \in 1..(Len(map) - 1) |-> IF i < p THEN map[i] ELSE map[i + 1]]
  BY <1>1, <1>2 DEF Without
<1> QED BY <1>3, <1>4

\* The loop leaves an entry behind that was destroyed or needs no onDestroy.
LEMMA ScopeVisited ==
    ASSUME Inv, ScopeInv, NEW c \in Contexts, Scoped(c), Visited(c), UNCHANGED made,
           Inmost(c).at \in DOMAIN diScope[c], Here(c).token \notin Inmost(c).prev,
           Here(c).token \notin Hooked \/ made[Here(c).inst].destroyed > 0
    PROVE  ScopeInv'
<1> DEFINE e == [Inmost(c) EXCEPT !.hooking = FALSE, !.at = PlaceAfter(c)]
           map == diScope[c]
           p == Inmost(c).at
           w == Without(map, Here(c).token)
<1>1. /\ scopes[c] \in Seq(ScopeOf) /\ scopes[c] # <<>> /\ Inmost(c) = scopes[c][Len(scopes[c])]
      /\ Inmost(c) \in ScopeOf /\ p \in Nat /\ Len(made) \in Nat /\ MapOf(map, Len(made))
      /\ DOMAIN map = 1..Len(map) /\ Len(map) \in Nat
  BY InmostScope
<1>2. PlaceAfter(c) = IF Reuses(c) THEN p + 1 ELSE p
  BY DEF PlaceAfter
<1>3. e \in ScopeOf /\ e.prev = Inmost(c).prev /\ e.born = Inmost(c).born /\ ~e.hooking
      /\ e.at = IF Reuses(c) THEN p + 1 ELSE p
  <2>1. PlaceAfter(c) \in Nat
    BY <1>1, <1>2
  <2>2. e \in ScopeOf /\ e.prev = Inmost(c).prev /\ e.born = Inmost(c).born /\ ~e.hooking /\ e.at = PlaceAfter(c)
    BY <1>1, <2>1 DEF ScopeOf
  <2> QED BY <1>2, <2>2
<1>4. scopes' = Moved(c, e)
  BY DEF Visited
<1> HIDE DEF e
<1>5. /\ Nested(map, scopes'[c], Len(made)) /\ scopes'[c] \in Seq(ScopeOf)
      /\ scopes'[c] # <<>> /\ scopes'[c][Len(scopes'[c])] = e
      /\ \A d \in Contexts \ {c} : scopes'[d] = scopes[d]
  BY <1>3, <1>4, ScopeGoesOn
<1>6. \A k \in DOMAIN map : k < p =>
         map[k].token \in e.prev \/ map[k].token \notin Hooked \/ made[map[k].inst].destroyed > 0
  BY <1>1, <1>3 DEF ScopeInv, Passed
<1>7. Here(c) = map[p]
  BY DEF Here
<1>8. CASE Reuses(c)
  <2>1. diScope' = diScope
    BY <1>8 DEF Visited
  <2>2. \A k \in DOMAIN map : k < e.at => k < p \/ k = p
    BY <1>1, <1>3, <1>8
  <2>3. Passed(map, scopes'[c], made)
    BY <1>3, <1>5, <1>6, <1>7, <2>2 DEF Passed
  <2> HIDE DEF map
  <2>4. map = diScope[c]
    BY DEF map
  <2> QED BY <1>5, <2>1, <2>3, <2>4, ScopeMoves
<1>9. CASE ~Reuses(c)
  <2>1. diScope' = [diScope EXCEPT ![c] = w]
    BY <1>9 DEF Visited
  <2>2. diScope = [d \in Contexts |-> diScope[d]]
    BY DEF Inv, ScopesInv
  <2>3. diScope'[c] = w /\ \A d \in Contexts \ {c} : diScope'[d] = diScope[d]
    BY <2>1, <2>2
  <2>4. Nested(w, scopes'[c], Len(made))
    BY <1>1, <1>3, <1>5, NestedWithout
  <2>5. \A k \in DOMAIN w : k < p => k \in DOMAIN map /\ w[k] = map[k]
    BY <1>1, <1>7, WithoutAt
  <2>6. \A k \in DOMAIN map : map[k].token # map[p].token => \E j \in DOMAIN w : w[j] = map[k]
    <3>1. w = Without(map, map[p].token) /\ MapOf(map, Len(made)) /\ Len(made) \in Nat
      BY <1>1, <1>7
    <3> DEFINE t == map[p].token
    <3> HIDE DEF map, w, t
    <3>2. w = Without(map, t)
      BY <3>1 DEF t
    <3>3. \A k \in DOMAIN map : map[k].token # t => \E j \in DOMAIN w : w[j] = map[k]
      BY <3>1, <3>2, WithoutMap
    <3> QED BY <3>3 DEF t
  <2>7. \A k \in DOMAIN map : map[k].token # map[p].token \/ k = p
    BY <1>1 DEF MapOf
  <2> HIDE DEF w
  <2>8. Passed(w, scopes'[c], made)
    BY <1>3, <1>5, <1>6, <1>9, <2>5 DEF Passed
  <2>9. \A k \in DOMAIN map : (\E j \in DOMAIN w : w[j] = map[k]) \/ map[k].token \notin Hooked
                                 \/ made[map[k].inst].destroyed > 0
    BY <1>7, <2>6, <2>7
  <2>10. \A k \in DOMAIN diScope[c] : \/ \E j \in DOMAIN diScope'[c] : diScope'[c][j] = diScope[c][k]
                                      \/ diScope[c][k].token \notin Hooked
                                      \/ made[diScope[c][k].inst].destroyed > 0
    BY <2>3, <2>9
  <2> QED BY <1>5, <2>3, <2>4, <2>8, <2>10, ScopeMoves
<1> QED BY <1>8, <1>9

\* The destroyed count of an instance goes up.
LEMMA Counted ==
    ASSUME Inv, NEW x \in 1..Len(made), made' = [made EXCEPT ![x].destroyed = @ + 1]
    PROVE  /\ Len(made') = Len(made) /\ made'[x].destroyed > 0
           /\ \A y \in 1..Len(made) :
                 /\ made'[y].token = made[y].token /\ made'[y].given = made[y].given /\ made'[y].ctx = made[y].ctx
                 /\ made[y].destroyed > 0 => made'[y].destroyed > 0
                 /\ made'[y].destroyed = 0 => made[y].destroyed = 0
                 /\ y # x => made'[y] = made[y]
<1>1. made \in [1..Len(made) -> Instance] /\ Len(made) \in Nat
  BY LenProperties DEF Inv, MadeInv
<1> DEFINE b == [made[x] EXCEPT !.destroyed = made[x].destroyed + 1]
<1>2. made' = [made EXCEPT ![x] = b]
  OBVIOUS
<1>3. b \in Instance /\ b.destroyed = made[x].destroyed + 1 /\ b.token = made[x].token
      /\ b.given = made[x].given /\ b.ctx = made[x].ctx /\ made[x].destroyed \in Nat
  BY <1>1 DEF Instance
<1> HIDE DEF b
<1>4. made'[x] = b /\ (\A y \in 1..Len(made) : y # x => made'[y] = made[y])
      /\ made' \in [1..Len(made) -> Instance]
  BY <1>1, <1>2, <1>3
<1>5. Len(made') = Len(made)
  <2>1. made' \in Seq(Instance)
    BY <1>1, <1>4, SeqDef
  <2> QED BY <1>1, <1>4, <2>1, LenProperties
<1> QED BY <1>3, <1>4, <1>5

LEMMA ScopeTeardown == ASSUME Inv, ScopeInv, NEW c \in Contexts, Teardown(c) PROVE ScopeInv'
<1> DEFINE map == diScope[c]
           p == Inmost(c).at
<1>1. Scoped(c) /\ p > 0 /\ ~Inmost(c).hooking /\ ~AtEnd(c)
  BY DEF Teardown, Looping
<1>2. /\ Inmost(c) = scopes[c][Len(scopes[c])] /\ Inmost(c) \in ScopeOf /\ scopes[c] # <<>>
      /\ p \in DOMAIN map /\ p \in Nat /\ Here(c) = map[p] /\ DOMAIN map = 1..Len(map)
      /\ Here(c).inst \in 1..Len(made)
  <2>1. /\ Inmost(c) = scopes[c][Len(scopes[c])] /\ Inmost(c) \in ScopeOf /\ scopes[c] # <<>>
        /\ p \in Nat /\ DOMAIN map = 1..Len(map) /\ Len(map) \in Nat
    BY <1>1, InmostScope
  <2>2. p \in DOMAIN map
    BY <1>1, <2>1 DEF AtEnd
  <2>3. Here(c) = map[p] /\ map[p] \in EntryOf(Len(made))
    BY <2>2, ScopedTypes DEF Here
  <2> QED BY <2>1, <2>2, <2>3 DEF EntryOf
<1>3. \A k \in DOMAIN map : k < p =>
         map[k].token \in Inmost(c).prev \/ map[k].token \notin Hooked \/ made[map[k].inst].destroyed > 0
  BY <1>2 DEF ScopeInv, Passed
<1>4. CASE /\ Here(c).token \in Inmost(c).prev
           /\ scopes' = Moved(c, [Inmost(c) EXCEPT !.at = @ + 1])
           /\ UNCHANGED <<diScope, made>>
  <2> DEFINE e == [Inmost(c) EXCEPT !.at = @ + 1]
  <2>1. e \in ScopeOf /\ e.prev = Inmost(c).prev /\ e.born = Inmost(c).born /\ e.at = p + 1 /\ ~e.hooking
    BY <1>1, <1>2 DEF ScopeOf
  <2>2. scopes' = Moved(c, e)
    BY <1>4
  <2> HIDE DEF e
  <2>3. /\ Nested(map, scopes'[c], Len(made)) /\ scopes'[c][Len(scopes'[c])] = e
        /\ \A d \in Contexts \ {c} : scopes'[d] = scopes[d]
    BY <1>1, <2>1, <2>2, ScopeGoesOn
  <2>4. \A k \in DOMAIN map : k < e.at => k < p \/ k = p
    BY <1>2, <2>1
  <2>5. Passed(map, scopes'[c], made)
    BY <1>2, <1>3, <1>4, <2>1, <2>3, <2>4 DEF Passed
  <2> HIDE DEF map
  <2>6. map = diScope[c]
    BY DEF map
  <2> QED BY <1>4, <2>3, <2>5, <2>6, ScopeMoves
<1>5. CASE Here(c).token \notin Inmost(c).prev \cup Hooked /\ Visited(c) /\ UNCHANGED made
  BY <1>1, <1>2, <1>5, ScopeVisited
<1>6. CASE /\ Here(c).token \in Hooked \ Inmost(c).prev
           /\ made' = [made EXCEPT ![Here(c).inst].destroyed = @ + 1]
           /\ scopes' = Moved(c, [Inmost(c) EXCEPT !.hooking = TRUE])
           /\ UNCHANGED diScope
  <2> DEFINE e == [Inmost(c) EXCEPT !.hooking = TRUE]
             x == Here(c).inst
  <2>1. e \in ScopeOf /\ e.prev = Inmost(c).prev /\ e.born = Inmost(c).born /\ e.at = p
    BY <1>1, <1>2 DEF ScopeOf
  <2>2. scopes' = Moved(c, e)
    BY <1>6
  <2> HIDE DEF e
  <2>3. /\ Nested(map, scopes'[c], Len(made)) /\ scopes'[c][Len(scopes'[c])] = e
        /\ \A d \in Contexts \ {c} : scopes'[d] = scopes[d]
    BY <1>1, <2>1, <2>2, ScopeGoesOn
  <2>4. x \in 1..Len(made)
    BY <1>2
  <2>5. made' = [made EXCEPT ![x].destroyed = @ + 1]
    BY <1>6
  <2> HIDE DEF x
  <2>6. /\ Len(made') = Len(made) /\ made'[x].destroyed > 0
        /\ \A y \in 1..Len(made) :
              /\ made'[y].token = made[y].token /\ made'[y].given = made[y].given /\ made'[y].ctx = made[y].ctx
              /\ made[y].destroyed > 0 => made'[y].destroyed > 0
              /\ made'[y].destroyed = 0 => made[y].destroyed = 0
    BY <2>4, <2>5, Counted
  <2>7. \A k \in DOMAIN map : map[k].inst \in 1..Len(made)
    BY ScopedTypes DEF EntryOf
  <2>8. x = map[p].inst
    BY <1>2 DEF x
  <2>9. Passed(map, scopes'[c], made')
    BY <1>2, <1>3, <1>6, <2>1, <2>3, <2>6, <2>7, <2>8 DEF Passed
  <2> HIDE DEF map
  <2>10. map = diScope[c]
    BY DEF map
  <2>11. \A k \in DOMAIN diScope[c] : \E j \in DOMAIN diScope'[c] : diScope'[c][j] = diScope[c][k]
    BY <1>6
  <2> QED BY <1>6, <2>3, <2>6, <2>9, <2>10, <2>11, ScopeMoves
<1> QED BY <1>4, <1>5, <1>6 DEF Teardown

LEMMA ScopeHookSettles == ASSUME Inv, ScopeInv, NEW c \in Contexts, HookSettles(c) PROVE ScopeInv'
<1>1. Scoped(c) /\ Inmost(c).hooking /\ Visited(c) /\ made' = made
  BY DEF HookSettles, Hooking
<1>2. Inmost(c) = scopes[c][Len(scopes[c])] /\ scopes[c] # <<>>
  BY <1>1, InmostScope
<1>3. /\ Inmost(c).at \in DOMAIN diScope[c] /\ Here(c).token \notin Inmost(c).prev
      /\ made[Here(c).inst].destroyed > 0
  BY <1>1, <1>2 DEF ScopeInv, Passed, Here
<1> QED BY <1>1, <1>3, ScopeVisited

LEMMA ScopeEnds ==
    ASSUME Inv, ScopeInv, NEW c \in Contexts, Scoped(c), scopes' = [scopes EXCEPT ![c] = Front(@)],
           UNCHANGED <<diScope, made>>
    PROVE  ScopeInv'
<1> DEFINE new == Front(scopes[c])
<1>1. scopes \in [Contexts -> Seq(ScopeOf)] /\ scopes[c] \in Seq(ScopeOf) /\ scopes[c] # <<>>
      /\ DOMAIN diScope[c] = 1..Len(diScope[c])
  BY InmostScope DEF Inv, ScopesInv
<1>2. Nested(diScope[c], scopes[c], Len(made))
  BY DEF ScopeInv
<1>3. /\ Nested(diScope[c], new, Len(made))
      /\ new # <<>> => new[Len(new)].at = 0 /\ ~new[Len(new)].hooking
  BY <1>1, <1>2, NestedPopped
<1>4. scopes'[c] = new /\ \A d \in Contexts \ {c} : scopes'[d] = scopes[d]
  BY <1>1
<1> HIDE DEF new
<1>5. Passed(diScope[c], new, made)
  BY <1>1, <1>3 DEF Passed
<1> QED BY <1>3, <1>4, <1>5, ScopeMoves

LEMMA ScopeStep == ASSUME Inv, Tidy, [Next]_vars PROVE ScopeInv'
<1>1. CASE Resolve
  <2>1. CASE Complete
    BY <2>1, ScopeComplete DEF Tidy
  <2>2. CASE ~Complete
    <3>1. UNCHANGED <<diScope, scopes, made>>
      BY <1>1, <2>2 DEF Resolve, GiveProxy, Fail, Catch, Unwind, Over, Refuse, Find, Begin, scoping
    <3> QED BY <3>1, ScopeSame DEF Tidy
  <2> QED BY <2>1, <2>2
<1>2. CASE Register
  <2>1. UNCHANGED <<diScope, scopes>>
    BY <1>2 DEF Register, Cleanup, Clear, RegisterInstance, RegisterFactory, Remove, Compile, scoping
  <2>2. UNCHANGED made \/ \E t \in Tokens : made' = Append(made, Given(t))
    BY <1>2, Constants DEF Register, Cleanup, Clear, RegisterInstance, RegisterFactory, Remove, Compile
  <2>3. CASE \E t \in Tokens : made' = Append(made, Given(t))
    <3>1. PICK t \in Tokens : made' = Append(made, Given(t))
      BY <2>3
    <3>2. Len(made) \in Nat /\ made \in Seq(Instance)
      BY ScopedTypes
    <3>3. /\ Len(made') = Len(made) + 1 /\ (\A x \in 1..Len(made) : made'[x] = made[x])
          /\ made'[Len(made) + 1] = Given(t)
      BY <3>1, <3>2
    <3>4. Given(t).given
      BY DEF Given
    <3>5. \A x \in 1..Len(made') : x \in 1..Len(made) \/ made'[x].given
      BY <3>2, <3>3, <3>4
    <3> QED BY <2>1, <3>2, <3>3, <3>5, ScopeQuiet DEF Tidy
  <2> QED BY <2>1, <2>2, <2>3, ScopeSame DEF Tidy
<1>3. CASE \E c \in Contexts \cup {None} : \E t \in Roots : Call(c, t)
  BY <1>3, ScopeSame DEF Call, scoping, Tidy
<1>4. CASE \E c \in Contexts : RunInScope(c)
  <2>1. PICK c \in Contexts : RunInScope(c)
    BY <1>4
  <2>2. CASE Leave(c) \/ HookRejects(c)
    BY <2>2, ScopeEnds DEF Leave, HookRejects, Looping, Hooking, Tidy
  <2> QED BY <2>1, <2>2, ScopeEnter, ScopeFinish, ScopeTeardown, ScopeHookSettles DEF RunInScope, Tidy
<1>5. CASE UNCHANGED vars
  BY <1>5, ScopeSame DEF vars, scoping, Tidy
<1> QED BY <1>1, <1>2, <1>3, <1>4, <1>5 DEF Next

LEMMA LoopsOver ==
    ASSUME NEW c \in Contexts, frames' = <<>>,
           \A d \in Contexts \ {c} : ~Looping(d) /\ scopes'[d] = scopes[d]
    PROVE  OneLoops'
<1>1. \A d \in Contexts \ {c} : ~Looping(d)'
  BY DEF Looping, Scoped, Inmost
<1> QED BY <1>1 DEF OneLoops

LEMMA LoopsStep == ASSUME Inv, OneLoops, [Next]_vars PROVE OneLoops'
<1>1. ASSUME scopes' = scopes, frames' # <<>> => \A c \in Contexts : ~Looping(c) PROVE OneLoops'
  <2>1. \A c \in Contexts : Looping(c)' <=> Looping(c)
    BY <1>1 DEF Looping, Scoped, Inmost
  <2> QED BY <1>1, <2>1 DEF OneLoops
<1>2. CASE Resolve
  <2>1. scopes' = scopes /\ frames # <<>>
    BY <1>2 DEF Resolve, GiveProxy, Complete, Return, Fail, Catch, Unwind, Over, Refuse, Find, Begin, Asked,
       Resolving, Inner, scoping
  <2> QED BY <1>1, <2>1 DEF OneLoops
<1>3. CASE Register
  <2>1. scopes' = scopes /\ frames' = frames
    BY <1>3 DEF Register, Cleanup, Clear, RegisterInstance, RegisterFactory, Remove, Compile, scoping, running
  <2> QED BY <1>1, <2>1 DEF OneLoops
<1>4. CASE \E c \in Contexts \cup {None} : \E t \in Roots : Call(c, t)
  <2>1. scopes' = scopes /\ \A c \in Contexts : ~Looping(c)
    BY <1>4 DEF Call, Idle, scoping
  <2> QED BY <1>1, <2>1
<1>5. CASE \E c \in Contexts : RunInScope(c)
  <2>1. PICK c \in Contexts : RunInScope(c)
    BY <1>5
  <2>2. frames' = <<>> /\ \A d \in Contexts \ {c} : ~Looping(d)
    BY <2>1 DEF RunInScope, Enter, Finish, Teardown, HookSettles, Leave, HookRejects, Hooking, Idle, OneLoops, running
  <2>3. \E s : scopes' = [scopes EXCEPT ![c] = s]
    BY <2>1 DEF RunInScope, Enter, Finish, Teardown, HookSettles, Leave, HookRejects, Visited, Moved
  <2>4. DOMAIN scopes = Contexts
    BY DEF Inv, ScopesInv
  <2>5. \A d \in Contexts \ {c} : scopes'[d] = scopes[d]
    BY <2>3, <2>4
  <2> QED BY <2>2, <2>5, LoopsOver
<1>6. CASE UNCHANGED vars
  <2>1. scopes' = scopes /\ frames' = frames
    BY <1>6 DEF vars, scoping, running
  <2> QED BY <1>1, <2>1 DEF OneLoops
<1> QED BY <1>2, <1>3, <1>4, <1>5, <1>6 DEF Next

LEMMA ScopedKept ==
    ASSUME Inv, ScopedAbsent, NEW m \in Nat, m <= Len(frames), SameCalls(m), UNCHANGED <<diScope, caller>>
    PROVE  ScopedAbsent'
<1>1. 2..Len(frames') \subseteq 2..Len(frames) /\ 2..Len(frames') \subseteq 1..m
  BY FrameTypes DEF SameCalls
<1> QED BY <1>1 DEF ScopedAbsent, SameCalls

LEMMA ScopedBegin == ASSUME Inv, ScopedAbsent, NEW t \in Tokens, Begin(t) PROVE ScopedAbsent'
<1> DEFINE n == Len(frames)
           e == IF t \in DOMAIN factories /\ Scope[t] # "request"
                  THEN Frame(t, "factory", <<>>, factories[t].uses)
                  ELSE Frame(t, "constructor", Inject[t], Touches[t])
<1>1. frames' = Append(frames, e) /\ UNCHANGED <<diScope, caller>>
  BY DEF Begin, scoping
<1>2. e.token = t
  BY DEF Frame
<1>3. Scope[t] = "request" => ~Has(diScope[caller], t)
  BY DEF Begin, Existing, OutOfScope
<1>4. n \in Nat /\ DOMAIN frames = 1..n
  BY FrameTypes
<1> HIDE DEF e
<1>5. Len(frames') = n + 1 /\ frames'[n + 1] = e /\ \A i \in 1..n : frames'[i] = frames[i]
  BY <1>1, <1>4, FrameTypes DEF Inv, FramesInv
<1>6. \A i \in 2..(n + 1) : i = n + 1 \/ (i \in 2..n /\ i \in 1..n)
  BY <1>4
<1> QED BY <1>1, <1>2, <1>3, <1>5, <1>6 DEF ScopedAbsent

LEMMA ScopedReturn ==
    ASSUME Inv, ScopedAbsent, Inner, NEW m \in Nat, Len(made) <= m, NEW x \in 1..m, Return(x)
    PROVE  ScopedAbsent'
<1> DEFINE n == Len(frames)
<1>1. n \in Nat /\ n > 1 /\ Top = frames[n] /\ DOMAIN frames = 1..n
  BY TopEnds, FrameTypes
<1>2. SameCalls(n - 1) /\ caller' = caller
  BY StackReturns DEF Return
<1>3. \A i \in 2..(n - 1) : i \in 2..n /\ i \in 1..(n - 1) /\ i \in 1..n /\ i # n
  <2>1. n \in Nat /\ n > 1
    BY <1>1
  <2> HIDE DEF n
  <2> QED BY <2>1
<1>4. \A i \in 2..(n - 1) : frames[i].token # Top.token
  <2>1. \A i, j \in 1..n : frames[i].token = frames[j].token => i = j
    BY <1>1 DEF Inv, StackInv, NoTokenTwice
  <2>2. n \in 1..n /\ Top = frames[n]
    BY <1>1
  <2> QED BY <1>3, <2>1, <2>2
<1>5. \A t : ~Has(diScope[caller], t) /\ t # Top.token => ~Has(diScope'[caller], t)
  <2> SUFFICES ASSUME NEW t, ~Has(diScope[caller], t), t # Top.token PROVE ~Has(diScope'[caller], t)
    OBVIOUS
  <2>1. CASE Scope[Top.token] # "request"
    BY <2>1, ReturnScopes
  <2>2. CASE Scope[Top.token] = "request"
    <3>1. Appended(diScope[caller], [token |-> Top.token, inst |-> x], diScope'[caller])
      BY <2>2, ReturnScopes
    <3>2. \A i \in DOMAIN diScope'[caller] : diScope'[caller][i].token # t
      BY <3>1, AppendedIn DEF Has
    <3> QED BY <3>2 DEF Has
  <2> QED BY <2>1, <2>2
<1>6. \A i \in 2..(n - 1) : Scope[frames[i].token] = "request" => ~Has(diScope'[caller], frames[i].token)
  BY <1>3, <1>4, <1>5 DEF ScopedAbsent
<1>7. Len(frames') = n - 1 /\ \A i \in 2..(n - 1) : frames'[i].token = frames[i].token
  BY <1>2, <1>3 DEF SameCalls
<1> QED BY <1>2, <1>6, <1>7 DEF ScopedAbsent

LEMMA ScopedStep == ASSUME Inv, ScopedAbsent, [Next]_vars PROVE ScopedAbsent'
<1>1. CASE UNCHANGED <<frames, diScope, caller>>
  BY <1>1 DEF ScopedAbsent
<1>2. CASE Len(frames') \in Nat /\ Len(frames') < 2
  BY <1>2 DEF ScopedAbsent
<1>3. CASE Resolve
  <2>1. CASE Over
    BY <1>2, <2>1, EmptySeq DEF Over
  <2>2. CASE Fail \/ \E t \in Tokens : Refuse(t)
    BY <1>1, <2>2 DEF Fail, Refuse, scoping
  <2>3. CASE Unwind
    <3>1. SameCalls(Len(frames) - 1) /\ UNCHANGED <<diScope, caller>>
      BY <2>3, TopGone DEF Unwind, Popped, registered, scoping
    <3>2. Len(frames) \in Nat /\ Len(frames) > 1
      BY <2>3, TopEnds DEF Unwind
    <3> QED BY <3>1, <3>2, ScopedKept
  <2>4. CASE Complete
    <3>1. Inner /\ Len(made) \in Nat /\ Top.got \subseteq 1..Len(made)
      BY <2>4, FrameTypes DEF Complete, Resolving, FrameOf
    <3>2. Return(Len(made) + 1) \/ \E x \in Top.got : Return(x)
      BY <2>4 DEF Complete
    <3>3. CASE Return(Len(made) + 1)
      <4>1. Len(made) + 1 \in Nat /\ Len(made) <= Len(made) + 1 /\ Len(made) + 1 \in 1..(Len(made) + 1)
        BY <3>1
      <4> QED BY <3>1, <3>3, <4>1, ScopedReturn
    <3>4. CASE \E x \in Top.got : Return(x)
      BY <3>1, <3>4, ScopedReturn
    <3> QED BY <3>2, <3>3, <3>4
  <2>5. CASE GiveProxy \/ Catch \/ \E t \in Tokens : Find(t)
    <3>1. SameCalls(Len(frames))
      BY <2>5, CallsGiveProxy, CallsFind, CallsCatch
    <3>2. UNCHANGED <<diScope, caller>> /\ Len(frames) \in Nat
      BY <2>5, FrameTypes DEF GiveProxy, Catch, Find, scoping
    <3> QED BY <3>1, <3>2, ScopedKept
  <2> QED BY <1>3, <2>1, <2>2, <2>3, <2>4, <2>5, ScopedBegin DEF Resolve
<1>4. CASE Register
  <2>1. frames' = <<>>
    BY <1>4 DEF Register, Cleanup, Clear, RegisterInstance, RegisterFactory, Remove, Compile, Idle, running
  <2> QED BY <1>2, <2>1, EmptySeq
<1>5. CASE \E c \in Contexts \cup {None} : \E t \in Roots : Call(c, t)
  <2>1. Len(frames') = 1
    BY <1>5 DEF Call
  <2> QED BY <1>2, <2>1
<1>6. CASE \E c \in Contexts : RunInScope(c)
  <2>1. frames' = <<>>
    BY <1>6 DEF RunInScope, Enter, Finish, Teardown, HookSettles, Leave, HookRejects, Hooking, Idle, running
  <2> QED BY <1>2, <2>1, EmptySeq
<1>7. CASE UNCHANGED vars
  BY <1>1, <1>7 DEF vars, scoping, running
<1> QED BY <1>3, <1>4, <1>5, <1>6, <1>7 DEF Next

LEMMA TidyInit == Init => Tidy
<1> SUFFICES ASSUME Init PROVE Tidy
  OBVIOUS
<1>1. frames = <<>> /\ Len(frames) = 0 /\ made = <<>> /\ Len(made) = 0
  BY EmptySeq DEF Init
<1>2. \A c \in Contexts : diScope[c] = <<>> /\ scopes[c] = <<>> /\ Len(scopes[c]) = 0
  BY EmptySeq DEF Init
<1>3. ScopedAbsent /\ InItsMap
  BY <1>1 DEF ScopedAbsent, InItsMap
<1>4. OneLoops
  BY <1>1, <1>2 DEF OneLoops, Looping, Scoped
<1>5. \A c \in Contexts : Nested(diScope[c], scopes[c], Len(made)) /\ Passed(diScope[c], scopes[c], made)
  BY <1>2 DEF Nested, Passed
<1> QED BY <1>3, <1>4, <1>5 DEF Tidy, ScopeInv

LEMMA TidyHolds == Spec => []Tidy
<1>1. Inv /\ Tidy /\ [Next]_vars => Tidy'
  BY ScopedStep, LoopsStep, ScopeStep DEF Tidy
<1> QED BY <1>1, TidyInit, Invariant, PTL DEF Spec

\* When a scope ends without a rejected onDestroy, every instance of a request that was made
\* in its context since it began, and whose class has an onDestroy, was destroyed: also what
\* an inner scope or an onDestroy left, for any nesting and any registrations.
THEOREM ScopeLeavesNothingHolds == Spec => ScopeLeavesNothing
<1>1. ASSUME Inv, Tidy, [Next]_vars,
             NEW c \in Contexts \ rejected', Len(scopes'[c]) < Len(scopes[c]), NEW x \in Number,
             x > Inmost(c).born, made[x].ctx = c, ~made[x].given,
             Scope[made[x].token] = "request", made[x].token \in Hooked
      PROVE  made[x].destroyed > 0
  <2>1. Leave(c)
    <3>1. DOMAIN scopes = Contexts /\ Len(scopes[c]) \in Nat
      <4>1. scopes \in [Contexts -> Seq(ScopeOf)] /\ scopes[c] \in Seq(ScopeOf)
        BY <1>1, ScopedTypes DEF Inv, ScopesInv
      <4> QED BY <4>1, LenProperties
    <3>2. scopes'[c] # scopes[c]
      BY <1>1, <3>1
    <3>3. \E d \in Contexts : RunInScope(d)
      BY <1>1, <3>2 DEF Next, Resolve, GiveProxy, Complete, Return, Fail, Catch, Unwind, Over, Refuse, Find, Begin,
         Register, Cleanup, Clear, RegisterInstance, RegisterFactory, Remove, Compile, Call, scoping, vars
    <3>4. PICK d \in Contexts : RunInScope(d)
      BY <3>3
    <3>5. \E s : scopes' = [scopes EXCEPT ![d] = s]
      BY <3>4 DEF RunInScope, Enter, Finish, Teardown, HookSettles, Leave, HookRejects, Visited, Moved
    <3>6. d = c
      BY <3>1, <3>2, <3>5
    <3>7. ~Enter(c)
      <4>1. \A e : Len(Append(scopes[c], e)) = Len(scopes[c]) + 1
        BY SeqMonotonic, AppendProperties, InmostScope
      <4> QED BY <1>1, <3>1, <4>1 DEF Enter
    <3>8. ASSUME NEW e, scopes' = Moved(c, e), Scoped(c) PROVE FALSE
      <4>1. scopes'[c] = Append(Front(scopes[c]), e)
        BY <3>1, <3>8 DEF Moved
      <4>2. Len(Front(scopes[c])) = Len(scopes[c]) - 1 /\ Len(Front(scopes[c])) \in Nat
        <5>1. scopes[c] \in Seq(ScopeOf) /\ scopes[c] # <<>>
          BY <1>1, <3>8, InmostScope
        <5>2. Front(scopes[c]) \in Seq(ScopeOf) /\ Len(Front(scopes[c])) = Len(scopes[c]) - 1
          BY <5>1, FrontSeq
        <5> QED BY <5>2, LenProperties
      <4> QED BY <1>1, <3>1, <4>1, <4>2
    <3>9. ~Finish(c) /\ ~Teardown(c) /\ ~HookSettles(c)
      BY <3>8 DEF Finish, Teardown, HookSettles, Hooking, Visited, Looping
    <3>10. ~HookRejects(c)
      BY <1>1 DEF HookRejects
    <3> QED BY <3>4, <3>6, <3>7, <3>9, <3>10 DEF RunInScope
  <2>2. Scoped(c) /\ AtEnd(c)
    BY <2>1 DEF Leave, Looping
  <2>3. /\ Inmost(c) = scopes[c][Len(scopes[c])] /\ Inmost(c) \in ScopeOf /\ scopes[c] # <<>>
        /\ Inmost(c).at \in Nat /\ DOMAIN diScope[c] = 1..Len(diScope[c]) /\ Len(diScope[c]) \in Nat
        /\ scopes[c] \in Seq(ScopeOf) /\ Len(scopes[c]) \in 1..Len(scopes[c])
    <3>1. /\ Inmost(c) = scopes[c][Len(scopes[c])] /\ Inmost(c) \in ScopeOf /\ scopes[c] # <<>>
          /\ Inmost(c).at \in Nat /\ DOMAIN diScope[c] = 1..Len(diScope[c]) /\ Len(diScope[c]) \in Nat
          /\ scopes[c] \in Seq(ScopeOf)
      BY <1>1, <2>2, InmostScope
    <3>2. Len(scopes[c]) \in Nat \ {0}
      BY <3>1, FrontSeq
    <3> QED BY <3>1, <3>2
  <2> SUFFICES ASSUME ~(made[x].destroyed > 0) PROVE FALSE
    OBVIOUS
  <2>4. made \in Seq(Instance) /\ x \in 1..Len(made) /\ made[x].destroyed = 0
    <3>1. made \in Seq(Instance) /\ x \in 1..Len(made)
      BY <1>1, LenProperties DEF Inv, MadeInv, Number
    <3>2. made[x] \in Instance
      BY <3>1, ElementOfSeq
    <3> QED BY <3>1, <3>2 DEF Instance
  <2>5. PICK k \in DOMAIN diScope[c] : diScope[c][k] = [token |-> made[x].token, inst |-> x]
    BY <1>1, <2>4 DEF Tidy, ScopeInv, InItsMap, Cared
  <2>6. k < Inmost(c).at
    BY <2>2, <2>3 DEF AtEnd
  <2>7. diScope[c][k].token \in Inmost(c).prev
    <3>1. \A j \in DOMAIN diScope[c] : j < Inmost(c).at =>
             \/ diScope[c][j].token \in Inmost(c).prev \/ diScope[c][j].token \notin Hooked
             \/ made[diScope[c][j].inst].destroyed > 0
      BY <1>1, <2>3 DEF Tidy, ScopeInv, Passed
    <3>2. diScope[c][k].token \in Hooked /\ ~(made[diScope[c][k].inst].destroyed > 0)
      BY <1>1, <2>4, <2>5
    <3> QED BY <2>6, <3>1, <3>2
  <2>8. x <= Inmost(c).born
    BY <1>1, <2>3, <2>5, <2>7 DEF Tidy, ScopeInv, Nested
  <2>9. Inmost(c).born \in Nat /\ x \in Nat
    BY <2>3, <2>4 DEF ScopeOf
  <2> QED BY <1>1, <2>8, <2>9
<1>2. Inv /\ Tidy /\ [Next]_vars
        => [\A c \in Contexts \ rejected' : Len(scopes'[c]) < Len(scopes[c]) =>
              \A x \in Number :
                 (/\ x > Inmost(c).born /\ made[x].ctx = c /\ ~made[x].given
                  /\ Scope[made[x].token] = "request" /\ made[x].token \in Hooked)
                 => made[x].destroyed > 0]_vars
  BY <1>1
<1> QED BY <1>2, Invariant, TidyHolds, PTL DEF Spec, ScopeLeavesNothing

\* A teardown destroys what was made since its scope began, and nothing older.
THEOREM OwnInstancesOnlyHolds == Spec => OwnInstancesOnly
<1>1. ASSUME Inv, Tidy, [Next]_vars, NEW c \in Contexts, NEW x \in Number,
             made'[x].destroyed # made[x].destroyed, Visits(c)
      PROVE  x > Inmost(c).born
  <2>1. x \in 1..Len(made) /\ made \in Seq(Instance) /\ Len(made) \in Nat
    BY <1>1, LenProperties DEF Inv, MadeInv, Number
  <2>2. Looping(c) /\ Scoped(c) /\ frames = <<>> /\ made' # made
    BY <1>1 DEF Visits, Tidy, OneLoops
  <2>3. ~Register
    BY <2>2 DEF Register, Cleanup, Clear, RegisterInstance, RegisterFactory, Remove, Compile, Idle
  <2>4. \E d \in Contexts : Teardown(d) /\ made' # made
    BY <1>1, <2>2, <2>3 DEF Next, Resolve, GiveProxy, Complete, Fail, Catch, Unwind, Over, Refuse, Find, Begin, Asked,
       Resolving, Inner, Call, RunInScope, Enter, Finish, HookSettles, Leave, HookRejects, vars
  <2>5. Teardown(c)
    BY <1>1, <2>2, <2>4 DEF Teardown, Tidy, OneLoops
  <2>6. Here(c).token \notin Inmost(c).prev /\ made' = [made EXCEPT ![Here(c).inst].destroyed = @ + 1]
    BY <2>2, <2>5 DEF Teardown
  <2>7. /\ Inmost(c) = scopes[c][Len(scopes[c])] /\ Inmost(c) \in ScopeOf /\ scopes[c] # <<>>
        /\ Inmost(c).at \in Nat /\ DOMAIN diScope[c] = 1..Len(diScope[c]) /\ Len(diScope[c]) \in Nat
        /\ scopes[c] \in Seq(ScopeOf)
    BY <1>1, <2>2, InmostScope
  <2>8. Len(scopes[c]) \in 1..Len(scopes[c])
    BY <2>7, FrontSeq
  <2>9. Inmost(c).at \in DOMAIN diScope[c] /\ Here(c) = diScope[c][Inmost(c).at]
    <3>1. Inmost(c).at > 0 /\ ~(Inmost(c).at > Len(diScope[c]))
      BY <2>5 DEF Teardown, Looping, AtEnd
    <3> QED BY <2>7, <3>1 DEF Here
  <2>10. Here(c).inst \in 1..Len(made)
    BY <1>1, <2>9, ScopedTypes DEF EntryOf
  <2>11. x = Here(c).inst
    BY <1>1, <2>1, <2>6, <2>10, Counted
  <2>12. ~(Here(c).inst <= Inmost(c).born)
    BY <1>1, <2>6, <2>7, <2>8, <2>9 DEF Tidy, ScopeInv, Nested
  <2>13. Inmost(c).born \in Nat
    BY <2>7 DEF ScopeOf
  <2> QED BY <2>1, <2>11, <2>12, <2>13
<1>2. Inv /\ Tidy /\ [Next]_vars
        => [\A c \in Contexts : \A x \in Number :
              made'[x].destroyed # made[x].destroyed /\ Visits(c) => x > Inmost(c).born]_vars
  BY <1>1
<1> QED BY <1>2, Invariant, TidyHolds, PTL DEF Spec, OwnInstancesOnly

-----------------------------------------------------------------------------
(* What describe() tells. *)

\* Sets of tokens with all that provides itself among the dependencies.
Around(found) == found \cup {d \in UNION {InjectTokens(t) : t \in found} : SelfProviding(d)}

Closed(found) == Around(found) = found

\* The recursion that describe() goes through.
IsReach(f) == f = [found \in SUBSET Tokens |-> IF Around(found) = found THEN found ELSE f[Around(found)]]

LEMMA InjectedTypes == \A t \in Tokens : InjectTokens(t) \subseteq Tokens
<1> SUFFICES ASSUME NEW t \in Tokens, NEW i \in DOMAIN Inject[t] PROVE Inject[t][i] \in Tokens
  BY DEF InjectTokens
<1>1. Inject[t] \in Seq(Tokens)
  BY Constants
<1> QED BY <1>1, ElementOfSeq, LenProperties

LEMMA AroundType == \A found \in SUBSET Tokens : Around(found) \in SUBSET Tokens /\ found \subseteq Around(found)
BY InjectedTypes DEF Around

LEMMA AroundGrows == \A a, b \in SUBSET Tokens : a \subseteq b => Around(a) \subseteq Around(b)
BY DEF Around

\* There is such a function: what every closed set has that has what was found.
LEMMA ReachExists == \E f : IsReach(f)
<1> DEFINE All(found) == {c \in SUBSET Tokens : found \subseteq c /\ Closed(c)}
           Least(found) == {t \in Tokens : \A c \in All(found) : t \in c}
           f == [found \in SUBSET Tokens |-> Least(found)]
<1>1. ASSUME NEW found \in SUBSET Tokens
      PROVE  f[found] = IF Around(found) = found THEN found ELSE f[Around(found)]
  <2>1. Around(found) \in SUBSET Tokens /\ found \subseteq Around(found)
    BY AroundType
  <2>2. CASE Around(found) = found
    <3>1. found \in All(found)
      BY <2>2 DEF Closed
    <3>2. Least(found) = found
      BY <3>1
    <3> QED BY <2>2, <3>2
  <2>3. CASE Around(found) # found
    <3>1. \A c \in All(found) : c \in All(Around(found))
      BY <2>1, AroundGrows DEF Closed
    <3>2. \A c \in All(Around(found)) : c \in All(found)
      BY <2>1
    <3>3. Least(found) = Least(Around(found))
      BY <3>1, <3>2
    <3> QED BY <2>1, <2>3, <3>3
  <2> QED BY <2>2, <2>3
<1>2. f = [found \in SUBSET Tokens |-> f[found]]
  OBVIOUS
<1> HIDE DEF f
<1>3. IsReach(f)
  BY <1>1, <1>2 DEF IsReach
<1> QED BY <1>3

\* A set of numbers has a least one.
LEMMA LeastNumber == ASSUME NEW T \in SUBSET Nat, T # {} PROVE \E m \in T : \A k \in T : m <= k
<1> DEFINE R == {ss \in Nat \X Nat : ss[1] < ss[2]}
<1>1. R = OpToRel(<, Nat)
  BY DEF OpToRel
<1>2. IsWellFoundedOn(R, Nat)
  BY <1>1, NatLessThanWellFounded, Zenon
<1> HIDE DEF R
<1>3. \E m \in T : \A k \in T : ~(<<k, m>> \in R)
  BY <1>2, WFMin, Zenon
<1>4. ASSUME NEW m \in T, NEW k \in T, ~(<<k, m>> \in R) PROVE m <= k
  BY <1>4 DEF R
<1> QED BY <1>3, <1>4

\* Fewer tokens are missing each time, so that it ends with a closed set.
LEMMA ReachClosed ==
    ASSUME IsFiniteSet(Tokens), NEW f, IsReach(f)
    PROVE  \A found \in SUBSET Tokens : found \subseteq f[found] /\ f[found] \in SUBSET Tokens /\ Closed(f[found])
<1> DEFINE Good(found) == found \subseteq f[found] /\ f[found] \in SUBSET Tokens /\ Closed(f[found])
           Missing(found) == Cardinality(Tokens \ found)
           Bad == {found \in SUBSET Tokens : ~Good(found)}
           Counts == {Missing(found) : found \in Bad}
<1> SUFFICES ASSUME Bad # {} PROVE FALSE
  OBVIOUS
<1>1. \A found \in SUBSET Tokens : Missing(found) \in Nat
  BY FS_Difference, FS_CardinalityType
<1>2. Counts \in SUBSET Nat /\ Counts # {}
  BY <1>1
<1> HIDE DEF Counts
<1>3. PICK m \in Counts : \A k \in Counts : m <= k
  BY <1>2, LeastNumber
<1>4. PICK found \in Bad : m = Missing(found)
  BY DEF Counts
<1>5. f[found] = IF Around(found) = found THEN found ELSE f[Around(found)]
  BY <1>4 DEF IsReach
<1>6. Around(found) \in SUBSET Tokens /\ found \subseteq Around(found)
  BY AroundType
<1>7. CASE Around(found) = found
  BY <1>5, <1>7 DEF Closed
<1>8. CASE Around(found) # found
  <2> DEFINE more == Around(found)
             less == Tokens \ more
             rest == Tokens \ found
  <2>1. less \in SUBSET rest /\ less # rest
    BY <1>6, <1>8
  <2>2. IsFiniteSet(rest) /\ IsFiniteSet(less)
    BY FS_Difference
  <2>3. Cardinality(less) < Cardinality(rest)
    <3> HIDE DEF less, rest
    <3>1. Cardinality(less) <= Cardinality(rest) /\ Cardinality(less) # Cardinality(rest)
      BY <2>1, <2>2, FS_Subset
    <3>2. Cardinality(less) \in Nat /\ Cardinality(rest) \in Nat
      BY <2>2, FS_CardinalityType
    <3> QED BY <3>1, <3>2
  <2>4. Missing(more) < m /\ Missing(more) \in Nat /\ m \in Nat
    BY <1>1, <1>4, <1>6, <2>3
  <2>5. more \notin Bad
    <3> SUFFICES ASSUME more \in Bad PROVE FALSE
      OBVIOUS
    <3>1. Missing(more) \in Counts
      BY DEF Counts
    <3> HIDE DEF Missing, more
    <3> QED BY <1>3, <2>4, <3>1
  <2>6. Good(more)
    BY <1>6, <2>5
  <2> QED BY <1>5, <1>6, <1>8, <2>6
<1> QED BY <1>7, <1>8

LEMMA DescribedClosed ==
    ASSUME IsFiniteSet(Tokens), NEW known \in SUBSET Tokens
    PROVE  known \subseteq Described(known) /\ Described(known) \in SUBSET Tokens /\ Closed(Described(known))
<1> DEFINE f == CHOOSE g : IsReach(g)
<1>1. IsReach(f)
  BY ReachExists
<1>2. Described(known) = f[known]
  BY DEF Described, IsReach, Around
<1> HIDE DEF f
<1> QED BY <1>1, <1>2, ReachClosed

\* What describe() reaches from the classes the application enters by.
Reached(t) == \A c \in SUBSET Tokens : Entrances \subseteq c /\ Closed(c) => t \in c

\* A running call asks for what its class injects, and for what is entered by.
Wired(f, fac) ==
    /\ Uses(f.inject) \subseteq InjectTokens(f.token) /\ Uses(f.body) \subseteq Entrances \cup Bare
    /\ f.via = "constructor" /\ Scope[f.token] # "request" => f.token \notin DOMAIN fac
    /\ f.via = "constructor" /\ InjectTokens(f.token) # {} => Reached(f.token)

FramesWired ==
    /\ frames # <<>> => frames[1].inject = <<>> /\ Uses(frames[1].body) \subseteq Entrances \cup Bare
    /\ \A i \in 2..Len(frames) : Wired(frames[i], factories)

LEMMA UsesTail == ASSUME NEW s \in Seq(Tokens), s # <<>> PROVE Uses(Tail(s)) \subseteq Uses(s) /\ Head(s) \in Uses(s)
<1>1. Len(s) \in Nat \ {0} /\ DOMAIN s = 1..Len(s)
  BY LenProperties, EmptySeq
<1>2. Tail(s) \in Seq(Tokens) /\ Len(Tail(s)) = Len(s) - 1 /\ \A i \in 1..Len(Tail(s)) : Tail(s)[i] = s[i + 1]
  BY HeadTailProperties
<1>3. DOMAIN Tail(s) = 1..(Len(s) - 1)
  BY <1>2, LenProperties
<1>4. \A i \in 1..(Len(s) - 1) : i + 1 \in DOMAIN s /\ Tail(s)[i] = s[i + 1]
  BY <1>1, <1>2
<1>5. Head(s) = s[1] /\ 1 \in DOMAIN s
  BY <1>1
<1> QED BY <1>3, <1>4, <1>5 DEF Uses

\* The frame has gone on: it asks for nothing new.
Follows(e, f) ==
    /\ e.token = f.token /\ e.via = f.via
    /\ Uses(e.inject) \subseteq Uses(f.inject) /\ Uses(e.body) \subseteq Uses(f.body)
    /\ f.inject = <<>> => e.inject = <<>>

LEMMA WiredMoves ==
    ASSUME Inv, FramesWired, NEW m \in 1..Len(frames), NEW e, Follows(e, frames[m]), LastMoves(m, e),
           factories' = factories
    PROVE  FramesWired'
<1>1. Len(frames) \in Nat /\ Len(frames') = m /\ frames'[m] = e /\ \A i \in 1..(m - 1) : frames'[i] = frames[i]
  BY FrameTypes DEF LastMoves
<1>2. \A i \in 1..m : i = m \/ i \in 1..(m - 1)
  OBVIOUS
<1>3. \A i \in 1..m : Follows(frames'[i], frames[i])
  BY <1>1, <1>2 DEF Follows
<1>4. frames # <<>>
  BY <1>1, EmptySeq
<1>5. 1 \in 1..m
  BY <1>1
<1>6. frames'[1].inject = <<>> /\ Uses(frames'[1].body) \subseteq Entrances \cup Bare
  BY <1>3, <1>4, <1>5 DEF FramesWired, Follows
<1>7. ASSUME NEW i \in 2..m PROVE Wired(frames'[i], factories)
  <2>1. i \in 1..m /\ i \in 2..Len(frames)
    BY <1>1
  <2> QED BY <1>3, <2>1 DEF FramesWired, Wired, Follows
<1> QED BY <1>1, <1>6, <1>7 DEF FramesWired

LEMMA AnsweredFollows ==
    ASSUME NEW n \in Nat, NEW f \in FrameOf(n), Asks(f), NEW x
    PROVE  Follows(Answered(f, x), f)
<1>1. CASE f.inject # <<>>
  <2>1. Uses(Tail(f.inject)) \subseteq Uses(f.inject)
    BY <1>1, UsesTail DEF FrameOf
  <2> QED BY <1>1, <2>1 DEF Answered, Follows, FrameOf
<1>2. CASE f.inject = <<>>
  <2>1. Uses(Tail(f.body)) \subseteq Uses(f.body)
    BY <1>2, UsesTail DEF FrameOf, Asks
  <2> QED BY <1>2, <2>1 DEF Answered, Follows, FrameOf
<1> QED BY <1>1, <1>2

LEMMA WiredTypes ==
    /\ \A t \in Tokens : Uses(Touches[t]) \subseteq Entrances \cup Bare
    /\ \A t \in Tokens : \A b \in Bodies[t] : Uses(b.uses) \subseteq Entrances \cup Bare
    /\ Roots \subseteq Entrances \cup Bare /\ Entrances \subseteq Tokens
    /\ \A t \in Tokens : InjectTokens(t) # {} => SelfProviding(t)
    /\ \A t \in Bare : t \in Tokens /\ Scope[t] = "transient"
<1>1. \A t \in Tokens : Uses(Touches[t]) \subseteq Entrances \cup Bare
  BY DEF Entrances
<1> DEFINE Uses1(t) == UNION {Uses(b.uses) : b \in Bodies[t]}
           asked == UNION {Uses1(t) : t \in Tokens}
           touched == UNION {Uses(Touches[t]) : t \in Tokens}
<1>9. Entrances = (Roots \cup touched \cup asked) \ Bare
  BY DEF Entrances
<1>10. \A t \in Tokens : \A b \in Bodies[t] : Uses(b.uses) \subseteq asked
  <2>1. \A t \in Tokens : \A b \in Bodies[t] : Uses(b.uses) \subseteq Uses1(t)
    OBVIOUS
  <2> HIDE DEF Uses1
  <2> QED BY <2>1
<1>2. \A t \in Tokens : \A b \in Bodies[t] : Uses(b.uses) \subseteq Entrances \cup Bare
  <2> HIDE DEF asked, touched
  <2> QED BY <1>9, <1>10
<1>3. \A s \in Seq(Tokens) : Uses(s) \subseteq Tokens
  BY ElementOfSeq, LenProperties DEF Uses
<1>4. \A t \in Tokens : \A b \in Bodies[t] : Uses(b.uses) \subseteq Tokens
  BY <1>3, Constants DEF Factory
<1>5. \A t \in Tokens : Uses(Touches[t]) \subseteq Tokens
  BY <1>3, Constants
<1>6. Entrances \subseteq Tokens
  <2>1. \A t \in Tokens : Uses1(t) \subseteq Tokens
    BY <1>4
  <2> HIDE DEF Uses1
  <2>2. asked \subseteq Tokens /\ touched \subseteq Tokens
    BY <2>1, <1>5
  <2> HIDE DEF asked, touched
  <2> QED BY <1>9, <2>2, Constants
<1>7. \A t \in Tokens : t \in Bare \cup Plain => InjectTokens(t) = {}
  <2>1. \A t \in Bare \cup Plain : Inject[t] = <<>>
    BY ContainerAssumption, PlainAssumption DEF ContainerAssumption, PlainAssumption
  <2> QED BY <2>1 DEF InjectTokens
<1>8. \A t \in Bare : t \in Tokens /\ Scope[t] = "transient"
  BY ContainerAssumption DEF ContainerAssumption
<1> QED BY <1>1, <1>2, <1>6, <1>7, <1>8 DEF Entrances, SelfProviding

LEMMA WiredBegin == ASSUME Inv, FramesWired, NEW t \in Tokens, Begin(t) PROVE FramesWired'
<1> DEFINE n == Len(frames)
           e == IF t \in DOMAIN factories /\ Scope[t] # "request"
                  THEN Frame(t, "factory", <<>>, factories[t].uses)
                  ELSE Frame(t, "constructor", Inject[t], Touches[t])
<1>1. frames' = Append(frames, e) /\ factories' = factories /\ frames # <<>> /\ Asks(Top) /\ t = Wanted(Top)
  BY DEF Begin, Asked, Resolving, registered
<1>2. n \in Nat \ {0} /\ Top = frames[n] /\ Top \in FrameOf(Len(made))
  BY <1>1, FrameTypes
<1>3. Uses(e.inject) \subseteq InjectTokens(t) /\ Uses(e.body) \subseteq Entrances \cup Bare /\ e.token = t
      /\ (e.via = "constructor" /\ Scope[t] # "request" => t \notin DOMAIN factories)
  <2>1. CASE t \in DOMAIN factories /\ Scope[t] # "request"
    <3>1. e.inject = <<>> /\ e.body = factories[t].uses /\ e.token = t /\ e.via = "factory"
      BY <2>1 DEF Frame
    <3>2. factories[t] \in Bodies[t]
      BY <2>1 DEF Inv, RegisteredInv, FactoriesOf
    <3>3. Uses(<<>>) = {}
      BY DEF Uses
    <3> QED BY <3>1, <3>2, <3>3, WiredTypes
  <2>2. CASE ~(t \in DOMAIN factories /\ Scope[t] # "request")
    <3>1. e.inject = Inject[t] /\ e.body = Touches[t] /\ e.token = t
      BY <2>2 DEF Frame
    <3> QED BY <2>2, <3>1, WiredTypes DEF Uses, InjectTokens
  <2> QED BY <2>1, <2>2
<1>4. InjectTokens(t) # {} => Reached(t)
  <2> SUFFICES ASSUME InjectTokens(t) # {}, NEW c \in SUBSET Tokens, Entrances \subseteq c, Closed(c)
               PROVE  t \in c
    BY DEF Reached
  <2>1. SelfProviding(t) /\ t \notin Bare
    BY WiredTypes DEF SelfProviding
  <2>2. CASE Top.inject # <<>>
    <3>1. n \in 2..Len(frames)
      BY <1>1, <1>2, <2>2 DEF FramesWired
    <3>2. Wired(Top, factories) /\ Top.via = "constructor" /\ Top.token \in Tokens
      <4>1. Runs(frames[n], frames[n - 1], resolutionStack[n - 1])
        BY <3>1 DEF Inv, StackInv, ChainInv
      <4> QED BY <1>2, <2>2, <3>1, <4>1 DEF FramesWired, Runs, FrameOf
    <3>3. t \in Uses(Top.inject)
      BY <1>1, <1>2, <2>2, UsesTail DEF Wanted, FrameOf
    <3>4. t \in InjectTokens(Top.token) /\ Reached(Top.token)
      BY <3>2, <3>3 DEF Wired
    <3>5. Top.token \in c
      BY <3>4 DEF Reached
    <3> QED BY <2>1, <3>4, <3>5 DEF Closed, Around
  <2>3. CASE Top.inject = <<>>
    <3>1. t \in Uses(Top.body)
      BY <1>1, <1>2, <2>3, UsesTail DEF Wanted, Asks, FrameOf
    <3>2. Uses(Top.body) \subseteq Entrances \cup Bare
      <4>1. CASE n = 1
        BY <1>1, <1>2, <4>1 DEF FramesWired
      <4>2. CASE n # 1
        <5>1. n \in 2..Len(frames)
          <6> HIDE DEF n
          <6>1. n \in 2..n
            BY <1>2, <4>2
          <6> QED BY <6>1 DEF n
        <5> QED BY <1>2, <5>1 DEF FramesWired, Wired
      <4> QED BY <4>1, <4>2
    <3> QED BY <2>1, <3>1, <3>2
  <2> QED BY <2>2, <2>3
<1> HIDE DEF e
<1>5. Wired(e, factories)
  BY <1>3, <1>4 DEF Wired
<1>6. Len(frames') = n + 1 /\ frames'[n + 1] = e /\ \A i \in 1..n : frames'[i] = frames[i]
  BY <1>1, <1>2, FrameTypes DEF Inv, FramesInv
<1>7. \A i \in 2..(n + 1) : i = n + 1 \/ (i \in 2..n /\ i \in 1..n)
  BY <1>2
<1>8. \A i \in 2..(n + 1) : Wired(frames'[i], factories)
  BY <1>5, <1>6, <1>7 DEF FramesWired
<1>9. frames'[1] = frames[1]
  BY <1>2, <1>6
<1> QED BY <1>1, <1>6, <1>8, <1>9 DEF FramesWired

LEMMA WiredCall ==
    ASSUME NEW c \in Contexts \cup {None}, NEW t \in Roots, Call(c, t)
    PROVE  FramesWired'
<1>1. frames' = <<Frame(None, "caller", <<>>, <<t>>)>>
  BY DEF Call
<1>2. Len(frames') = 1 /\ frames'[1].inject = <<>> /\ frames'[1].body = <<t>>
  BY <1>1 DEF Frame
<1>3. Uses(<<t>>) \subseteq Entrances \cup Bare
  BY WiredTypes DEF Uses
<1> QED BY <1>2, <1>3 DEF FramesWired

LEMMA WiredReturn ==
    ASSUME Inv, FramesWired, Inner, NEW m \in Nat, Len(made) <= m, NEW x \in 1..m, Return(x)
    PROVE  FramesWired'
<1> DEFINE n == Len(frames)
<1>1. n \in Nat /\ n > 1 /\ \A i \in 1..n : frames[i] \in FrameOf(Len(made))
  BY TopEnds, FrameTypes
<1>2. LastMoves(n - 1, Answered(frames[n - 1], x)) /\ factories' = factories
  BY StackReturns DEF Return
<1>3. Asks(frames[n - 1]) /\ frames[n - 1] \in FrameOf(Len(made)) /\ Len(made) \in Nat /\ n - 1 \in 1..n
  <2>1. Runs(frames[n], frames[n - 1], resolutionStack[n - 1])
    BY <1>1 DEF Inv, StackInv, ChainInv
  <2> QED BY <1>1, <2>1, FrameTypes DEF Runs
<1>4. Follows(Answered(frames[n - 1], x), frames[n - 1])
  BY <1>3, AnsweredFollows
<1> QED BY <1>2, <1>3, <1>4, WiredMoves

\* What a frame becomes when it goes on without an answer.
LEMMA TailFollows ==
    ASSUME NEW n, NEW f \in FrameOf(n), NEW e,
           (f.inject # <<>> /\ e = [f EXCEPT !.inject = Tail(@)]) \/ (f.body # <<>> /\ e = [f EXCEPT !.body = Tail(@)])
    PROVE  Follows(e, f) /\ e \in FrameOf(n)
<1>1. CASE f.inject # <<>> /\ e = [f EXCEPT !.inject = Tail(@)]
  <2>1. Uses(Tail(f.inject)) \subseteq Uses(f.inject) /\ Tail(f.inject) \in Seq(Tokens)
    BY <1>1, UsesTail, HeadTailProperties DEF FrameOf
  <2> QED BY <1>1, <2>1 DEF Follows, FrameOf
<1>2. CASE f.body # <<>> /\ e = [f EXCEPT !.body = Tail(@)]
  <2>1. Uses(Tail(f.body)) \subseteq Uses(f.body) /\ Tail(f.body) \in Seq(Tokens)
    BY <1>2, UsesTail, HeadTailProperties DEF FrameOf
  <2> QED BY <1>2, <2>1 DEF Follows, FrameOf
<1> QED BY <1>1, <1>2

\* The innermost call goes on.
LEMMA WiredTop ==
    ASSUME Inv, FramesWired, frames # <<>>, NEW e \in FrameOf(Len(made)), Follows(e, Top),
           frames' = Append(Front(frames), e), UNCHANGED <<resolutionStack, caller, registered, made>>
    PROVE  FramesWired'
<1>1. Len(frames) \in 1..Len(frames) /\ Top = frames[Len(frames)] /\ factories' = factories
  BY FrameTypes DEF registered
<1>2. LastMoves(Len(frames), e)
  BY <1>1, TopMoves DEF Follows, registered
<1> QED BY <1>1, <1>2, WiredMoves

LEMMA WiredStep == ASSUME Inv, FramesWired, [Next]_vars PROVE FramesWired'
<1>1. CASE UNCHANGED <<frames, factories>>
  BY <1>1 DEF FramesWired
<1>2. CASE frames' = <<>>
  BY <1>2, EmptySeq DEF FramesWired
<1>3. CASE Resolve
  <2>1. CASE Over
    BY <1>2, <2>1 DEF Over
  <2>2. CASE Fail \/ \E t \in Tokens : Refuse(t)
    BY <1>1, <2>2 DEF Fail, Refuse, registered
  <2>3. CASE Unwind
    <3>1. LastMoves(Len(frames) - 1, frames[Len(frames) - 1]) /\ factories' = factories
      BY <2>3, TopGone DEF Unwind, Popped, registered
    <3>2. Len(frames) - 1 \in 1..Len(frames)
      BY <2>3, TopEnds DEF Unwind
    <3>3. Follows(frames[Len(frames) - 1], frames[Len(frames) - 1])
      BY DEF Follows
    <3> QED BY <3>1, <3>2, <3>3, WiredMoves
  <2>4. CASE Complete
    <3>1. Inner /\ Len(made) \in Nat /\ Top.got \subseteq 1..Len(made)
      BY <2>4, FrameTypes DEF Complete, Resolving, FrameOf
    <3>2. Return(Len(made) + 1) \/ \E x \in Top.got : Return(x)
      BY <2>4 DEF Complete
    <3>3. CASE Return(Len(made) + 1)
      <4>1. Len(made) + 1 \in Nat /\ Len(made) <= Len(made) + 1 /\ Len(made) + 1 \in 1..(Len(made) + 1)
        BY <3>1
      <4> QED BY <3>1, <3>3, <4>1, WiredReturn
    <3>4. CASE \E x \in Top.got : Return(x)
      BY <3>1, <3>4, WiredReturn
    <3> QED BY <3>2, <3>3, <3>4
  <2>5. CASE GiveProxy \/ Catch
    <3>1. frames # <<>> /\ Top \in FrameOf(Len(made))
      BY <2>5, FrameTypes DEF GiveProxy, Catch, Resolving, Inner
    <3>2. PICK e : /\ frames' = Append(Front(frames), e)
                   /\ \/ Top.inject # <<>> /\ e = [Top EXCEPT !.inject = Tail(@)]
                      \/ Top.body # <<>> /\ e = [Top EXCEPT !.body = Tail(@)]
      BY <2>5 DEF GiveProxy, Catch, Proxied
    <3>3. Follows(e, Top) /\ e \in FrameOf(Len(made))
      BY <3>1, <3>2, TailFollows
    <3>4. UNCHANGED <<resolutionStack, caller, registered, made>>
      BY <2>5 DEF GiveProxy, Catch
    <3> QED BY <3>1, <3>2, <3>3, <3>4, WiredTop
  <2>6. ASSUME NEW t \in Tokens, Find(t) PROVE FramesWired'
    <3>1. PICK x \in Existing(t) : frames' = Append(Front(frames), Answered(Top, x))
      BY <2>6 DEF Find
    <3>2. frames # <<>> /\ Asks(Top) /\ Top \in FrameOf(Len(made)) /\ Len(made) \in Nat /\ x \in 1..Len(made)
      BY <2>6, <3>1, FrameTypes, ExistingType DEF Find, Asked, Resolving
    <3>3. Follows(Answered(Top, x), Top) /\ Answered(Top, x) \in FrameOf(Len(made))
      BY <3>2, AnsweredFollows, AnsweredType
    <3>4. UNCHANGED <<resolutionStack, caller, registered, made>>
      BY <2>6 DEF Find
    <3> QED BY <3>1, <3>2, <3>3, <3>4, WiredTop
  <2> QED BY <1>3, <2>1, <2>2, <2>3, <2>4, <2>5, <2>6, WiredBegin DEF Resolve
<1>4. CASE Register
  <2>1. frames' = <<>>
    BY <1>4 DEF Register, Cleanup, Clear, RegisterInstance, RegisterFactory, Remove, Compile, Idle, running
  <2> QED BY <1>2, <2>1
<1>5. CASE \E c \in Contexts \cup {None} : \E t \in Roots : Call(c, t)
  BY <1>5, WiredCall
<1>6. CASE \E c \in Contexts : RunInScope(c)
  <2>1. frames' = <<>>
    BY <1>6 DEF RunInScope, Enter, Finish, Teardown, HookSettles, Leave, HookRejects, Hooking, Idle, running
  <2> QED BY <1>2, <2>1
<1>7. CASE UNCHANGED vars
  BY <1>1, <1>7 DEF vars, registered, running
<1> QED BY <1>3, <1>4, <1>5, <1>6, <1>7 DEF Next

\* When a class cannot be made because a string or symbol it injects is not registered,
\* describe() of the classes the application enters by names it in the row of that class:
\* for any wiring of finitely many classes, however deep, and whatever was registered since.
THEOREM LackIsToldHolds == ASSUME IsFiniteSet(Tokens) PROVE Spec => LackIsTold
<1>1. ASSUME Inv, Absent, FramesWired, [Next]_vars, thrown = None, thrown' # None,
             Top.token \in Bare, Top.via = "constructor", frames[Len(frames) - 1].inject # <<>>
      PROVE  \E row \in Describe(Entrances) :
                row.token = frames[Len(frames) - 1].token /\ Top.token \in row.missing
  <2> DEFINE n == Len(frames)
             t == frames[n - 1].token
             d == Top.token
             known == Entrances \cup RegisteredTokens
  <2>1. frames # <<>>
    BY <1>1 DEF Next, Resolve, GiveProxy, Complete, Return, Fail, Catch, Unwind, Over, Refuse, Find, Begin, Asked,
       Resolving, Inner, Register, Cleanup, Clear, RegisterInstance, RegisterFactory, Remove, Compile, Call,
       RunInScope, Enter, Finish, Teardown, HookSettles, Leave, HookRejects, Hooking, running, vars
  <2>2. n \in Nat /\ n > 1 /\ Top = frames[n]
    <3>1. Inner
      BY <1>1, <2>1 DEF Inner
    <3> QED BY <1>1, <3>1, TopEnds
  <2>3. n - 1 \in 2..n /\ n \in 2..n
    BY <1>1, <2>1, <2>2 DEF FramesWired
  <2>4. Runs(frames[n], frames[n - 1], resolutionStack[n - 1]) /\ Runs(frames[n - 1], frames[n - 2], resolutionStack[n - 2])
    BY <1>1, <2>3 DEF Inv, StackInv, ChainInv
  <2>5. frames[n - 1] \in FrameOf(Len(made)) /\ frames[n - 1].via = "constructor" /\ t \in Tokens
    BY <1>1, <2>3, <2>4, FrameTypes DEF Runs, FrameOf
  <2>6. d \in Uses(frames[n - 1].inject)
    BY <1>1, <2>2, <2>4, <2>5, UsesTail DEF Runs, Wanted, FrameOf
  <2>7. d \in InjectTokens(t) /\ Reached(t)
    BY <1>1, <2>3, <2>5, <2>6 DEF FramesWired, Wired
  <2>8. d \in Tokens /\ Scope[d] = "transient" /\ d \notin Entrances /\ ~SelfProviding(d)
    BY <1>1, WiredTypes DEF Entrances, SelfProviding
  <2>9. d \notin DOMAIN factories
    BY <1>1, <2>2, <2>3, <2>8 DEF FramesWired, Wired
  <2>10. ~Has(singletons, d)
    BY <1>1, <2>2, <2>3 DEF Absent
  <2>11. d \notin known
    BY <2>8, <2>9, <2>10 DEF RegisteredTokens, Entries, Has
  <2>12. known \in SUBSET Tokens
    <3>1. \A i \in DOMAIN singletons : singletons[i] \in EntryOf(Len(made))
      BY <1>1, ElementOfSeq, LenProperties DEF Inv, RegisteredInv, MapOf
    <3>2. DOMAIN factories \subseteq Tokens
      BY <1>1 DEF Inv, RegisteredInv, FactoriesOf
    <3> QED BY <3>1, <3>2, WiredTypes DEF RegisteredTokens, Entries, EntryOf
  <2>13. t \in Described(known)
    <3>1. known \subseteq Described(known) /\ Described(known) \in SUBSET Tokens /\ Closed(Described(known))
      BY <2>12, DescribedClosed
    <3>2. Entrances \subseteq Described(known)
      BY <3>1
    <3> QED BY <2>7, <3>1, <3>2 DEF Reached
  <2>14. Row(t, known) \in Describe(Entrances)
    BY <2>13 DEF Describe
  <2>15. Row(t, known).token = t /\ d \in Row(t, known).missing
    BY <2>7, <2>8, <2>11 DEF Row
  <2> QED BY <2>14, <2>15
<1>2. Inv /\ Absent /\ FramesWired /\ [Next]_vars
        => [(/\ thrown = None /\ thrown' # None
             /\ Top.token \in Bare /\ Top.via = "constructor" /\ frames[Len(frames) - 1].inject # <<>>)
             => \E row \in Describe(Entrances) :
                   row.token = frames[Len(frames) - 1].token /\ Top.token \in row.missing]_vars
  BY <1>1
<1>3. Init => Absent /\ FramesWired
  BY EmptySeq DEF Init, Absent, FramesWired
<1>4. Inv /\ Absent /\ FramesWired /\ [Next]_vars => (Absent /\ FramesWired)'
  BY AbsentStep, WiredStep
<1> QED BY <1>2, <1>3, <1>4, Invariant, PTL DEF Spec, LackIsTold
=============================================================================
