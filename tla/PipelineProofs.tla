--------------------------- MODULE PipelineProofs ---------------------------
(***************************************************************************)
(* Theorems about a request on its way through the pipeline, for any       *)
(* applications, decorated classes, requests, errors and filters.          *)
(***************************************************************************)
EXTENDS Pipeline, FiniteSetTheorems, SequenceTheorems, TLAPS

-----------------------------------------------------------------------------
(* Induction and recursion.  A set of numbers stands for the formula that  *)
(* is proved by induction, so that no fact takes an operator.              *)

\* A set of numbers has a least element.
LEMMA Least == ASSUME NEW T \in SUBSET Nat, T # {} PROVE \E m \in T : \A k \in T : m <= k
<1> DEFINE R == {ss \in Nat \X Nat : ss[1] < ss[2]}
<1>1. R = OpToRel(<, Nat) BY DEF OpToRel
<1>2. IsWellFoundedOn(R, Nat) BY <1>1, NatLessThanWellFounded, Zenon
<1> HIDE DEF R
<1>3. \E m \in T : \A k \in T : ~(<<k, m>> \in R)
  BY <1>2, WFMin, Zenon
<1>4. ASSUME NEW m \in T, NEW k \in T, ~(<<k, m>> \in R) PROVE m <= k
  BY <1>4 DEF R
<1> QED BY <1>3, <1>4

\* Induction up to n.
LEMMA Induct ==
    ASSUME NEW n \in Nat, NEW T, 0 \in T, \A i \in 0..(n - 1) : i \in T => (i + 1) \in T
    PROVE  \A i \in 0..n : i \in T
<1> DEFINE Lack == {i \in 0..n : i \notin T}
<1> SUFFICES ASSUME Lack # {} PROVE FALSE OBVIOUS
<1>1. Lack \in SUBSET Nat OBVIOUS
<1> HIDE DEF Lack
<1>2. PICK m \in Lack : \A k \in Lack : m <= k BY <1>1, Least
<1> USE DEF Lack
<1>3. m # 0 /\ m - 1 \in 0..(n - 1) BY <1>1
<1>4. m - 1 \notin Lack BY <1>2, <1>3
<1> QED BY <1>2, <1>3, <1>4

\* FlattenSeq satisfies its recursive definition.
LEMMA FlattenDef ==
    ASSUME NEW seqs, Len(seqs) \in Nat \ {0}
    PROVE  \E f : /\ f = [i \in 1..Len(seqs) |-> IF i = 1 THEN seqs[i] ELSE f[i - 1] \o seqs[i]]
                  /\ FlattenSeq(seqs) = f[Len(seqs)]
<1> DEFINE n == Len(seqs)
           At(f, i) == IF i = 1 THEN seqs[i] ELSE f[i - 1] \o seqs[i]
           T == {k \in Nat : \E f : f = [i \in 1..k |-> At(f, i)]}
<1>1. 0 \in T
  <2>1. <<>> = [i \in 1..0 |-> At(<<>>, i)] OBVIOUS
  <2> QED BY <2>1
<1>2. ASSUME NEW k \in 0..(n - 1), k \in T PROVE k + 1 \in T
  <2>1. PICK f : f = [i \in 1..k |-> At(f, i)] BY <1>2
  <2> DEFINE g == [i \in 1..(k + 1) |-> IF i \in 1..k THEN f[i] ELSE At(f, i)]
  <2>2. ASSUME NEW i \in 1..(k + 1) PROVE g[i] = At(g, i)
    <3>1. i # 1 => i - 1 \in 1..k /\ g[i - 1] = f[i - 1] OBVIOUS
    <3>2. g[i] = At(f, i) BY <2>1
    <3> QED BY <3>1, <3>2
  <2>3. g = [i \in 1..(k + 1) |-> g[i]] OBVIOUS
  <2> HIDE DEF g, At
  <2>4. g = [i \in 1..(k + 1) |-> At(g, i)] BY <2>2, <2>3
  <2> QED BY <2>4
<1> HIDE DEF T
<1>3. n \in T
  <2>1. n \in Nat /\ \A i \in 0..(n - 1) : i \in T => (i + 1) \in T BY <1>2
  <2> HIDE DEF n
  <2>2. \A i \in 0..n : i \in T BY <1>1, <2>1, Induct
  <2> QED BY <2>1, <2>2
<1>4. \E f : f = [i \in 1..n |-> At(f, i)] BY <1>3 DEF T
<1> DEFINE flatten == CHOOSE f : f = [i \in 1..n |-> At(f, i)]
<1>5. flatten = [i \in 1..n |-> At(flatten, i)] BY <1>4
<1>6. FlattenSeq(seqs) = flatten[n] BY DEF FlattenSeq
<1> QED BY <1>5, <1>6

IsSeq(s) == s \in Seq(ToSet(s))

\* `piece` stands in `whole` after its first `off` elements.
PieceAt(whole, piece, off) ==
    /\ off + Len(piece) <= Len(whole)
    /\ \A q \in 1..Len(piece) : whole[off + q] = piece[q]

\* A sequence, and one over a set.
LEMMA SeqIn == ASSUME NEW s, IsSeq(s), NEW S, \A i \in DOMAIN s : s[i] \in S PROVE s \in Seq(S)
BY DEF IsSeq, ToSet

\* A sequence over a set is one.
LEMMA InSeq == ASSUME NEW S, NEW s \in Seq(S) PROVE IsSeq(s)
BY DEF IsSeq, ToSet

\* The empty sequence is one.
LEMMA EmptySeqs == IsSeq(<<>>) /\ ToSet(<<>>) = {}
BY DEF IsSeq, ToSet

\* A piece stays where it is when something is appended, which itself is one.
LEMMA PieceKept ==
    ASSUME NEW S, NEW a \in Seq(S), NEW b \in Seq(S), NEW piece \in Seq(S), NEW off \in Nat, PieceAt(a, piece, off)
    PROVE  PieceAt(a \o b, piece, off)
<1>1. Len(a \o b) = Len(a) + Len(b) /\ Len(a) \in Nat /\ Len(b) \in Nat /\ Len(piece) \in Nat OBVIOUS
<1>2. ASSUME NEW q \in 1..Len(piece) PROVE (a \o b)[off + q] = piece[q]
  <2>1. off + q \in 1..Len(a) BY <1>1 DEF PieceAt
  <2>2. (a \o b)[off + q] = a[off + q] BY <2>1
  <2> QED BY <2>2 DEF PieceAt
<1>3. off + Len(piece) <= Len(a \o b) BY <1>1 DEF PieceAt
<1> QED BY <1>2, <1>3 DEF PieceAt

\* What is appended is a piece of the whole.
LEMMA PieceNew ==
    ASSUME NEW S, NEW a \in Seq(S), NEW b \in Seq(S)
    PROVE  PieceAt(a \o b, b, Len(a))
<1>1. Len(a \o b) = Len(a) + Len(b) /\ Len(a) \in Nat /\ Len(b) \in Nat OBVIOUS
<1>2. ASSUME NEW q \in 1..Len(b) PROVE (a \o b)[Len(a) + q] = b[q]
  <2>1. Len(a) + q \in 1..(Len(a) + Len(b)) /\ ~(Len(a) + q <= Len(a)) /\ Len(a) + q - Len(a) = q BY <1>1
  <2> QED BY <2>1
<1> QED BY <1>1, <1>2 DEF PieceAt

\* What is flattened consists of its pieces, whole and side by side.
LEMMA Flattened ==
    ASSUME NEW pieces, IsSeq(pieces), \A i \in DOMAIN pieces : IsSeq(pieces[i])
    PROVE  /\ IsSeq(FlattenSeq(pieces))
           /\ \A p \in DOMAIN FlattenSeq(pieces) : \E i \in DOMAIN pieces, off \in Nat :
                 /\ PieceAt(FlattenSeq(pieces), pieces[i], off)
                 /\ p - off \in DOMAIN pieces[i]
           /\ \A i \in DOMAIN pieces : \E off \in Nat : PieceAt(FlattenSeq(pieces), pieces[i], off)
<1> DEFINE n == Len(pieces)
<1>0. n \in Nat /\ DOMAIN pieces = 1..n BY DEF IsSeq
<1>1. CASE n = 0
  <2>1. FlattenSeq(pieces) = pieces BY <1>1 DEF FlattenSeq
  <2> QED BY <1>0, <1>1, <2>1
<1>2. CASE n # 0
  <2>1. PICK f : /\ f = [i \in 1..n |-> IF i = 1 THEN pieces[i] ELSE f[i - 1] \o pieces[i]]
                 /\ FlattenSeq(pieces) = f[n]
    BY <1>0, <1>2, FlattenDef
  <2> DEFINE S == UNION {ToSet(pieces[i]) : i \in 1..n}
             Sound(k) == /\ f[k] \in Seq(S)
                         /\ \A p \in 1..Len(f[k]) : \E i \in 1..k, off \in Nat :
                               PieceAt(f[k], pieces[i], off) /\ p - off \in 1..Len(pieces[i])
                         /\ \A i \in 1..k : \E off \in Nat : PieceAt(f[k], pieces[i], off)
             T == {k \in 0..n : k = 0 \/ Sound(k)}
  <2>2. \A i \in 1..n : pieces[i] \in Seq(S)
    <3>1. ASSUME NEW i \in 1..n PROVE \A j \in DOMAIN pieces[i] : pieces[i][j] \in S BY DEF ToSet
    <3> HIDE DEF S
    <3> QED BY <1>0, <3>1, SeqIn
  <2> HIDE DEF S
  <2>3. ASSUME NEW k \in 0..(n - 1), k \in T PROVE k + 1 \in T
    <3>1. CASE k = 0
      <4>1. f[1] = pieces[1] BY <1>0, <1>2, <2>1
      <4>2. ASSUME NEW p \in 1..Len(f[1]) PROVE \E i \in 1..1, off \in Nat :
                  PieceAt(f[1], pieces[i], off) /\ p - off \in 1..Len(pieces[i])
        <5>1. PieceAt(f[1], pieces[1], 0) BY <1>0, <1>2, <2>2, <4>1 DEF PieceAt
        <5> QED BY <4>1, <5>1
      <4>3. \A i \in 1..1 : \E off \in Nat : PieceAt(f[1], pieces[i], off)
        <5>1. PieceAt(f[1], pieces[1], 0) BY <1>0, <1>2, <2>2, <4>1 DEF PieceAt
        <5> QED BY <5>1
      <4>4. f[1] \in Seq(S) BY <1>0, <1>2, <2>2, <4>1
      <4>5. Sound(1) BY <4>2, <4>3, <4>4, Zenon
      <4>6. 1 \in 0..n BY <1>0, <1>2
      <4> HIDE DEF Sound, n
      <4> QED BY <3>1, <4>5, <4>6
    <3>2. CASE k # 0
      <4>1. k \in Nat \ {0} /\ k \in 1..n /\ k + 1 \in 1..n /\ k + 1 # 1 /\ (k + 1) - 1 = k BY <1>0, <3>2
      <4>2. Sound(k) BY <2>3, <3>2
      <4>3. f[k + 1] = f[k] \o pieces[k + 1] BY <2>1, <4>1
      <4> DEFINE a == f[k]
                 b == pieces[k + 1]
                 c == f[k + 1]
      <4>4. a \in Seq(S) /\ b \in Seq(S) /\ c = a \o b BY <2>2, <4>1, <4>2, <4>3
      <4>5. \A p \in 1..Len(a) : \E i \in 1..k, off \in Nat : PieceAt(a, pieces[i], off) /\ p - off \in 1..Len(pieces[i])
        BY <4>2
      <4> HIDE DEF a, b, c, n
      <4>6. c \in Seq(S) /\ Len(c) = Len(a) + Len(b) /\ Len(a) \in Nat /\ Len(b) \in Nat BY <4>4
      <4>7. ASSUME NEW p \in 1..Len(c) PROVE \E i \in 1..(k + 1), off \in Nat :
                  PieceAt(c, pieces[i], off) /\ p - off \in 1..Len(pieces[i])
        <5>1. CASE p <= Len(a)
          <6>1. PICK i \in 1..k, off \in Nat : PieceAt(a, pieces[i], off) /\ p - off \in 1..Len(pieces[i])
            BY <4>5, <4>6, <5>1
          <6>2. i \in 1..n /\ i \in 1..(k + 1) BY <1>0, <4>1
          <6>3. PieceAt(c, pieces[i], off)
            BY <2>2, <4>4, <6>1, <6>2, PieceKept
          <6> QED BY <6>1, <6>2, <6>3
        <5>2. CASE ~(p <= Len(a))
          <6>1. PieceAt(c, b, Len(a)) BY <4>4, PieceNew
          <6>2. p - Len(a) \in 1..Len(b) BY <4>6, <5>2
          <6>3. k + 1 \in 1..(k + 1) BY <4>1
          <6> QED BY <4>6, <6>1, <6>2, <6>3 DEF b
        <5> QED BY <5>1, <5>2
      <4>8. ASSUME NEW i \in 1..(k + 1) PROVE \E off \in Nat : PieceAt(c, pieces[i], off)
        <5>1. CASE i = k + 1
          <6>1. PieceAt(c, b, Len(a)) BY <4>4, PieceNew
          <6> QED BY <4>6, <5>1, <6>1 DEF b
        <5>2. CASE i # k + 1
          <6>1. i \in 1..k /\ i \in 1..n BY <1>0, <4>1, <5>2
          <6>2. PICK off \in Nat : PieceAt(a, pieces[i], off) BY <4>2, <6>1 DEF a
          <6> QED BY <2>2, <4>4, <6>1, <6>2, PieceKept
        <5> QED BY <5>1, <5>2
      <4>9. Sound(k + 1) BY <4>6, <4>7, <4>8 DEF c
      <4>10. k + 1 \in 0..n BY <1>0, <4>1
      <4> HIDE DEF Sound
      <4> QED BY <4>9, <4>10
    <3> QED BY <3>1, <3>2
  <2>4. n \in T
    <3>1. 0 \in T BY <1>0
    <3> HIDE DEF T
    <3>2. \A i \in 0..(n - 1) : i \in T => (i + 1) \in T BY <2>3
    <3> HIDE DEF n
    <3>3. \A i \in 0..n : i \in T BY <1>0, <3>1, <3>2, Induct
    <3> QED BY <1>0, <3>3
  <2>5. Sound(n) BY <1>2, <2>4
  <2>6. IsSeq(FlattenSeq(pieces)) BY <2>1, <2>5, InSeq
  <2>7. DOMAIN f[n] = 1..Len(f[n]) /\ \A i \in 1..n : DOMAIN pieces[i] = 1..Len(pieces[i]) BY <2>2, <2>5
  <2> HIDE DEF n
  <2>8. ASSUME NEW p \in DOMAIN f[n]
        PROVE  \E i \in DOMAIN pieces, off \in Nat : PieceAt(f[n], pieces[i], off) /\ p - off \in DOMAIN pieces[i]
    <3>1. PICK i \in 1..n, off \in Nat : PieceAt(f[n], pieces[i], off) /\ p - off \in 1..Len(pieces[i])
      BY <2>5, <2>7
    <3> QED BY <1>0, <2>7, <3>1
  <2>9. \A i \in DOMAIN pieces : \E off \in Nat : PieceAt(f[n], pieces[i], off) BY <1>0, <2>5
  <2> QED BY <2>1, <2>6, <2>8, <2>9
<1> QED BY <1>1, <1>2

\* The largest of numbers up to k.
LEMMA Top == ASSUME NEW k \in Nat, NEW s, s \subseteq 1..k, k \in s PROVE Max(s) = k
<1>1. \A x \in s : x <= k OBVIOUS
<1>2. \A x \in s : (\A y \in s : x >= y) => x = k OBVIOUS
<1>3. \E x \in s : \A y \in s : x >= y BY <1>1
<1> QED BY <1>1, <1>2, <1>3 DEF Max

\* The metadata of a class arises decorator by decorator.
LEMMA Decorating ==
    ASSUME NEW ds, IsSeq(ds)
    PROVE  \E after : /\ after[0] = <<>>
                      /\ \A k \in 1..Len(ds) : after[k] = Apply(after[k - 1], ds[k])
                      /\ Decorated(ds) = after[Len(ds)]
<1> DEFINE n == Len(ds)
           Value(it, s) == IF s = {} THEN <<>> ELSE Apply(it[s \ {Max(s)}], ds[Max(s)])
           T == {k \in 0..n : \E g : g = [s \in SUBSET (1..k) |-> Value(g, s)]}
<1>0. n \in Nat /\ DOMAIN ds = 1..n BY DEF IsSeq
<1> HIDE DEF n
<1>1. 0 \in T
  <2> DEFINE g == [s \in SUBSET (1..0) |-> <<>>]
  <2>1. \A s \in SUBSET (1..0) : s = {} OBVIOUS
  <2>2. g = [s \in SUBSET (1..0) |-> Value(g, s)] BY <2>1
  <2> QED BY <1>0, <2>2
<1>2. ASSUME NEW k \in 0..(n - 1), k \in T PROVE k + 1 \in T
  <2>1. PICK g : g = [s \in SUBSET (1..k) |-> Value(g, s)] BY <1>2
  <2> DEFINE h == [s \in SUBSET (1..(k + 1)) |-> IF s \in SUBSET (1..k) THEN g[s] ELSE Apply(g[s \ {k + 1}], ds[k + 1])]
  <2>2. ASSUME NEW s \in SUBSET (1..(k + 1)) PROVE h[s] = Value(h, s)
    <3>1. CASE s \in SUBSET (1..k)
      <4>1. h[s] = Value(g, s) BY <2>1, <3>1
      <4>2. s \ {Max(s)} \in SUBSET (1..k) /\ s \ {Max(s)} \in SUBSET (1..(k + 1)) BY <3>1
      <4>3. h[s \ {Max(s)}] = g[s \ {Max(s)}] BY <4>2
      <4> HIDE DEF h
      <4> QED BY <4>1, <4>3
    <3>2. CASE s \notin SUBSET (1..k)
      <4>1. k + 1 \in s BY <3>2
      <4>2. Max(s) = k + 1
        <5>1. k + 1 \in Nat /\ s \subseteq 1..(k + 1) BY <1>0
        <5> QED BY <4>1, <5>1, Top
      <4>3. s \ {k + 1} \in SUBSET (1..k) /\ s \ {k + 1} \in SUBSET (1..(k + 1)) OBVIOUS
      <4>4. h[s] = Apply(g[s \ {k + 1}], ds[k + 1]) BY <3>2
      <4>5. h[s \ {k + 1}] = g[s \ {k + 1}] BY <4>3
      <4> HIDE DEF h
      <4> QED BY <4>1, <4>2, <4>4, <4>5
    <3> QED BY <3>1, <3>2
  <2>3. h = [s \in SUBSET (1..(k + 1)) |-> h[s]] OBVIOUS
  <2> HIDE DEF h, Value
  <2>4. h = [s \in SUBSET (1..(k + 1)) |-> Value(h, s)] BY <2>2, <2>3
  <2>5. k + 1 \in 0..n BY <1>0
  <2> QED BY <2>4, <2>5
<1> HIDE DEF T
<1>3. n \in T
  <2>2. \A i \in 0..n : i \in T BY <1>0, <1>1, <1>2, Induct
  <2> QED BY <1>0, <2>2
<1>4. \E g : g = [s \in SUBSET (1..n) |-> Value(g, s)] BY <1>3 DEF T
<1> DEFINE iter == CHOOSE g : g = [s \in SUBSET (1..n) |-> Value(g, s)]
           after == [k \in 0..n |-> iter[1..k]]
<1>5. iter = [s \in SUBSET (1..n) |-> Value(iter, s)] BY <1>4
<1>6. Decorated(ds) = iter[1..n]
  BY <1>0 DEF Decorated, FoldLeft, MapThenFoldSet
<1> HIDE DEF iter
<1>7. after[0] = <<>>
  <2>1. 1..0 = {} /\ {} \in SUBSET (1..n) OBVIOUS
  <2>2. iter[{}] = <<>> BY <1>5, <2>1
  <2> QED BY <1>0, <2>1, <2>2
<1>8. ASSUME NEW k \in 1..n PROVE after[k] = Apply(after[k - 1], ds[k])
  <2>1. 1..k \in SUBSET (1..n) /\ 1..k # {} /\ k \in 1..k BY <1>0
  <2>2. Max(1..k) = k BY <1>0, <2>1, Top
  <2>3. (1..k) \ {k} = 1..(k - 1) BY <1>0
  <2>4. iter[1..k] = Apply(iter[1..(k - 1)], ds[k]) BY <1>5, <2>1, <2>2, <2>3
  <2> QED BY <1>0, <2>4
<1>9. Decorated(ds) = after[n] BY <1>0, <1>6
<1> HIDE DEF after
<1> QED BY <1>7, <1>8, <1>9 DEF n

-----------------------------------------------------------------------------
(* What the decorators of a class leave in its metadata. *)

\* `m` and `n` have the same under `key`.
SameAt(m, n, key) ==
    /\ key \in DOMAIN m <=> key \in DOMAIN n
    /\ key \in DOMAIN m => m[key] = n[key]

\* Maps that agree at a key read the same there.
LEMMA SameReads == ASSUME NEW m, NEW n, NEW key, SameAt(m, n, key) PROVE \A default : Read(m, key, default) = Read(n, key, default)
BY DEF SameAt, Read

\* What is put is there, and nothing else is touched.
LEMMA PutHere == ASSUME NEW m, NEW key, NEW value PROVE key \in DOMAIN Put(m, key, value) /\ Put(m, key, value)[key] = value
BY DEF Put
LEMMA PutOther == ASSUME NEW m, NEW key, NEW value, NEW k, k # key PROVE SameAt(Put(m, key, value), m, k)
BY DEF Put, SameAt

\* The same for a method, and what Put makes readable for it.
LEMMA SameReadsFor ==
    ASSUME NEW m, NEW n, NEW key, SameAt(m, n, key)
    PROVE  \A name, default : ReadFor(m, key, name, default) = ReadFor(n, key, name, default)
BY SameReads DEF ReadFor

LEMMA PutForReads ==
    ASSUME NEW m, NEW key, NEW name, NEW value
    PROVE  /\ name \in DOMAIN PutFor(m, key, name, value)[key] /\ key \in DOMAIN PutFor(m, key, name, value)
           /\ \A default : ReadFor(PutFor(m, key, name, value), key, name, default) = value
           /\ \A other, default : other # name =>
                 ReadFor(PutFor(m, key, name, value), key, other, default) = ReadFor(m, key, other, default)
           /\ \A other : (key \in DOMAIN m /\ other \in DOMAIN m[key]) => other \in DOMAIN PutFor(m, key, name, value)[key]
<1> DEFINE inner == Put(Read(m, key, <<>>), name, value)
<1>1. name \in DOMAIN inner /\ inner[name] = value BY PutHere
<1>2. key \in DOMAIN PutFor(m, key, name, value) /\ PutFor(m, key, name, value)[key] = inner BY PutHere DEF PutFor
<1>3. ASSUME NEW other, other # name PROVE SameAt(inner, Read(m, key, <<>>), other) BY <1>3, PutOther
<1>4. \A other : other \in DOMAIN Read(m, key, <<>>) => other \in DOMAIN inner BY DEF Put
<1> HIDE DEF inner
<1>5. Read(PutFor(m, key, name, value), key, <<>>) = inner BY <1>2 DEF Read
<1>6. \A default : ReadFor(PutFor(m, key, name, value), key, name, default) = value BY <1>1, <1>5 DEF ReadFor, Read
<1>7. ASSUME NEW other, NEW default, other # name
      PROVE  ReadFor(PutFor(m, key, name, value), key, other, default) = ReadFor(m, key, other, default)
  <2>1. Read(inner, other, default) = Read(Read(m, key, <<>>), other, default) BY <1>3, <1>7, SameReads
  <2> QED BY <1>5, <2>1 DEF ReadFor
<1>8. \A other : (key \in DOMAIN m /\ other \in DOMAIN m[key]) => other \in DOMAIN PutFor(m, key, name, value)[key]
  BY <1>2, <1>4 DEF Read
<1> QED BY <1>1, <1>2, <1>6, <1>7, <1>8

\* The decorators that write a key of those that decide about a request.
Writers(key) ==
    IF key = "rateLimit" THEN {"RateLimit"}
    ELSE IF key = "isPublic" THEN {"Public"}
    ELSE IF key = "isPrivate" THEN {"Private"}
    ELSE IF key = "sse" THEN {"Sse"}
    ELSE IF key = "websocket" THEN {"WebSocket"}
    ELSE IF key = "channel" THEN {"ChannelRoute"}
    ELSE IF key = "channelAuth" THEN {"ChannelAuth"}
    ELSE IF key = "guards" THEN {"UseGuards", "RequireAuth", "RequireRole", "RequirePermission"}
    ELSE IF key = "validation" THEN {"Validate"}
    ELSE IF key = "security" THEN {"ApiSecurity"}
    ELSE IF key = "openapi"
      THEN {"ApiDoc", "ApiResponse", "ApiBody", "ApiQuery", "ApiDeprecated", "ApiTags", "Validate"}
    ELSE {"Middleware", "JwtAuth"}

\* The decorators that add no route.
Silent == {"Singleton", "RequestScoped", "Stateless", "Module", "Interval", "Cron", "OnBootstrap", "OnEvent",
           "Controller", "ChannelRoute", "ChannelAuth", "UseGuards", "RequireAuth", "RequireRole",
           "RequirePermission", "RateLimit", "Concurrency", "Public", "Private", "Middleware", "JwtAuth",
           "UseFilters", "Catch", "Serialize", "Cache", "CacheInvalidate", "Idempotent", "SingleFlight", "Header",
           "Redirect", "Status", "NoContent", "ETag", "Timeout", "ApiDoc", "ApiResponse", "ApiBody", "ApiQuery",
           "ApiDeprecated", "ApiTags", "ApiSecurity", "ApiSecurityScheme", "Injectable", "Validate"}
Writes(is, key) == IF key = "routes" THEN is \notin Silent ELSE is \in Writers(key)
Keys == {"rateLimit", "isPublic", "isPrivate", "sse", "websocket", "channel", "channelAuth", "guards", "validation",
         "middlewares", "methodMiddlewares", "routes", "security", "openapi"}

\* Every other decorator leaves it as it is.
LEMMA OthersKeep ==
    ASSUME NEW m, NEW d, NEW key \in Keys, ~Writes(d.is, key)
    PROVE  SameAt(Apply(m, d), m, key)
<1>1. ASSUME NEW k, NEW value, k # key PROVE SameAt(Put(m, k, value), m, key)
  BY <1>1, PutOther
<1>2. ASSUME NEW k, NEW value, NEW l, NEW other, k # key, l # key PROVE SameAt(Put(Put(m, k, value), l, other), m, key)
  <2>1. SameAt(Put(m, k, value), m, key) /\ SameAt(Put(Put(m, k, value), l, other), Put(m, k, value), key) BY <1>2, PutOther
  <2> QED BY <2>1 DEF SameAt
<1>3. CASE d.is \in {"Singleton", "RequestScoped", "Stateless", "Module", "Interval", "Cron", "OnBootstrap", "OnEvent",
                     "Controller"}
  BY <1>1, <1>3 DEF Apply, Singleton, RequestScoped, Stateless, Module, Interval, Cron, OnBootstrap, OnEvent,
                    Controller, PutFor, Keys, Writes, Silent
<1>4. CASE d.is \in {"ChannelRoute", "ChannelAuth", "UseGuards", "RequireAuth", "RequireRole", "RequirePermission", "RateLimit",
                     "Concurrency", "Public", "Private"}
  <2>1. CASE d.is \in {"UseGuards", "RequireAuth", "RequireRole", "RequirePermission"}
    BY <1>1, <2>1 DEF Apply, UseGuards, RequireAuth, RequireRole, RequirePermission, AddFor, PutFor,
                      Keys, Writes, Writers, Silent
  <2>2. CASE d.is \in {"ChannelRoute", "ChannelAuth", "RateLimit"}
    BY <1>1, <2>2 DEF Apply, ChannelRoute, ChannelAuth, RateLimit, PutFor, Keys, Writes, Writers, Silent
  <2>3. CASE d.is \in {"Concurrency", "Public", "Private"}
    BY <1>1, <2>3 DEF Apply, Concurrency, Public, Private, PutFor, Keys, Writes, Writers, Silent
  <2> QED BY <1>4, <2>1, <2>2, <2>3
<1>5. CASE d.is \in {"Middleware", "JwtAuth", "UseFilters", "Catch"}
  <2>1. ASSUME NEW onMethod, NEW onClass, NEW e, NEW more, key # onMethod, key # onClass
        PROVE  SameAt(Add(m, onMethod, onClass, e, more), m, key)
    BY <1>1, <2>1 DEF Add, AddFor, PutFor
  <2>2. CASE d.is = "Middleware" BY <2>1, <2>2 DEF Apply, Middleware, Keys, Writes, Writers, Silent
  <2>3. CASE d.is = "JwtAuth" BY <2>1, <2>3 DEF Apply, JwtAuth, Middleware, Keys, Writes, Writers, Silent
  <2>4. CASE d.is = "UseFilters" BY <2>1, <2>4 DEF Apply, UseFilters, Keys, Writes, Writers, Silent
  <2>5. CASE d.is = "Catch" BY <1>1, <2>5 DEF Apply, Catch, Keys, Writes, Writers, Silent
  <2> QED BY <1>5, <2>2, <2>3, <2>4, <2>5
<1>6. CASE d.is \in {"Serialize", "Cache", "CacheInvalidate", "Idempotent", "SingleFlight", "Header", "Redirect", "Status",
                     "NoContent", "ETag", "Timeout"}
  <2>1. CASE d.is = "Serialize" BY <1>1, <2>1 DEF Apply, Serialize, PutFor, Keys, Writes, Writers, Silent
  <2>2. CASE d.is \in {"Cache", "CacheInvalidate", "Idempotent", "SingleFlight"}
    BY <1>1, <2>2 DEF Apply, Cache, CacheInvalidate, Idempotent, SingleFlight, PutFor, Keys, Writes, Writers, Silent
  <2>3. CASE d.is \in {"Header", "Redirect", "Status"}
    <3>1. CASE d.is = "Header" BY <1>1, <3>1 DEF Apply, Header, PutFor, Keys, Writes, Silent
    <3>2. CASE d.is = "Redirect" BY <1>1, <3>2 DEF Apply, Redirect, PutFor, Keys, Writes, Silent
    <3>3. CASE d.is = "Status" BY <1>1, <3>3 DEF Apply, Status, PutFor, Keys, Writes, Silent
    <3> QED BY <2>3, <3>1, <3>2, <3>3
  <2>4. CASE d.is \in {"NoContent", "ETag", "Timeout"}
    <3>1. CASE d.is = "NoContent" BY <1>1, <3>1 DEF Apply, NoContent, PutFor, Keys, Writes, Silent
    <3>2. CASE d.is = "ETag" BY <1>1, <3>2 DEF Apply, ETag, PutFor, Keys, Writes, Silent
    <3>3. CASE d.is = "Timeout" BY <1>1, <3>3 DEF Apply, Timeout, PutFor, Keys, Writes, Silent
    <3> QED BY <2>4, <3>1, <3>2, <3>3
  <2> QED BY <1>6, <2>1, <2>2, <2>3, <2>4
<1>7. CASE d.is \in {"ApiDoc", "ApiResponse", "ApiBody", "ApiQuery", "ApiDeprecated", "ApiTags", "ApiSecurity", "ApiSecurityScheme"}
  <2>1. CASE d.is = "ApiDoc" BY <1>1, <2>1 DEF Apply, ApiDoc, PutFor, Keys, Writes, Writers, Silent
  <2>2. CASE d.is \in {"ApiResponse", "ApiQuery"}
    BY <1>1, <2>2 DEF Apply, ApiResponse, ApiQuery, TellMore, Tell, PutFor, Keys, Writes, Writers, Silent
  <2>3. CASE d.is \in {"ApiBody", "ApiDeprecated"}
    BY <1>1, <2>3 DEF Apply, ApiBody, ApiDeprecated, Tell, PutFor, Keys, Writes, Writers, Silent
  <2>4. CASE d.is = "ApiTags" BY <1>1, <2>4 DEF Apply, ApiTags, Tell, PutFor, Keys, Writes, Writers, Silent
  <2>5. CASE d.is = "ApiSecurity" BY <1>1, <2>5 DEF Apply, ApiSecurity, AddFor, PutFor, Keys, Writes, Writers, Silent
  <2>6. CASE d.is = "ApiSecurityScheme" BY <1>1, <2>6 DEF Apply, ApiSecurityScheme, PutFor, Keys, Writes, Writers, Silent
  <2> QED BY <1>7, <2>1, <2>2, <2>3, <2>4, <2>5, <2>6
<1>8. CASE d.is \in {"Injectable", "Validate"}
  BY <1>2, <1>8 DEF Apply, Injectable, Validate, PutFor, Keys, Writes, Writers, Silent
<1>9. CASE d.is \in {"Sse", "WebSocket"}
  BY <1>2, <1>9 DEF Apply, Sse, WebSocket, Get, Route, PutFor, Keys, Writes, Writers, Silent
<1>10. CASE d.is \notin Silent \union {"Sse", "WebSocket"}
  BY <1>1, <1>10 DEF Apply, Route, Keys, Writes, Silent
<1> QED BY <1>3, <1>4, <1>5, <1>6, <1>7, <1>8, <1>9, <1>10 DEF Silent

\* The same of flags.
LEMMA SameFlags ==
    ASSUME NEW m, NEW n, NEW key, SameAt(m, n, key)
    PROVE  \A name : ReadFor(m, key, name, FALSE) = ReadFor(n, key, name, FALSE)
<1> DEFINE no == FALSE
<1> HIDE DEF no
<1>1. \A name : ReadFor(m, key, name, no) = ReadFor(n, key, name, no) BY SameReadsFor
<1> QED BY <1>1 DEF no

\* What a decorator that sets a flag of its method makes of it.
LEMMA FlagReads ==
    ASSUME NEW m, NEW key, NEW name
    PROVE  /\ ReadFor(PutFor(m, key, name, TRUE), key, name, FALSE) = TRUE
           /\ \A other : other # name =>
                 ReadFor(PutFor(m, key, name, TRUE), key, other, FALSE) = ReadFor(m, key, other, FALSE)
<1> DEFINE no == FALSE
           yes == TRUE
<1> HIDE DEF no, yes
<1>1. ReadFor(PutFor(m, key, name, yes), key, name, no) = yes BY PutForReads
<1>2. \A other : other # name => ReadFor(PutFor(m, key, name, yes), key, other, no) = ReadFor(m, key, other, no)
  BY PutForReads
<1> QED BY <1>1, <1>2 DEF no, yes

\* The decorators that set a flag of their method, and those that ask for guards.
Flags == {<<"RateLimit", "rateLimit">>, <<"Public", "isPublic">>, <<"Private", "isPrivate">>, <<"Sse", "sse">>,
          <<"WebSocket", "websocket">>, <<"ChannelAuth", "channelAuth">>}
Asks == {"UseGuards", "RequireAuth", "RequireRole", "RequirePermission"}

\* What the document says of the method `name`: what @Validate checks, of the query
\* but for an @ApiDoc that tells it itself, and what @ApiSecurity names.
BodyTold(checked, told) == "body" \in DOMAIN checked => "body" \in DOMAIN told
QueryTold(checked, told) == DOMAIN ShapeOf(Read(checked, "query", <<>>)) \subseteq DOMAIN Read(told, "query", <<>>)
TellsQuery(d, name) == d.is = "ApiDoc" /\ d.on = name /\ "query" \in DOMAIN d.with
NamesBearer(d, name) == d.is = "ApiSecurity" /\ d.on = name /\ d.with = "bearerAuth"
ToldOf(m, ds, name) ==
    /\ BodyTold(ReadFor(m, "validation", name, <<>>), Documented(m, name))
    /\ QueryTold(ReadFor(m, "validation", name, <<>>), Documented(m, name)) \/ \E d \in ds : TellsQuery(d, name)
    /\ IsSeq(ReadFor(m, "security", name, <<>>))
    /\ "bearerAuth" \in ToSet(ReadFor(m, "security", name, <<>>)) => \E d \in ds : NamesBearer(d, name)

\* What the metadata `m` says once the decorators `ds` have run.
Learnt(m, ds) ==
    /\ \A f \in Flags, d \in ds : d.is = f[1] => ReadFor(m, f[2], d.on, FALSE) = TRUE
    /\ \A name : ReadFor(m, "isPublic", name, FALSE) # FALSE => \E d \in ds : d.is = "Public" /\ d.on = name
    /\ \A name : IsSeq(ReadFor(m, "guards", name, <<>>))
    /\ \A d \in ds : d.is \in Asks => ReadFor(m, "guards", d.on, <<>>) # <<>>
    /\ \A d \in ds : d.is = "Validate" => ReadFor(m, "validation", d.on, <<>>) = d.with
    /\ \A d \in ds : d.is = "ChannelRoute" => "channel" \in DOMAIN m /\ d.on \in DOMAIN m["channel"]
    /\ IsSeq(Read(m, "middlewares", <<>>))
    /\ \A name : IsSeq(ReadFor(m, "methodMiddlewares", name, <<>>))
    /\ IsSeq(Read(m, "routes", <<>>))
    /\ \A name : ToldOf(m, ds, name)

\* A decorator that sets a flag.
LEMMA FlagSet ==
    ASSUME NEW m, NEW d, NEW f \in Flags, d.is = f[1]
    PROVE  SameAt(Apply(m, d), PutFor(m, f[2], d.on, TRUE), f[2])
<1>1. \A x, key : SameAt(x, x, key) BY DEF SameAt
<1>2. \A x, k, value, key : k # key => SameAt(Put(x, k, value), x, key) BY PutOther
<1>3. CASE f \in {<<"RateLimit", "rateLimit">>, <<"Public", "isPublic">>, <<"Private", "isPrivate">>, <<"ChannelAuth", "channelAuth">>}
  <2>1. CASE f = <<"RateLimit", "rateLimit">> BY <1>1, <2>1 DEF Apply, RateLimit
  <2>2. CASE f = <<"Public", "isPublic">> BY <1>1, <2>2 DEF Apply, Public
  <2>3. CASE f = <<"Private", "isPrivate">> BY <1>1, <2>3 DEF Apply, Private
  <2>4. CASE f = <<"ChannelAuth", "channelAuth">> BY <1>1, <2>4 DEF Apply, ChannelAuth
  <2> QED BY <1>3, <2>1, <2>2, <2>3, <2>4
<1>4. CASE f = <<"Sse", "sse">> BY <1>2, <1>4 DEF Apply, Sse, Get, Route
<1>5. CASE f = <<"WebSocket", "websocket">> BY <1>2, <1>5 DEF Apply, WebSocket, Get, Route
<1> QED BY <1>3, <1>4, <1>5 DEF Flags

\* Sequences of one, of two, and with one or a sequence appended.
LEMMA OneSeq == ASSUME NEW x PROVE IsSeq(<<x>>) /\ <<x>> # <<>>
<1>1. <<x>> \in Seq({x}) OBVIOUS
<1> QED BY <1>1, InSeq

\* One that asks for guards adds some.
LEMMA GuardsAdded ==
    ASSUME NEW m, NEW d, d.is \in Asks, d.is = "UseGuards" => d.with \in Seq(STRING) /\ d.with # <<>>
    PROVE  \E more : /\ IsSeq(more) /\ more # <<>>
                     /\ Apply(m, d) = AddFor(m, "guards", d.on, more)
<1>1. CASE d.is = "UseGuards" BY <1>1, InSeq DEF Apply, UseGuards
<1>2. CASE d.is = "RequireAuth" BY <1>2, OneSeq DEF Apply, RequireAuth
<1>3. CASE d.is = "RequireRole" BY <1>3, OneSeq DEF Apply, RequireRole
<1>4. CASE d.is = "RequirePermission" BY <1>4, OneSeq DEF Apply, RequirePermission
<1> QED BY <1>1, <1>2, <1>3, <1>4 DEF Asks

\* One that adds middlewares.
LEMMA MiddlewaresAdded ==
    ASSUME NEW m, NEW d, DOMAIN d = {"is", "on", "with"}, d.is \in {"Middleware", "JwtAuth"},
           d.is = "Middleware" => d.with \in Seq(STRING)
    PROVE  \E more : /\ IsSeq(more)
                     /\ \/ Apply(m, d) = Put(m, "middlewares", Read(m, "middlewares", <<>>) \o more)
                        \/ Apply(m, d) = AddFor(m, "methodMiddlewares", d.on, more)
<1>1. CASE d.is = "Middleware" BY <1>1, InSeq DEF Apply, Middleware, Add
<1>2. CASE d.is = "JwtAuth"
  <2> DEFINE e == [d EXCEPT !.with = <<"jwt">>]
  <2>1. e.with = <<"jwt">> /\ e.on = d.on OBVIOUS
  <2>2. Apply(m, d) = Middleware(m, e) BY <1>2 DEF Apply, JwtAuth
  <2>3. IsSeq(<<"jwt">>) BY OneSeq
  <2> HIDE DEF e
  <2> QED BY <2>1, <2>2, <2>3 DEF Middleware, Add
<1> QED BY <1>1, <1>2

LEMMA AppendSeq == ASSUME NEW s, IsSeq(s), NEW x PROVE IsSeq(Append(s, x))
<1>1. s \in Seq(ToSet(s) \union {x}) BY DEF IsSeq
<1>2. Append(s, x) \in Seq(ToSet(s) \union {x}) BY <1>1
<1> QED BY <1>2, InSeq

LEMMA ConcatSeq ==
    ASSUME NEW s, IsSeq(s), NEW t, IsSeq(t)
    PROVE  /\ IsSeq(s \o t) /\ ToSet(s \o t) = ToSet(s) \union ToSet(t)
           /\ t # <<>> => s \o t # <<>>
<1>1. s \in Seq(ToSet(s) \union ToSet(t)) /\ t \in Seq(ToSet(s) \union ToSet(t)) BY DEF IsSeq
<1>2. s \o t \in Seq(ToSet(s) \union ToSet(t)) BY <1>1
<1>3. ToSet(s \o t) = ToSet(s) \union ToSet(t)
  <2>1. \A q : ToSet(q) = Range(q) BY DEF ToSet, Range
  <2> QED BY <1>1, <2>1, RangeConcatenation
<1>4. t # <<>> => s \o t # <<>> BY <1>1
<1> QED BY <1>2, <1>3, <1>4, InSeq

\* A class has a sequence of routes.
LEMMA RoutesAdded ==
    ASSUME NEW m, NEW d, IsSeq(Read(m, "routes", <<>>))
    PROVE  IsSeq(Read(Apply(m, d), "routes", <<>>))
<1>1. CASE ~Writes(d.is, "routes")
  <2>1. SameAt(Apply(m, d), m, "routes") BY <1>1, OthersKeep DEF Keys
  <2> QED BY <2>1, SameReads
<1>2. CASE Writes(d.is, "routes")
  <2>1. ASSUME NEW n, SameAt(n, m, "routes"), NEW e PROVE IsSeq(Read(Route(n, e), "routes", <<>>))
    <3>1. IsSeq(Read(n, "routes", <<>>)) BY <2>1, SameReads
    <3>2. PICK x : Route(n, e) = Put(n, "routes", Append(Read(n, "routes", <<>>), x)) BY DEF Route
    <3>3. IsSeq(Append(Read(n, "routes", <<>>), x)) BY <3>1, AppendSeq
    <3> QED BY <3>2, <3>3, PutHere DEF Read
  <2>2. CASE d.is = "Sse"
    <3>1. SameAt(PutFor(m, "sse", d.on, TRUE), m, "routes") BY PutOther DEF PutFor
    <3> QED BY <2>1, <2>2, <3>1 DEF Apply, Sse, Get
  <2>3. CASE d.is = "WebSocket"
    <3>1. SameAt(PutFor(m, "websocket", d.on, TRUE), m, "routes") BY PutOther DEF PutFor
    <3> QED BY <2>1, <2>3, <3>1 DEF Apply, WebSocket, Get
  <2>4. CASE d.is \notin Silent \union {"Sse", "WebSocket"}
    <3>1. Apply(m, d) = Route(m, d) BY <2>4 DEF Apply, Silent
    <3>2. SameAt(m, m, "routes") BY DEF SameAt
    <3> QED BY <2>1, <3>1, <3>2
  <2> QED BY <1>2, <2>2, <2>3, <2>4 DEF Writes
<1> QED BY <1>1, <1>2

\* A decorator whose argument is one this can be said of.
Proper(d) ==
    /\ DOMAIN d = {"is", "on", "with"}
    /\ d.is \in {"Middleware", "UseGuards"} => d.with \in Seq(STRING)
    /\ d.is = "UseGuards" => d.with # <<>>

\* What is spread over a map is in it, with all the map had.
LEMMA SpreadHas ==
    ASSUME NEW f, NEW g
    PROVE  /\ DOMAIN Spread(f, g) = DOMAIN f \union DOMAIN g
           /\ \A k \in DOMAIN g : Spread(f, g)[k] = g[k]
           /\ \A k \in DOMAIN f \ DOMAIN g : Spread(f, g)[k] = f[k]
BY DEF Spread

\* A decorator that documents keeps what was told, but for an @ApiDoc with a query.
LEMMA Telling ==
    ASSUME NEW m, NEW d, d.is \in {"ApiDoc", "ApiResponse", "ApiBody", "ApiQuery", "ApiDeprecated", "ApiTags"},
           ~SameAt(Apply(m, d), m, "openapi")
    PROVE  \E now : /\ Apply(m, d) = PutFor(m, "openapi", d.on, now)
                    /\ "body" \in DOMAIN Documented(m, d.on) => "body" \in DOMAIN now
                    /\ \/ DOMAIN Read(Documented(m, d.on), "query", <<>>) \subseteq DOMAIN Read(now, "query", <<>>)
                       \/ TellsQuery(d, d.on)
<1> DEFINE told == Documented(m, d.on)
           had == Read(told, "query", <<>>)
           Keeps(now) == /\ "body" \in DOMAIN told => "body" \in DOMAIN now
                         /\ DOMAIN had \subseteq DOMAIN Read(now, "query", <<>>)
<1>1. ASSUME NEW key, NEW value, key = "query" => DOMAIN had \subseteq DOMAIN value PROVE Keeps(Put(told, key, value))
  BY <1>1 DEF Put, Read
<1>2. ASSUME NEW key, NEW value, Apply(m, d) = Tell(m, d, key, value), key = "query" => DOMAIN had \subseteq DOMAIN value
      PROVE  \E now : Apply(m, d) = PutFor(m, "openapi", d.on, now) /\ Keeps(now)
  BY <1>1, <1>2 DEF Tell
<1>3. ASSUME NEW key, NEW more, Apply(m, d) = TellMore(m, d, key, more)
      PROVE  \E now : Apply(m, d) = PutFor(m, "openapi", d.on, now) /\ Keeps(now)
  <2> DEFINE value == Spread(Read(told, key, <<>>), more)
  <2>1. key = "query" => DOMAIN had \subseteq DOMAIN value
    <3>1. DOMAIN value = DOMAIN Read(told, key, <<>>) \union DOMAIN more BY SpreadHas
    <3> HIDE DEF value, told
    <3> QED BY <3>1
  <2>2. Apply(m, d) = Tell(m, d, key, value) BY <1>3 DEF TellMore
  <2> HIDE DEF value, had, told
  <2> QED BY <1>2, <2>1, <2>2
<1>4. CASE d.is = "ApiResponse" BY <1>3, <1>4 DEF Apply, ApiResponse
<1>5. CASE d.is = "ApiBody" BY <1>2, <1>5 DEF Apply, ApiBody
<1>6. CASE d.is = "ApiQuery" BY <1>3, <1>6 DEF Apply, ApiQuery
<1>7. CASE d.is = "ApiDeprecated"
  <2> DEFINE yes == TRUE
  <2>1. Apply(m, d) = Tell(m, d, "deprecated", yes) BY <1>7 DEF Apply, ApiDeprecated
  <2> HIDE DEF yes
  <2> QED BY <1>2, <2>1
<1>8. CASE d.is = "ApiTags"
  <2>1. CASE d.on = OnClass
    <3>1. \E value : Apply(m, d) = Put(m, "classTags", value) BY <1>8, <2>1 DEF Apply, ApiTags
    <3>2. SameAt(Apply(m, d), m, "openapi") BY <3>1, PutOther
    <3> QED BY <3>2
  <2>2. CASE d.on # OnClass BY <1>2, <1>8, <2>2 DEF Apply, ApiTags
  <2> QED BY <2>1, <2>2
<1>9. CASE d.is = "ApiDoc"
  <2> DEFINE now == Spread(told, d.with)
  <2>1. Apply(m, d) = PutFor(m, "openapi", d.on, now) BY <1>9 DEF Apply, ApiDoc
  <2>2. /\ DOMAIN now = DOMAIN told \union DOMAIN d.with
        /\ \A k \in DOMAIN told \ DOMAIN d.with : now[k] = told[k]
    BY SpreadHas
  <2> HIDE DEF now
  <2>3. CASE "query" \in DOMAIN d.with BY <1>9, <2>1, <2>2, <2>3 DEF TellsQuery
  <2>4. CASE "query" \notin DOMAIN d.with
    <3>1. Read(now, "query", <<>>) = had BY <2>2, <2>4 DEF Read
    <3> QED BY <2>1, <2>2, <3>1
  <2> QED BY <2>3, <2>4
<1> QED BY <1>4, <1>5, <1>6, <1>7, <1>8, <1>9

\* @Validate documents what it checks.
LEMMA ValidateTells ==
    ASSUME NEW m, NEW d, d.is = "Validate"
    PROVE  \E now : /\ Apply(m, d) = PutFor(PutFor(m, "validation", d.on, d.with), "openapi", d.on, now)
                    /\ BodyTold(d.with, now) /\ QueryTold(d.with, now)
<1> DEFINE existing == Documented(m, d.on)
           listed == {part \in DOMAIN d.with : part = "body" \/ HasShape(d.with[part])}
           told == [part \in listed |->
                      IF part = "body" THEN Read(existing, part, d.with[part])
                      ELSE Spread(ShapeOf(d.with[part]), Read(existing, part, <<>>))]
           now == Spread(existing, told)
           fields == ShapeOf(Read(d.with, "query", <<>>))
<1>1. Apply(m, d) = PutFor(PutFor(m, "validation", d.on, d.with), "openapi", d.on, now) BY DEF Apply, Validate
<1>2. /\ "body" \in DOMAIN d.with => "body" \in DOMAIN told
      /\ ("query" \in DOMAIN d.with /\ HasShape(d.with["query"])) =>
           "query" \in DOMAIN told /\ told["query"] = Spread(ShapeOf(d.with["query"]), Read(existing, "query", <<>>))
  OBVIOUS
<1> HIDE DEF told, existing
<1>3. DOMAIN now = DOMAIN existing \union DOMAIN told /\ \A k \in DOMAIN told : now[k] = told[k] BY SpreadHas
<1> HIDE DEF now
<1>4. BodyTold(d.with, now) BY <1>2, <1>3 DEF BodyTold
<1>5. QueryTold(d.with, now)
  <2>1. CASE "query" \in DOMAIN d.with /\ HasShape(d.with["query"])
    <3>1. "query" \in DOMAIN now /\ now["query"] = Spread(ShapeOf(d.with["query"]), Read(existing, "query", <<>>))
      BY <1>2, <1>3, <2>1
    <3>2. DOMAIN Spread(ShapeOf(d.with["query"]), Read(existing, "query", <<>>))
            = DOMAIN ShapeOf(d.with["query"]) \union DOMAIN Read(existing, "query", <<>>)
      BY SpreadHas
    <3>3. Read(d.with, "query", <<>>) = d.with["query"] /\ Read(now, "query", <<>>) = now["query"]
      BY <2>1, <3>1 DEF Read
    <3> QED BY <3>1, <3>2, <3>3 DEF QueryTold
  <2>2. CASE ~("query" \in DOMAIN d.with /\ HasShape(d.with["query"]))
    <3>1. DOMAIN <<>> = {} OBVIOUS
    <3>2. ~HasShape(Read(d.with, "query", <<>>)) BY <2>2, <3>1 DEF Read, HasShape
    <3>3. fields = <<>> BY <3>2 DEF ShapeOf, HasShape, Read
    <3> QED BY <3>1, <3>3 DEF QueryTold
  <2> QED BY <2>1, <2>2
<1> QED BY <1>1, <1>4, <1>5

\* What the document says of a method after the next decorator.
LEMMA ToldKept ==
    ASSUME NEW m, NEW ds, NEW name, ToldOf(m, ds, name), NEW d
    PROVE  ToldOf(Apply(m, d), ds \union {d}, name)
<1> DEFINE n == Apply(m, d)
           es == ds \union {d}
           checked == ReadFor(m, "validation", name, <<>>)
           told == Documented(m, name)
<1>0. ASSUME NEW key, SameAt(n, m, key) PROVE ReadFor(n, key, name, <<>>) = ReadFor(m, key, name, <<>>)
  BY <1>0, SameReadsFor
<1>1. BodyTold(checked, told) /\ (QueryTold(checked, told) \/ \E e \in ds : TellsQuery(e, name)) BY DEF ToldOf
<1>2. /\ BodyTold(ReadFor(n, "validation", name, <<>>), Documented(n, name))
      /\ QueryTold(ReadFor(n, "validation", name, <<>>), Documented(n, name)) \/ \E e \in es : TellsQuery(e, name)
  <2>1. "openapi" \in Keys /\ "validation" \in Keys
        /\ (Writes(d.is, "validation") <=> d.is = "Validate")
        /\ (Writes(d.is, "openapi") <=>
               d.is \in {"ApiDoc", "ApiResponse", "ApiBody", "ApiQuery", "ApiDeprecated", "ApiTags", "Validate"})
    BY DEF Keys, Writes, Writers
  <2>2. CASE d.is # "Validate" /\ SameAt(n, m, "openapi")
    <3>1. SameAt(n, m, "validation") BY <2>1, <2>2, OthersKeep
    <3>2. ReadFor(n, "validation", name, <<>>) = checked BY <1>0, <3>1
    <3>3. Documented(n, name) = told BY <1>0, <2>2 DEF Documented
    <3> QED BY <1>1, <3>2, <3>3
  <2>3. CASE d.is # "Validate" /\ ~SameAt(n, m, "openapi")
    <3>1. d.is \in {"ApiDoc", "ApiResponse", "ApiBody", "ApiQuery", "ApiDeprecated", "ApiTags"} BY <2>1, <2>3, OthersKeep
    <3>2. SameAt(n, m, "validation") BY <2>1, <2>3, OthersKeep
    <3>3. ReadFor(n, "validation", name, <<>>) = checked BY <1>0, <3>2
    <3>4. PICK now : /\ n = PutFor(m, "openapi", d.on, now)
                     /\ "body" \in DOMAIN Documented(m, d.on) => "body" \in DOMAIN now
                     /\ \/ DOMAIN Read(Documented(m, d.on), "query", <<>>) \subseteq DOMAIN Read(now, "query", <<>>)
                        \/ TellsQuery(d, d.on)
      BY <2>3, <3>1, Telling
    <3> HIDE DEF n
    <3>5. CASE name = d.on
      <4>1. Documented(n, name) = now BY <3>4, <3>5, PutForReads DEF Documented
      <4>2. BodyTold(checked, now) BY <1>1, <3>4, <3>5 DEF BodyTold
      <4>3. QueryTold(checked, now) \/ \E e \in es : TellsQuery(e, name)
        <5>1. CASE TellsQuery(d, d.on) BY <3>5, <5>1
        <5>2. CASE DOMAIN Read(Documented(m, d.on), "query", <<>>) \subseteq DOMAIN Read(now, "query", <<>>)
          BY <1>1, <3>5, <5>2 DEF QueryTold
        <5> QED BY <3>4, <5>1, <5>2
      <4> QED BY <3>3, <4>1, <4>2, <4>3
    <3>6. CASE name # d.on
      <4>1. Documented(n, name) = told BY <3>4, <3>6, PutForReads DEF Documented
      <4> QED BY <1>1, <3>3, <4>1
    <3> QED BY <3>5, <3>6
  <2>4. CASE d.is = "Validate"
    <3> DEFINE after == PutFor(m, "validation", d.on, d.with)
    <3>1. PICK now : n = PutFor(after, "openapi", d.on, now) /\ BodyTold(d.with, now) /\ QueryTold(d.with, now)
      BY <2>4, ValidateTells
    <3> HIDE DEF n
    <3>2. SameAt(n, after, "validation") /\ SameAt(after, m, "openapi") BY <3>1, PutOther DEF PutFor
    <3>3. ReadFor(n, "validation", name, <<>>) = ReadFor(after, "validation", name, <<>>) BY <3>2, SameReadsFor
    <3>4. CASE name = d.on
      <4>1. Documented(n, name) = now BY <3>1, <3>4, PutForReads DEF Documented
      <4>2. ReadFor(after, "validation", name, <<>>) = d.with BY <3>4, PutForReads
      <4> QED BY <3>1, <3>3, <4>1, <4>2
    <3>5. CASE name # d.on
      <4>1. Documented(n, name) = ReadFor(after, "openapi", name, <<>>)
        <5> HIDE DEF after
        <5> QED BY <3>1, <3>5, PutForReads DEF Documented
      <4>2. ReadFor(after, "openapi", name, <<>>) = told BY <3>2, SameReadsFor DEF Documented
      <4>3. ReadFor(after, "validation", name, <<>>) = checked BY <3>5, PutForReads
      <4> QED BY <1>1, <3>3, <4>1, <4>2, <4>3
    <3> QED BY <3>4, <3>5
  <2> QED BY <2>2, <2>3, <2>4
<1>3. /\ IsSeq(ReadFor(n, "security", name, <<>>))
      /\ "bearerAuth" \in ToSet(ReadFor(n, "security", name, <<>>)) => \E e \in es : NamesBearer(e, name)
  <2>1. "security" \in Keys /\ (Writes(d.is, "security") <=> d.is = "ApiSecurity") BY DEF Keys, Writes, Writers
  <2>2. /\ IsSeq(ReadFor(m, "security", name, <<>>))
        /\ "bearerAuth" \in ToSet(ReadFor(m, "security", name, <<>>)) => \E e \in ds : NamesBearer(e, name)
    BY DEF ToldOf
  <2>3. CASE d.is # "ApiSecurity" \/ d.on # name
    <3>1. ReadFor(n, "security", name, <<>>) = ReadFor(m, "security", name, <<>>)
      <4>1. CASE d.is # "ApiSecurity" BY <1>0, <2>1, <4>1, OthersKeep
      <4>2. CASE d.is = "ApiSecurity"
        <5>1. n = PutFor(m, "security", d.on, ReadFor(m, "security", d.on, <<>>) \o <<d.with>>)
          BY <4>2 DEF Apply, ApiSecurity, AddFor
        <5> HIDE DEF n
        <5> QED BY <2>3, <4>2, <5>1, PutForReads
      <4> QED BY <4>1, <4>2
    <3> QED BY <2>2, <3>1
  <2>4. CASE d.is = "ApiSecurity" /\ d.on = name
    <3> DEFINE had == ReadFor(m, "security", name, <<>>)
               now == had \o <<d.with>>
    <3>1. n = PutFor(m, "security", name, now) BY <2>4 DEF Apply, ApiSecurity, AddFor
    <3>2. IsSeq(had) BY <2>2
    <3> HIDE DEF n, had
    <3>3. IsSeq(now) /\ ToSet(now) = ToSet(had) \union ToSet(<<d.with>>) BY <3>2, OneSeq, ConcatSeq
    <3>4. ToSet(<<d.with>>) = {d.with}
      <4>1. DOMAIN <<d.with>> = {1} OBVIOUS
      <4> QED BY <4>1 DEF ToSet
    <3> HIDE DEF now
    <3>5. ReadFor(n, "security", name, <<>>) = now BY <3>1, PutForReads
    <3>6. ASSUME "bearerAuth" \in ToSet(now) PROVE \E e \in es : NamesBearer(e, name)
      <4>1. CASE "bearerAuth" = d.with BY <2>4, <4>1 DEF NamesBearer
      <4>2. CASE "bearerAuth" \in ToSet(had) BY <2>2, <4>2 DEF had
      <4> QED BY <3>3, <3>4, <3>6, <4>1, <4>2
    <3> QED BY <3>3, <3>5, <3>6
  <2> QED BY <2>3, <2>4
<1> HIDE DEF n, es
<1>4. ToldOf(n, es, name) BY <1>2, <1>3 DEF ToldOf
<1> QED BY <1>4 DEF n, es

\* The next decorator.
LEMMA Learning ==
    ASSUME NEW m, NEW ds, Learnt(m, ds), NEW d, Proper(d),
           \A e \in ds : (e.is = "Validate" /\ d.is = "Validate" /\ e.on = d.on) => e = d
    PROVE  Learnt(Apply(m, d), ds \union {d})
<1> DEFINE n == Apply(m, d)
           es == ds \union {d}
<1>0. ASSUME NEW key \in Keys, ~Writes(d.is, key)
      PROVE  /\ \A name, default : ReadFor(n, key, name, default) = ReadFor(m, key, name, default)
             /\ \A default : Read(n, key, default) = Read(m, key, default)
             /\ SameAt(n, m, key)
  BY <1>0, OthersKeep, SameReadsFor, SameReads
<1>1. ASSUME NEW f \in Flags, NEW e \in es, e.is = f[1] PROVE ReadFor(n, f[2], e.on, FALSE) = TRUE
  <2>1. f[2] \in Keys /\ (Writes(d.is, f[2]) <=> d.is = f[1]) BY DEF Flags, Keys, Writes, Writers
  <2>2. CASE d.is = f[1]
    <3>1. \A name : ReadFor(n, f[2], name, FALSE) = ReadFor(PutFor(m, f[2], d.on, TRUE), f[2], name, FALSE)
      <4>1. SameAt(n, PutFor(m, f[2], d.on, TRUE), f[2]) BY <2>2, FlagSet
      <4> HIDE DEF n
      <4> QED BY <4>1, SameFlags
    <3>2. CASE e.on = d.on
      <4>1. ReadFor(PutFor(m, f[2], d.on, TRUE), f[2], d.on, FALSE) = TRUE BY FlagReads
      <4> QED BY <3>1, <3>2, <4>1
    <3>3. CASE e.on # d.on
      <4>1. e \in ds BY <3>3
      <4>2. ReadFor(m, f[2], e.on, FALSE) = TRUE BY <1>1, <4>1 DEF Learnt
      <4>3. ReadFor(PutFor(m, f[2], d.on, TRUE), f[2], e.on, FALSE) = ReadFor(m, f[2], e.on, FALSE)
        BY <3>3, FlagReads
      <4> QED BY <3>1, <4>2, <4>3
    <3> QED BY <3>2, <3>3
  <2>3. CASE d.is # f[1]
    <3>1. e \in ds BY <1>1, <2>3
    <3>2. ReadFor(m, f[2], e.on, FALSE) = TRUE BY <1>1, <3>1 DEF Learnt
    <3> QED BY <1>0, <2>1, <2>3, <3>2
  <2> QED BY <2>2, <2>3
<1>2. ASSUME NEW name, ReadFor(n, "isPublic", name, FALSE) # FALSE PROVE \E e \in es : e.is = "Public" /\ e.on = name
  <2>1. "isPublic" \in Keys /\ (Writes(d.is, "isPublic") <=> d.is = "Public") BY DEF Keys, Writes, Writers
  <2>2. CASE d.is = "Public" /\ d.on = name BY <2>2
  <2>3. CASE ~(d.is = "Public" /\ d.on = name)
    <3>1. ReadFor(n, "isPublic", name, FALSE) = ReadFor(m, "isPublic", name, FALSE)
      <4>1. CASE d.is = "Public"
        <5>1. n = PutFor(m, "isPublic", d.on, TRUE) BY <4>1 DEF Apply, Public
        <5>2. name # d.on BY <2>3, <4>1
        <5> HIDE DEF n
        <5> QED BY <5>1, <5>2, FlagReads
      <4>2. CASE d.is # "Public" BY <1>0, <2>1, <4>2
      <4> QED BY <4>1, <4>2
    <3> QED BY <1>2, <3>1 DEF Learnt
  <2> QED BY <2>2, <2>3
<1>3. /\ \A name : IsSeq(ReadFor(n, "guards", name, <<>>))
      /\ \A e \in es : e.is \in Asks => ReadFor(n, "guards", e.on, <<>>) # <<>>
  <2>1. "guards" \in Keys /\ (Writes(d.is, "guards") <=> d.is \in Asks) BY DEF Keys, Writes, Writers, Asks
  <2>2. /\ \A name : IsSeq(ReadFor(m, "guards", name, <<>>))
        /\ \A e \in ds : e.is \in Asks => ReadFor(m, "guards", e.on, <<>>) # <<>> BY DEF Learnt
  <2>3. CASE d.is \in Asks
    <3>1. PICK more : IsSeq(more) /\ more # <<>> /\ n = AddFor(m, "guards", d.on, more)
      BY <2>3, GuardsAdded DEF Proper
    <3> DEFINE now == ReadFor(m, "guards", d.on, <<>>) \o more
    <3>2. IsSeq(now) /\ now # <<>> BY <2>2, <3>1, ConcatSeq
    <3>3. n = PutFor(m, "guards", d.on, now) BY <3>1 DEF AddFor
    <3> HIDE DEF now
    <3>4. /\ ReadFor(n, "guards", d.on, <<>>) = now
          /\ \A name : name # d.on => ReadFor(n, "guards", name, <<>>) = ReadFor(m, "guards", name, <<>>)
      BY <3>3, PutForReads
    <3>5. ASSUME NEW name PROVE IsSeq(ReadFor(n, "guards", name, <<>>)) BY <2>2, <3>2, <3>4
    <3>6. ASSUME NEW e \in es, e.is \in Asks PROVE ReadFor(n, "guards", e.on, <<>>) # <<>>
      BY <2>2, <3>2, <3>4, <3>6
    <3> QED BY <3>5, <3>6
  <2>4. CASE d.is \notin Asks
    <3>1. \A name : ReadFor(n, "guards", name, <<>>) = ReadFor(m, "guards", name, <<>>) BY <1>0, <2>1, <2>4
    <3>2. ASSUME NEW e \in es, e.is \in Asks PROVE e \in ds BY <2>4, <3>2
    <3> QED BY <2>2, <3>1, <3>2
  <2> QED BY <2>3, <2>4
<1>4. ASSUME NEW e \in es, e.is = "Validate" PROVE ReadFor(n, "validation", e.on, <<>>) = e.with
  <2>1. "validation" \in Keys /\ (Writes(d.is, "validation") <=> d.is = "Validate") BY DEF Keys, Writes, Writers
  <2>2. CASE d.is = "Validate"
    <3> DEFINE told == PutFor(m, "validation", d.on, d.with)
    <3>1. SameAt(n, told, "validation")
      <4>1. \E value : n = Put(told, "openapi", value) BY <2>2 DEF Apply, Validate, PutFor
      <4> QED BY <4>1, PutOther
    <3>2. \A name : ReadFor(n, "validation", name, <<>>) = ReadFor(told, "validation", name, <<>>)
      BY <3>1, SameReadsFor
    <3>3. CASE e.on = d.on
      <4>1. e = d BY <1>4, <2>2, <3>3
      <4> QED BY <3>2, <4>1, PutForReads
    <3>4. CASE e.on # d.on
      <4>1. e \in ds BY <3>4
      <4>2. ReadFor(m, "validation", e.on, <<>>) = e.with BY <1>4, <4>1 DEF Learnt
      <4> QED BY <3>2, <3>4, <4>2, PutForReads
    <3> QED BY <3>3, <3>4
  <2>3. CASE d.is # "Validate"
    <3>1. e \in ds BY <1>4, <2>3
    <3>2. ReadFor(m, "validation", e.on, <<>>) = e.with BY <1>4, <3>1 DEF Learnt
    <3> QED BY <1>0, <2>1, <2>3, <3>2
  <2> QED BY <2>2, <2>3
<1>5. ASSUME NEW e \in es, e.is = "ChannelRoute" PROVE "channel" \in DOMAIN n /\ e.on \in DOMAIN n["channel"]
  <2>1. "channel" \in Keys /\ (Writes(d.is, "channel") <=> d.is = "ChannelRoute") BY DEF Keys, Writes, Writers
  <2>2. e \in ds => "channel" \in DOMAIN m /\ e.on \in DOMAIN m["channel"] BY <1>5 DEF Learnt
  <2>3. CASE d.is = "ChannelRoute"
    <3>1. n = PutFor(m, "channel", d.on, d.with) BY <2>3 DEF Apply, ChannelRoute
    <3>2. e = d => "channel" \in DOMAIN n /\ e.on \in DOMAIN n["channel"] BY <3>1, PutForReads
    <3>3. e \in ds => "channel" \in DOMAIN n /\ e.on \in DOMAIN n["channel"] BY <2>2, <3>1, PutForReads
    <3> QED BY <3>2, <3>3
  <2>4. CASE d.is # "ChannelRoute"
    <3>1. SameAt(n, m, "channel") BY <1>0, <2>1, <2>4
    <3> QED BY <1>5, <2>2, <2>4, <3>1 DEF SameAt
  <2> QED BY <2>3, <2>4
<1>6. IsSeq(Read(n, "middlewares", <<>>)) /\ \A name : IsSeq(ReadFor(n, "methodMiddlewares", name, <<>>))
  <2>1. /\ "middlewares" \in Keys /\ (Writes(d.is, "middlewares") <=> d.is \in {"Middleware", "JwtAuth"})
        /\ "methodMiddlewares" \in Keys /\ (Writes(d.is, "methodMiddlewares") <=> d.is \in {"Middleware", "JwtAuth"})
    BY DEF Keys, Writes, Writers
  <2>2. IsSeq(Read(m, "middlewares", <<>>)) /\ \A name : IsSeq(ReadFor(m, "methodMiddlewares", name, <<>>)) BY DEF Learnt
  <2>3. CASE d.is \in {"Middleware", "JwtAuth"}
    <3>1. PICK more : /\ IsSeq(more)
                      /\ \/ n = Put(m, "middlewares", Read(m, "middlewares", <<>>) \o more)
                         \/ n = AddFor(m, "methodMiddlewares", d.on, more)
      BY <2>3, MiddlewaresAdded DEF Proper
    <3>2. CASE n = Put(m, "middlewares", Read(m, "middlewares", <<>>) \o more)
      <4>1. Read(n, "middlewares", <<>>) = Read(m, "middlewares", <<>>) \o more
        <5> DEFINE now == Read(m, "middlewares", <<>>) \o more
        <5>1. n = Put(m, "middlewares", now) BY <3>2
        <5> HIDE DEF now, n
        <5>2. Read(n, "middlewares", <<>>) = now BY <5>1, PutHere DEF Read
        <5> QED BY <5>2 DEF now
      <4>2. SameAt(n, m, "methodMiddlewares") BY <3>2, PutOther
      <4>3. \A name : ReadFor(n, "methodMiddlewares", name, <<>>) = ReadFor(m, "methodMiddlewares", name, <<>>)
        BY <4>2, SameReadsFor
      <4> QED BY <2>2, <3>1, <4>1, <4>3, ConcatSeq
    <3>3. CASE n = AddFor(m, "methodMiddlewares", d.on, more)
      <4> DEFINE now == ReadFor(m, "methodMiddlewares", d.on, <<>>) \o more
      <4>1. IsSeq(now) BY <2>2, <3>1, ConcatSeq
      <4>2. n = PutFor(m, "methodMiddlewares", d.on, now) BY <3>3 DEF AddFor
      <4> HIDE DEF now
      <4>3. ASSUME NEW name PROVE IsSeq(ReadFor(n, "methodMiddlewares", name, <<>>)) BY <2>2, <4>1, <4>2, PutForReads
      <4>4. SameAt(n, m, "middlewares") BY <4>2, PutOther DEF PutFor
      <4>5. Read(n, "middlewares", <<>>) = Read(m, "middlewares", <<>>) BY <4>4, SameReads
      <4> QED BY <2>2, <4>3, <4>5
    <3> QED BY <3>1, <3>2, <3>3
  <2>4. CASE d.is \notin {"Middleware", "JwtAuth"}
    <3>1. /\ \A name : ReadFor(n, "methodMiddlewares", name, <<>>) = ReadFor(m, "methodMiddlewares", name, <<>>)
          /\ Read(n, "middlewares", <<>>) = Read(m, "middlewares", <<>>)
      BY <1>0, <2>1, <2>4
    <3> QED BY <2>2, <3>1
  <2> QED BY <2>3, <2>4
<1>7. IsSeq(Read(n, "routes", <<>>)) BY RoutesAdded DEF Learnt
<1>8. \A name : ToldOf(n, es, name) BY ToldKept DEF Learnt
<1> HIDE DEF n, es
<1>9. Learnt(n, es) BY <1>1, <1>2, <1>3, <1>4, <1>5, <1>6, <1>7, <1>8 DEF Learnt
<1> QED BY <1>9 DEF n, es

\* The metadata of a class says what its decorators ask for.
LEMMA MetaLearnt == ASSUME NEW class \in DOMAIN Declared PROVE Learnt(Meta[class], ToSet(Declared[class]))
<1> DEFINE ds == Declared[class]
           n == Len(ds)
<1>1. IsSeq(ds) BY DeclaredAssumption DEF IsSeq
<1>2. n \in Nat /\ DOMAIN ds = 1..n /\ ToSet(ds) = {ds[i] : i \in 1..n} BY <1>1 DEF IsSeq, ToSet
<1>3. ASSUME NEW i \in 1..n PROVE Proper(ds[i])
  <2>1. ds[i] \in ToSet(Declared[class]) BY <1>2
  <2> HIDE DEF ds
  <2> QED BY <2>1, DeclaredAssumption, ArgumentsAssumption DEF Proper
<1>4. \A i, j \in 1..n : (ds[i].is = "Validate" /\ ds[j].is = "Validate" /\ ds[i].on = ds[j].on) => ds[i] = ds[j]
  BY <1>2, ArgumentsAssumption
<1>5. Meta[class] = Decorated(ds) BY DEF Meta
<1>6. PICK after : /\ after[0] = <<>>
                   /\ \A k \in 1..n : after[k] = Apply(after[k - 1], ds[k])
                   /\ Decorated(ds) = after[n]
  BY <1>1, Decorating
<1> DEFINE T == {k \in 0..n : Learnt(after[k], {ds[i] : i \in 1..k})}
<1>7. 0 \in T
  <2>1. {ds[i] : i \in 1..0} = {} OBVIOUS
  <2>2. \A key, default : Read(<<>>, key, default) = default BY DEF Read
  <2>3. \A key, name, default : ReadFor(<<>>, key, name, default) = default BY <2>2 DEF ReadFor
  <2>4. IsSeq(<<>>) BY DEF IsSeq
  <2>5. ASSUME NEW name PROVE ToldOf(<<>>, {}, name)
    <3>1. ReadFor(<<>>, "validation", name, <<>>) = <<>> /\ Documented(<<>>, name) = <<>>
          /\ ReadFor(<<>>, "security", name, <<>>) = <<>>
      BY <2>3 DEF Documented
    <3>2. BodyTold(<<>>, <<>>) /\ QueryTold(<<>>, <<>>)
      <4>1. DOMAIN <<>> = {} OBVIOUS
      <4>2. Read(<<>>, "query", <<>>) = <<>> /\ ShapeOf(<<>>) = <<>> BY <4>1 DEF Read, ShapeOf
      <4> QED BY <4>1, <4>2 DEF BodyTold, QueryTold
    <3> QED BY <2>4, <3>1, <3>2, EmptySeqs DEF ToldOf
  <2>6. Learnt(<<>>, {}) BY <2>2, <2>3, <2>4, <2>5 DEF Learnt
  <2> HIDE DEF n, ds
  <2>7. Learnt(after[0], {ds[i] : i \in 1..0}) BY <1>6, <2>1, <2>6, Zenon
  <2>8. 0 \in 0..n BY <1>2
  <2> QED BY <2>7, <2>8, Zenon
<1>8. ASSUME NEW k \in 0..(n - 1), k \in T PROVE k + 1 \in T
  <2>1. k + 1 \in 1..n /\ k \in Nat /\ (k + 1) - 1 = k /\ k + 1 \in 0..n BY <1>2
  <2>2. {ds[i] : i \in 1..(k + 1)} = {ds[i] : i \in 1..k} \union {ds[k + 1]} BY <2>1
  <2>3. after[k + 1] = Apply(after[k], ds[k + 1]) BY <1>6, <2>1
  <2>4. 1..k \subseteq 1..n BY <1>2
  <2>5. \A e \in {ds[i] : i \in 1..k} : (e.is = "Validate" /\ ds[k + 1].is = "Validate" /\ e.on = ds[k + 1].on) => e = ds[k + 1]
    BY <1>4, <2>1, <2>4
  <2> HIDE DEF n, ds
  <2>6. Learnt(after[k], {ds[i] : i \in 1..k}) BY <1>8
  <2>7. Proper(ds[k + 1]) BY <1>3, <2>1
  <2>8. Learnt(Apply(after[k], ds[k + 1]), {ds[i] : i \in 1..k} \union {ds[k + 1]})
    BY <2>5, <2>6, <2>7, Learning
  <2> QED BY <2>1, <2>2, <2>3, <2>8
<1>9. n \in T
  <2> HIDE DEF T, n
  <2>1. \A k \in 0..n : k \in T BY <1>2, <1>7, <1>8, Induct
  <2> QED BY <1>2, <2>1
<1> HIDE DEF n, ds
<1>10. Learnt(after[n], {ds[i] : i \in 1..n}) BY <1>9
<1> QED BY <1>2, <1>5, <1>6, <1>10 DEF ds

-----------------------------------------------------------------------------
(* The stages of a route, and the chain of a request. *)

\* A function on 1..n is a sequence.
LEMMA MadeSeq == ASSUME NEW s, NEW n \in Nat, s = [i \in 1..n |-> s[i]] PROVE IsSeq(s) /\ Len(s) = n /\ DOMAIN s = 1..n
<1>1. \A i \in 1..n : s[i] \in ToSet(s) BY DEF ToSet
<1>2. s \in [1..n -> ToSet(s)] BY <1>1
<1> QED BY <1>2 DEF IsSeq

\* What is flattened has the elements of its pieces.
LEMMA FlatElements ==
    ASSUME NEW pieces, IsSeq(pieces), \A i \in DOMAIN pieces : IsSeq(pieces[i])
    PROVE  ToSet(FlattenSeq(pieces)) = UNION {ToSet(pieces[i]) : i \in DOMAIN pieces}
<1> DEFINE f == FlattenSeq(pieces)
<1>1. /\ IsSeq(f)
      /\ \A p \in DOMAIN f : \E i \in DOMAIN pieces, off \in Nat : PieceAt(f, pieces[i], off) /\ p - off \in DOMAIN pieces[i]
      /\ \A i \in DOMAIN pieces : \E off \in Nat : PieceAt(f, pieces[i], off)
  BY Flattened
<1> HIDE DEF f
<1>2. \A i \in DOMAIN pieces : DOMAIN pieces[i] = 1..Len(pieces[i]) /\ Len(pieces[i]) \in Nat BY DEF IsSeq
<1>3. DOMAIN f = 1..Len(f) /\ Len(f) \in Nat BY <1>1 DEF IsSeq
<1>4. ASSUME NEW p \in DOMAIN f PROVE \E i \in DOMAIN pieces : f[p] \in ToSet(pieces[i])
  <2>1. PICK i \in DOMAIN pieces, off \in Nat : PieceAt(f, pieces[i], off) /\ p - off \in DOMAIN pieces[i] BY <1>1
  <2>2. p - off \in 1..Len(pieces[i]) /\ off + (p - off) = p BY <1>2, <1>3, <2>1
  <2>3. f[p] = pieces[i][p - off] BY <2>1, <2>2 DEF PieceAt
  <2> QED BY <2>1, <2>3 DEF ToSet
<1>5. ASSUME NEW i \in DOMAIN pieces, NEW q \in DOMAIN pieces[i] PROVE pieces[i][q] \in ToSet(f)
  <2>1. PICK off \in Nat : PieceAt(f, pieces[i], off) BY <1>1
  <2>2. f[off + q] = pieces[i][q] /\ off + q \in DOMAIN f BY <1>2, <1>3, <2>1 DEF PieceAt
  <2> QED BY <2>2 DEF ToSet
<1>6. ToSet(f) \subseteq UNION {ToSet(pieces[i]) : i \in DOMAIN pieces}
  <2>1. ASSUME NEW x \in ToSet(f) PROVE \E i \in DOMAIN pieces : x \in ToSet(pieces[i]) BY <1>4 DEF ToSet
  <2> QED BY <2>1
<1>7. UNION {ToSet(pieces[i]) : i \in DOMAIN pieces} \subseteq ToSet(f)
  <2>1. ASSUME NEW i \in DOMAIN pieces, NEW x \in ToSet(pieces[i]) PROVE x \in ToSet(f) BY <1>5 DEF ToSet
  <2> QED BY <2>1
<1> QED BY <1>6, <1>7 DEF f

\* An element that is there or not.
LEMMA IfSeq == ASSUME NEW there, NEW x PROVE IsSeq(If(there, <<x>>)) /\ ToSet(If(there, <<x>>)) = IF there THEN {x} ELSE {}
<1>1. ToSet(<<x>>) = {x} BY DEF ToSet
<1> QED BY <1>1, OneSeq, EmptySeqs DEF If

\* The kinds of stages a route has before its handler.
Between == {"middleware", "limit", "guards", "validate", "channelAuth"}
KindsOf(s) == {s[i].kind : i \in DOMAIN s}
Seen(class, name, is) == IsOn(class, name, {is})

\* Among `kinds` of stages is what the decorators of the method ask for.
AskedFor(class, name, kinds) ==
    /\ Seen(class, name, "RateLimit") => "limit" \in kinds
    /\ (~Seen(class, name, "Public") /\ IsOn(class, name, Asks)) => "guards" \in kinds
    /\ \A d \in Decorators(class, name) : (d.is = "Validate" /\ DOMAIN d.with # {}) => "validate" \in kinds
    /\ (/\ Seen(class, name, "ChannelRoute") /\ Seen(class, name, "ChannelAuth")
        /\ Seen(class, name, "Sse") \/ Seen(class, name, "WebSocket")) => "channelAuth" \in kinds

\* The stages of a route: all its own, the handler last, and before it what
\* the decorators ask for.
LEMMA StagesShape ==
    ASSUME NEW class \in DOMAIN Declared, NEW name
    PROVE  \E front, last :
              /\ IsSeq(front) /\ Stages(class, name) = front \o <<last>>
              /\ last.kind = "handler" /\ last.class = class /\ last.name = name
              /\ \A s \in ToSet(front) : /\ s.class = class /\ s.name = name
                                         /\ s.kind \in {"middleware", "limit", "guards", "validate", "channelAuth"}
              /\ AskedFor(class, name, KindsOf(front))
<1> DEFINE meta == Meta[class]
           stage(kind, of) == [kind |-> kind, of |-> of, class |-> class, name |-> name]
           named(mws) == [i \in DOMAIN mws |-> stage("middleware", mws[i])]
           one(kind, there) == If(there, <<stage(kind, "")>>)
           channelled == "channel" \in DOMAIN meta /\ name \in DOMAIN meta["channel"]
           a == named(Read(meta, "middlewares", <<>>))
           b == named(ReadFor(meta, "methodMiddlewares", name, <<>>))
           limited == ReadFor(meta, "rateLimit", name, FALSE)
           guarded == Guards(class, name) # <<>>
           checked == DOMAIN ReadFor(meta, "validation", name, <<>>) # {}
           joined == IsStream(class, name) /\ channelled /\ ReadFor(meta, "channelAuth", name, FALSE)
           c == one("limit", limited)
           d == one("guards", guarded)
           e == one("validate", checked)
           f == one("channelAuth", joined)
           front == a \o b \o c \o d \o e \o f
           last == stage("handler", IF IsStream(class, name) THEN "stream" ELSE "http")
<1>1. Learnt(meta, ToSet(Declared[class])) BY MetaLearnt
<1>2. Stages(class, name) = front \o <<last>> BY DEF Stages
<1>3. ASSUME NEW mws, IsSeq(mws)
      PROVE  IsSeq(named(mws)) /\ \A s \in ToSet(named(mws)) : s.class = class /\ s.name = name /\ s.kind = "middleware"
  <2>1. DOMAIN mws = 1..Len(mws) /\ Len(mws) \in Nat BY <1>3 DEF IsSeq
  <2>2. IsSeq(named(mws)) BY <2>1, MadeSeq
  <2>3. \A s \in ToSet(named(mws)) : s.class = class /\ s.name = name /\ s.kind = "middleware" BY DEF ToSet
  <2> QED BY <2>2, <2>3
<1>4. IsSeq(a) /\ \A s \in ToSet(a) : s.class = class /\ s.name = name /\ s.kind = "middleware" BY <1>1, <1>3 DEF Learnt
<1>5. IsSeq(b) /\ \A s \in ToSet(b) : s.class = class /\ s.name = name /\ s.kind = "middleware" BY <1>1, <1>3 DEF Learnt
<1>6. ASSUME NEW kind, NEW there PROVE IsSeq(one(kind, there)) /\ ToSet(one(kind, there)) = IF there THEN {stage(kind, "")} ELSE {}
  BY IfSeq
<1>7. /\ IsSeq(c) /\ ToSet(c) = IF limited THEN {stage("limit", "")} ELSE {}
      /\ IsSeq(d) /\ ToSet(d) = IF guarded THEN {stage("guards", "")} ELSE {}
      /\ IsSeq(e) /\ ToSet(e) = IF checked THEN {stage("validate", "")} ELSE {}
      /\ IsSeq(f) /\ ToSet(f) = IF joined THEN {stage("channelAuth", "")} ELSE {}
  BY <1>6, Zenon
<1>8. Seen(class, name, "RateLimit") => limited
  BY <1>1 DEF Learnt, Seen, IsOn, Decorators, Flags
<1>9. (~Seen(class, name, "Public") /\ IsOn(class, name, Asks)) => guarded
  BY <1>1 DEF Learnt, Seen, IsOn, Decorators, Guards
<1>10. \A x \in Decorators(class, name) : (x.is = "Validate" /\ DOMAIN x.with # {}) => checked
  BY <1>1 DEF Learnt, Decorators
<1>11. (Seen(class, name, "ChannelRoute") /\ (Seen(class, name, "Sse") \/ Seen(class, name, "WebSocket"))
          /\ Seen(class, name, "ChannelAuth")) => joined
  BY <1>1 DEF Learnt, Seen, IsOn, Decorators, Flags, IsStream
<1> HIDE DEF a, b, c, d, e, f, limited, guarded, checked, joined, meta
<1>12. IsSeq(front) /\ ToSet(front) = ToSet(a) \union ToSet(b) \union ToSet(c) \union ToSet(d) \union ToSet(e) \union ToSet(f)
  <2>1. IsSeq(a \o b) /\ ToSet(a \o b) = ToSet(a) \union ToSet(b) BY <1>4, <1>5, ConcatSeq
  <2>2. IsSeq(a \o b \o c) /\ ToSet(a \o b \o c) = ToSet(a \o b) \union ToSet(c) BY <1>7, <2>1, ConcatSeq
  <2>3. IsSeq(a \o b \o c \o d) /\ ToSet(a \o b \o c \o d) = ToSet(a \o b \o c) \union ToSet(d) BY <1>7, <2>2, ConcatSeq
  <2>4. IsSeq(a \o b \o c \o d \o e) /\ ToSet(a \o b \o c \o d \o e) = ToSet(a \o b \o c \o d) \union ToSet(e)
    BY <1>7, <2>3, ConcatSeq
  <2>5. IsSeq(front) /\ ToSet(front) = ToSet(a \o b \o c \o d \o e) \union ToSet(f) BY <1>7, <2>4, ConcatSeq
  <2> QED BY <2>1, <2>2, <2>3, <2>4, <2>5
<1> HIDE DEF front
<1>13. \A s \in ToSet(front) : s.kind \in KindsOf(front) BY DEF ToSet, KindsOf
<1>14. /\ limited => "limit" \in KindsOf(front)
       /\ guarded => "guards" \in KindsOf(front)
       /\ checked => "validate" \in KindsOf(front)
       /\ joined => "channelAuth" \in KindsOf(front)
  <2>1. ASSUME NEW k, NEW s, s.kind = k, s \in ToSet(c) \union ToSet(d) \union ToSet(e) \union ToSet(f)
        PROVE  k \in KindsOf(front)
    BY <1>12, <1>13, <2>1
  <2>2. limited => "limit" \in KindsOf(front)
    <3> DEFINE s == stage("limit", "")
    <3>1. s.kind = "limit" OBVIOUS
    <3>2. limited => s \in ToSet(c) BY <1>7
    <3> HIDE DEF s
    <3> QED BY <2>1, <3>1, <3>2
  <2>3. guarded => "guards" \in KindsOf(front)
    <3> DEFINE s == stage("guards", "")
    <3>1. s.kind = "guards" OBVIOUS
    <3>2. guarded => s \in ToSet(d) BY <1>7
    <3> HIDE DEF s
    <3> QED BY <2>1, <3>1, <3>2
  <2>4. checked => "validate" \in KindsOf(front)
    <3> DEFINE s == stage("validate", "")
    <3>1. s.kind = "validate" OBVIOUS
    <3>2. checked => s \in ToSet(e) BY <1>7
    <3> HIDE DEF s
    <3> QED BY <2>1, <3>1, <3>2
  <2>5. joined => "channelAuth" \in KindsOf(front)
    <3> DEFINE s == stage("channelAuth", "")
    <3>1. s.kind = "channelAuth" OBVIOUS
    <3>2. joined => s \in ToSet(f) BY <1>7
    <3> HIDE DEF s
    <3> QED BY <2>1, <3>1, <3>2
  <2> QED BY <2>2, <2>3, <2>4, <2>5
<1>15. ASSUME NEW s \in ToSet(front)
       PROVE  s.class = class /\ s.name = name /\ s.kind \in {"middleware", "limit", "guards", "validate", "channelAuth"}
  <2>1. CASE s \in ToSet(a) \union ToSet(b) BY <1>4, <1>5, <2>1
  <2>2. CASE s \in ToSet(c)
    <3>1. s = stage("limit", "") BY <1>7, <2>2
    <3> QED BY <3>1
  <2>3. CASE s \in ToSet(d)
    <3>1. s = stage("guards", "") BY <1>7, <2>3
    <3> QED BY <3>1
  <2>4. CASE s \in ToSet(e)
    <3>1. s = stage("validate", "") BY <1>7, <2>4
    <3> QED BY <3>1
  <2>5. CASE s \in ToSet(f)
    <3>1. s = stage("channelAuth", "") BY <1>7, <2>5
    <3> QED BY <3>1
  <2> QED BY <1>12, <2>1, <2>2, <2>3, <2>4, <2>5
<1>16. last.kind = "handler" /\ last.class = class /\ last.name = name OBVIOUS
<1> HIDE DEF last
<1>17. AskedFor(class, name, KindsOf(front))
  BY <1>8, <1>9, <1>10, <1>11, <1>14 DEF AskedFor
<1> QED BY <1>2, <1>12, <1>15, <1>16, <1>17, Zenon

\* The routes an application keeps are some it does not exclude.
LEMMA KeptRoutes ==
    ASSUME NEW a, NEW class \in DOMAIN Declared
    PROVE  /\ IsSeq(Kept(a, class))
           /\ ToSet(Kept(a, class)) = {r \in ToSet(AllRoutes(class)) : IsKept(a, class, r)}
<1> DEFINE routes == AllRoutes(class)
           n == Len(routes)
           pieces == [i \in DOMAIN routes |-> If(IsKept(a, class, routes[i]), <<routes[i]>>)]
<1>1. IsSeq(routes) BY MetaLearnt DEF Learnt, AllRoutes
<1>2. n \in Nat /\ DOMAIN routes = 1..n BY <1>1 DEF IsSeq
<1>3. IsSeq(pieces) /\ DOMAIN pieces = 1..n BY <1>2, MadeSeq
<1>4. \A i \in 1..n : /\ IsSeq(pieces[i])
                      /\ ToSet(pieces[i]) = IF IsKept(a, class, routes[i]) THEN {routes[i]} ELSE {}
  BY <1>2, IfSeq
<1>5. Kept(a, class) = FlattenSeq(pieces) BY DEF Kept
<1>6. ToSet(routes) = {routes[i] : i \in 1..n} BY <1>2 DEF ToSet
<1> HIDE DEF pieces, routes, n
<1>7. IsSeq(FlattenSeq(pieces)) BY <1>3, <1>4, Flattened
<1>8. ToSet(FlattenSeq(pieces)) = UNION {ToSet(pieces[i]) : i \in 1..n} BY <1>3, <1>4, FlatElements
<1>9. UNION {ToSet(pieces[i]) : i \in 1..n} = {r \in ToSet(routes) : IsKept(a, class, r)}
  <2>1. ASSUME NEW x, NEW i \in 1..n, x \in ToSet(pieces[i]) PROVE x \in ToSet(routes) /\ IsKept(a, class, x)
    BY <1>4, <1>6, <2>1
  <2>2. ASSUME NEW x \in ToSet(routes), IsKept(a, class, x) PROVE \E i \in 1..n : x \in ToSet(pieces[i])
    BY <1>4, <1>6, <2>2
  <2> QED BY <2>1, <2>2
<1> QED BY <1>5, <1>7, <1>8, <1>9 DEF routes

\* A pair is a sequence of two.
LEMMA PairSeq == ASSUME NEW x, NEW y PROVE IsSeq(<<x, y>>) /\ Len(<<x, y>>) = 2 /\ DOMAIN <<x, y>> = 1..2
<1>1. <<x, y>> \in Seq({x, y}) OBVIOUS
<1>2. IsSeq(<<x, y>>) BY <1>1, InSeq
<1> QED BY <1>2

\* A path has one or two spellings.
LEMMA SpellingsSeq == ASSUME NEW path PROVE IsSeq(Spellings(path)) /\ ToSet(Spellings(path)) \subseteq {path, NoSlash(path), WithSlash(path)}
BY OneSeq, PairSeq DEF Spellings, ToSet

\* An entry is one that is mounted for everybody, or that of a route kept.
Everybodys == {"slash", "cors", "metrics", "endpoint", "health"}
Belongs(a, entry) ==
    \/ entry.class = "" /\ entry.name \in Everybodys
    \/ /\ entry.class \in DOMAIN Declared
       /\ \E r \in ToSet(Kept(a, entry.class)) : r.name = entry.name

\* The entries of a route kept, of a controller and of an application belong.
LEMMA EntriesBelong ==
    ASSUME NEW a, NEW class \in DOMAIN Declared, NEW r \in ToSet(Kept(a, class))
    PROVE  IsSeq(Entries(class, r)) /\ \A entry \in ToSet(Entries(class, r)) : Belongs(a, entry)
<1> DEFINE paths == Spellings(FullPath(class, r))
<1>1. IsSeq(paths) BY SpellingsSeq
<1>2. DOMAIN paths = 1..Len(paths) /\ Len(paths) \in Nat BY <1>1 DEF IsSeq
<1> HIDE DEF paths
<1> DEFINE made == [i \in DOMAIN paths |->
                      [method |-> Registered(r), path |-> paths[i], class |-> class, name |-> r.name]]
<1>3. IsSeq(made) BY <1>2, MadeSeq
<1>4. \A entry \in ToSet(made) : entry.class = class /\ entry.name = r.name BY DEF ToSet
<1>5. made = Entries(class, r) BY DEF Entries, paths
<1> HIDE DEF made
<1> QED BY <1>3, <1>4, <1>5 DEF Belongs

\* A controller adds entries of its kept routes and the slash middleware.
LEMMA ControllerBelongs ==
    ASSUME NEW a, NEW class \in DOMAIN Declared
    PROVE  IsSeq(BuildController(a, class)) /\ \A entry \in ToSet(BuildController(a, class)) : Belongs(a, entry)
<1> DEFINE kept == Kept(a, class)
           n == Len(kept)
           pieces == [i \in DOMAIN kept |-> Entries(class, kept[i])]
           slash == If(a.trailingSlash # "ignore", <<SlashEntry>>)
<1>1. n \in Nat /\ DOMAIN kept = 1..n BY KeptRoutes DEF IsSeq
<1>2. IsSeq(pieces) /\ DOMAIN pieces = 1..n BY <1>1, MadeSeq
<1>3. ASSUME NEW i \in 1..n PROVE IsSeq(pieces[i]) /\ \A entry \in ToSet(pieces[i]) : Belongs(a, entry)
  <2>1. kept[i] \in ToSet(kept) /\ pieces[i] = Entries(class, kept[i]) BY <1>1 DEF ToSet
  <2> QED BY <2>1, EntriesBelong
<1>4. IsSeq(slash) /\ \A entry \in ToSet(slash) : entry = SlashEntry BY IfSeq
<1>5. Belongs(a, SlashEntry) BY DEF Belongs, SlashEntry, Everybodys
<1>6. BuildController(a, class) = slash \o FlattenSeq(pieces) BY DEF BuildController
<1> HIDE DEF slash, pieces, kept, n
<1>7. IsSeq(FlattenSeq(pieces)) BY <1>2, <1>3, Flattened
<1>8. ToSet(FlattenSeq(pieces)) = UNION {ToSet(pieces[i]) : i \in 1..n} BY <1>2, <1>3, FlatElements
<1>9. \A entry \in ToSet(FlattenSeq(pieces)) : Belongs(a, entry) BY <1>3, <1>8
<1>10. IsSeq(slash \o FlattenSeq(pieces)) /\ ToSet(slash \o FlattenSeq(pieces)) = ToSet(slash) \union ToSet(FlattenSeq(pieces))
  BY <1>4, <1>7, ConcatSeq
<1> QED BY <1>4, <1>5, <1>6, <1>9, <1>10

\* So does the application, with what it mounts beside the module.
LEMMA TableBelongs ==
    ASSUME NEW a \in Apps
    PROVE  IsSeq(CreateApp(a)) /\ \A entry \in ToSet(CreateApp(a)) : Belongs(a, entry)
<1> DEFINE classes == CollectModule(a.module)
           n == Len(classes)
           pieces == [i \in DOMAIN classes |-> BuildController(a, classes[i])]
           Good(s) == IsSeq(s) /\ \A entry \in ToSet(s) : Belongs(a, entry)
<1>1. n \in Nat /\ DOMAIN classes = 1..n /\ \A i \in 1..n : classes[i] \in DOMAIN Declared BY TreeAssumption
<1>2. IsSeq(pieces) /\ DOMAIN pieces = 1..n BY <1>1, MadeSeq
<1>3. \A i \in 1..n : Good(pieces[i]) BY <1>1, ControllerBelongs
<1>4. Table(a) = FlattenSeq(pieces) BY DEF Table
<1> HIDE DEF pieces, classes, n
<1>5. IsSeq(FlattenSeq(pieces)) BY <1>2, <1>3, Flattened
<1>6. ToSet(FlattenSeq(pieces)) = UNION {ToSet(pieces[i]) : i \in 1..n} BY <1>2, <1>3, FlatElements
<1>7. Good(Table(a)) BY <1>3, <1>4, <1>5, <1>6
<1>8. ASSUME NEW s, Good(s), NEW t, Good(t) PROVE Good(s \o t) BY <1>8, ConcatSeq
<1>9. ASSUME NEW x, Belongs(a, x), NEW y, Belongs(a, y), NEW z, Belongs(a, z), NEW there
      PROVE  Good(If(there, <<x>>)) /\ Good(If(there, <<x, y>>)) /\ Good(If(there, <<x, y, z>>))
  <2>1. <<x, y, z>> \in Seq({x, y, z}) /\ <<x, y>> \in Seq({x, y}) OBVIOUS
  <2>2. IsSeq(<<x, y, z>>) /\ IsSeq(<<x, y>>) /\ IsSeq(<<x>>) BY <2>1, InSeq, OneSeq
  <2>3. ToSet(<<x, y, z>>) = {x, y, z} /\ ToSet(<<x, y>>) = {x, y} /\ ToSet(<<x>>) = {x} BY DEF ToSet
  <2> QED BY <1>9, <2>2, <2>3, EmptySeqs DEF If
<1>10. \A method, segments : \A name \in Everybodys : Belongs(a, Mounted(method, segments, name))
  BY DEF Belongs, Mounted
<1> HIDE DEF Good
<1>11. Good(MountCors(a)) /\ Good(MountMetrics(a)) /\ Good(MountHealth(a)) /\ Good(MountOpenApi(a))
  BY <1>9, <1>10 DEF MountCors, MountMetrics, MountHealth, MountOpenApi, Endpoint, Everybodys
<1>12. Good(CreateApp(a)) BY <1>7, <1>8, <1>11 DEF CreateApp
<1> QED BY <1>12 DEF Good

\* The stages of a route are a sequence.
LEMMA StagesSeq == ASSUME NEW class \in DOMAIN Declared, NEW name PROVE IsSeq(Stages(class, name))
<1>1. PICK front, last :
         /\ IsSeq(front) /\ Stages(class, name) = front \o <<last>>
         /\ last.kind = "handler" /\ last.class = class /\ last.name = name
         /\ \A s \in ToSet(front) : s.class = class /\ s.name = name /\ s.kind \in Between
         /\ AskedFor(class, name, KindsOf(front))
  BY StagesShape DEF Between
<1> QED BY <1>1, OneSeq, ConcatSeq

\* The chain consists of the stages of everybody and the whole stages of routes
\* the application keeps.
LEMMA ChainShape ==
    ASSUME NEW a \in Apps, NEW method, NEW path, NEW c, c = Chain(CreateApp(a), method, path)
    PROVE  /\ IsSeq(c)
           /\ \A p \in DOMAIN c :
                 \/ c[p].kind \in Everybodys
                 \/ \E class \in DOMAIN Declared : \E name : \E off \in Nat :
                       /\ \E r \in ToSet(Kept(a, class)) : r.name = name
                       /\ PieceAt(c, Stages(class, name), off) /\ p - off \in DOMAIN Stages(class, name)
<1> DEFINE table == CreateApp(a)
           n == Len(table)
           stages(entry) == IF entry.class = "" THEN <<OwnStage(entry)>> ELSE Stages(entry.class, entry.name)
           pieces == [i \in DOMAIN table |-> If(EntryMatches(table[i], method, path), stages(table[i]))]
<1>1. n \in Nat /\ DOMAIN table = 1..n BY TableBelongs DEF IsSeq
<1>2. \A i \in 1..n : Belongs(a, table[i]) BY <1>1, TableBelongs DEF ToSet
<1>3. IsSeq(pieces) /\ DOMAIN pieces = 1..n BY <1>1, MadeSeq
<1>4. \A class \in DOMAIN Declared : \A name : IsSeq(Stages(class, name)) BY StagesSeq
<1>5. ASSUME NEW i \in 1..n PROVE IsSeq(pieces[i])
  <2>1. IsSeq(stages(table[i])) BY <1>2, <1>4, OneSeq DEF Belongs
  <2>2. pieces[i] = If(EntryMatches(table[i], method, path), stages(table[i])) BY <1>1
  <2> HIDE DEF pieces, stages
  <2> QED BY <2>1, <2>2, EmptySeqs DEF If
<1>6. c = FlattenSeq(pieces) BY DEF Chain
<1>7. ASSUME NEW i \in 1..n, pieces[i] # <<>> PROVE pieces[i] = stages(table[i])
  <2>1. pieces[i] = If(EntryMatches(table[i], method, path), stages(table[i])) BY <1>1
  <2> HIDE DEF pieces, stages
  <2> QED BY <1>7, <2>1 DEF If
<1> HIDE DEF pieces, table, n
<1>8. /\ IsSeq(c)
      /\ \A p \in DOMAIN c : \E i \in DOMAIN pieces, off \in Nat : PieceAt(c, pieces[i], off) /\ p - off \in DOMAIN pieces[i]
  BY <1>3, <1>5, <1>6, Flattened
<1>9. ASSUME NEW p \in DOMAIN c, c[p].kind \notin Everybodys
      PROVE  \E class \in DOMAIN Declared : \E name : \E off \in Nat :
                /\ \E r \in ToSet(Kept(a, class)) : r.name = name
                /\ PieceAt(c, Stages(class, name), off) /\ p - off \in DOMAIN Stages(class, name)
  <2>1. PICK i \in 1..n, off \in Nat : PieceAt(c, pieces[i], off) /\ p - off \in DOMAIN pieces[i] BY <1>3, <1>8
  <2>2. pieces[i] # <<>>
    <3>1. DOMAIN <<>> = {} OBVIOUS
    <3> QED BY <2>1, <3>1
  <2>3. pieces[i] = stages(table[i]) BY <1>7, <2>2
  <2>4. CASE table[i].class = ""
    <3>1. pieces[i] = <<OwnStage(table[i])>> BY <2>3, <2>4
    <3>2. p \in Nat /\ p - off = 1 /\ Len(pieces[i]) = 1
      <4>1. p \in Nat BY <1>8 DEF IsSeq
      <4>2. DOMAIN pieces[i] = {1} /\ Len(pieces[i]) = 1 BY <3>1
      <4> QED BY <2>1, <4>1, <4>2
    <3>3. c[p] = OwnStage(table[i])
      <4>1. off + 1 = p /\ 1 \in 1..Len(pieces[i]) BY <3>2
      <4>2. c[off + 1] = pieces[i][1] BY <2>1, <4>1 DEF PieceAt
      <4> QED BY <3>1, <4>1, <4>2
    <3>4. table[i].name \in Everybodys BY <1>2, <2>4, DeclaredAssumption DEF Belongs
    <3>5. OwnStage(table[i]).kind = table[i].name BY DEF OwnStage
    <3> QED BY <1>9, <3>3, <3>4, <3>5
  <2>5. CASE table[i].class # ""
    <3>1. pieces[i] = Stages(table[i].class, table[i].name) BY <2>3, <2>5
    <3>2. table[i].class \in DOMAIN Declared /\ \E r \in ToSet(Kept(a, table[i].class)) : r.name = table[i].name
      BY <1>2, <2>5 DEF Belongs
    <3>3. PieceAt(c, Stages(table[i].class, table[i].name), off) /\ p - off \in DOMAIN Stages(table[i].class, table[i].name)
      BY <2>1, <3>1
    <3>4. \E name : \E from \in Nat :
            /\ \E r \in ToSet(Kept(a, table[i].class)) : r.name = name
            /\ PieceAt(c, Stages(table[i].class, name), from) /\ p - from \in DOMAIN Stages(table[i].class, name)
      BY <3>2, <3>3
    <3> QED BY <3>2, <3>4
  <2> QED BY <2>4, <2>5
<1> QED BY <1>8, <1>9

\* Position p lies in the stages of a route, which are all there from off + 1
\* on, with the handler at h: all of them are of that route, which the
\* application keeps, and the handler has before it what is asked for.
RouteAt(a, c, p, h, off) ==
    /\ off < p /\ p <= h /\ c[h].kind = "handler" /\ c[p].kind \in Between \union {"handler"}
    /\ \A q \in (off + 1)..h : /\ q \in DOMAIN c /\ c[q].class = c[p].class /\ c[q].name = c[p].name
                               /\ q < h => c[q].kind \in Between
    /\ c[p].class \in DOMAIN Declared
    /\ \E r \in ToSet(Kept(a, c[p].class)) : r.name = c[p].name
    /\ AskedFor(c[p].class, c[p].name, {c[q].kind : q \in (off + 1)..(h - 1)})
    /\ PieceAt(c, Stages(c[p].class, c[p].name), off) /\ h = off + Len(Stages(c[p].class, c[p].name))

\* A stage that is not everybody's is one of a route.
LEMMA ToItsHandler ==
    ASSUME NEW a \in Apps, NEW method, NEW path, NEW c, c = Chain(CreateApp(a), method, path),
           NEW p \in DOMAIN c, c[p].kind \notin Everybodys
    PROVE  \E h \in DOMAIN c : \E off \in Nat : RouteAt(a, c, p, h, off)
<1>a. PICK class \in DOMAIN Declared : \E name : \E off \in Nat :
         /\ \E r \in ToSet(Kept(a, class)) : r.name = name
         /\ PieceAt(c, Stages(class, name), off) /\ p - off \in DOMAIN Stages(class, name)
  BY ChainShape, Zenon
<1>b. PICK name : \E off \in Nat :
         /\ \E r \in ToSet(Kept(a, class)) : r.name = name
         /\ PieceAt(c, Stages(class, name), off) /\ p - off \in DOMAIN Stages(class, name)
  BY <1>a, Zenon
<1>1. PICK off \in Nat :
         /\ \E r \in ToSet(Kept(a, class)) : r.name = name
         /\ PieceAt(c, Stages(class, name), off) /\ p - off \in DOMAIN Stages(class, name)
  BY <1>b, Zenon
<1>2. PICK front, last :
         /\ IsSeq(front) /\ Stages(class, name) = front \o <<last>>
         /\ last.kind = "handler" /\ last.class = class /\ last.name = name
         /\ \A s \in ToSet(front) : s.class = class /\ s.name = name /\ s.kind \in Between
         /\ AskedFor(class, name, KindsOf(front))
  BY StagesShape DEF Between
<1> DEFINE m == Len(front)
           h == off + m + 1
<1>3. m \in Nat /\ DOMAIN front = 1..m /\ \A q \in 1..m : front[q] \in ToSet(front) BY <1>2 DEF IsSeq, ToSet
<1>4. IsSeq(front \o <<last>>) BY <1>2, OneSeq, ConcatSeq
<1>5. /\ Len(front \o <<last>>) = m + 1 /\ DOMAIN (front \o <<last>>) = 1..(m + 1)
      /\ \A q \in 1..m : (front \o <<last>>)[q] = front[q]
      /\ (front \o <<last>>)[m + 1] = last
  <2>1. front \in Seq(ToSet(front) \union {last}) /\ <<last>> \in Seq(ToSet(front) \union {last}) BY <1>2 DEF IsSeq
  <2> QED BY <1>3, <2>1
<1>6. IsSeq(c) BY ChainShape
<1>7. DOMAIN c = 1..Len(c) /\ Len(c) \in Nat /\ p \in Nat BY <1>6 DEF IsSeq
<1> HIDE DEF m
<1>e. h = off + Len(Stages(class, name)) BY <1>2, <1>3, <1>5
<1>8. off + m + 1 <= Len(c) BY <1>1, <1>2, <1>3, <1>5 DEF PieceAt
<1>9. \A q \in 1..m : c[off + q] = front[q] BY <1>1, <1>2, <1>3, <1>5 DEF PieceAt
<1>10. c[h] = last
  <2>1. m + 1 \in 1..(m + 1) /\ off + (m + 1) = h BY <1>3
  <2>2. c[off + (m + 1)] = (front \o <<last>>)[m + 1] BY <1>1, <1>2, <1>5, <2>1 DEF PieceAt
  <2> QED BY <1>5, <2>1, <2>2
<1>11. h \in DOMAIN c /\ h \in Nat /\ p <= h /\ off < p
  <2>1. p - off \in 1..(m + 1) BY <1>1, <1>2, <1>5
  <2> QED BY <1>3, <1>7, <1>8, <2>1
<1>12. ASSUME NEW q \in (off + 1)..h
       PROVE  q \in DOMAIN c /\ c[q].class = class /\ c[q].name = name /\ (q < h => c[q].kind \in Between)
  <2>1. q \in DOMAIN c BY <1>3, <1>7, <1>8
  <2>2. CASE q = h BY <1>2, <1>10, <2>1, <2>2
  <2>3. CASE q # h
    <3>1. q - off \in 1..m /\ off + (q - off) = q BY <1>3, <2>3
    <3>2. c[q] = front[q - off] BY <1>9, <3>1
    <3> QED BY <1>2, <1>3, <2>1, <3>1, <3>2
  <2> QED BY <2>2, <2>3
<1>13. KindsOf(front) = {c[q].kind : q \in (off + 1)..(h - 1)}
  <2>1. ASSUME NEW q \in 1..m PROVE front[q].kind \in {c[x].kind : x \in (off + 1)..(h - 1)}
    <3>1. off + q \in (off + 1)..(h - 1) BY <1>3
    <3> QED BY <1>9, <3>1
  <2>2. ASSUME NEW x \in (off + 1)..(h - 1) PROVE c[x].kind \in {front[q].kind : q \in 1..m}
    <3>1. x - off \in 1..m /\ off + (x - off) = x BY <1>3
    <3>2. c[x] = front[x - off] BY <1>9, <3>1
    <3> QED BY <3>1, <3>2
  <2> QED BY <1>3, <2>1, <2>2 DEF KindsOf
<1>14. p \in (off + 1)..h BY <1>3, <1>7, <1>11
<1> HIDE DEF h
<1>15. c[p].class = class /\ c[p].name = name /\ c[p].kind \in Between \union {"handler"}
  <2>1. c[h].kind = "handler" BY <1>2, <1>10
  <2>2. p = h \/ p < h BY <1>7, <1>11
  <2> QED BY <1>12, <1>14, <2>1, <2>2
<1>16. c[h].kind = "handler" BY <1>2, <1>10
<1>17. PieceAt(c, Stages(c[p].class, c[p].name), off) /\ h = off + Len(Stages(c[p].class, c[p].name))
  BY <1>1, <1>e, <1>15
<1>18. RouteAt(a, c, p, h, off) BY <1>1, <1>2, <1>11, <1>12, <1>13, <1>15, <1>16, <1>17 DEF RouteAt
<1> QED BY <1>11, <1>18

\* Every entry of a route the application keeps is in its table.
LEMMA EntryMounted ==
    ASSUME NEW a \in Apps, NEW class \in ToSet(CollectModule(a.module)), NEW r \in ToSet(Kept(a, class)),
           NEW entry \in ToSet(Entries(class, r))
    PROVE  entry \in ToSet(CreateApp(a))
<1> DEFINE classes == CollectModule(a.module)
           n == Len(classes)
           built == [i \in DOMAIN classes |-> BuildController(a, classes[i])]
           kept == Kept(a, class)
           m == Len(kept)
           pieces == [i \in DOMAIN kept |-> Entries(class, kept[i])]
           slash == If(a.trailingSlash # "ignore", <<SlashEntry>>)
<1>1. n \in Nat /\ DOMAIN classes = 1..n /\ \A i \in 1..n : classes[i] \in DOMAIN Declared BY TreeAssumption
<1>2. PICK k \in 1..n : classes[k] = class BY <1>1 DEF ToSet
<1>3. class \in DOMAIN Declared BY <1>1, <1>2
<1>4. m \in Nat /\ DOMAIN kept = 1..m BY <1>3, KeptRoutes DEF IsSeq
<1>5. PICK j \in 1..m : kept[j] = r BY <1>4 DEF ToSet
<1>6. IsSeq(pieces) /\ DOMAIN pieces = 1..m BY <1>4, MadeSeq
<1>7. \A i \in 1..m : IsSeq(pieces[i])
  <2>1. ASSUME NEW i \in 1..m PROVE IsSeq(pieces[i])
    <3>1. kept[i] \in ToSet(kept) /\ pieces[i] = Entries(class, kept[i]) BY <1>4 DEF ToSet
    <3> QED BY <1>3, <3>1, EntriesBelong
  <2> QED BY <2>1
<1>8. pieces[j] = Entries(class, r) BY <1>4, <1>5
<1>9. BuildController(a, class) = slash \o FlattenSeq(pieces) BY DEF BuildController
<1>10. IsSeq(slash) BY IfSeq
<1>11. IsSeq(built) /\ DOMAIN built = 1..n BY <1>1, MadeSeq
<1>12. \A i \in 1..n : IsSeq(built[i]) BY <1>1, ControllerBelongs
<1>13. built[k] = BuildController(a, class) BY <1>1, <1>2
<1>14. Table(a) = FlattenSeq(built) BY DEF Table
<1> HIDE DEF slash, pieces, kept, m, built, classes, n
<1>15. IsSeq(FlattenSeq(pieces)) /\ ToSet(FlattenSeq(pieces)) = UNION {ToSet(pieces[i]) : i \in 1..m}
  BY <1>6, <1>7, Flattened, FlatElements
<1>16. entry \in ToSet(FlattenSeq(pieces)) BY <1>5, <1>8, <1>15
<1>17. entry \in ToSet(BuildController(a, class)) BY <1>9, <1>10, <1>15, <1>16, ConcatSeq
<1>18. IsSeq(Table(a)) /\ ToSet(Table(a)) = UNION {ToSet(built[i]) : i \in 1..n}
  BY <1>11, <1>12, <1>14, Flattened, FlatElements
<1>19. entry \in ToSet(Table(a)) BY <1>2, <1>13, <1>17, <1>18
<1>20. ASSUME NEW x, NEW y, NEW z, NEW there
       PROVE  IsSeq(If(there, <<x>>)) /\ IsSeq(If(there, <<x, y>>)) /\ IsSeq(If(there, <<x, y, z>>))
  <2>1. <<x, y, z>> \in Seq({x, y, z}) /\ <<x, y>> \in Seq({x, y}) OBVIOUS
  <2>2. IsSeq(<<x, y, z>>) /\ IsSeq(<<x, y>>) /\ IsSeq(<<x>>) BY <2>1, InSeq, OneSeq
  <2> QED BY <2>2, EmptySeqs DEF If
<1>21. IsSeq(MountCors(a)) /\ IsSeq(MountMetrics(a)) /\ IsSeq(MountHealth(a)) /\ IsSeq(MountOpenApi(a))
  BY <1>20 DEF MountCors, MountMetrics, MountHealth, MountOpenApi
<1> DEFINE InIt(s) == IsSeq(s) /\ entry \in ToSet(s)
<1>22. ASSUME NEW s, NEW t, IsSeq(s), IsSeq(t), InIt(s) \/ InIt(t) PROVE InIt(s \o t) BY <1>22, ConcatSeq
<1>23. InIt(MountCors(a) \o MountMetrics(a) \o Table(a))
  <2>1. IsSeq(MountCors(a) \o MountMetrics(a)) BY <1>21, ConcatSeq
  <2> QED BY <1>18, <1>19, <1>22, <2>1
<1>24. InIt(MountCors(a) \o MountMetrics(a) \o Table(a) \o MountHealth(a)) BY <1>21, <1>22, <1>23
<1> QED BY <1>21, <1>22, <1>24 DEF CreateApp

\* A request that an entry of a route matches meets the route's handler.
LEMMA HandlerThere ==
    ASSUME NEW a \in Apps, NEW method, NEW path, NEW c, c = Chain(CreateApp(a), method, path),
           NEW class \in ToSet(CollectModule(a.module)), NEW r \in ToSet(Kept(a, class)),
           NEW entry \in ToSet(Entries(class, r)), EntryMatches(entry, method, path)
    PROVE  \E h \in DOMAIN c : c[h].kind = "handler" /\ c[h].class = class /\ c[h].name = r.name
<1> DEFINE table == CreateApp(a)
           n == Len(table)
           stages(e) == IF e.class = "" THEN <<OwnStage(e)>> ELSE Stages(e.class, e.name)
           pieces == [i \in DOMAIN table |-> If(EntryMatches(table[i], method, path), stages(table[i]))]
<1>1. n \in Nat /\ DOMAIN table = 1..n BY TableBelongs DEF IsSeq
<1>2. \A i \in 1..n : Belongs(a, table[i]) BY <1>1, TableBelongs DEF ToSet
<1>3. PICK k \in 1..n : table[k] = entry BY <1>1, EntryMounted DEF ToSet
<1>4. entry.class = class /\ entry.name = r.name BY DEF Entries, ToSet
<1>5. class # "" /\ class \in DOMAIN Declared
  <2>1. class \in DOMAIN Declared BY TreeAssumption DEF ToSet
  <2> QED BY <2>1, DeclaredAssumption
<1>6. IsSeq(pieces) /\ DOMAIN pieces = 1..n BY <1>1, MadeSeq
<1>7. ASSUME NEW i \in 1..n PROVE IsSeq(pieces[i])
  <2>1. IsSeq(stages(table[i]))
    <3>1. CASE table[i].class = "" BY <3>1, OneSeq
    <3>2. CASE table[i].class # ""
      <4>1. table[i].class \in DOMAIN Declared BY <1>2, <3>2 DEF Belongs
      <4>2. \A other \in DOMAIN Declared : \A name : IsSeq(Stages(other, name)) BY StagesSeq
      <4> QED BY <3>2, <4>1, <4>2
    <3> QED BY <3>1, <3>2
  <2>2. pieces[i] = If(EntryMatches(table[i], method, path), stages(table[i])) BY <1>1
  <2> HIDE DEF pieces, stages
  <2> QED BY <2>1, <2>2, EmptySeqs DEF If
<1>8. c = FlattenSeq(pieces) BY DEF Chain
<1>9. pieces[k] = Stages(class, r.name) BY <1>1, <1>3, <1>4, <1>5 DEF If
<1> HIDE DEF pieces, table, n
<1>10. PICK off \in Nat : PieceAt(c, pieces[k], off)
  <2>1. \A i \in DOMAIN pieces : \E off \in Nat : PieceAt(c, pieces[i], off) BY <1>6, <1>7, <1>8, Flattened
  <2> QED BY <1>6, <2>1
<1>11. PICK front, last :
         /\ IsSeq(front) /\ Stages(class, r.name) = front \o <<last>>
         /\ last.kind = "handler" /\ last.class = class /\ last.name = r.name
         /\ \A s \in ToSet(front) : s.class = class /\ s.name = r.name /\ s.kind \in Between
         /\ AskedFor(class, r.name, KindsOf(front))
  BY <1>5, StagesShape DEF Between
<1> DEFINE m == Len(front)
           h == off + (m + 1)
<1>12. m \in Nat BY <1>11 DEF IsSeq
<1>13. Len(front \o <<last>>) = m + 1 /\ (front \o <<last>>)[m + 1] = last
  <2>1. front \in Seq(ToSet(front) \union {last}) /\ <<last>> \in Seq(ToSet(front) \union {last}) BY <1>11 DEF IsSeq
  <2> QED BY <1>12, <2>1
<1> HIDE DEF m
<1>14. IsSeq(c) BY ChainShape
<1>15. DOMAIN c = 1..Len(c) /\ Len(c) \in Nat BY <1>14 DEF IsSeq
<1>16. h \in DOMAIN c /\ c[h] = last
  <2>1. m + 1 \in 1..(m + 1) BY <1>12
  <2>2. Len(pieces[k]) = m + 1 /\ pieces[k][m + 1] = last BY <1>9, <1>11, <1>13
  <2>3. off + (m + 1) <= Len(c) /\ c[off + (m + 1)] = last BY <1>10, <2>1, <2>2 DEF PieceAt
  <2> QED BY <1>12, <1>15, <2>3
<1> QED BY <1>11, <1>16

-----------------------------------------------------------------------------
(* The error path. *)

\* The response is what ErrorDecides says it must be.
DecidedBy(r, e, format) ==
    \/ r.by \in {"filter", "onError"}
    \/ /\ r.by = "error" /\ e.kind \in {"zod", "http"}
       /\ \A own \in {"status", "code"} :
            IF format = "problem" /\ own \in DOMAIN e.meta
              THEN r[own] = e.meta[own] ELSE r[own] = e[own]
    \/ r.by = "hono" /\ r.status = (IF e.kind = "hono" THEN e.status ELSE 500)
Decided == DecidedBy(response, error, app.errorFormat)

\* ErrorDecides at every step: going down there is no error but one of an
\* earlier hop, an error on its way out remembers whether there was a response
\* when it was thrown, and coming up it has decided.
ErrorInv ==
    /\ phase \in {"new", "failed", "built", "down"} => error = NoError \/ late
    /\ phase \in {"offered", "raised"} => late = (response # NoResponse)
    /\ phase \in {"up", "done"} => error = NoError \/ late \/ Decided

\* No response was decided by an error.
LEMMA NoneDecided == ASSUME NEW e, NEW format PROVE ~DecidedBy(NoResponse, e, format)
BY DEF DecidedBy, NoResponse

\* What respondToError makes of an error has its status and code.
LEMMA RenderDecides ==
    ASSUME NEW format, error.kind \in {"zod", "http"}
    PROVE  DecidedBy([by |-> "error", status |-> Rendered(format, error).status, code |-> Rendered(format, error).code],
                     error, format)
BY DEF DecidedBy, Rendered, Problem, Envelope

\* A stage that throws.
LEMMA ThrowKeeps ==
    ASSUME ErrorInv, NEW where \in {"offered", "raised"}, NEW e, ThrowTo(where, e)
    PROVE  ErrorInv'
BY DEF ErrorInv, ThrowTo, DecidedBy, NoResponse

\* Going down, a stage that answers.
LEMMA AnswerKeeps ==
    ASSUME ErrorInv, phase = "down", NEW by, NEW status, Answer(by, status)
    PROVE  ErrorInv'
BY DEF ErrorInv, Answer, Return, ReturnBody, Decided

\* Passing on decides nothing.
LEMMA PassKeeps == ASSUME ErrorInv, Pass PROVE ErrorInv'
BY DEF ErrorInv, Pass, Decided

\* Whoever takes an error that was thrown before there was a response decides.
LEMMA RespondKeeps ==
    ASSUME ErrorInv, phase = "offered", NEW by, NEW status, NEW code, ReturnBody(by, status, code),
           UNCHANGED <<app, error, late>>,
           DecidedBy([by |-> by, status |-> status, code |-> code], error, app.errorFormat)
    PROVE  ErrorInv'
BY DEF ErrorInv, ReturnBody, Decided

\* An error that reaches compose decides, or is offered further out.
LEMMA RaisedKeeps == ASSUME ErrorInv, Raised PROVE ErrorInv'
<1>1. ErrorInv /\ phase = "raised" /\ UNCHANGED <<app, error, late>>
  BY DEF Raised
<1>2. CASE /\ error.kind # "value" /\ phase' = "up"
           /\ response' = [NoResponse EXCEPT !.by = "hono", !.status = IF error.kind = "hono" THEN error.status ELSE 500]
  BY <1>1, <1>2 DEF ErrorInv, Decided, DecidedBy, NoResponse
<1>3. CASE phase' \in {"escaped", "offered", "raised"} /\ UNCHANGED response
  BY <1>1, <1>3 DEF ErrorInv
<1> QED BY <1>2, <1>3 DEF Raised

\* respondToError.
LEMMA OfferedKeeps == ASSUME ErrorInv, SkipFilter \/ AskFilter \/ AnswerError PROVE ErrorInv'
<1>1. phase = "offered" BY DEF SkipFilter, AskFilter, AnswerError, Offered
<1>2. ASSUME UNCHANGED <<phase, app, response, error, late>> PROVE ErrorInv'
  BY <1>2 DEF ErrorInv, Decided
<1>3. ASSUME phase' = "raised", UNCHANGED <<response, late>> PROVE ErrorInv'
  BY <1>1, <1>3 DEF ErrorInv
<1>4. ASSUME NEW by \in {"filter", "onError"}, Responds(by, 200) PROVE ErrorInv'
  <2>1. DecidedBy([by |-> by, status |-> 200, code |-> ""], error, app.errorFormat) BY DEF DecidedBy
  <2> QED BY <1>1, <1>4, <2>1, RespondKeeps DEF Responds, Return
<1>5. ASSUME error.kind \in {"zod", "http"}, Render PROVE ErrorInv'
  <2> DEFINE body == Rendered(app.errorFormat, error)
  <2>1. CASE ReturnBody("error", body.status, body.code) /\ UNCHANGED <<app, error, late>>
    <3>1. DecidedBy([by |-> "error", status |-> body.status, code |-> body.code], error, app.errorFormat)
      BY <1>5, RenderDecides
    <3> QED BY <1>1, <2>1, <3>1, RespondKeeps
  <2>2. CASE Replaced(RangeError) BY <1>3, <2>2 DEF Replaced
  <2> QED BY <1>5, <2>1, <2>2 DEF Render
<1>6. CASE SkipFilter BY <1>2, <1>6 DEF SkipFilter
<1>7. CASE AskFilter BY <1>2, <1>3, <1>4, <1>7 DEF AskFilter
<1>8. CASE AnswerError BY <1>3, <1>4, <1>5, <1>8 DEF AnswerError, Replaced, Rethrow
<1> QED BY <1>6, <1>7, <1>8

\* The stages on the way down.
LEMMA DownKeeps ==
    ASSUME ErrorInv, \/ Slash \/ Mount \/ RunMiddleware \/ Limit \/ CheckGuards \/ CheckInput
                     \/ CheckChannel \/ NotFound \/ Ask \/ Handle \/ OpenStream
    PROVE  ErrorInv'
<1>1. phase = "down"
  BY DEF AtStage, Slash, Mount, RunMiddleware, Limit, CheckGuards, CheckInput, CheckChannel, NotFound, Ask, Handle, OpenStream
<1>2. ASSUME NEW e, Throw(e) PROVE ErrorInv' BY <1>2, ThrowKeeps DEF Throw
<1>3. ASSUME NEW e, ThrowTo("raised", e) PROVE ErrorInv' BY <1>3, ThrowKeeps
<1>4. ASSUME NEW by, NEW status, Answer(by, status) PROVE ErrorInv' BY <1>1, <1>4, AnswerKeeps
<1>5. CASE Slash BY <1>4, <1>5, PassKeeps DEF Slash
<1>6. CASE Mount BY <1>4, <1>6, PassKeeps DEF Mount
<1>7. CASE RunMiddleware
  <2>1. CASE phase' = "up" /\ UNCHANGED <<app, response, error, late>> BY <1>1, <2>1 DEF ErrorInv, Decided
  <2> QED BY <1>2, <1>4, <1>7, <2>1, PassKeeps DEF RunMiddleware
<1>8. CASE Limit BY <1>2, <1>8, PassKeeps DEF Limit
<1>9. CASE CheckGuards BY <1>2, <1>9, PassKeeps DEF CheckGuards
<1>10. CASE CheckInput
  <2>1. CASE UNCHANGED <<app, phase, response, error, late>> BY <2>1 DEF ErrorInv, Decided
  <2>2. CASE phase' = "offered" /\ late' = (response # NoResponse) /\ UNCHANGED <<app, response>>
    BY <2>2 DEF ErrorInv
  <2> QED BY <1>10, <2>1, <2>2 DEF CheckInput
<1>11. CASE CheckChannel BY <1>2, <1>11, PassKeeps DEF CheckChannel
<1>12. CASE NotFound BY <1>4, <1>12 DEF NotFound
<1>13. CASE Ask
  <2>1. CASE UNCHANGED <<app, phase, response, error, late>> BY <2>1 DEF ErrorInv, Decided
  <2> QED BY <1>2, <1>13, <2>1 DEF Ask
<1>14. CASE Handle BY <1>2, <1>3, <1>4, <1>14 DEF Handle, Replay
<1>15. CASE OpenStream BY <1>4, <1>15 DEF OpenStream
<1> QED BY <1>5, <1>6, <1>7, <1>8, <1>9, <1>10, <1>11, <1>12, <1>13, <1>14, <1>15

\* There is no error at first.
LEMMA ErrorInitial == Init => ErrorInv
BY DEF Init, ErrorInv

\* Every step keeps ErrorInv.
LEMMA ErrorStep == ErrorInv /\ [Next]_vars => ErrorInv'
<1> SUFFICES ASSUME ErrorInv, [Next]_vars PROVE ErrorInv' OBVIOUS
<1>1. CASE Build BY <1>1 DEF Build, ErrorInv
<1>2. CASE Receive BY <1>2 DEF Receive, ErrorInv
<1>3. CASE Follow BY <1>3 DEF Follow, ErrorInv, Decided, DecidedBy
<1>4. CASE Finish BY <1>4, NoneDecided DEF Finish, ErrorInv, Decided
<1>5. CASE ReturnUp
  <2>1. CASE UNCHANGED <<app, phase, response, error, late>> BY <2>1 DEF ErrorInv, Decided
  <2>2. ASSUME NEW e, Throw(e) PROVE ErrorInv' BY <2>2, ThrowKeeps DEF Throw
  <2> QED BY <1>5, <2>1, <2>2 DEF ReturnUp
<1>6. CASE UNCHANGED vars BY <1>6 DEF vars, ErrorInv, Decided
<1> QED BY <1>1, <1>2, <1>3, <1>4, <1>5, <1>6, RaisedKeeps, OfferedKeeps, DownKeeps DEF Next

\* An error thrown before there is a response decides the response, for any
\* chain of stages, filters, onError handler and errors (wrapMiddleware and
\* respondToError).
THEOREM ErrorsDecide == Spec => []ErrorDecides
<1>1. ErrorInv => ErrorDecides BY DEF ErrorInv, ErrorDecides, Decided, DecidedBy
<1> QED BY <1>1, ErrorInitial, ErrorStep, PTL DEF Spec

-----------------------------------------------------------------------------
(* What has run when a handler does. *)

\* The parts of its input the stage checks.
Checked(s) == DOMAIN ReadFor(Meta[s.class], "validation", s.name, <<>>) \intersect {"body", "query", "params"}

\* The chain is that of the request.
ChainInv ==
    /\ app \in Apps /\ (phase \notin {"new", "failed"} => Buildable(app))
    /\ phase \in {"new", "built", "down"} => response = NoResponse
    /\ phase = "down" => /\ chain = Chain(CreateApp(app), request.method, request.path)
                         /\ at \in Nat \ {0} /\ at <= Len(chain) + 1

\* No handler calls next, and what a passed stage has validated is there.
PassedInv ==
    phase = "down" => \A j \in 1..(at - 1) :
        /\ chain[j].kind # "handler"
        /\ chain[j].kind = "validate" => Checked(chain[j]) \subseteq DOMAIN validated

\* Only a handler gets a value, and no redirect follows; it is raw where there
\* is none that @Validate has made.
GotInv ==
    /\ phase \in {"new", "failed", "built"} => got = Nothing
    /\ got # Nothing => response.by # "slash"
    /\ (phase = "down" /\ got # Nothing) => AtStage("handler")
    /\ (phase = "down" /\ got.whole /\ got.by # "Param" /\ got.value = "raw") => ~Cached(validated, got.part)

GuardInv == ChainInv /\ PassedInv /\ GotInv

\* A passed @Validate of a route, when another stage of it is reached.
LEMMA SameRoute ==
    ASSUME ChainInv, PassedInv, phase = "down", at <= Len(chain), NEW j \in 1..(at - 1), chain[j].kind \in Between
    PROVE  chain[j].class = Stage.class /\ chain[j].name = Stage.name
<1>1. app \in Apps /\ chain = Chain(CreateApp(app), request.method, request.path) /\ at \in Nat BY DEF ChainInv
<1>2. IsSeq(chain) BY <1>1, ChainShape
<1>3. j \in DOMAIN chain /\ DOMAIN chain = 1..Len(chain) BY <1>1, <1>2 DEF IsSeq
<1>4. chain[j].kind \notin Everybodys BY DEF Between, Everybodys
<1>a. PICK h \in DOMAIN chain : \E off \in Nat : RouteAt(app, chain, j, h, off)
  BY <1>1, <1>3, <1>4, ToItsHandler
<1>5. PICK off \in Nat : RouteAt(app, chain, j, h, off) BY <1>a
<1>6. at <= h BY <1>1, <1>3, <1>5 DEF PassedInv, RouteAt
<1>7. at \in (off + 1)..h BY <1>1, <1>3, <1>5, <1>6 DEF RouteAt
<1> QED BY <1>5, <1>7 DEF Stage, RouteAt

\* A stage that calls next.
LEMMA GuardedPass ==
    ASSUME GuardInv, Pass, NEW kind, AtStage(kind), kind \notin {"handler", "validate"}
    PROVE  GuardInv'
<1>1. phase = "down" /\ at <= Len(chain) /\ chain[at].kind = kind BY DEF AtStage, Stage
<1>2. at \in Nat \ {0} /\ Len(chain) \in Nat
  <2>1. IsSeq(chain) BY <1>1, ChainShape DEF GuardInv, ChainInv
  <2> QED BY <1>1, <2>1 DEF GuardInv, ChainInv, IsSeq
<1>3. got = Nothing BY <1>1 DEF GuardInv, GotInv, AtStage, Stage
<1>4. ChainInv' BY <1>1, <1>2 DEF GuardInv, ChainInv, Pass
<1>5. PassedInv' BY <1>1, <1>2 DEF GuardInv, PassedInv, Pass, inputs
<1>6. GotInv' BY <1>1, <1>3 DEF GuardInv, GotInv, Pass, inputs, Nothing
<1> QED BY <1>4, <1>5, <1>6 DEF GuardInv

\* A step off the way down, or on the way up.
LEMMA GuardedLeave ==
    ASSUME GuardInv, phase \notin {"new", "failed"}, phase' \in {"up", "offered", "raised", "done", "escaped"},
           UNCHANGED <<app, got>>, response'.by = "slash" => response.by = "slash" \/ got = Nothing
    PROVE  GuardInv'
BY DEF GuardInv, ChainInv, PassedInv, GotInv

\* A stage answers.
LEMMA GuardedAnswer ==
    ASSUME GuardInv, phase = "down", NEW by, NEW status, Answer(by, status), by = "slash" => got = Nothing
    PROVE  GuardInv'
<1>1. phase' = "up" /\ UNCHANGED <<app, got>> BY DEF Answer, Return, ReturnBody, inputs
<1>2. response'.by = "slash" => response.by = "slash" \/ got = Nothing BY DEF Answer, Return, ReturnBody
<1> QED BY <1>1, <1>2, GuardedLeave

\* A stage throws.
LEMMA GuardedThrow ==
    ASSUME GuardInv, phase \notin {"new", "failed"}, NEW where \in {"offered", "raised"}, NEW e, ThrowTo(where, e)
    PROVE  GuardInv'
BY GuardedLeave DEF ThrowTo, inputs

\* @Validate has put every part it checks on the context.
LEMMA AllListed == ASSUME phase = "down" PROVE Checked(Stage) \subseteq {Listed[i] : i \in 1..Len(Listed)}
<1> DEFINE asked == DOMAIN ReadFor(Meta[Stage.class], "validation", Stage.name, <<>>)
           pieces == [i \in DOMAIN Parts |-> If(Parts[i] \in asked, <<Parts[i]>>)]
<1>1. DOMAIN Parts = 1..3 /\ Parts[1] = "body" /\ Parts[2] = "query" /\ Parts[3] = "params" BY DEF Parts
<1>2. IsSeq(pieces) /\ DOMAIN pieces = 1..3 BY <1>1, MadeSeq
<1>3. \A i \in 1..3 : IsSeq(pieces[i]) /\ ToSet(pieces[i]) = IF Parts[i] \in asked THEN {Parts[i]} ELSE {}
  BY <1>1, IfSeq
<1>4. Listed = FlattenSeq(pieces) BY DEF Listed
<1>5. Checked(Stage) = asked \intersect {"body", "query", "params"} BY DEF Checked
<1> HIDE DEF pieces, asked
<1>6. IsSeq(Listed) BY <1>2, <1>3, <1>4, Flattened
<1>7. ToSet(Listed) = UNION {ToSet(pieces[i]) : i \in 1..3} BY <1>2, <1>3, <1>4, FlatElements
<1>8. ToSet(Listed) = {Listed[i] : i \in 1..Len(Listed)} BY <1>6 DEF IsSeq, ToSet
<1>9. \A i \in 1..3 : Parts[i] \in asked => Parts[i] \in ToSet(Listed) BY <1>3, <1>7
<1>10. \A x \in {"body", "query", "params"} : x \in asked => x \in ToSet(Listed) BY <1>1, <1>9
<1> QED BY <1>5, <1>8, <1>10

\* @Validate passes when every part it checks has been put on the context.
LEMMA GuardedCheck == ASSUME GuardInv, CheckInput PROVE GuardInv'
<1>1. phase = "down" /\ at <= Len(chain) /\ chain[at].kind = "validate" BY DEF CheckInput, AtStage, Stage
<1>2. at \in Nat \ {0} /\ Len(chain) \in Nat
  <2>1. IsSeq(chain) BY <1>1, ChainShape DEF GuardInv, ChainInv
  <2> QED BY <1>1, <2>1 DEF GuardInv, ChainInv, IsSeq
<1>3. got = Nothing BY <1>1 DEF GuardInv, GotInv, AtStage, Stage
<1>4. CASE /\ validated' \in Parsing(Len(Listed)) /\ at' = at + 1
           /\ UNCHANGED <<app, request, phase, chain, response, got>>
  <2>1. ChainInv' BY <1>1, <1>2, <1>4 DEF GuardInv, ChainInv
  <2>2. GotInv' BY <1>1, <1>3, <1>4 DEF GuardInv, GotInv, Nothing
  <2>3. Checked(Stage) \subseteq DOMAIN validated' BY <1>1, <1>4, AllListed DEF Parsing
  <2>4. ASSUME NEW j \in 1..at, chain[j].kind = "validate" PROVE Checked(chain[j]) \subseteq DOMAIN validated'
    <3>1. CASE j = at BY <2>3, <3>1 DEF Stage
    <3>2. CASE j # at
      <4>1. j \in 1..(at - 1) BY <1>2, <3>2
      <4>2. chain[j].class = Stage.class /\ chain[j].name = Stage.name
        BY <1>1, <2>4, <4>1, SameRoute DEF GuardInv, Between
      <4>3. Checked(chain[j]) = Checked(Stage) BY <4>2 DEF Checked
      <4> QED BY <2>3, <4>3
    <3> QED BY <3>1, <3>2
  <2>5. PassedInv'
    <3>1. \A j \in 1..at : chain[j].kind # "handler" BY <1>1, <1>2 DEF GuardInv, PassedInv
    <3>2. at' - 1 = at /\ chain' = chain BY <1>2, <1>4
    <3>3. \A s : Checked(s)' = Checked(s) BY DEF Checked
    <3> QED BY <2>4, <3>1, <3>2, <3>3 DEF PassedInv
  <2> QED BY <2>1, <2>2, <2>5 DEF GuardInv
<1>5. CASE phase' = "offered" /\ UNCHANGED <<app, got, response>> BY <1>1, <1>5, GuardedLeave
<1> QED BY <1>4, <1>5 DEF CheckInput

\* What a handler gets of a whole part, other than by Param, is raw only if
\* @Validate has not made it.
LEMMA RawCalls ==
    ASSUME NEW v, NEW call \in Calls(v), NEW r \in call.outcomes, r.error = NoError, call.whole, call.by # "Param", r.value = "raw"
    PROVE  ~Cached(v, call.part)
<1>1. Gets("own").value = "own" /\ Gets("parsed").value = "parsed" BY DEF Gets
<1>2. ASSUME NEW raws, r \in ParseAsync(raws) PROVE FALSE
  <2>1. Fails(ZodError).value = "none" BY DEF Fails
  <2> QED BY <1>1, <1>2, <2>1 DEF ParseAsync
<1>3. ASSUME NEW part, NEW schema, NEW raws, r \in (IF ~schema /\ Cached(v, part) THEN {Gets("parsed")} ELSE Through(schema, raws))
      PROVE  ~Cached(v, part)
  BY <1>1, <1>2, <1>3 DEF Through
<1>4. ASSUME NEW part, NEW schema, NEW raws, r \in (IF Cached(v, part) THEN {Gets("parsed")} ELSE Through(schema, raws))
      PROVE  ~Cached(v, part)
  BY <1>1, <1>4
<1>5. ASSUME NEW part, NEW raws, r \in (IF Cached(v, part) THEN {Gets("parsed")} ELSE raws) PROVE ~Cached(v, part)
  BY <1>1, <1>5
<1>6. \/ call.part = "body" /\ \E s \in BOOLEAN : call.outcomes \in {Body(v, s), ValidatedBody(v, s)}
      \/ call.part = "query" /\ \E s \in BOOLEAN : call.outcomes \in {Query(v, s), ValidatedQuery(v, s)}
      \/ call.part = "params" /\ \E s \in BOOLEAN : call.outcomes = ValidatedParams(v, s)
      \/ call.part = "params" /\ call.outcomes = Params(v)
      \/ ~call.whole
      \/ call.by = "Param"
  BY DEF Calls, Call
<1>7. CASE call.part = "body" /\ \E s \in BOOLEAN : call.outcomes \in {Body(v, s), ValidatedBody(v, s)}
  BY <1>3, <1>4, <1>7 DEF Body, ValidatedBody
<1>8. CASE call.part = "query" /\ \E s \in BOOLEAN : call.outcomes \in {Query(v, s), ValidatedQuery(v, s)}
  BY <1>3, <1>4, <1>8 DEF Query, ValidatedQuery
<1>9. CASE call.part = "params" /\ \E s \in BOOLEAN : call.outcomes = ValidatedParams(v, s)
  BY <1>4, <1>9 DEF ValidatedParams
<1>10. CASE call.part = "params" /\ call.outcomes = Params(v)
  BY <1>5, <1>10 DEF Params
<1> QED BY <1>6, <1>7, <1>8, <1>9, <1>10

\* The handler asks for a part of its input.
LEMMA GuardedAsk == ASSUME GuardInv, Ask PROVE GuardInv'
<1>1. phase = "down" /\ AtStage("handler") BY DEF Ask, AtStage
<1>2. PICK call \in Calls(validated) : \E r \in call.outcomes :
         IF r.error = NoError
           THEN /\ got' = [by |-> call.by, part |-> call.part, whole |-> call.whole, schema |-> call.schema, value |-> r.value]
                /\ UNCHANGED <<app, request, phase, chain, at, response, validated, error, tried, offers, late, hops, counted>>
           ELSE Throw(r.error)
  BY DEF Ask
<1>3. PICK r \in call.outcomes :
         IF r.error = NoError
           THEN /\ got' = [by |-> call.by, part |-> call.part, whole |-> call.whole, schema |-> call.schema, value |-> r.value]
                /\ UNCHANGED <<app, request, phase, chain, at, response, validated, error, tried, offers, late, hops, counted>>
           ELSE Throw(r.error)
  BY <1>2
<1>4. CASE r.error # NoError BY <1>1, <1>3, <1>4, GuardedThrow DEF Throw
<1>5. CASE r.error = NoError
  <2>1. /\ got' = [by |-> call.by, part |-> call.part, whole |-> call.whole, schema |-> call.schema, value |-> r.value]
        /\ UNCHANGED <<app, request, phase, chain, at, response, validated>>
    BY <1>3, <1>5
  <2>2. got'.by = call.by /\ got'.part = call.part /\ got'.whole = call.whole /\ got'.value = r.value BY <2>1
  <2>3. (call.whole /\ call.by # "Param" /\ r.value = "raw") => ~Cached(validated, call.part) BY <1>5, RawCalls
  <2>4. ChainInv' BY <2>1 DEF GuardInv, ChainInv
  <2>5. PassedInv'
    <3>1. \A s : Checked(s)' = Checked(s) BY DEF Checked
    <3> QED BY <2>1, <3>1 DEF GuardInv, PassedInv
  <2>6. response'.by # "slash"
    <3>1. response' = NoResponse BY <1>1, <2>1 DEF GuardInv, ChainInv
    <3>2. NoResponse.by = "" BY DEF NoResponse
    <3> QED BY <3>1, <3>2
  <2>7. AtStage("handler")' BY <1>1, <2>1 DEF AtStage, Stage
  <2>8. GotInv'
    <3>1. phase' = "down" /\ Cached(validated, call.part)' = Cached(validated, call.part) BY <1>1, <2>1 DEF Cached
    <3>2. (got'.whole /\ got'.by # "Param" /\ got'.value = "raw") => ~Cached(validated', got'.part) BY <2>1, <2>2, <2>3
    <3> QED BY <2>6, <2>7, <3>1, <3>2 DEF GotInv
  <2> QED BY <2>4, <2>5, <2>8 DEF GuardInv
<1> QED BY <1>4, <1>5

\* The other stages on the way down.
LEMMA GuardedDown ==
    ASSUME GuardInv, \/ Slash \/ Mount \/ RunMiddleware \/ Limit \/ CheckGuards \/ CheckChannel \/ NotFound
                     \/ Handle \/ OpenStream
    PROVE  GuardInv'
<1>1. phase = "down" BY DEF AtStage, Slash, Mount, RunMiddleware, Limit, CheckGuards, CheckChannel, NotFound, Handle, OpenStream
<1>2. ASSUME NEW e, NEW where \in {"offered", "raised"}, ThrowTo(where, e) PROVE GuardInv' BY <1>1, <1>2, GuardedThrow
<1>3. ASSUME NEW e, Throw(e) PROVE GuardInv' BY <1>2, <1>3 DEF Throw
<1>4. ASSUME NEW by, NEW status, by # "slash", Answer(by, status) PROVE GuardInv' BY <1>1, <1>4, GuardedAnswer
<1>5. CASE Slash
  <2>1. ASSUME NEW status, Answer("slash", status) PROVE GuardInv'
    <3>1. got = Nothing BY <1>1, <1>5 DEF Slash, AtStage, GuardInv, GotInv
    <3> QED BY <1>1, <2>1, <3>1, GuardedAnswer
  <2>2. CASE Pass BY <1>5, <2>2, GuardedPass DEF Slash
  <2> QED BY <1>5, <2>1, <2>2 DEF Slash
<1>6. CASE Mount BY <1>4, <1>6, GuardedPass DEF Mount
<1>7. CASE RunMiddleware
  <2>1. CASE phase' = "up" /\ UNCHANGED <<app, got, response>> BY <1>1, <2>1, GuardedLeave
  <2>2. CASE Pass BY <1>7, <2>2, GuardedPass DEF RunMiddleware
  <2> QED BY <1>3, <1>4, <1>7, <2>1, <2>2 DEF RunMiddleware, inputs
<1>8. CASE Limit BY <1>3, <1>8, GuardedPass DEF Limit
<1>9. CASE CheckGuards BY <1>3, <1>9, GuardedPass DEF CheckGuards
<1>10. CASE CheckChannel BY <1>3, <1>10, GuardedPass DEF CheckChannel
<1>11. CASE NotFound BY <1>4, <1>11 DEF NotFound
<1>12. CASE Handle
  <2>1. ASSUME NEW status, Answer("redirect", status) PROVE GuardInv' BY <1>4, <2>1
  <2>2. CASE Replay BY <1>2, <1>4, <2>2 DEF Replay
  <2>3. ASSUME NEW status, Answer("handler", status) PROVE GuardInv' BY <1>4, <2>3
  <2> QED BY <1>2, <1>3, <1>12, <2>1, <2>2, <2>3 DEF Handle
<1>13. CASE OpenStream BY <1>4, <1>13 DEF OpenStream
<1> QED BY <1>5, <1>6, <1>7, <1>8, <1>9, <1>10, <1>11, <1>12, <1>13

\* The error path and the way up.
LEMMA GuardedOut ==
    ASSUME GuardInv, SkipFilter \/ AskFilter \/ AnswerError \/ Raised \/ ReturnUp \/ Finish
    PROVE  GuardInv'
<1>1. phase \in {"offered", "raised", "up"}
  BY DEF SkipFilter, AskFilter, AnswerError, Offered, Raised, ReturnUp, Finish
<1>2. ASSUME phase' \in {"up", "offered", "raised", "done", "escaped"}, UNCHANGED <<app, got>>,
             response'.by = "slash" => response.by = "slash"
      PROVE  GuardInv'
  BY <1>1, <1>2, GuardedLeave
<1>3. ASSUME NEW by, by # "slash", NEW status, NEW code, ReturnBody(by, status, code), UNCHANGED <<app, got>> PROVE GuardInv'
  BY <1>2, <1>3 DEF ReturnBody
<1>4. ASSUME NEW e, Replaced(e) PROVE GuardInv' BY <1>2, <1>4 DEF Replaced, inputs
<1>5. CASE SkipFilter BY <1>1, <1>2, <1>5 DEF SkipFilter, inputs
<1>6. CASE AskFilter
  <2>1. CASE Responds("filter", 200) BY <1>3, <2>1 DEF Responds, Return, inputs
  <2>2. CASE phase' \in {phase, "raised"} /\ UNCHANGED <<app, response, got>> BY <1>1, <1>2, <2>2
  <2> QED BY <1>6, <2>1, <2>2 DEF AskFilter, inputs
<1>7. CASE AnswerError
  <2>1. CASE Responds("onError", 200) BY <1>3, <2>1 DEF Responds, Return, inputs
  <2>2. CASE Render
    <3> DEFINE body == Rendered(app.errorFormat, error)
    <3>1. CASE ReturnBody("error", body.status, body.code) /\ UNCHANGED <<app, got>> BY <1>3, <3>1
    <3> QED BY <1>4, <2>2, <3>1 DEF Render, inputs
  <2>3. CASE Rethrow BY <1>2, <2>3 DEF Rethrow, inputs
  <2> QED BY <1>4, <1>7, <2>1, <2>2, <2>3 DEF AnswerError
<1>8. CASE Raised
  <2>1. response'.by = "slash" => response.by = "slash" BY <1>8 DEF Raised, NoResponse
  <2> QED BY <1>2, <1>8, <2>1 DEF Raised, inputs
<1>9. CASE ReturnUp
  <2>1. ASSUME NEW e, Throw(e) PROVE GuardInv' BY <1>1, <2>1, GuardedThrow DEF Throw
  <2>2. CASE UNCHANGED <<app, phase, response, got>> BY <1>1, <1>2, <2>2
  <2> QED BY <1>9, <2>1, <2>2 DEF ReturnUp, inputs
<1>10. CASE Finish
  <2>1. response'.by = "slash" => response.by = "slash" BY <1>10 DEF Finish, NoResponse
  <2> QED BY <1>2, <1>10, <2>1 DEF Finish, inputs
<1> QED BY <1>5, <1>6, <1>7, <1>8, <1>9, <1>10

\* A chain that is received has no passed stage.
LEMMA GuardedReceive == ASSUME GuardInv, Receive PROVE GuardInv'
<1>1. Buildable(app) /\ app \in Apps /\ response = NoResponse /\ got = Nothing BY DEF Receive, GuardInv, ChainInv, GotInv
<1>2. Tables[app] = CreateApp(app) BY <1>1 DEF Tables
<1>3. /\ chain' = Chain(CreateApp(app), request.method, request.path) /\ at' = 1 /\ phase' = "down"
      /\ UNCHANGED <<app, request, response, got>>
  BY <1>2 DEF Receive, inputs
<1>4. IsSeq(chain') BY <1>1, <1>3, ChainShape
<1>5. ChainInv' BY <1>1, <1>3, <1>4 DEF ChainInv, IsSeq
<1>6. PassedInv' BY <1>3 DEF PassedInv
<1>7. GotInv' BY <1>1, <1>3 DEF GotInv, Nothing
<1> QED BY <1>5, <1>6, <1>7 DEF GuardInv

\* No stage is passed at first.
LEMMA GuardedInitial == Init => GuardInv
BY DEF Init, GuardInv, ChainInv, PassedInv, GotInv, NoResponse, Nothing

\* Every step keeps GuardInv.
LEMMA GuardedStep == GuardInv /\ [Next]_vars => GuardInv'
<1> SUFFICES ASSUME GuardInv, [Next]_vars PROVE GuardInv' OBVIOUS
<1>1. CASE Build BY <1>1 DEF Build, GuardInv, ChainInv, PassedInv, GotInv, inputs
<1>2. CASE Follow
  <2>1. got = Nothing BY <1>2 DEF Follow, GuardInv, GotInv
  <2> QED BY <1>2, <2>1 DEF Follow, GuardInv, ChainInv, PassedInv, GotInv, inputs
<1>3. CASE UNCHANGED vars
  <2>1. \A s : Checked(s)' = Checked(s) BY DEF Checked
  <2>2. UNCHANGED <<app, request, phase, chain, at, response, validated, got>> BY <1>3 DEF vars
  <2> QED BY <2>1, <2>2 DEF GuardInv, ChainInv, PassedInv, GotInv, AtStage, Stage, Cached
<1> QED BY <1>1, <1>2, <1>3, GuardedReceive, GuardedDown, GuardedCheck, GuardedAsk, GuardedOut DEF Next

\* A handler runs only after what its decorators ask for, and gets of a whole part
\* that @Validate names what the schema made of it, if that is anything and it does
\* not ask by Param or with a schema of its own, for any application, classes and
\* order of their decorators (registerRoute and its middlewares).
THEOREM GuardsBefore == Spec => []GuardedHandler
<1>1. GuardInv => GuardedHandler
  <2> SUFFICES ASSUME GuardInv, Reached
               PROVE  LET asks(names, kind) == IsOn(Stage.class, Stage.name, names) => kind \in Before
                          on(is) == IsOn(Stage.class, Stage.name, {is})
                      IN  /\ asks({"RateLimit"}, "limit") /\ asks({"Validate"}, "validate")
                          /\ (~on("Public") => asks({"UseGuards", "RequireAuth", "RequireRole", "RequirePermission"}, "guards"))
                          /\ ((on("ChannelRoute") /\ (on("Sse") \/ on("WebSocket"))) => asks({"ChannelAuth"}, "channelAuth"))
                          /\ ~(app.excludePrivate /\ on("Private"))
                          /\ \E r \in ToSet(Kept(app, Stage.class)) : r.name = Stage.name
                          /\ (got.whole /\ got.by # "Param" /\ got.value = "raw") =>
                               \A d \in Decorators(Stage.class, Stage.name) :
                                  (d.is = "Validate" /\ got.part \in DOMAIN d.with) => validated[got.part] = "undefined"
    BY DEF GuardedHandler
  <2> DEFINE class == Stage.class
             name == Stage.name
  <2>1. phase = "down" /\ at <= Len(chain) /\ Stage.kind = "handler" BY DEF Reached, AtStage
  <2>2. app \in Apps /\ chain = Chain(CreateApp(app), request.method, request.path) /\ at \in Nat \ {0}
    BY <2>1 DEF GuardInv, ChainInv
  <2>3. IsSeq(chain) BY <2>2, ChainShape
  <2>4. at \in DOMAIN chain /\ DOMAIN chain = 1..Len(chain) BY <2>1, <2>2, <2>3 DEF IsSeq
  <2>5. PICK h \in DOMAIN chain : \E off \in Nat : RouteAt(app, chain, at, h, off)
    BY <2>1, <2>2, <2>4, ToItsHandler DEF Stage, Everybodys
  <2>6. PICK off \in Nat : RouteAt(app, chain, at, h, off) BY <2>5
  <2>7. h = at
    <3>1. chain[at].kind \notin Between BY <2>1 DEF Stage, Between
    <3>2. at \in (off + 1)..h BY <2>2, <2>4, <2>6 DEF RouteAt
    <3> QED BY <2>2, <2>4, <2>6, <3>1, <3>2 DEF RouteAt
  <2>8. {chain[q].kind : q \in (off + 1)..(h - 1)} \subseteq Before BY <2>2, <2>7 DEF Before
  <2>9. AskedFor(class, name, Before) BY <2>6, <2>8 DEF RouteAt, AskedFor, Stage
  <2>10. class \in DOMAIN Declared /\ \E r \in ToSet(Kept(app, class)) : r.name = name BY <2>6 DEF RouteAt, Stage
  <2>11. \A d \in Decorators(class, name) : d.is = "Validate" => DOMAIN d.with # {} /\ DOMAIN d.with \subseteq {"body", "query", "params"}
    BY <2>10, ArgumentsAssumption DEF Decorators
  <2>12. Learnt(Meta[class], ToSet(Declared[class])) BY <2>10, MetaLearnt
  <2>13. ~(app.excludePrivate /\ Seen(class, name, "Private"))
    <3>1. PICK r \in ToSet(Kept(app, class)) : r.name = name BY <2>10
    <3>2. IsKept(app, class, r) BY <2>10, <3>1, KeptRoutes
    <3>3. Seen(class, name, "Private") => ReadFor(Meta[class], "isPrivate", name, FALSE) = TRUE
      BY <2>12 DEF Learnt, Flags, Seen, IsOn, Decorators
    <3> QED BY <3>1, <3>2, <3>3 DEF IsKept
  <2>14. ASSUME got.whole, got.by # "Param", got.value = "raw", NEW d \in Decorators(class, name), d.is = "Validate", got.part \in DOMAIN d.with
         PROVE  validated[got.part] = "undefined"
    <3>1. "validate" \in Before BY <2>9, <2>11, <2>14 DEF AskedFor
    <3>2. PICK j \in 1..(at - 1) : chain[j].kind = "validate" BY <3>1 DEF Before
    <3>3. chain[j].class = class /\ chain[j].name = name BY <2>1, <3>2, SameRoute DEF GuardInv, Between
    <3>4. Checked(chain[j]) \subseteq DOMAIN validated BY <2>1, <3>2 DEF GuardInv, PassedInv
    <3>5. ReadFor(Meta[class], "validation", name, <<>>) = d.with BY <2>12, <2>14 DEF Learnt, Decorators
    <3>6. got.part \in Checked(chain[j]) BY <2>11, <2>14, <3>3, <3>5 DEF Checked
    <3>7. ~Cached(validated, got.part) BY <2>1, <2>14 DEF GuardInv, GotInv
    <3> QED BY <3>4, <3>6, <3>7 DEF Cached
  <2> HIDE DEF class, name
  <2>15. IsOn(class, name, {"Validate"}) => "validate" \in Before BY <2>9, <2>11 DEF AskedFor, IsOn
  <2> QED BY <2>9, <2>10, <2>13, <2>14, <2>15 DEF AskedFor, Seen, Asks, class, name
<1> QED BY <1>1, GuardedInitial, GuardedStep, PTL DEF Spec

-----------------------------------------------------------------------------
(* When the router answers. *)

IsPath(path) == DOMAIN path = {"segments", "slash"} /\ path.slash \in BOOLEAN
IsRequest(r) == DOMAIN r = {"method", "path"} /\ IsPath(r.path)

\* Route r of a class is one for the method and path, in either spelling.
IsFor(class, r, method, path) ==
    /\ \E p \in {NoSlash(path), WithSlash(path)} :
          PathMatches(NoSlash(FullPath(class, r)), p) \/ PathMatches(WithSlash(FullPath(class, r)), p)
    /\ \/ r.method \in {"ALL", method}
       \/ r.method = "GET" /\ method = "HEAD"

\* The application has no route for the method and path.
Absent(a, method, path) ==
    \A class \in ToSet(CollectModule(a.module)) : \A r \in ToSet(Kept(a, class)) : ~IsFor(class, r, method, path)

\* One of the spellings registered matches a path as it is if any spelling of
\* the one matches any of the other.
LEMMA SpellingMatches ==
    ASSUME NEW full, DOMAIN full = {"segments", "slash"}, NEW path, IsPath(path),
           NEW p \in {NoSlash(path), WithSlash(path)},
           PathMatches(NoSlash(full), p) \/ PathMatches(WithSlash(full), p)
    PROVE  \E spelling \in ToSet(Spellings(full)) : PathMatches(spelling, path)
<1>1. p.segments = path.segments BY DEF NoSlash, WithSlash, IsPath
<1>2. /\ NoSlash(full).segments = full.segments /\ WithSlash(full).segments = full.segments
      /\ NoSlash(full).slash = (full.slash /\ full.segments = <<>>) /\ WithSlash(full).slash = TRUE
  BY DEF NoSlash, WithSlash
<1>3. \/ full.segments = <<"*">>
      \/ /\ Len(full.segments) = Len(path.segments)
         /\ \A i \in DOMAIN path.segments : SegmentMatches(full.segments[i], path.segments[i])
  BY <1>1, <1>2 DEF PathMatches
<1>4. CASE full.segments = <<"*">> \/ full.segments = <<>>
  <2>1. PICK spelling \in ToSet(Spellings(full)) : spelling.segments = full.segments
    <3>1. CASE full.segments = <<>> /\ full.slash BY <3>1 DEF Spellings, ToSet
    <3>2. CASE ~(full.segments = <<>> /\ full.slash)
      <4>1. Spellings(full) = <<NoSlash(full), WithSlash(full)>> BY <3>2 DEF Spellings
      <4>2. NoSlash(full) \in ToSet(Spellings(full)) BY <4>1, PairSeq DEF ToSet
      <4> QED BY <1>2, <4>2
    <3> QED BY <3>1, <3>2
  <2> QED BY <1>3, <1>4, <2>1 DEF PathMatches
<1>5. CASE full.segments # <<"*">> /\ full.segments # <<>>
  <2>1. Spellings(full) = <<NoSlash(full), WithSlash(full)>> BY <1>5 DEF Spellings
  <2>2. NoSlash(full) \in ToSet(Spellings(full)) /\ WithSlash(full) \in ToSet(Spellings(full))
    BY <2>1, PairSeq DEF ToSet
  <2>3. CASE path.slash BY <1>2, <1>3, <1>5, <2>2, <2>3 DEF PathMatches
  <2>4. CASE ~path.slash
    <3>1. NoSlash(full).slash = path.slash BY <1>2, <1>5, <2>4 DEF IsPath
    <3> QED BY <1>2, <1>3, <1>5, <2>2, <3>1 DEF PathMatches
  <2> QED BY <2>3, <2>4
<1> QED BY <1>4, <1>5

\* A route for a method and path has an entry that matches them.
LEMMA EntryFor ==
    ASSUME NEW class, NEW r, NEW method, NEW path, IsPath(path), IsFor(class, r, method, path)
    PROVE  \E entry \in ToSet(Entries(class, r)) : EntryMatches(entry, method, path)
<1> DEFINE full == FullPath(class, r)
           paths == Spellings(full)
           made == [i \in DOMAIN paths |->
                      [method |-> Registered(r), path |-> paths[i], class |-> class, name |-> r.name]]
<1>1. DOMAIN full = {"segments", "slash"} BY DEF FullPath, PathOf
<1>2. PICK p \in {NoSlash(path), WithSlash(path)} : PathMatches(NoSlash(full), p) \/ PathMatches(WithSlash(full), p)
  BY DEF IsFor
<1>3. Registered(r) \in {"ALL", IF method = "HEAD" THEN "GET" ELSE method} BY DEF IsFor, Registered
<1>4. Entries(class, r) = made BY DEF Entries
<1> HIDE DEF full
<1>5. \E spelling \in ToSet(paths) : PathMatches(spelling, path) BY <1>1, <1>2, SpellingMatches
<1> HIDE DEF paths
<1>6. PICK i \in DOMAIN paths : PathMatches(paths[i], path) BY <1>5 DEF ToSet
<1>7. made[i].method = Registered(r) /\ made[i].path = paths[i] /\ made[i] \in ToSet(made) BY DEF ToSet
<1> QED BY <1>3, <1>4, <1>6, <1>7 DEF EntryMatches

\* The router answers when the chain of the request has no handler.
RouterInv ==
    /\ IsRequest(request)
    /\ response.by = "router" => Absent(app, request.method, request.path)

\* The router answers at the end of a chain without a handler.
LEMMA RouterAnswers == ASSUME GuardInv, RouterInv, NotFound PROVE RouterInv'
<1>1. phase = "down" /\ at > Len(chain) /\ UNCHANGED <<app, request>> BY DEF NotFound, Answer
<1>2. app \in Apps /\ chain = Chain(CreateApp(app), request.method, request.path) /\ at \in Nat /\ at <= Len(chain) + 1
  BY <1>1 DEF GuardInv, ChainInv
<1>3. IsSeq(chain) BY <1>2, ChainShape
<1>4. DOMAIN chain = 1..(at - 1) BY <1>1, <1>2, <1>3 DEF IsSeq
<1>5. \A h \in DOMAIN chain : chain[h].kind # "handler" BY <1>1, <1>4 DEF GuardInv, PassedInv
<1>6. ASSUME NEW class \in ToSet(CollectModule(app.module)), NEW r \in ToSet(Kept(app, class)),
             IsFor(class, r, request.method, request.path)
      PROVE  FALSE
  <2>1. PICK entry \in ToSet(Entries(class, r)) : EntryMatches(entry, request.method, request.path)
    BY <1>6, EntryFor DEF RouterInv, IsRequest
  <2>2. \E h \in DOMAIN chain : chain[h].kind = "handler" BY <1>2, <2>1, HandlerThere
  <2> QED BY <1>5, <2>2
<1>7. Absent(app, request.method, request.path) BY <1>6 DEF Absent
<1> QED BY <1>1, <1>7 DEF RouterInv

\* A response of the router comes from the router.
LEMMA RouterSame ==
    ASSUME RouterInv, UNCHANGED <<app, request>>, response'.by = "router" => response.by = "router"
    PROVE  RouterInv'
BY DEF RouterInv

\* Nobody has answered at first.
LEMMA RouterInitial == Init => RouterInv
<1> SUFFICES ASSUME Init PROVE RouterInv OBVIOUS
<1>1. request \in [method : STRING, path : [segments : Seq(STRING), slash : BOOLEAN]]
  BY RequestsAssumption DEF Init
<1>2. request.path \in [segments : Seq(STRING), slash : BOOLEAN] /\ DOMAIN request = {"method", "path"} BY <1>1
<1>3. IsPath(request.path) BY <1>2 DEF IsPath
<1>4. response.by = "" BY DEF Init, NoResponse
<1> QED BY <1>2, <1>3, <1>4 DEF RouterInv, IsRequest

\* Every step keeps RouterInv.
LEMMA RouterStep == GuardInv /\ RouterInv /\ [Next]_vars => RouterInv'
<1> SUFFICES ASSUME GuardInv, RouterInv, [Next]_vars PROVE RouterInv' OBVIOUS
<1>1. ASSUME NEW by, by # "router", NEW status, NEW code, ReturnBody(by, status, code), UNCHANGED <<app, request>>
      PROVE  RouterInv'
  <2>1. response'.by = "router" => response.by = "router" BY <1>1 DEF ReturnBody
  <2> QED BY <1>1, <2>1, RouterSame
<1>2. ASSUME NEW by, by # "router", NEW status, Answer(by, status) PROVE RouterInv' BY <1>1, <1>2 DEF Answer, Return
<1>3. ASSUME UNCHANGED <<app, request, response>> PROVE RouterInv' BY <1>3, RouterSame
<1>4. ASSUME NEW e, NEW where, ThrowTo(where, e) PROVE RouterInv' BY <1>3, <1>4 DEF ThrowTo
<1>5. ASSUME NEW e, Throw(e) PROVE RouterInv' BY <1>4, <1>5 DEF Throw
<1>6. CASE Pass BY <1>3, <1>6 DEF Pass
<1>7. CASE Follow
  <2>1. request' = [request EXCEPT !.path = Redirected(request.path)] /\ response' = NoResponse BY <1>7 DEF Follow
  <2>2. IsPath(Redirected(request.path)) BY DEF RouterInv, IsRequest, IsPath, Redirected
  <2> QED BY <2>1, <2>2 DEF RouterInv, IsRequest, NoResponse
<1>8. CASE Build \/ Receive \/ CheckInput \/ SkipFilter \/ UNCHANGED vars
  BY <1>3, <1>8 DEF Build, Receive, CheckInput, SkipFilter, vars
<1>9. CASE Slash \/ Mount \/ Limit \/ CheckGuards \/ CheckChannel \/ OpenStream
  BY <1>2, <1>5, <1>6, <1>9 DEF Slash, Mount, Limit, CheckGuards, CheckChannel, OpenStream
<1>10. CASE RunMiddleware BY <1>2, <1>3, <1>5, <1>6, <1>10 DEF RunMiddleware
<1>11. CASE Ask BY <1>3, <1>5, <1>11 DEF Ask
<1>12. CASE Handle
  <2>1. CASE Replay BY <1>2, <1>4, <2>1 DEF Replay
  <2> QED BY <1>2, <1>4, <1>5, <1>12, <2>1 DEF Handle
<1>13. ASSUME NEW e, Replaced(e) PROVE RouterInv' BY <1>3, <1>13 DEF Replaced
<1>14. CASE AskFilter
  <2>1. CASE Responds("filter", 200) BY <1>1, <2>1 DEF Responds, Return
  <2>2. CASE UNCHANGED <<app, request, response>> BY <1>3, <2>2
  <2> QED BY <1>14, <2>1, <2>2 DEF AskFilter
<1>15. CASE AnswerError
  <2>1. CASE Responds("onError", 200) BY <1>1, <2>1 DEF Responds, Return
  <2>2. CASE Render
    <3> DEFINE body == Rendered(app.errorFormat, error)
    <3>1. CASE ReturnBody("error", body.status, body.code) /\ UNCHANGED <<app, request>> BY <1>1, <3>1
    <3> QED BY <1>13, <2>2, <3>1 DEF Render
  <2>3. CASE Rethrow BY <1>3, <2>3 DEF Rethrow
  <2> QED BY <1>13, <1>15, <2>1, <2>2, <2>3 DEF AnswerError
<1>16. CASE Raised
  <2>1. UNCHANGED <<app, request>> /\ (response'.by = "router" => response.by = "router") BY <1>16 DEF Raised, NoResponse
  <2> QED BY <2>1, RouterSame
<1>17. CASE Finish
  <2>1. UNCHANGED <<app, request>> /\ (response'.by = "router" => response.by = "router") BY <1>17 DEF Finish, NoResponse
  <2> QED BY <2>1, RouterSame
<1>18. CASE ReturnUp BY <1>3, <1>5, <1>18 DEF ReturnUp
<1> QED BY <1>7, <1>8, <1>9, <1>10, <1>11, <1>12, <1>14, <1>15, <1>16, <1>17, <1>18, RouterAnswers DEF Next

\* Only the absence of a route, for the method and either spelling of the path
\* asked for last, makes the router answer 404 (registerRoute, the slash
\* middleware of build).
THEOREM AbsentOnly == Spec => []NotFoundMeansAbsent
<1>1. RouterInv => NotFoundMeansAbsent
  <2> SUFFICES ASSUME RouterInv, phase = "done", response.by = "router",
                      NEW class \in ToSet(CollectModule(app.module)), NEW r \in ToSet(Kept(app, class))
               PROVE  ~\E p \in {NoSlash(request.path), WithSlash(request.path)} :
                         /\ PathMatches(NoSlash(FullPath(class, r)), p) \/ PathMatches(WithSlash(FullPath(class, r)), p)
                         /\ \/ r.method \in {"ALL", request.method}
                            \/ r.method = "GET" /\ request.method = "HEAD"
    BY DEF NotFoundMeansAbsent
  <2>1. ~IsFor(class, r, request.method, request.path) BY DEF RouterInv, Absent
  <2> QED BY <2>1 DEF IsFor
<1> QED BY <1>1, GuardedInitial, GuardedStep, RouterInitial, RouterStep, PTL DEF Spec

-----------------------------------------------------------------------------
(* What is told of a handler. *)

\* The middlewares of a method, those of its class first.
Woven(class, name) ==
    Read(Meta[class], "middlewares", <<>>) \o ReadFor(Meta[class], "methodMiddlewares", name, <<>>)

\* The stages `s` start with those of the middlewares `w`, and have no others.
Ahead(s, w) ==
    /\ IsSeq(s) /\ Len(w) <= Len(s)
    /\ \A i \in 1..Len(w) : s[i].kind = "middleware" /\ s[i].of = w[i]
    /\ \A i \in DOMAIN s : i > Len(w) => s[i].kind # "middleware"

\* What is appended comes after the middlewares.
LEMMA AheadMore ==
    ASSUME NEW w, IsSeq(w), NEW s, Ahead(s, w), NEW t, IsSeq(t), \A x \in ToSet(t) : x.kind # "middleware"
    PROVE  Ahead(s \o t, w)
<1>1. IsSeq(s) /\ IsSeq(s \o t) BY ConcatSeq DEF Ahead
<1>2. Len(s) \in Nat /\ Len(t) \in Nat /\ Len(w) \in Nat /\ DOMAIN s = 1..Len(s) /\ DOMAIN t = 1..Len(t)
  BY <1>1 DEF IsSeq
<1>3. /\ Len(s \o t) = Len(s) + Len(t) /\ DOMAIN (s \o t) = 1..(Len(s) + Len(t))
      /\ \A i \in 1..(Len(s) + Len(t)) : (s \o t)[i] = IF i <= Len(s) THEN s[i] ELSE t[i - Len(s)]
  <2>1. s \in Seq(ToSet(s) \union ToSet(t)) /\ t \in Seq(ToSet(s) \union ToSet(t)) BY <1>1 DEF IsSeq
  <2> QED BY <2>1, <1>2
<1> DEFINE st == s \o t
<1> HIDE DEF st
<1>4. ASSUME NEW i \in 1..Len(w) PROVE st[i].kind = "middleware" /\ st[i].of = w[i]
  BY <1>2, <1>3 DEF Ahead, st
<1>5. ASSUME NEW i \in DOMAIN st, i > Len(w) PROVE st[i].kind # "middleware"
  <2>1. CASE i <= Len(s) BY <1>2, <1>3, <1>5, <2>1 DEF Ahead, st
  <2>2. CASE ~(i <= Len(s))
    <3>1. i - Len(s) \in DOMAIN t /\ st[i] = t[i - Len(s)] BY <1>2, <1>3, <2>2 DEF st
    <3> QED BY <3>1 DEF ToSet
  <2> QED BY <2>1, <2>2
<1>6. Len(w) <= Len(st) BY <1>2, <1>3 DEF Ahead, st
<1> QED BY <1>1, <1>4, <1>5, <1>6 DEF Ahead, st

\* The stages of a route: its middlewares, of class and method, the guards if
\* there are any to check, and the handler, of a stream or not.
StagesAre(class, name) ==
    /\ IsSeq(Woven(class, name)) /\ Ahead(Stages(class, name), Woven(class, name))
    /\ (\E i \in DOMAIN Stages(class, name) : Stages(class, name)[i].kind = "guards") <=> Guards(class, name) # <<>>
    /\ Stages(class, name) # <<>>
    /\ Stages(class, name)[Len(Stages(class, name))].kind = "handler"
    /\ Stages(class, name)[Len(Stages(class, name))].of = "stream" <=> IsStream(class, name)

LEMMA StagesParts == ASSUME NEW class \in DOMAIN Declared, NEW name PROVE StagesAre(class, name)
<1> DEFINE meta == Meta[class]
           stage(kind, of) == [kind |-> kind, of |-> of, class |-> class, name |-> name]
           named(mws) == [i \in DOMAIN mws |-> stage("middleware", mws[i])]
           one(kind, there) == If(there, <<stage(kind, "")>>)
           channelled == "channel" \in DOMAIN meta /\ name \in DOMAIN meta["channel"]
           u == Read(meta, "middlewares", <<>>)
           v == ReadFor(meta, "methodMiddlewares", name, <<>>)
           w == u \o v
           a == named(u)
           b == named(v)
           limited == ReadFor(meta, "rateLimit", name, FALSE)
           guarded == Guards(class, name) # <<>>
           checked == DOMAIN ReadFor(meta, "validation", name, <<>>) # {}
           joined == IsStream(class, name) /\ channelled /\ ReadFor(meta, "channelAuth", name, FALSE)
           c == one("limit", limited)
           d == one("guards", guarded)
           e == one("validate", checked)
           f == one("channelAuth", joined)
           last == stage("handler", IF IsStream(class, name) THEN "stream" ELSE "http")
<1>1. IsSeq(u) /\ IsSeq(v) BY MetaLearnt DEF Learnt
<1>2. Stages(class, name) = a \o b \o c \o d \o e \o f \o <<last>> BY DEF Stages
<1>3. Woven(class, name) = w BY DEF Woven
<1>4. ASSUME NEW mws, IsSeq(mws)
      PROVE  /\ IsSeq(named(mws)) /\ Len(named(mws)) = Len(mws) /\ DOMAIN named(mws) = 1..Len(mws) /\ Len(mws) \in Nat
             /\ \A i \in 1..Len(mws) : named(mws)[i] = stage("middleware", mws[i])
  <2>1. DOMAIN mws = 1..Len(mws) /\ Len(mws) \in Nat BY <1>4 DEF IsSeq
  <2> QED BY <2>1, MadeSeq
<1>5. /\ IsSeq(a) /\ Len(a) = Len(u) /\ DOMAIN a = 1..Len(u) /\ Len(u) \in Nat
      /\ \A i \in 1..Len(u) : a[i] = stage("middleware", u[i])
  BY <1>1, <1>4
<1>6. /\ IsSeq(b) /\ Len(b) = Len(v) /\ DOMAIN b = 1..Len(v) /\ Len(v) \in Nat
      /\ \A i \in 1..Len(v) : b[i] = stage("middleware", v[i])
  BY <1>1, <1>4
<1>7. ASSUME NEW kind, NEW there PROVE IsSeq(one(kind, there)) /\ ToSet(one(kind, there)) = IF there THEN {stage(kind, "")} ELSE {}
  BY IfSeq
<1>8. /\ IsSeq(c) /\ ToSet(c) = IF limited THEN {stage("limit", "")} ELSE {}
      /\ IsSeq(d) /\ ToSet(d) = IF guarded THEN {stage("guards", "")} ELSE {}
      /\ IsSeq(e) /\ ToSet(e) = IF checked THEN {stage("validate", "")} ELSE {}
      /\ IsSeq(f) /\ ToSet(f) = IF joined THEN {stage("channelAuth", "")} ELSE {}
  BY <1>7, Zenon
<1>9. last.kind = "handler" /\ (last.of = "stream" <=> IsStream(class, name)) OBVIOUS
<1>10. IsSeq(<<last>>) /\ ToSet(<<last>>) = {last} BY OneSeq DEF ToSet
<1>11. \A kind : stage(kind, "").kind = kind OBVIOUS
<1>12. \A x : stage("middleware", x).kind = "middleware" /\ stage("middleware", x).of = x OBVIOUS
<1> HIDE DEF a, b, c, d, e, f, u, v, limited, guarded, checked, joined, meta, last, stage
<1>13. /\ IsSeq(w) /\ IsSeq(a \o b) /\ Len(w) = Len(u) + Len(v) /\ Len(a \o b) = Len(u) + Len(v)
       /\ DOMAIN (a \o b) = 1..(Len(u) + Len(v))
       /\ \A i \in 1..(Len(u) + Len(v)) :
             w[i] = (IF i <= Len(u) THEN u[i] ELSE v[i - Len(u)]) /\ (a \o b)[i] = (IF i <= Len(u) THEN a[i] ELSE b[i - Len(u)])
  <2>1. IsSeq(w) /\ IsSeq(a \o b) BY <1>1, <1>5, <1>6, ConcatSeq
  <2>2. u \in Seq(ToSet(u) \union ToSet(v)) /\ v \in Seq(ToSet(u) \union ToSet(v)) BY <1>1 DEF IsSeq
  <2>3. a \in Seq(ToSet(a) \union ToSet(b)) /\ b \in Seq(ToSet(a) \union ToSet(b)) BY <1>5, <1>6 DEF IsSeq
  <2>4. Len(w) = Len(u) + Len(v) /\ \A i \in 1..(Len(u) + Len(v)) : w[i] = (IF i <= Len(u) THEN u[i] ELSE v[i - Len(u)])
    BY <1>5, <1>6, <2>2
  <2>5. /\ Len(a \o b) = Len(u) + Len(v) /\ DOMAIN (a \o b) = 1..(Len(u) + Len(v))
        /\ \A i \in 1..(Len(u) + Len(v)) : (a \o b)[i] = (IF i <= Len(u) THEN a[i] ELSE b[i - Len(u)])
    <3>1. /\ Len(a \o b) = Len(a) + Len(b) /\ DOMAIN (a \o b) = 1..(Len(a) + Len(b))
          /\ \A i \in 1..(Len(a) + Len(b)) : (a \o b)[i] = (IF i <= Len(a) THEN a[i] ELSE b[i - Len(a)])
      BY <2>3
    <3> QED BY <1>5, <1>6, <3>1
  <2> QED BY <2>1, <2>4, <2>5
<1> DEFINE ab == a \o b
<1> HIDE DEF w, ab
<1>14. Ahead(ab, w)
  <2>1. ASSUME NEW i \in 1..Len(w) PROVE ab[i] = stage("middleware", w[i])
    <3>1. CASE i <= Len(u) BY <1>5, <1>6, <1>13, <3>1 DEF ab
    <3>2. CASE ~(i <= Len(u))
      <4>1. i - Len(u) \in 1..Len(v) BY <1>5, <1>6, <1>13, <3>2
      <4>2. ab[i] = b[i - Len(u)] /\ w[i] = v[i - Len(u)] BY <1>13, <3>2 DEF ab
      <4> QED BY <1>6, <4>1, <4>2
    <3> QED BY <3>1, <3>2
  <2> QED BY <1>5, <1>6, <1>12, <1>13, <2>1 DEF Ahead, ab
<1>15. \A x \in ToSet(ab) : x.kind = "middleware" BY <1>14, <1>13 DEF Ahead, ToSet, ab
<1>16. /\ \A x \in ToSet(c) : x.kind = "limit"
       /\ \A x \in ToSet(d) : x.kind = "guards"
       /\ \A x \in ToSet(e) : x.kind = "validate"
       /\ \A x \in ToSet(f) : x.kind = "channelAuth"
  BY <1>8, <1>11
<1>17. ASSUME NEW s, NEW t, Ahead(s, w), IsSeq(t), \A x \in ToSet(t) : x.kind # "middleware"
       PROVE  Ahead(s \o t, w) /\ ToSet(s \o t) = ToSet(s) \union ToSet(t)
  <2>1. IsSeq(s) BY <1>17 DEF Ahead
  <2>2. ToSet(s \o t) = ToSet(s) \union ToSet(t) BY <1>17, <2>1, ConcatSeq
  <2> QED BY <1>13, <1>17, <2>2, AheadMore
<1>18. Ahead(ab \o c, w) /\ ToSet(ab \o c) = ToSet(ab) \union ToSet(c) BY <1>8, <1>14, <1>16, <1>17
<1>19. Ahead(ab \o c \o d, w) /\ ToSet(ab \o c \o d) = ToSet(ab \o c) \union ToSet(d) BY <1>8, <1>16, <1>17, <1>18
<1>20. Ahead(ab \o c \o d \o e, w) /\ ToSet(ab \o c \o d \o e) = ToSet(ab \o c \o d) \union ToSet(e)
  BY <1>8, <1>16, <1>17, <1>19
<1>21. Ahead(ab \o c \o d \o e \o f, w) /\ ToSet(ab \o c \o d \o e \o f) = ToSet(ab \o c \o d \o e) \union ToSet(f)
  BY <1>8, <1>16, <1>17, <1>20
<1> DEFINE front == ab \o c \o d \o e \o f
           all == front \o <<last>>
<1>22. Ahead(front, w) /\ ToSet(front) = ToSet(ab) \union ToSet(c) \union ToSet(d) \union ToSet(e) \union ToSet(f)
  BY <1>18, <1>19, <1>20, <1>21
<1>23. Stages(class, name) = all BY <1>2 DEF ab
<1> HIDE DEF front
<1>24. Ahead(all, w) /\ ToSet(all) = ToSet(front) \union {last} BY <1>9, <1>10, <1>17, <1>22
<1>25. (\E x \in ToSet(all) : x.kind = "guards") <=> guarded
  <2>1. guarded => stage("guards", "") \in ToSet(all) /\ stage("guards", "").kind = "guards" BY <1>8, <1>11, <1>22, <1>24
  <2>2. ~guarded => \A x \in ToSet(all) : x.kind # "guards" BY <1>8, <1>9, <1>15, <1>16, <1>22, <1>24
  <2> QED BY <2>1, <2>2
<1>26. (\E x \in ToSet(all) : x.kind = "guards") <=> \E i \in DOMAIN all : all[i].kind = "guards" BY DEF ToSet
<1>27. all # <<>> /\ all[Len(all)] = last
  <2>1. front \in Seq(ToSet(front) \union {last}) /\ <<last>> \in Seq(ToSet(front) \union {last})
    BY <1>22 DEF Ahead, IsSeq
  <2> QED BY <2>1
<1> HIDE DEF all
<1> QED BY <1>3, <1>9, <1>13, <1>23, <1>24, <1>25, <1>26, <1>27 DEF StagesAre, guarded

\* What a handler has before it: the stages of everybody, and those of its route.
LEMMA AtHandler ==
    ASSUME GuardInv, Reached
    PROVE  /\ Stage.class \in DOMAIN Declared
           /\ \E off \in Nat : /\ PieceAt(chain, Stages(Stage.class, Stage.name), off)
                               /\ at = off + Len(Stages(Stage.class, Stage.name))
                               /\ \A i \in 1..off : chain[i].kind \in Everybodys
<1>1. phase = "down" /\ at <= Len(chain) /\ chain[at].kind = "handler" BY DEF Reached, AtStage, Stage
<1>2. app \in Apps /\ chain = Chain(CreateApp(app), request.method, request.path) /\ at \in Nat \ {0}
  BY <1>1 DEF GuardInv, ChainInv
<1>3. IsSeq(chain) BY <1>2, ChainShape
<1>4. at \in DOMAIN chain /\ DOMAIN chain = 1..Len(chain) /\ Len(chain) \in Nat BY <1>1, <1>2, <1>3 DEF IsSeq
<1>5. ASSUME NEW i \in DOMAIN chain, i <= at, chain[i].kind \notin Everybodys
      PROVE  \E off \in Nat : RouteAt(app, chain, i, at, off) /\ chain[i].class = Stage.class /\ chain[i].name = Stage.name
  <2>1. PICK h \in DOMAIN chain : \E off \in Nat : RouteAt(app, chain, i, h, off) BY <1>2, <1>5, ToItsHandler
  <2>2. PICK off \in Nat : RouteAt(app, chain, i, h, off) BY <2>1
  <2>3. off < i /\ i <= h /\ chain[h].kind = "handler" BY <2>2 DEF RouteAt
  <2>4. ~(h < at)
    <3>1. h < at => h \in 1..(at - 1) BY <1>2, <1>4
    <3> QED BY <1>1, <2>3, <3>1 DEF GuardInv, PassedInv
  <2>5. at \in (off + 1)..h BY <1>2, <1>4, <1>5, <2>3, <2>4
  <2>6. chain[at].class = chain[i].class /\ chain[at].name = chain[i].name /\ (at < h => chain[at].kind \in Between)
    BY <2>2, <2>5 DEF RouteAt
  <2>7. h = at BY <1>1, <1>2, <1>4, <2>4, <2>6 DEF Between
  <2> QED BY <2>2, <2>6, <2>7 DEF Stage
<1>6. chain[at].kind \notin Everybodys BY <1>1 DEF Everybodys
<1>7. PICK off \in Nat : RouteAt(app, chain, at, at, off) BY <1>2, <1>4, <1>5, <1>6
<1> DEFINE S == Stages(Stage.class, Stage.name)
<1>8. Stage.class \in DOMAIN Declared /\ PieceAt(chain, S, off) /\ at = off + Len(S) /\ off < at BY <1>7 DEF RouteAt, Stage
<1>9. Len(S) \in Nat BY <1>8, StagesSeq DEF IsSeq
<1> HIDE DEF S
<1>10. ASSUME NEW i \in 1..off, chain[i].kind \notin Everybodys PROVE FALSE
  <2>1. i \in DOMAIN chain /\ i <= at BY <1>2, <1>4, <1>8
  <2>2. PICK from \in Nat : RouteAt(app, chain, i, at, from) /\ chain[i].class = Stage.class /\ chain[i].name = Stage.name
    BY <1>5, <1>10, <2>1
  <2>3. at = from + Len(S) /\ from < i BY <2>2 DEF RouteAt, S
  <2> QED BY <1>8, <1>9, <2>3
<1> QED BY <1>8, <1>10 DEF S

\* An operation of the document is one of a route.
LEMMA OfRoutes ==
    ASSUME NEW classes, NEW o \in Document(classes).operations
    PROVE  \E class, r : o = Operation(class, r)
BY DEF Document

\* What is told of a handler is what a request meets, for any application,
\* classes and order of their decorators (generate and describe against
\* registerRoute and its middlewares).
THEOREM ToldTruly == Spec => []TruthfulDocument
<1>1. ASSUME GuardInv, Reached PROVE TruthfulDocument
  <2> DEFINE class == Stage.class
             name == Stage.name
             meta == Meta[class]
             w == Woven(class, name)
             S == Stages(class, name)
             ds == Decorators(class, name)
             checked == ReadFor(meta, "validation", name, <<>>)
             guards == ReadFor(meta, "guards", name, <<>>)
             public == ReadFor(meta, "isPublic", name, FALSE)
             ran == {i \in 1..(at - 1) : chain[i].kind = "middleware"}
  <2>1. class \in DOMAIN Declared BY <1>1, AtHandler
  <2>2. PICK off \in Nat : /\ PieceAt(chain, S, off) /\ at = off + Len(S)
                           /\ \A i \in 1..off : chain[i].kind \in Everybodys
    BY <1>1, AtHandler
  <2>3. StagesAre(class, name) BY <2>1, StagesParts
  <2>4. Learnt(meta, ToSet(Declared[class])) BY <2>1, MetaLearnt
  <2>5. /\ IsSeq(S) /\ Len(S) \in Nat \ {0} /\ DOMAIN S = 1..Len(S) /\ S[Len(S)].kind = "handler"
        /\ IsSeq(w) /\ Len(w) \in Nat /\ DOMAIN w = 1..Len(w) /\ Len(w) <= Len(S)
        /\ \A i \in 1..Len(w) : S[i].kind = "middleware" /\ S[i].of = w[i]
        /\ \A i \in 1..Len(S) : i > Len(w) => S[i].kind # "middleware"
    <3>1. IsSeq(S) /\ S # <<>> /\ IsSeq(w) /\ Ahead(S, w) /\ S[Len(S)].kind = "handler" BY <2>3 DEF StagesAre, Ahead
    <3> HIDE DEF S, w
    <3>2. Len(S) \in Nat \ {0} /\ DOMAIN S = 1..Len(S) /\ Len(w) \in Nat /\ DOMAIN w = 1..Len(w) BY <3>1 DEF IsSeq
    <3> QED BY <3>1, <3>2 DEF Ahead
  <2>6. \A q \in 1..Len(S) : chain[off + q] = S[q] BY <2>2 DEF PieceAt
  <2>7. (\E q \in 1..Len(S) : S[q].kind = "guards") <=> Guards(class, name) # <<>> BY <2>3, <2>5 DEF StagesAre
  <2>8. Stage.of = "stream" <=> IsStream(class, name)
    <3>1. Len(S) \in 1..Len(S) BY <2>5
    <3>2. Stage = S[Len(S)] BY <2>2, <2>6, <3>1 DEF Stage
    <3>3. S[Len(S)].of = "stream" <=> IsStream(class, name) BY <2>3 DEF StagesAre
    <3> QED BY <3>2, <3>3
  <2> HIDE DEF S, w
  <2>9. Len(w) < Len(S)
    <3>1. Len(S) # Len(w)
      <4>1. Len(S) = Len(w) => S[Len(S)].kind = "middleware" BY <2>5
      <4> QED BY <2>5, <4>1
    <3>2. Len(S) \in Nat /\ Len(w) \in Nat /\ Len(w) <= Len(S) BY <2>5
    <3> QED BY <3>1, <3>2
  <2>10. ASSUME NEW i \in 1..(at - 1), i > off PROVE i - off \in 1..(Len(S) - 1) /\ chain[i] = S[i - off]
    <3>1. i - off \in 1..(Len(S) - 1) /\ off + (i - off) = i BY <2>2, <2>5, <2>10
    <3> QED BY <2>5, <2>6, <3>1
  <2>11. "guards" \in Before <=> Guards(class, name) # <<>>
    <3>1. ASSUME NEW i \in 1..(at - 1), chain[i].kind = "guards" PROVE \E q \in 1..Len(S) : S[q].kind = "guards"
      <4>1. i > off
        <5>1. ~(i \in 1..off) BY <2>2, <3>1 DEF Everybodys
        <5> QED BY <5>1
      <4> QED BY <2>5, <2>10, <3>1, <4>1
    <3>2. ASSUME NEW q \in 1..Len(S), S[q].kind = "guards" PROVE \E i \in 1..(at - 1) : chain[i].kind = "guards"
      <4>1. q # Len(S) BY <2>5, <3>2
      <4>2. Len(S) \in Nat /\ at = off + Len(S) BY <2>2, <2>5
      <4>3. off + q \in 1..(at - 1) BY <4>1, <4>2
      <4> QED BY <2>6, <3>2, <4>3
    <3> QED BY <2>7, <3>1, <3>2 DEF Before
  <2>12. ran = (off + 1)..(off + Len(w)) /\ \A i \in 1..Len(w) : chain[off + i].of = w[i]
    <3>1. ASSUME NEW i \in 1..Len(w)
          PROVE  /\ off + i \in 1..(at - 1) /\ chain[off + i].kind = "middleware" /\ chain[off + i].of = w[i]
      <4>1. off + i \in 1..(at - 1) /\ i \in 1..Len(S) BY <2>2, <2>5, <2>9
      <4> QED BY <2>5, <2>6, <4>1
    <3>2. ASSUME NEW i \in 1..(at - 1), chain[i].kind = "middleware" PROVE i \in (off + 1)..(off + Len(w))
      <4>1. i > off
        <5>1. ~(i \in 1..off) BY <2>2, <3>2 DEF Everybodys
        <5> QED BY <5>1
      <4>2. i - off \in 1..Len(S) /\ S[i - off].kind = "middleware" BY <2>5, <2>10, <3>2, <4>1
      <4>3. ~(i - off > Len(w)) BY <2>5, <4>2
      <4> QED BY <2>2, <2>5, <4>1, <4>2, <4>3
    <3>3. ASSUME NEW i \in (off + 1)..(off + Len(w)) PROVE i \in ran
      <4>1. i - off \in 1..Len(w) /\ off + (i - off) = i BY <2>2, <2>5, <3>3
      <4> QED BY <3>1, <4>1
    <3> QED BY <3>1, <3>2, <3>3
  <2>13. ASSUME NEW x, x \in ToSet(Read(meta, "middlewares", <<>>)) \/ x \in ToSet(ReadFor(meta, "methodMiddlewares", name, <<>>))
         PROVE  \E i \in 1..(at - 1) : chain[i].of = x
    <3>1. IsSeq(Read(meta, "middlewares", <<>>)) /\ IsSeq(ReadFor(meta, "methodMiddlewares", name, <<>>)) BY <2>4 DEF Learnt
    <3>2. x \in ToSet(w) BY <2>13, <3>1, ConcatSeq DEF w, Woven
    <3>3. PICK i \in 1..Len(w) : w[i] = x BY <2>5, <3>2 DEF ToSet
    <3>4. Len(w) \in Nat /\ ran = (off + 1)..(off + Len(w)) BY <2>5, <2>12
    <3>5. off + i \in (off + 1)..(off + Len(w)) BY <3>3, <3>4
    <3>6. off + i \in ran BY <3>4, <3>5
    <3>7. off + i \in 1..(at - 1) BY <3>6
    <3> QED BY <2>12, <3>3, <3>7
  <2>14. IsSeq(guards) /\ Guards(class, name) = IF public THEN <<>> ELSE guards BY <2>4 DEF Learnt, Guards
  <2>15. ASSUME NEW o \in Document(CollectModule(app.module)).operations, o.class = class, o.name = name
         PROVE  /\ ("bearerAuth" \in ToSet(o.security.schemes)
                     => "guards" \in Before \/ {d \in ds : d.is = "ApiSecurity" /\ d.with = "bearerAuth"} # {}
                          \/ \E i \in 1..(at - 1) : chain[i].of = "jwt")
                /\ ((o.security.given /\ o.security.schemes = <<>>) => "guards" \notin Before)
                /\ (o.security.schemes # <<>> => 401 \in o.responses)
                /\ ("body" \in DOMAIN checked => o.body)
                /\ (DOMAIN ShapeOf(Read(checked, "query", <<>>)) \subseteq o.query
                      \/ {d \in ds : d.is = "ApiDoc" /\ "query" \in DOMAIN d.with} # {})
    <3>1. /\ o.security = Security(class, name) /\ o.responses = Responses(class, name)
          /\ (o.body <=> "body" \in DOMAIN Documented(meta, name))
          /\ o.query = DOMAIN Read(Documented(meta, name), "query", <<>>)
      <4>1. PICK c, r : o = Operation(c, r) BY <2>15, OfRoutes
      <4>2. o.class = c /\ o.name = r.name BY <4>1 DEF Operation
      <4> QED BY <2>15, <4>1, <4>2 DEF Operation
    <3>2. ToldOf(meta, ToSet(Declared[class]), name) BY <2>4 DEF Learnt
    <3> DEFINE named == ReadFor(meta, "security", name, <<>>)
               inferred == InferredAuth(class, name)
               schemes == (IF inferred THEN <<"bearerAuth">> ELSE <<>>) \o named
    <3>3. IsSeq(named) /\ ("bearerAuth" \in ToSet(named) => \E d \in ToSet(Declared[class]) : NamesBearer(d, name))
      BY <3>2 DEF ToldOf
    <3>4. o.security.given = (public \/ schemes # <<>>) /\ o.security.schemes = (IF public THEN <<>> ELSE schemes)
      BY <3>1 DEF Security
    <3>5. inferred => (~public /\ ((\E guard \in ToSet(guards) : TRUE)
                         \/ "jwt" \in ToSet(Read(meta, "middlewares", <<>>))
                         \/ "jwt" \in ToSet(ReadFor(meta, "methodMiddlewares", name, <<>>))))
      BY DEF InferredAuth
    <3>6. inferred => Guards(class, name) # <<>> \/ \E i \in 1..(at - 1) : chain[i].of = "jwt"
      <4>1. (\E guard \in ToSet(guards) : TRUE) => guards # <<>> BY EmptySeqs
      <4> QED BY <2>13, <2>14, <3>5, <4>1
    <3>7. "bearerAuth" \in ToSet(schemes) => inferred \/ "bearerAuth" \in ToSet(named)
      <4>1. IsSeq(<<"bearerAuth">>) /\ IsSeq(<<>>) /\ ToSet(<<>>) = {} BY OneSeq, EmptySeqs
      <4>2. ASSUME ~inferred PROVE ToSet(schemes) = ToSet(<<>>) \union ToSet(named)
        <5>1. schemes = <<>> \o named BY <4>2
        <5> QED BY <3>3, <4>1, <5>1, ConcatSeq
      <4> QED BY <4>1, <4>2
    <3> HIDE DEF schemes, named, inferred
    <3>8. "bearerAuth" \in ToSet(o.security.schemes)
             => "guards" \in Before \/ {d \in ds : d.is = "ApiSecurity" /\ d.with = "bearerAuth"} # {}
                  \/ \E i \in 1..(at - 1) : chain[i].of = "jwt"
      <4>1. "bearerAuth" \in ToSet(o.security.schemes) => "bearerAuth" \in ToSet(schemes) BY <3>4, EmptySeqs
      <4>2. "bearerAuth" \in ToSet(named) => {d \in ds : d.is = "ApiSecurity" /\ d.with = "bearerAuth"} # {}
        BY <3>3 DEF NamesBearer, Decorators
      <4> QED BY <2>11, <3>6, <3>7, <4>1, <4>2
    <3>9. (o.security.given /\ o.security.schemes = <<>>) => "guards" \notin Before
      <4>1. (o.security.given /\ o.security.schemes = <<>>) => public BY <3>4
      <4> QED BY <2>11, <2>14, <4>1
    <3>10. o.security.schemes # <<>> => 401 \in o.responses BY <3>1 DEF Responses
    <3>11. "body" \in DOMAIN checked => o.body BY <3>1, <3>2 DEF ToldOf, BodyTold
    <3>12. DOMAIN ShapeOf(Read(checked, "query", <<>>)) \subseteq o.query
             \/ {d \in ds : d.is = "ApiDoc" /\ "query" \in DOMAIN d.with} # {}
      BY <3>1, <3>2 DEF ToldOf, QueryTold, TellsQuery, Decorators
    <3> QED BY <3>8, <3>9, <3>10, <3>11, <3>12
  <2>16. ASSUME NEW d \in ToSet(Describe(class)), d.name = name
         PROVE  /\ \E before \in 0..at :
                       /\ ran = (before + 1)..(before + Len(d.middlewares))
                       /\ \A i \in DOMAIN d.middlewares : chain[before + i].of = d.middlewares[i]
                /\ ((d.guards # <<>> /\ ~d.isPublic) <=> "guards" \in Before)
                /\ ((d.sse \/ d.websocket) <=> Stage.of = "stream")
    <3>1. /\ d.middlewares = w /\ d.guards = guards /\ d.isPublic = public
          /\ d.sse = ReadFor(meta, "sse", name, FALSE) /\ d.websocket = ReadFor(meta, "websocket", name, FALSE)
      <4>1. PICK k \in DOMAIN AllRoutes(class) :
               d = Described(meta, FullPath(class, AllRoutes(class)[k]), AllRoutes(class)[k],
                             Read(meta, "middlewares", <<>>) \o ReadFor(meta, "methodMiddlewares", AllRoutes(class)[k].name, <<>>))
        BY <2>16 DEF Describe, ToSet
      <4>2. d.name = AllRoutes(class)[k].name BY <4>1 DEF Described
      <4> QED BY <2>16, <4>1, <4>2 DEF Described, w, Woven
    <3>2. off \in 0..at BY <2>2, <2>5
    <3>3. \E before \in 0..at :
             /\ ran = (before + 1)..(before + Len(d.middlewares))
             /\ \A i \in DOMAIN d.middlewares : chain[before + i].of = d.middlewares[i]
      BY <2>5, <2>12, <3>1, <3>2
    <3>4. (d.guards # <<>> /\ ~d.isPublic) <=> "guards" \in Before BY <2>11, <2>14, <3>1
    <3>5. (d.sse \/ d.websocket) <=> Stage.of = "stream" BY <2>8, <3>1 DEF IsStream
    <3> QED BY <3>3, <3>4, <3>5
  <2> QED BY <2>15, <2>16 DEF TruthfulDocument
<1>2. GuardInv => TruthfulDocument BY <1>1 DEF TruthfulDocument
<1> QED BY <1>2, GuardedInitial, GuardedStep, PTL DEF Spec

-----------------------------------------------------------------------------
(* What a typed client asks for. *)

\* The names replaced one after the other.
LEMMA Substituting ==
    ASSUME NEW segments, NEW params, IsSeq(params)
    PROVE  \E after : /\ after[0] = segments
                      /\ \A k \in 1..Len(params) : after[k] = Substitute(after[k - 1], params[k])
                      /\ FoldLeft(Substitute, segments, params) = after[Len(params)]
<1> DEFINE n == Len(params)
           Value(it, s) == IF s = {} THEN segments ELSE Substitute(it[s \ {Max(s)}], params[Max(s)])
           T == {k \in 0..n : \E g : g = [s \in SUBSET (1..k) |-> Value(g, s)]}
<1>0. n \in Nat /\ DOMAIN params = 1..n BY DEF IsSeq
<1> HIDE DEF n
<1>1. 0 \in T
  <2> DEFINE g == [s \in SUBSET (1..0) |-> segments]
  <2>1. \A s \in SUBSET (1..0) : s = {} OBVIOUS
  <2>2. g = [s \in SUBSET (1..0) |-> Value(g, s)] BY <2>1
  <2> QED BY <1>0, <2>2
<1>2. ASSUME NEW k \in 0..(n - 1), k \in T PROVE k + 1 \in T
  <2>1. PICK g : g = [s \in SUBSET (1..k) |-> Value(g, s)] BY <1>2
  <2> DEFINE h == [s \in SUBSET (1..(k + 1)) |->
                     IF s \in SUBSET (1..k) THEN g[s] ELSE Substitute(g[s \ {k + 1}], params[k + 1])]
  <2>2. ASSUME NEW s \in SUBSET (1..(k + 1)) PROVE h[s] = Value(h, s)
    <3>1. CASE s \in SUBSET (1..k)
      <4>1. h[s] = Value(g, s) BY <2>1, <3>1
      <4>2. s \ {Max(s)} \in SUBSET (1..k) /\ s \ {Max(s)} \in SUBSET (1..(k + 1)) BY <3>1
      <4>3. h[s \ {Max(s)}] = g[s \ {Max(s)}] BY <4>2
      <4> HIDE DEF h
      <4> QED BY <4>1, <4>3
    <3>2. CASE s \notin SUBSET (1..k)
      <4>1. k + 1 \in s BY <3>2
      <4>2. Max(s) = k + 1
        <5>1. k + 1 \in Nat /\ s \subseteq 1..(k + 1) BY <1>0
        <5> QED BY <4>1, <5>1, Top
      <4>3. s \ {k + 1} \in SUBSET (1..k) /\ s \ {k + 1} \in SUBSET (1..(k + 1)) OBVIOUS
      <4>4. h[s] = Substitute(g[s \ {k + 1}], params[k + 1]) BY <3>2
      <4>5. h[s \ {k + 1}] = g[s \ {k + 1}] BY <4>3
      <4> HIDE DEF h
      <4> QED BY <4>1, <4>2, <4>4, <4>5
    <3> QED BY <3>1, <3>2
  <2>3. h = [s \in SUBSET (1..(k + 1)) |-> h[s]] OBVIOUS
  <2> HIDE DEF h, Value
  <2>4. h = [s \in SUBSET (1..(k + 1)) |-> Value(h, s)] BY <2>2, <2>3
  <2>5. k + 1 \in 0..n BY <1>0
  <2> QED BY <2>4, <2>5
<1> HIDE DEF T
<1>3. n \in T
  <2>2. \A i \in 0..n : i \in T BY <1>0, <1>1, <1>2, Induct
  <2> QED BY <1>0, <2>2
<1>4. \E g : g = [s \in SUBSET (1..n) |-> Value(g, s)] BY <1>3 DEF T
<1> DEFINE iter == CHOOSE g : g = [s \in SUBSET (1..n) |-> Value(g, s)]
           after == [k \in 0..n |-> iter[1..k]]
<1>5. iter = [s \in SUBSET (1..n) |-> Value(iter, s)] BY <1>4
<1>6. FoldLeft(Substitute, segments, params) = iter[1..n]
  BY <1>0 DEF FoldLeft, MapThenFoldSet
<1> HIDE DEF iter
<1>7. after[0] = segments
  <2>1. 1..0 = {} /\ {} \in SUBSET (1..n) OBVIOUS
  <2>2. iter[{}] = segments BY <1>5, <2>1
  <2> QED BY <1>0, <2>1, <2>2
<1>8. ASSUME NEW k \in 1..n PROVE after[k] = Substitute(after[k - 1], params[k])
  <2>1. 1..k \in SUBSET (1..n) /\ 1..k # {} /\ k \in 1..k BY <1>0
  <2>2. Max(1..k) = k BY <1>0, <2>1, Top
  <2>3. (1..k) \ {k} = 1..(k - 1) BY <1>0
  <2>4. iter[1..k] = Substitute(iter[1..(k - 1)], params[k]) BY <1>5, <2>1, <2>2, <2>3
  <2> QED BY <1>0, <2>4
<1>9. FoldLeft(Substitute, segments, params) = after[n] BY <1>0, <1>6
<1> HIDE DEF after
<1> QED BY <1>7, <1>8, <1>9 DEF n

\* The least number of a set.
LEMMA Bottom == ASSUME NEW s \in SUBSET Nat, NEW k \in s, \A i \in s : k <= i PROVE Min(s) = k
<1>1. k \in s /\ \A y \in s : k <= y OBVIOUS
<1>2. \A x \in s : (\A y \in s : x <= y) => x = k BY <1>1
<1> QED BY <1>1, <1>2, Zenon DEF Min

\* Every order of the elements of a finite set has them all.
LEMMA AllInOrder ==
    ASSUME NEW S, IsFiniteSet(S), NEW p \in SetToSeqs(S)
    PROVE  IsSeq(p) /\ ToSet(p) = S
<1> DEFINE n == Cardinality(S)
<1>1. n \in Nat BY FS_CardinalityType
<1>2. p \in [1..n -> S] /\ \A i, j \in 1..n : i # j => p[i] # p[j] BY DEF SetToSeqs
<1>3. IsFiniteSet(1..n) /\ Cardinality(1..n) = n BY <1>1, FS_Interval
<1> HIDE DEF n
<1>4. p \in Injection(1..n, S) BY <1>2 DEF Injection, IsInjective
<1>5. Cardinality(1..n) = Cardinality(S) BY <1>3 DEF n
<1>6. p \in Surjection(1..n, S) BY <1>4, <1>5, FS_Injection
<1>7. \A x \in S : \E i \in 1..n : p[i] = x BY <1>6 DEF Surjection
<1>8. DOMAIN p = 1..n /\ \A i \in 1..n : p[i] \in S BY <1>2
<1>9. ToSet(p) = S BY <1>7, <1>8 DEF ToSet
<1>10. p = [i \in 1..n |-> p[i]] BY <1>2
<1> QED BY <1>1, <1>9, <1>10, MadeSeq

\* The parameters of a path.
ParamsOf(segments) == {s \in ToSet(segments) : s \in Parameters}

LEMMA ParamsFinite == ASSUME NEW segments, IsSeq(segments) PROVE IsFiniteSet(ParamsOf(segments))
<1> DEFINE n == Len(segments)
<1>1. n \in Nat /\ DOMAIN segments = 1..n /\ segments \in [1..n -> ToSet(segments)] BY DEF IsSeq, ToSet
<1>2. IsFiniteSet(1..n) BY <1>1, FS_Interval
<1> HIDE DEF n
<1>3. segments \in Surjection(1..n, ToSet(segments)) BY <1>1 DEF Surjection, ToSet
<1>4. IsFiniteSet(ToSet(segments)) BY <1>2, <1>3, FS_Surjection
<1>5. ParamsOf(segments) \in SUBSET ToSet(segments) BY DEF ParamsOf
<1> QED BY <1>4, <1>5, FS_Subset

\* In a path no parameter comes after one whose text begins with it.
Apart(segments) ==
    \A i, j \in DOMAIN segments :
        (i < j /\ segments[i] \in Parameters /\ segments[j] \in Parameters) => segments[j] \notin Begins[segments[i]]

\* The segments when those parameters have a value that are in `done`.
Filled(segments, done) == [i \in DOMAIN segments |-> IF segments[i] \in done THEN "value" ELSE segments[i]]

\* The next parameter is replaced where it stands.
LEMMA NextFilled ==
    ASSUME NEW segments, IsSeq(segments), Apart(segments), NEW done \in SUBSET ParamsOf(segments),
           NEW param \in ParamsOf(segments), param \notin done
    PROVE  Substitute(Filled(segments, done), param) = Filled(segments, done \union {param})
<1> DEFINE now == Filled(segments, done)
           n == Len(segments)
           found == {i \in DOMAIN now : now[i] \in Parameters /\ param \in Begins[now[i]]}
<1>1. n \in Nat /\ DOMAIN segments = 1..n /\ ToSet(segments) = {segments[i] : i \in 1..n} BY DEF IsSeq, ToSet
<1>2. param \in Parameters /\ \E i \in 1..n : segments[i] = param BY <1>1 DEF ParamsOf
<1>3. PICK k \in 1..n : segments[k] = param BY <1>2
<1>4. DOMAIN now = 1..n /\ \A i \in 1..n : now[i] = IF segments[i] \in done THEN "value" ELSE segments[i]
  BY <1>1 DEF Filled
<1>5. now[k] = param BY <1>3, <1>4
<1>6. k \in found BY <1>2, <1>3, <1>4, <1>5, ParametersAssumption
<1>7. \A i \in found : segments[i] = now[i] BY <1>4, ParametersAssumption
<1>8. ASSUME NEW i \in found PROVE k <= i
  <2>1. i \in 1..n /\ segments[i] \in Parameters /\ param \in Begins[segments[i]] BY <1>4, <1>7, <1>8
  <2>2. ~(i < k) BY <1>1, <1>2, <1>3, <2>1 DEF Apart
  <2> QED BY <1>1, <2>1, <2>2
<1>9. found \in SUBSET Nat BY <1>1, <1>4
<1>10. Substitute(now, param) = [now EXCEPT ![Min(found)] = IF @ = param THEN "value" ELSE "mangled"]
  BY <1>6 DEF Substitute
<1>11. \A i \in 1..n : segments[i] = param => i = k
  <2>1. ASSUME NEW i \in 1..n, segments[i] = param PROVE i = k
    <3>1. param \in Begins[param] BY <1>2, ParametersAssumption
    <3>2. ~(i < k) /\ ~(k < i) BY <1>1, <1>2, <1>3, <2>1, <3>1 DEF Apart
    <3> QED BY <1>1, <3>2
  <2> QED BY <2>1
<1> HIDE DEF found, now, n
<1>12. Min(found) = k BY <1>6, <1>8, <1>9, Bottom
<1>13. Substitute(now, param) = [now EXCEPT ![k] = "value"] BY <1>4, <1>5, <1>10, <1>12
<1>14. [now EXCEPT ![k] = "value"] = Filled(segments, done \union {param})
  <2>1. now = [i \in 1..n |-> IF segments[i] \in done THEN "value" ELSE segments[i]] BY <1>1 DEF now, Filled
  <2>2. ASSUME NEW i \in 1..n PROVE [now EXCEPT ![k] = "value"][i] = Filled(segments, done \union {param})[i]
    <3>1. Filled(segments, done \union {param})[i] = IF segments[i] \in done \union {param} THEN "value" ELSE segments[i]
      BY <1>1 DEF Filled
    <3> QED BY <1>3, <1>4, <1>11, <3>1
  <2>3. Filled(segments, done \union {param}) = [i \in 1..n |-> Filled(segments, done \union {param})[i]] BY <1>1 DEF Filled
  <2>4. [now EXCEPT ![k] = "value"] = [i \in 1..n |-> [now EXCEPT ![k] = "value"][i]] BY <2>1
  <2> HIDE DEF Filled
  <2> QED BY <2>2, <2>3, <2>4
<1> QED BY <1>13, <1>14 DEF now

\* Whatever the order, each parameter has its value in the end.
LEMMA AllFilled ==
    ASSUME NEW segments, IsSeq(segments), Apart(segments), NEW p \in SetToSeqs(ParamsOf(segments))
    PROVE  FoldLeft(Substitute, segments, p) = Filled(segments, Parameters)
<1> DEFINE n == Len(p)
           Till(k) == {p[j] : j \in 1..k}
<1>1. IsSeq(p) /\ ToSet(p) = ParamsOf(segments) BY ParamsFinite, AllInOrder
<1>2. n \in Nat /\ DOMAIN p = 1..n /\ ToSet(p) = Till(n) BY <1>1 DEF IsSeq, ToSet
<1>3. \A i, j \in 1..n : i # j => p[i] # p[j]
  <2>1. DOMAIN p = 1..Cardinality(ParamsOf(segments)) BY DEF SetToSeqs
  <2> QED BY <1>2, <2>1 DEF SetToSeqs
<1>4. PICK after : /\ after[0] = segments
                   /\ \A k \in 1..n : after[k] = Substitute(after[k - 1], p[k])
                   /\ FoldLeft(Substitute, segments, p) = after[n]
  BY <1>1, Substituting
<1> HIDE DEF n
<1> DEFINE T == {k \in 0..n : after[k] = Filled(segments, Till(k))}
<1>5. 0 \in T
  <2>1. Till(0) = {} OBVIOUS
  <2>2. Filled(segments, {}) = segments BY DEF Filled, IsSeq
  <2> HIDE DEF Till
  <2> QED BY <1>2, <1>4, <2>1, <2>2
<1>6. ASSUME NEW k \in 0..(n - 1), k \in T PROVE k + 1 \in T
  <2>1. k + 1 \in 1..n /\ (k + 1) - 1 = k /\ k + 1 \in 0..n /\ 1..(k + 1) = 1..k \union {k + 1} BY <1>2
  <2>2. Till(k + 1) = Till(k) \union {p[k + 1]} BY <2>1
  <2>3. Till(k) \in SUBSET ParamsOf(segments) /\ p[k + 1] \in ParamsOf(segments) BY <1>1, <1>2, <2>1
  <2>4. p[k + 1] \notin Till(k) BY <1>2, <1>3, <2>1
  <2>5. after[k + 1] = Substitute(after[k], p[k + 1]) BY <1>4, <2>1
  <2>6. after[k] = Filled(segments, Till(k)) BY <1>6
  <2> HIDE DEF Till
  <2>7. Substitute(Filled(segments, Till(k)), p[k + 1]) = Filled(segments, Till(k) \union {p[k + 1]})
    BY <2>3, <2>4, NextFilled
  <2>8. after[k + 1] = Filled(segments, Till(k + 1)) BY <2>2, <2>5, <2>6, <2>7
  <2> QED BY <2>1, <2>8
<1> HIDE DEF T, Till
<1>7. \A k \in 0..n : k \in T BY <1>2, <1>5, <1>6, Induct
<1>8. after[n] = Filled(segments, ParamsOf(segments)) BY <1>1, <1>2, <1>7 DEF T
<1>9. Filled(segments, ParamsOf(segments)) = Filled(segments, Parameters) BY DEF Filled, ParamsOf, ToSet
<1> QED BY <1>4, <1>8, <1>9

\* A path that is asked for matches the one it was made from, whatever is put in
\* place of the parameters.
LEMMA FilledMatches ==
    ASSUME NEW full \in [segments : Seq(STRING), slash : BOOLEAN], Apart(full.segments),
           NEW p \in SetToSeqs(ParamsOf(full.segments))
    PROVE  LET path == BuildUrl(full, p) IN
           /\ IsPath(path) /\ PathMatches(full, path) /\ ToSet(path.segments) \intersect Parameters = {}
           /\ PathMatches(NoSlash(full), NoSlash(path))
<1> DEFINE segments == full.segments
           path == BuildUrl(full, p)
<1>1. segments \in Seq(STRING) /\ IsSeq(segments) BY InSeq
<1>2. FoldLeft(Substitute, segments, p) = Filled(segments, Parameters) BY <1>1, AllFilled
<1>3. path = [full EXCEPT !.segments = Filled(segments, Parameters)] BY <1>2 DEF BuildUrl
<1>4. /\ path.segments = Filled(segments, Parameters) /\ path.slash = full.slash
      /\ DOMAIN path = {"segments", "slash"} /\ path.slash \in BOOLEAN
  BY <1>3
<1>5. DOMAIN segments = 1..Len(segments) /\ Len(segments) \in Nat BY <1>1
<1> HIDE DEF path, segments
<1>6. IsSeq(Filled(segments, Parameters)) /\ DOMAIN Filled(segments, Parameters) = DOMAIN segments
      /\ Len(Filled(segments, Parameters)) = Len(segments)
  BY <1>5, MadeSeq DEF Filled
<1>7. \A i \in DOMAIN segments : SegmentMatches(segments[i], Filled(segments, Parameters)[i])
  BY DEF SegmentMatches, Filled
<1>8. ToSet(path.segments) \intersect Parameters = {}
  <2>1. \A i \in DOMAIN segments : Filled(segments, Parameters)[i] \notin Parameters
    BY ParametersAssumption DEF Filled
  <2> QED BY <1>4, <1>6, <2>1 DEF ToSet
<1>9. full.segments = segments BY DEF segments
<1>10. PathMatches(full, path) BY <1>4, <1>6, <1>7, <1>9 DEF PathMatches
<1>11. /\ NoSlash(full).segments = segments /\ NoSlash(path).segments = path.segments
       /\ NoSlash(full).slash = (full.slash /\ segments = <<>>)
       /\ NoSlash(path).slash = (path.slash /\ path.segments = <<>>)
  BY <1>4, <1>9 DEF NoSlash
<1>12. segments = <<>> \/ path.segments # <<>> BY <1>4, <1>5, <1>6
<1>13. PathMatches(NoSlash(full), NoSlash(path))
  <2>1. NoSlash(full).slash = NoSlash(path).slash \/ segments = <<>> BY <1>11, <1>12
  <2> QED BY <1>4, <1>6, <1>7, <1>11, <2>1 DEF PathMatches
<1> QED BY <1>4, <1>8, <1>10, <1>13 DEF IsPath, path

\* A route a typed client has is one of its class, and no stream.
LEMMA ClientHas ==
    ASSUME NEW class \in DOMAIN Declared, NEW d \in ClientRoutes(class)
    PROVE  /\ d.method \notin {"ALL", "HEAD"}
           /\ \E r \in ToSet(AllRoutes(class)) : d.path = FullPath(class, r)
<1> DEFINE routes == AllRoutes(class)
           n == Len(routes)
<1>1. IsSeq(routes) BY MetaLearnt DEF Learnt, AllRoutes
<1>2. n \in Nat /\ DOMAIN routes = 1..n /\ ToSet(routes) = {routes[i] : i \in 1..n} BY <1>1 DEF IsSeq, ToSet
<1>3. d \in ToSet(Describe(class)) /\ d.method \notin {"ALL", "HEAD"} BY DEF ClientRoutes
<1>4. PICK i \in 1..n : d = Describe(class)[i] BY <1>2, <1>3 DEF Describe, ToSet
<1>5. d.path = FullPath(class, routes[i]) BY <1>2, <1>4 DEF Describe, Described
<1> QED BY <1>2, <1>3, <1>5

\* No path has a parameter after one whose text begins with it.
NamesApart ==
    \A class \in DOMAIN Declared : \A r \in ToSet(AllRoutes(class)) : Apart(FullPath(class, r).segments)

\* What a typed client asks for, with a value for each parameter in any order,
\* is what the route it names is for, and the chain it meets has the route's
\* handler, if the application keeps the route (buildUrl, generateClientTypes).
THEOREM ClientsReach == ASSUME NamesApart PROVE Spec => []ClientReachesRoute
<1>1. GuardInv => ClientReachesRoute
  <2> SUFFICES ASSUME GuardInv, phase = "built",
                      NEW class \in ToSet(CollectModule(app.module)), NEW d \in ClientRoutes(class),
                      NEW p \in SetToSeqs(ParamsOf(d.path.segments))
               PROVE  LET path == BuildUrl(d.path, p) IN
                      /\ PathMatches(d.path, path) /\ ToSet(path.segments) \intersect Parameters = {}
                      /\ (\E r \in ToSet(Kept(app, class)) :
                             r.name = d.name /\ r.method = d.method /\ FullPath(class, r) = d.path) =>
                           \E s \in ToSet(Chain(Tables[app], d.method, path)) :
                               s.kind = "handler" /\ s.class = class /\ s.name = d.name
    BY DEF ClientReachesRoute, ParamsOf
  <2> DEFINE path == BuildUrl(d.path, p)
  <2>1. app \in Apps /\ Buildable(app) BY DEF GuardInv, ChainInv
  <2>2. class \in DOMAIN Declared /\ "controller" \in DOMAIN Meta[class]
    BY <2>1, TreeAssumption DEF ToSet, Buildable
  <2>3. Tables[app] = CreateApp(app) BY <2>1 DEF Tables
  <2>4. d.method \notin {"ALL", "HEAD"} BY <2>2, ClientHas
  <2>5. PICK r \in ToSet(AllRoutes(class)) : d.path = FullPath(class, r) BY <2>2, ClientHas
  <2>6. d.path \in [segments : Seq(STRING), slash : BOOLEAN] BY <2>2, <2>5, PathsAssumption
  <2>7. Apart(d.path.segments) BY <2>2, <2>5 DEF NamesApart
  <2>8. /\ IsPath(path) /\ PathMatches(d.path, path) /\ ToSet(path.segments) \intersect Parameters = {}
        /\ PathMatches(NoSlash(d.path), NoSlash(path))
    BY <2>6, <2>7, FilledMatches
  <2> HIDE DEF path
  <2>9. ASSUME NEW k \in ToSet(Kept(app, class)), k.name = d.name, k.method = d.method, FullPath(class, k) = d.path
        PROVE  \E s \in ToSet(Chain(CreateApp(app), d.method, path)) :
                   s.kind = "handler" /\ s.class = class /\ s.name = d.name
    <3>1. IsFor(class, k, d.method, path) BY <2>8, <2>9 DEF IsFor
    <3>2. PICK entry \in ToSet(Entries(class, k)) : EntryMatches(entry, d.method, path) BY <2>8, <3>1, EntryFor
    <3> DEFINE c == Chain(CreateApp(app), d.method, path)
    <3> HIDE DEF c
    <3>3. c = Chain(CreateApp(app), d.method, path) BY DEF c
    <3>4. PICK h \in DOMAIN c : c[h].kind = "handler" /\ c[h].class = class /\ c[h].name = k.name
      BY <2>1, <3>2, <3>3, HandlerThere
    <3>5. c[h] \in ToSet(c) BY DEF ToSet
    <3> QED BY <2>9, <3>3, <3>4, <3>5
  <2> QED BY <2>3, <2>8, <2>9 DEF path
<1>2. GuardInv /\ [Next]_vars => GuardInv' BY GuardedStep
<1> QED BY <1>1, <1>2, GuardedInitial, PTL DEF Spec

=============================================================================
