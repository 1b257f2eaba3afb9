--------------------------- MODULE RouteCacheProofs --------------------------
(* Theorems about RouteCache, for any readers, writers, pages and patterns. *)
EXTENDS RouteCache, TLAPS

\* Functions that requests fill in.
Shape ==
    /\ pc \in [Request -> Where] /\ page \in [Reader -> Page]
    /\ found \in [Reader -> SUBSET Entry] /\ answer \in [Reader -> SUBSET Entry]
    /\ read \in [Reader -> Nat] /\ written \in [Writer -> Nat] /\ data \in Nat
    /\ index \in [Writer -> Nat] /\ listed \in [Writer -> SUBSET Page]
    /\ racing \in [Writer -> SUBSET Reader] /\ before \in [Reader -> SUBSET Writer]
    /\ DOMAIN store \subseteq Page /\ \A p \in DOMAIN store : store[p] \in Entry
    /\ \A r \in Reader : pc[r] = "new" => answer[r] = {}
    /\ \A w \in Writer : pc[w] # "stored" /\ (pc[w] = "new" => index[w] = 1)

\* The mutation happened and its purge is going on or over.
Wrote(w) == pc[w] \in {"purging", "listed", "purged", "answered"}

\* The pages of the patterns that were purged.
Done(w) ==
    IF pc[w] \in {"purged", "answered"} THEN Purged
    ELSE UNION {Patterns[i] : i \in {j \in DOMAIN Patterns : j < index[w]}}

\* The entry stems from before the mutation, and not from a reader that raced it.
Stale(w, e) == e.version < written[w] /\ e.by \notin racing[w]

\* No stale entry is left where the purge has been.
PurgeOf(w) ==
    Wrote(w) =>
        /\ written[w] <= data
        /\ pc[w] \in {"purging", "listed"} => index[w] \in DOMAIN Patterns
        /\ pc[w] = "listed" => \A p \in Patterns[index[w]] \cap DOMAIN store :
                                   Stale(w, store[p]) => p \in listed[w]
        /\ \A p \in Done(w) \cap DOMAIN store : ~Stale(w, store[p])

PurgeInv == \A w \in Writer : PurgeOf(w)

\* A reader that holds what it read before a mutation races it.
RaceInv ==
    \A w \in Writer, r \in Reader :
        Wrote(w) /\ pc[r] \in {"read", "storing"} /\ read[r] < written[w] => r \in racing[w]

\* What a reader found, or was answered from, is as good as the store was.
FoundInv ==
    \A r \in Reader : \A w \in before[r] :
        /\ pc[w] = "answered"
        /\ page[r] \in Purged => \A e \in found[r] \cup answer[r] : ~Stale(w, e)

Inv == Shape /\ PurgeInv /\ RaceInv /\ FoundInv

-----------------------------------------------------------------------------
(* The store. *)

\* Entries may go and age, but none is added.
Kept ==
    /\ DOMAIN store' \subseteq DOMAIN store
    /\ \A p \in DOMAIN store' : /\ store'[p].version = store[p].version
                                /\ store'[p].by = store[p].by

\* Removing pages keeps the rest.
LEMMA WithoutKeeps ==
    ASSUME NEW S
    PROVE  /\ DOMAIN Without(S) = DOMAIN store \ S
           /\ \A p \in DOMAIN store \ S : Without(S)[p] = store[p]
  BY DEF Without, Restrict

\* An entry that ages keeps its version and its origin.
LEMMA OlderKeeps ==
    ASSUME NEW e \in Entry
    PROVE  Older(e) \in Entry /\ Older(e).version = e.version /\ Older(e).by = e.by
  <1>1. e.left \in 0..Ttl /\ Ttl \in Nat BY CacheAssumption DEF Entry
  <1>2. (IF e.left = 0 THEN 0 ELSE e.left - 1) \in 0..Ttl BY <1>1
  <1> QED BY <1>2 DEF Older, Entry

\* The store after a set.
LEMMA StoredKeeps ==
    ASSUME NEW p, NEW e
    PROVE  /\ DOMAIN Stored(p, e) \subseteq DOMAIN store \cup {p}
           /\ \A q \in DOMAIN Stored(p, e) : Stored(p, e)[q] = IF q = p THEN e ELSE store[q]
  <1> DEFINE full == [q \in DOMAIN store \cup {p} |-> IF q = p THEN e ELSE store[q]]
             live == {q \in DOMAIN full : ~Expired(full[q])}
  <1>1. Stored(p, e) = full \/ Stored(p, e) = Restrict(full, live) BY DEF Stored
  <1>2. DOMAIN full = DOMAIN store \cup {p}
        /\ \A q \in DOMAIN full : full[q] = IF q = p THEN e ELSE store[q]
    OBVIOUS
  <1>3. live \subseteq DOMAIN full OBVIOUS
  <1>4. DOMAIN Restrict(full, live) = live /\ \A q \in live : Restrict(full, live)[q] = full[q]
    BY DEF Restrict
  <1> HIDE DEF full, live
  <1> QED BY <1>1, <1>2, <1>3, <1>4

\* A clock tick leaves versions and origins alone.
LEMMA TickKeeps ==
    ASSUME Shape, Tick
    PROVE  Kept /\ \A p \in DOMAIN store' : store'[p] \in Entry
  <1> DEFINE older == [p \in DOMAIN store |-> Older(store[p])]
  <1>1. \/ store' = older
        \/ store' = Restrict(older, {p \in DOMAIN older : ~Expired(older[p])})
    BY DEF Tick
  <1>2. \A p \in DOMAIN older : /\ older[p] \in Entry /\ older[p].version = store[p].version
                                /\ older[p].by = store[p].by
    BY OlderKeeps DEF Shape
  <1>3. DOMAIN older = DOMAIN store OBVIOUS
  <1> HIDE DEF older
  <1>4. DOMAIN store' \subseteq DOMAIN older /\ \A p \in DOMAIN store' : store'[p] = older[p]
    BY <1>1 DEF Restrict
  <1> QED BY <1>2, <1>3, <1>4 DEF Kept

\* Only the end of adapter.set adds an entry.
LEMMA KeptSteps ==
    ASSUME Shape, [Next]_vars, ~\E r \in Reader : StoreResult(r)
    PROVE  Kept
  <1>1. CASE UNCHANGED store
    BY <1>1 DEF Kept
  <1>2. ASSUME NEW S, store' = Without(S) PROVE Kept
    BY <1>2, WithoutKeeps DEF Kept
  <1>3. CASE Tick
    BY <1>3, TickKeeps
  <1>4. ASSUME NEW r \in Reader, Lookup(r) \/ Evict(r) PROVE Kept
    BY <1>4, <1>1, <1>2 DEF Lookup, Evict
  <1>5. ASSUME NEW w \in Writer, Purge(w) \/ DeleteListed(w) PROVE Kept
    BY <1>5, <1>1, <1>2 DEF Purge, DeleteListed
  <1> QED
    BY <1>1, <1>3, <1>4, <1>5
       DEF Next, vars, Hit, Read, Return, Write, WriteFails, ListKeys, Answer, CallFails

-----------------------------------------------------------------------------
(* The shape. *)

\* The shape holds initially.
LEMMA ShapeInit == Init => Shape
  BY DEF Init, Shape, Where, Request

\* A request that moves on.
LEMMA GotoShape ==
    ASSUME Shape, NEW x \in Request, NEW where \in Where, Goto(x, where)
    PROVE  /\ pc' \in [Request -> Where] /\ pc'[x] = where
           /\ \A y \in Request : y # x => pc'[y] = pc[y]
  BY DEF Shape, Goto

\* The store maps pages to entries.
StoreTyped == DOMAIN store \subseteq Page /\ \A p \in DOMAIN store : store[p] \in Entry

\* Every step keeps the store a map from pages to entries.
LEMMA StoreShape ==
    ASSUME Shape, [Next]_vars
    PROVE  StoreTyped'
  <1>1. CASE UNCHANGED store
    BY <1>1 DEF Shape, StoreTyped
  <1>2. ASSUME NEW S, store' = Without(S)
        PROVE  StoreTyped'
    <2>1. DOMAIN store \subseteq Page /\ \A p \in DOMAIN store : store[p] \in Entry BY DEF Shape
    <2>2. DOMAIN store' = DOMAIN store \ S /\ \A p \in DOMAIN store \ S : store'[p] = store[p]
      BY <1>2, WithoutKeeps
    <2> QED BY <2>1, <2>2 DEF StoreTyped
  <1>3. CASE Tick
    BY <1>3, TickKeeps DEF Kept, Shape, StoreTyped
  <1>4. ASSUME NEW r \in Reader, StoreResult(r)
        PROVE  StoreTyped'
    <2> DEFINE e == [version |-> read[r], left |-> Ttl, by |-> r]
    <2>1. e \in Entry
      <3>1. Ttl \in Nat BY CacheAssumption
      <3>2. Ttl \in 0..Ttl BY <3>1
      <3> QED BY <3>2 DEF Entry, Shape
    <2>2. store' = Stored(page[r], e) BY <1>4 DEF StoreResult
    <2> HIDE DEF e
    <2>3. page[r] \in Page BY DEF Shape
    <2>4. /\ DOMAIN store' \subseteq DOMAIN store \cup {page[r]}
          /\ \A q \in DOMAIN store' : store'[q] = IF q = page[r] THEN e ELSE store[q]
      BY <2>2, StoredKeeps
    <2> QED BY <2>1, <2>3, <2>4 DEF Shape, StoreTyped
  <1>5. ASSUME NEW r \in Reader, Lookup(r) \/ Evict(r)
        PROVE  StoreTyped'
    <2>1. UNCHANGED store \/ store' = Without({page[r]}) BY <1>5 DEF Lookup, Evict
    <2> QED BY <2>1, <1>1, <1>2
  <1>6. ASSUME NEW w \in Writer, Purge(w) \/ DeleteListed(w)
        PROVE  StoreTyped'
    <2>1. store' = Without(Matched(w)) \/ store' = Without(listed[w])
      BY <1>6 DEF Purge, DeleteListed
    <2> QED BY <2>1, <1>2
  <1>7. ASSUME NEW r \in Reader, Hit(r) \/ Read(r) \/ Return(r) PROVE StoreTyped'
    BY <1>1, <1>7 DEF Hit, Read, Return
  <1>8. ASSUME NEW w \in Writer, Write(w) \/ WriteFails(w) \/ ListKeys(w) PROVE StoreTyped'
    BY <1>1, <1>8 DEF Write, WriteFails, ListKeys
  <1>9. ASSUME NEW x \in Request, Answer(x) \/ CallFails(x) PROVE StoreTyped'
    BY <1>1, <1>9 DEF Answer, CallFails
  <1>10. CASE UNCHANGED vars
    BY <1>1, <1>10 DEF vars
  <1> QED
    BY <1>3, <1>4, <1>5, <1>6, <1>7, <1>8, <1>9, <1>10 DEF Next

\* Requests that keep what the shape says of them.
RestShape ==
    /\ page \in [Reader -> Page]
    /\ found \in [Reader -> SUBSET Entry] /\ answer \in [Reader -> SUBSET Entry]
    /\ read \in [Reader -> Nat] /\ written \in [Writer -> Nat] /\ data \in Nat
    /\ index \in [Writer -> Nat] /\ listed \in [Writer -> SUBSET Page]
    /\ racing \in [Writer -> SUBSET Reader] /\ before \in [Reader -> SUBSET Writer]

\* Requests that have not begun.
NewShape ==
    /\ pc \in [Request -> Where]
    /\ \A r \in Reader : pc[r] = "new" => answer[r] = {}
    /\ \A w \in Writer : pc[w] # "stored" /\ (pc[w] = "new" => index[w] = 1)

\* Every step keeps the variables of readers in their types.
LEMMA ReaderStep ==
    ASSUME Shape, NEW r \in Reader,
           Lookup(r) \/ Hit(r) \/ Evict(r) \/ Read(r) \/ Return(r) \/ StoreResult(r)
    PROVE  RestShape' /\ NewShape'
  <1> USE DEF Request
  <1>a. r \notin Writer /\ r \in Request BY CacheAssumption
  <1>b. ASSUME NEW where \in Where \ {"new"}, Goto(r, where), UNCHANGED <<answer, index>>
        PROVE  NewShape'
    <2>1. pc' \in [Request -> Where] /\ pc'[r] = where /\ \A y \in Request : y # r => pc'[y] = pc[y]
      BY <1>a, <1>b, GotoShape
    <2> QED BY <1>a, <1>b, <2>1 DEF NewShape, Shape
  <1>1. CASE Lookup(r)
    <2>1. Cached(page[r]) \in SUBSET Entry BY DEF Cached, Shape
    <2>2. PICK F \in SUBSET Cached(page[r]) : found' = [found EXCEPT ![r] = F]
      BY <1>1 DEF Lookup
    <2>3. found' \in [Reader -> SUBSET Entry] BY <2>1, <2>2 DEF Shape
    <2>4. before' \in [Reader -> SUBSET Writer] BY <1>1 DEF Lookup, Shape
    <2>5. RestShape' BY <1>1, <2>3, <2>4 DEF Lookup, Shape, RestShape, writing
    <2>6. Goto(r, "found") /\ UNCHANGED <<answer, index>> BY <1>1 DEF Lookup, writing
    <2>7. NewShape' BY <1>b, <2>6 DEF Where
    <2> QED BY <2>5, <2>7
  <1>2. CASE Hit(r)
    <2>1. answer' = [answer EXCEPT ![r] = found[r]] /\ Goto(r, "answered")
      BY <1>2 DEF Hit
    <2>2. RestShape' BY <1>2, <2>1 DEF Hit, Shape, RestShape, writing
    <2>3. NewShape' BY <1>2, <2>1, GotoShape DEF Hit, Where, NewShape, Shape, writing
    <2> QED BY <2>2, <2>3
  <1>3. CASE Evict(r)
    <2>1. RestShape' BY <1>3 DEF Evict, Shape, RestShape, writing
    <2>2. NewShape' BY <1>3 DEF Evict, NewShape, Shape, writing
    <2> QED BY <2>1, <2>2
  <1>4. CASE Read(r)
    <2>1. RestShape' BY <1>4 DEF Read, Shape, RestShape, writing
    <2>2. NewShape' BY <1>b, <1>4 DEF Read, Where, writing
    <2> QED BY <2>1, <2>2
  <1>5. CASE Return(r)
    <2>1. RestShape' BY <1>5 DEF Return, Shape, RestShape, reading, writing
    <2>2. PICK next \in {"storing", "answered", "failed"} : Goto(r, next) BY <1>5 DEF Return
    <2>3. next \in Where \ {"new"} BY DEF Where
    <2>4. UNCHANGED <<answer, index>> BY <1>5 DEF Return, reading, writing
    <2>5. NewShape' BY <1>b, <2>2, <2>3, <2>4
    <2> QED BY <2>1, <2>5
  <1>6. CASE StoreResult(r)
    <2>1. RestShape' BY <1>6 DEF StoreResult, Shape, RestShape, reading, writing
    <2>2. NewShape' BY <1>b, <1>6 DEF StoreResult, Where, reading, writing
    <2> QED BY <2>1, <2>2
  <1> QED BY <1>1, <1>2, <1>3, <1>4, <1>5, <1>6

\* Moving to the next pattern.
LEMMA NextShape ==
    ASSUME Shape, NEW w \in Writer, NextPattern(w)
    PROVE  /\ index' \in [Writer -> Nat] /\ index'[w] = index[w] + 1
           /\ \A v \in Writer : v # w => index'[v] = index[v]
           /\ pc' \in [Request -> Where] /\ pc'[w] \in {"purging", "purged"}
           /\ \A y \in Request : y # w => pc'[y] = pc[y]
  <1>1. PICK where \in {"purging", "purged"} : Goto(w, where) BY DEF NextPattern
  <1>2. w \in Request /\ where \in Where BY DEF Request, Where
  <1> QED BY <1>1, <1>2, GotoShape DEF NextPattern, Shape

\* Every step of a writer keeps the variables of requests in their types.
LEMMA WriterStep ==
    ASSUME Shape, NEW w \in Writer,
           Write(w) \/ WriteFails(w) \/ Purge(w) \/ ListKeys(w) \/ DeleteListed(w)
    PROVE  RestShape' /\ NewShape'
  <1> w \in Request BY DEF Request
  <1>a. \A v \in Writer : v \in Request /\ v \notin Reader BY CacheAssumption DEF Request
  <1>b. \A r \in Reader : r \in Request BY DEF Request
  <1>1. CASE Write(w)
    <2>1. PICK where \in {"purging", "purged"} : Goto(w, where) BY <1>1 DEF Write
    <2>2. where \in Where BY DEF Where
    <2>3. /\ pc' \in [Request -> Where] /\ pc'[w] = where
          /\ \A y \in Request : y # w => pc'[y] = pc[y]
      BY <2>1, <2>2, GotoShape
    <2>4. RestShape' BY <1>1 DEF Write, Shape, RestShape, reading
    <2>5. UNCHANGED <<answer, index>> BY <1>1 DEF Write, reading
    <2>6. NewShape' BY <1>a, <1>b, <2>3, <2>5 DEF NewShape, Shape
    <2> QED BY <2>4, <2>6
  <1>2. CASE WriteFails(w)
    <2>1. Goto(w, "failed") /\ "failed" \in Where /\ UNCHANGED <<answer, index>>
      BY <1>2 DEF WriteFails, Where, reading, writing
    <2>2. RestShape' BY <1>2 DEF WriteFails, Shape, RestShape, reading, writing
    <2>3. NewShape' BY <1>a, <1>b, <2>1, GotoShape DEF NewShape, Shape
    <2> QED BY <2>2, <2>3
  <1>3. CASE NextPattern(w) /\ UNCHANGED <<data, page, reading, written, racing>>
              /\ listed' \in [Writer -> SUBSET Page]
    <2>1. RestShape' BY <1>3, NextShape DEF Shape, RestShape, reading
    <2>2. UNCHANGED answer BY <1>3 DEF reading
    <2>3. NewShape' BY <1>a, <1>b, <1>3, <2>2, NextShape DEF NewShape, Shape
    <2> QED BY <2>1, <2>3
  <1>4. CASE Purge(w) \/ DeleteListed(w)
    <2>1. NextPattern(w) /\ UNCHANGED <<data, page, reading, written, racing, listed>>
      BY <1>4 DEF Purge, DeleteListed
    <2> QED BY <1>3, <2>1 DEF Shape
  <1>5. CASE ListKeys(w)
    <2>1. Matched(w) \in SUBSET Page BY DEF Matched, Shape
    <2>2. /\ listed' = [listed EXCEPT ![w] = Matched(w)]
          /\ UNCHANGED <<data, page, reading, written, racing>>
          /\ NextPattern(w) \/ (Goto(w, "listed") /\ UNCHANGED index)
      BY <1>5 DEF ListKeys
    <2>3. listed' \in [Writer -> SUBSET Page] BY <2>1, <2>2 DEF Shape
    <2>4. CASE NextPattern(w)
      BY <1>3, <2>2, <2>3, <2>4
    <2>5. CASE Goto(w, "listed") /\ UNCHANGED index
      <3>1. "listed" \in Where BY DEF Where
      <3>2. RestShape' BY <2>2, <2>3, <2>5 DEF Shape, RestShape, reading
      <3>3. UNCHANGED answer BY <2>2 DEF reading
      <3>4. NewShape' BY <1>a, <1>b, <2>5, <3>1, <3>3, GotoShape DEF NewShape, Shape
      <3> QED BY <3>2, <3>4
    <2> QED BY <2>2, <2>4, <2>5
  <1> QED BY <1>1, <1>2, <1>4, <1>5

\* Every step keeps the shape.
LEMMA ShapeStep == Shape /\ [Next]_vars => Shape'
  <1> SUFFICES ASSUME Shape, [Next]_vars PROVE Shape' OBVIOUS
  <1>1. RestShape' /\ NewShape'
    <2>1. CASE UNCHANGED vars
      BY <2>1 DEF vars, reading, writing, Shape, RestShape, NewShape
    <2>2. CASE Tick
      <3>1. \A r \in Reader : {Older(e) : e \in found[r]} \in SUBSET Entry
        BY OlderKeeps DEF Shape
      <3>2. found' \in [Reader -> SUBSET Entry] BY <2>2, <3>1 DEF Tick
      <3> QED BY <2>2, <3>2 DEF Tick, writing, Shape, RestShape, NewShape
    <2>3. ASSUME NEW x \in Request, Answer(x) \/ CallFails(x) PROVE RestShape' /\ NewShape'
      <3>1. PICK where \in {"answered", "failed"} : Goto(x, where)
        BY <2>3 DEF Answer, CallFails
      <3>2. where \in Where /\ where # "new" BY DEF Where
      <3>3. UNCHANGED <<data, page, reading, writing>> BY <2>3 DEF Answer, CallFails
      <3>4. RestShape' BY <3>3 DEF Shape, RestShape, reading, writing
      <3>5. NewShape'
        BY <3>1, <3>2, <3>3, GotoShape DEF NewShape, Shape, reading, writing, Request
      <3> QED BY <3>4, <3>5
    <2> QED BY <2>1, <2>2, <2>3, ReaderStep, WriterStep DEF Next
  <1>2. StoreTyped' BY StoreShape
  <1> QED BY <1>1, <1>2 DEF RestShape, NewShape, StoreTyped, Shape

-----------------------------------------------------------------------------
(* The purge. *)

\* Which pages a purge has been through.
LEMMA DoneIff ==
    ASSUME NEW w \in Writer, NEW p
    PROVE  /\ p \in Done(w) <=> \E i \in DOMAIN Patterns :
                p \in Patterns[i] /\ (pc[w] \in {"purged", "answered"} \/ i < index[w])
           /\ p \in Done(w)' <=> \E i \in DOMAIN Patterns :
                p \in Patterns[i] /\ (pc'[w] \in {"purged", "answered"} \/ i < index'[w])
  BY DEF Done, Purged, Range

\* Steps that leave a writer alone and add no entry leave its purge alone.
LEMMA PurgeFrame ==
    ASSUME Shape, PurgeInv, NEW w \in Writer, Kept, data' \in {data, data + 1},
           pc'[w] = pc[w], index'[w] = index[w], listed'[w] = listed[w],
           written'[w] = written[w], racing'[w] = racing[w]
    PROVE  PurgeOf(w)'
  <1> SUFFICES ASSUME Wrote(w) PROVE PurgeOf(w)' BY DEF PurgeOf, Wrote
  <1>1. PurgeOf(w) BY DEF PurgeInv
  <1>2. written'[w] <= data' BY <1>1 DEF PurgeOf, Shape
  <1>3. \A p \in DOMAIN store' : p \in DOMAIN store /\ (Stale(w, store[p])' <=> Stale(w, store[p]))
    BY DEF Kept, Stale
  <1>4. \A p : p \in Done(w)' <=> p \in Done(w) BY DEF Done
  <1> QED BY <1>1, <1>2, <1>3, <1>4 DEF PurgeOf, Wrote

\* A writer that has purged a pattern moves on.
LEMMA PurgeAdvance ==
    ASSUME Shape, PurgeInv, NEW w \in Writer, Kept, NextPattern(w),
           pc[w] \in {"purging", "listed"}, UNCHANGED <<data, written, racing>>,
           \A p \in Patterns[index[w]] \cap DOMAIN store' : ~Stale(w, store[p])
    PROVE  PurgeOf(w)'
  <1>1. PurgeOf(w) /\ Wrote(w) BY DEF PurgeInv, Wrote
  <1>2. DOMAIN Patterns = 1..Len(Patterns) /\ Len(Patterns) \in Nat BY CacheAssumption
  <1>3. index[w] \in 1..Len(Patterns) BY <1>1, <1>2 DEF PurgeOf
  <1>4. index'[w] = index[w] + 1 /\ w \in Request
        /\ pc'[w] = IF index[w] < Len(Patterns) THEN "purging" ELSE "purged"
    BY DEF NextPattern, Shape, Goto, Request
  <1>5. \A p \in DOMAIN store' : p \in DOMAIN store /\ (Stale(w, store[p])' <=> Stale(w, store[p]))
    BY DEF Kept, Stale
  <1>6. ASSUME NEW p \in DOMAIN store', p \in Done(w)' PROVE ~Stale(w, store[p])'
    <2>1. PICK i \in DOMAIN Patterns :
            p \in Patterns[i] /\ (pc'[w] \in {"purged", "answered"} \/ i < index'[w])
      BY <1>6, DoneIff
    <2>2. i <= index[w] BY <1>2, <1>3, <1>4, <2>1
    <2>3. CASE i = index[w]
      BY <1>5, <2>1, <2>3
    <2>4. CASE i < index[w]
      <3>1. p \in Done(w) BY <2>1, <2>4, DoneIff
      <3> QED BY <1>1, <1>5, <3>1 DEF PurgeOf
    <2> QED BY <1>2, <1>3, <2>2, <2>3, <2>4
  <1>7. pc'[w] \in {"purging", "listed"} => index'[w] \in DOMAIN Patterns
    BY <1>2, <1>3, <1>4
  <1>8. pc'[w] # "listed" BY <1>4
  <1>9. written'[w] <= data' BY <1>1 DEF PurgeOf
  <1> QED BY <1>6, <1>7, <1>8, <1>9 DEF PurgeOf

\* Nothing happens to the writer.
Idle(w) ==
    /\ pc'[w] = pc[w] /\ index'[w] = index[w] /\ listed'[w] = listed[w]
    /\ written'[w] = written[w] /\ racing'[w] = racing[w]
    /\ data' \in {data, data + 1}

\* A step of another request.
LEMMA IdleSteps ==
    ASSUME Shape, NEW w \in Writer, [Next]_vars,
           ~(Write(w) \/ WriteFails(w) \/ Purge(w) \/ ListKeys(w) \/ DeleteListed(w)),
           ~(Answer(w) \/ CallFails(w))
    PROVE  Idle(w)
  <1>a. w \in Request /\ w \notin Reader BY CacheAssumption DEF Request
  <1>1. CASE UNCHANGED <<pc, data, writing>>
    BY <1>1 DEF Idle, writing
  <1>2. ASSUME NEW x, x # w, pc' = [pc EXCEPT ![x] = pc'[x]] PROVE pc'[w] = pc[w]
    BY <1>2, <1>a DEF Shape
  <1>3. ASSUME NEW x \in Request, x # w, NEW where, Goto(x, where) PROVE pc'[w] = pc[w]
    BY <1>3, <1>a DEF Shape, Goto
  <1>4. ASSUME NEW r \in Reader,
               Lookup(r) \/ Hit(r) \/ Evict(r) \/ Read(r) \/ Return(r) \/ StoreResult(r)
        PROVE  Idle(w)
    <2>1. r \in Request /\ r # w BY <1>a DEF Request
    <2>2. UNCHANGED <<data, writing>> /\ (UNCHANGED pc \/ \E where : Goto(r, where))
      BY <1>4 DEF Lookup, Hit, Evict, Read, Return, StoreResult
    <2> QED BY <1>3, <2>1, <2>2 DEF Idle, writing
  <1>5. ASSUME NEW v \in Writer, v # w,
               Write(v) \/ WriteFails(v) \/ Purge(v) \/ ListKeys(v) \/ DeleteListed(v)
        PROVE  Idle(w)
    <2>1. v \in Request BY DEF Request
    <2>2. \E where : Goto(v, where)
      BY <1>5 DEF Write, WriteFails, Purge, ListKeys, DeleteListed, NextPattern
    <2>3. data' \in {data, data + 1}
      BY <1>5 DEF Write, WriteFails, Purge, ListKeys, DeleteListed
    <2>4. index'[w] = index[w]
      BY <1>5 DEF Write, WriteFails, Purge, ListKeys, DeleteListed, NextPattern, Shape, writing
    <2>5. listed'[w] = listed[w]
      BY <1>5 DEF Write, WriteFails, Purge, ListKeys, DeleteListed, Shape, writing
    <2>6. written'[w] = written[w] /\ racing'[w] = racing[w]
      BY <1>5 DEF Write, WriteFails, Purge, ListKeys, DeleteListed, Shape, writing
    <2> QED BY <1>3, <1>5, <2>1, <2>2, <2>3, <2>4, <2>5, <2>6 DEF Idle
  <1>6. ASSUME NEW x \in Request, x # w, Answer(x) \/ CallFails(x) PROVE Idle(w)
    <2>1. UNCHANGED <<data, writing>> /\ \E where : Goto(x, where)
      BY <1>6 DEF Answer, CallFails
    <2> QED BY <1>3, <1>6, <2>1 DEF Idle, writing
  <1>7. CASE Tick
    BY <1>1, <1>7 DEF Tick
  <1>8. CASE UNCHANGED vars
    BY <1>1, <1>8 DEF vars
  <1> QED BY <1>4, <1>5, <1>6, <1>7, <1>8 DEF Next

\* A reader stores what it read: if that is old, it races the mutation.
LEMMA StorePurge ==
    ASSUME Inv, NEW w \in Writer, NEW r \in Reader, StoreResult(r), Idle(w)
    PROVE  PurgeOf(w)'
  <1> SUFFICES ASSUME Wrote(w) PROVE PurgeOf(w)' BY DEF PurgeOf, Wrote, Idle
  <1> DEFINE e == [version |-> read[r], left |-> Ttl, by |-> r]
  <1>1. PurgeOf(w) /\ Shape BY DEF Inv, PurgeInv
  <1>2. pc[r] = "storing" /\ store' = Stored(page[r], e) BY DEF StoreResult
  <1>3. e.version = read[r] /\ e.by = r OBVIOUS
  <1>4. read[r] < written'[w] => r \in racing'[w] BY <1>2 DEF Inv, RaceInv, Idle
  <1> HIDE DEF e
  <1>5. /\ DOMAIN store' \subseteq DOMAIN store \cup {page[r]}
        /\ \A q \in DOMAIN store' : store'[q] = IF q = page[r] THEN e ELSE store[q]
    BY <1>2, StoredKeeps
  <1>6. \A q \in DOMAIN store' : Stale(w, store[q])' => q \in DOMAIN store /\ Stale(w, store[q])
    <2> SUFFICES ASSUME NEW q \in DOMAIN store', Stale(w, store[q])'
                 PROVE  q \in DOMAIN store /\ Stale(w, store[q])
      OBVIOUS
    <2>1. CASE q = page[r]
      <3>1. store'[q] = e BY <1>5, <2>1
      <3> QED BY <1>3, <1>4, <3>1 DEF Stale
    <2>2. CASE q # page[r]
      BY <1>5, <2>2 DEF Stale, Idle
    <2> QED BY <2>1, <2>2
  <1>7. \A p : p \in Done(w)' <=> p \in Done(w) BY DEF Done, Idle
  <1>8. written'[w] <= data' BY <1>1 DEF PurgeOf, Shape, Idle
  <1> QED BY <1>1, <1>6, <1>7, <1>8 DEF PurgeOf, Wrote, Idle

\* Every step keeps the purged pages clean.
LEMMA PurgeStep ==
    ASSUME SameStore, Inv, [Next]_vars
    PROVE  PurgeInv'
  <1> SUFFICES ASSUME NEW w \in Writer PROVE PurgeOf(w)' BY DEF PurgeInv
  <1>a. PurgeOf(w) /\ PurgeInv /\ Shape BY DEF Inv, PurgeInv
  <1>b. w \in Request /\ w \notin Reader BY CacheAssumption DEF Request
  <1>c. (~\E r \in Reader : StoreResult(r)) => Kept BY <1>a, KeptSteps
  <1>d. Matched(w) = Patterns[index[w]] \cap DOMAIN store BY DEF Matched
  <1>1. CASE Write(w)
    <2>1. index'[w] = 1 /\ written'[w] = data + 1 /\ data' = data + 1
      BY <1>a, <1>1 DEF Write, Shape
    <2>2. pc'[w] = IF Patterns = <<>> THEN "purged" ELSE "purging"
      BY <1>a, <1>b, <1>1 DEF Write, Shape, Goto
    <2>3. DOMAIN Patterns = 1..Len(Patterns) /\ Len(Patterns) \in Nat
          /\ (Patterns # <<>> => Len(Patterns) # 0)
      BY CacheAssumption
    <2>4. Patterns = <<>> => DOMAIN Patterns = {} OBVIOUS
    <2>5. ~\E p : p \in Done(w)'
      <3> SUFFICES ASSUME NEW p, p \in Done(w)' PROVE FALSE OBVIOUS
      <3>1. PICK i \in DOMAIN Patterns : pc'[w] \in {"purged", "answered"} \/ i < index'[w]
        BY DoneIff
      <3> QED BY <2>1, <2>2, <2>3, <2>4, <3>1
    <2>6. pc'[w] \in {"purging", "listed"} => index'[w] \in DOMAIN Patterns
      BY <2>1, <2>2, <2>3
    <2>7. written'[w] <= data' BY <2>1, <1>a DEF Shape
    <2> QED BY <2>2, <2>5, <2>6, <2>7 DEF PurgeOf
  <1>2. CASE Purge(w)
    <2>1. Kept /\ store' = Without(Matched(w))
      BY <1>2, WithoutKeeps DEF Kept, Purge
    <2>2. \A p \in Patterns[index[w]] : p \notin DOMAIN store' BY <1>d, <2>1, WithoutKeeps
    <2>3. NextPattern(w) /\ pc[w] = "purging" /\ UNCHANGED <<data, written, racing>>
      BY <1>2 DEF Purge
    <2> QED BY <1>a, <2>1, <2>2, <2>3, PurgeAdvance
  <1>3. CASE DeleteListed(w)
    <2>1. Kept /\ store' = Without(listed[w])
      BY <1>3, WithoutKeeps DEF Kept, DeleteListed
    <2>2. NextPattern(w) /\ pc[w] = "listed" /\ UNCHANGED <<data, written, racing>>
      BY <1>3 DEF DeleteListed
    <2>3. \A p \in Patterns[index[w]] \cap DOMAIN store : Stale(w, store[p]) => p \in listed[w]
      BY <1>a, <2>2 DEF PurgeOf, Wrote
    <2>4. \A p \in Patterns[index[w]] \cap DOMAIN store' : ~Stale(w, store[p])
      BY <2>1, <2>3, WithoutKeeps
    <2> QED BY <1>a, <2>1, <2>2, <2>4, PurgeAdvance
  <1>4. CASE ListKeys(w)
    <2>1. /\ pc[w] = "purging" /\ UNCHANGED <<store, data, written, racing>>
          /\ listed' = [listed EXCEPT ![w] = Matched(w)]
          /\ IF Matched(w) = {} THEN NextPattern(w) ELSE Goto(w, "listed") /\ UNCHANGED index
      BY <1>4 DEF ListKeys
    <2>2. CASE Matched(w) = {}
      <3>1. Kept BY <2>1 DEF Kept
      <3> QED BY <1>a, <1>d, <2>1, <2>2, <3>1, PurgeAdvance
    <2>3. CASE Matched(w) # {}
      <3>1. pc'[w] = "listed" /\ index'[w] = index[w] /\ listed'[w] = Matched(w)
        BY <1>a, <1>b, <2>1, <2>3 DEF Shape, Goto
      <3>2. \A p : p \in Done(w)' <=> p \in Done(w) BY <2>1, <3>1 DEF Done
      <3>3. \A p : Stale(w, store[p])' <=> Stale(w, store[p]) BY <2>1 DEF Stale
      <3>4. Wrote(w) /\ store' = store /\ data' = data /\ written' = written
        BY <2>1 DEF Wrote
      <3> QED BY <1>a, <1>d, <2>1, <3>1, <3>2, <3>3, <3>4 DEF PurgeOf
    <2> QED BY <2>2, <2>3
  <1>5. CASE WriteFails(w) \/ CallFails(w)
    <2>1. pc'[w] = "failed" BY <1>a, <1>b, <1>5 DEF WriteFails, CallFails, Shape, Goto
    <2> QED BY <2>1 DEF PurgeOf, Wrote
  <1>6. CASE Answer(w)
    <2>1. pc[w] \in {"stored", "purged"} /\ pc'[w] = "answered"
          /\ UNCHANGED <<store, data, index, written, racing>>
      BY <1>a, <1>b, <1>6 DEF Answer, Shape, Goto, writing
    <2>2. pc[w] = "purged" BY <1>a, <2>1 DEF Shape
    <2> QED
      <3>1. \A p : p \in Done(w)' <=> p \in Done(w) BY <2>1, <2>2 DEF Done
      <3>2. \A p : Stale(w, store[p])' <=> Stale(w, store[p]) BY <2>1 DEF Stale
      <3> QED BY <1>a, <2>1, <2>2, <3>1, <3>2 DEF PurgeOf, Wrote
  <1>7. CASE Idle(w)
    <2>1. CASE \E r \in Reader : StoreResult(r)
      BY <1>7, <2>1, StorePurge
    <2>2. CASE ~\E r \in Reader : StoreResult(r)
      BY <1>a, <1>c, <1>7, <2>2, PurgeFrame DEF Idle
    <2> QED BY <2>1, <2>2
  <1> QED BY <1>a, <1>1, <1>2, <1>3, <1>4, <1>5, <1>6, <1>7, IdleSteps

-----------------------------------------------------------------------------
(* The readers. *)

\* How a step moves a reader.
LEMMA ReaderMoves ==
    ASSUME Shape, NEW r \in Reader, [Next]_vars
    PROVE  \/ pc'[r] \in {"read", "storing"} => pc[r] = pc'[r] /\ read'[r] = read[r]
           \/ Read(r) /\ read'[r] = data /\ data' = data /\ pc[r] = "found"
           \/ Return(r) /\ read'[r] = read[r] /\ pc[r] = "read"
  <1>a. r \in Request /\ r \notin Writer BY CacheAssumption DEF Request
  <1>1. ASSUME NEW x \in Request, x # r, NEW where, Goto(x, where) PROVE pc'[r] = pc[r]
    BY <1>1, <1>a DEF Shape, Goto
  <1>2. ASSUME NEW q \in Reader, q # r,
               Lookup(q) \/ Hit(q) \/ Evict(q) \/ Read(q) \/ Return(q) \/ StoreResult(q)
        PROVE  pc'[r] = pc[r] /\ read'[r] = read[r]
    <2>1. q \in Request /\ (UNCHANGED pc \/ \E where : Goto(q, where))
      BY <1>2 DEF Request, Lookup, Hit, Evict, Read, Return, StoreResult
    <2>2. read'[r] = read[r]
      BY <1>2 DEF Lookup, Hit, Evict, Read, Return, StoreResult, reading, Shape
    <2> QED BY <1>1, <1>2, <2>1, <2>2
  <1>3. CASE Lookup(r) \/ Hit(r) \/ Evict(r) \/ StoreResult(r)
    <2>1. CASE Lookup(r) BY <2>1, <1>a DEF Lookup, Goto, Shape
    <2>2. CASE Hit(r) BY <2>2, <1>a DEF Hit, Goto, Shape
    <2>3. CASE Evict(r) BY <2>3 DEF Evict
    <2>4. CASE StoreResult(r) BY <2>4, <1>a DEF StoreResult, Goto, Shape
    <2> QED BY <1>3, <2>1, <2>2, <2>3, <2>4
  <1>4. CASE Read(r)
    BY <1>4 DEF Read, Shape
  <1>5. CASE Return(r)
    BY <1>5 DEF Return, reading
  <1>6. ASSUME NEW w \in Writer,
               Write(w) \/ WriteFails(w) \/ Purge(w) \/ ListKeys(w) \/ DeleteListed(w)
        PROVE  pc'[r] = pc[r] /\ read'[r] = read[r]
    <2>1. w \in Request /\ w # r /\ \E where : Goto(w, where)
      BY <1>6, <1>a DEF Request, Write, WriteFails, Purge, ListKeys, DeleteListed, NextPattern
    <2>2. UNCHANGED reading BY <1>6 DEF Write, WriteFails, Purge, ListKeys, DeleteListed
    <2> QED BY <1>1, <2>1, <2>2 DEF reading
  <1>7. ASSUME NEW x \in Request, Answer(x) \/ CallFails(x)
        PROVE  read'[r] = read[r] /\ (pc'[r] = pc[r] \/ pc'[r] \in {"answered", "failed"})
    BY <1>7, <1>a DEF Answer, CallFails, Goto, Shape, reading
  <1>8. CASE Tick \/ UNCHANGED vars
    BY <1>8 DEF Tick, vars, reading
  <1> QED BY <1>2, <1>3, <1>4, <1>5, <1>6, <1>7, <1>8 DEF Next

\* Who still holds an old reading races the mutation.
LEMMA RaceStep ==
    ASSUME Inv, [Next]_vars
    PROVE  RaceInv'
  <1> SUFFICES ASSUME NEW w \in Writer, NEW r \in Reader, Wrote(w)',
                      pc'[r] \in {"read", "storing"}, read'[r] < written'[w]
               PROVE  r \in racing'[w]
    BY DEF RaceInv
  <1>a. Shape /\ PurgeOf(w) BY DEF Inv, PurgeInv
  <1>b. w \in Request /\ w \notin Reader /\ r \in Request BY CacheAssumption DEF Request
  <1>1. CASE Write(w)
    <2>1. racing'[w] = {q \in Reader : pc[q] \in {"read", "storing"}} BY <1>a, <1>1 DEF Write, Shape
    <2>2. pc'[r] = pc[r] BY <1>a, <1>b, <1>1 DEF Write, Shape, Goto
    <2> QED BY <2>1, <2>2
  <1>2. CASE ~Write(w)
    <2>1. Wrote(w) /\ written'[w] = written[w] /\ racing'[w] = racing[w]
      <3>1. CASE Idle(w)
        BY <3>1 DEF Idle, Wrote
      <3>2. CASE WriteFails(w) \/ CallFails(w)
        <4>1. pc'[w] = "failed" BY <1>a, <1>b, <3>2 DEF WriteFails, CallFails, Shape, Goto
        <4> QED BY <4>1 DEF Wrote
      <3>3. CASE Purge(w) \/ ListKeys(w) \/ DeleteListed(w)
        BY <3>3 DEF Purge, ListKeys, DeleteListed, Wrote
      <3>4. CASE Answer(w)
        BY <1>a, <3>4 DEF Answer, Wrote, writing, Shape
      <3> QED BY <1>a, <1>2, <3>1, <3>2, <3>3, <3>4, IdleSteps
    <2>2. CASE pc[r] = pc'[r] /\ read'[r] = read[r]
      BY <2>1, <2>2 DEF Inv, RaceInv
    <2>3. CASE Return(r) /\ read'[r] = read[r] /\ pc[r] = "read"
      BY <2>1, <2>3 DEF Inv, RaceInv
    <2>4. CASE Read(r) /\ read'[r] = data /\ data' = data
      BY <1>a, <2>1, <2>4 DEF PurgeOf, Shape
    <2> QED BY <1>a, <2>2, <2>3, <2>4, ReaderMoves
  <1> QED BY <1>1, <1>2

\* What a reader holds comes from its lookup.
LEMMA HeldFrom ==
    ASSUME Shape, NEW r \in Reader, [Next]_vars, ~Lookup(r)
    PROVE  /\ before'[r] = before[r] /\ page' = page
           /\ \A e \in found'[r] \cup answer'[r] : \E d \in found[r] \cup answer[r] :
                  d.version = e.version /\ d.by = e.by
  <1> DEFINE Held == \A e \in found'[r] \cup answer'[r] : \E d \in found[r] \cup answer[r] :
                         d.version = e.version /\ d.by = e.by
  <1>1. CASE UNCHANGED <<page, reading>>
    BY <1>1 DEF reading
  <1>2. ASSUME NEW q \in Reader, Lookup(q) PROVE before'[r] = before[r] /\ page' = page /\ Held
    <2>1. q # r BY <1>2
    <2>2. found'[r] = found[r] /\ before'[r] = before[r] /\ UNCHANGED <<answer, page>>
      BY <1>2, <2>1 DEF Lookup, Shape
    <2> QED BY <2>2
  <1>3. ASSUME NEW q \in Reader, Hit(q) PROVE before'[r] = before[r] /\ page' = page /\ Held
    <2>1. answer'[r] = IF q = r THEN found[r] ELSE answer[r] BY <1>3 DEF Hit, Shape
    <2>2. UNCHANGED <<found, before, page>> BY <1>3 DEF Hit
    <2> QED BY <2>1, <2>2
  <1>4. ASSUME NEW q \in Reader, Evict(q) PROVE before'[r] = before[r] /\ page' = page /\ Held
    <2>1. found'[r] = IF q = r THEN {} ELSE found[r] BY <1>4 DEF Evict, Shape
    <2>2. UNCHANGED <<answer, before, page>> BY <1>4 DEF Evict
    <2> QED BY <2>1, <2>2
  <1>5. CASE Tick
    <2>1. found'[r] = {Older(e) : e \in found[r]} /\ UNCHANGED <<answer, before, page>>
      BY <1>5 DEF Tick
    <2>2. \A e \in found[r] : Older(e).version = e.version /\ Older(e).by = e.by
      BY OlderKeeps DEF Shape
    <2> QED BY <2>1, <2>2
  <1>6. ASSUME NEW q \in Reader, Read(q) \/ Return(q) \/ StoreResult(q)
        PROVE  before'[r] = before[r] /\ page' = page /\ Held
    <2>1. UNCHANGED <<found, answer, before, page>>
      BY <1>6 DEF Read, Return, StoreResult, reading
    <2> QED BY <2>1
  <1>7. ASSUME NEW w \in Writer,
               Write(w) \/ WriteFails(w) \/ Purge(w) \/ ListKeys(w) \/ DeleteListed(w)
        PROVE  UNCHANGED <<page, reading>>
    BY <1>7 DEF Write, WriteFails, Purge, ListKeys, DeleteListed
  <1>8. ASSUME NEW x \in Request, Answer(x) \/ CallFails(x) PROVE UNCHANGED <<page, reading>>
    BY <1>8 DEF Answer, CallFails
  <1>9. CASE UNCHANGED vars
    BY <1>1, <1>9 DEF vars
  <1> QED BY <1>1, <1>2, <1>3, <1>4, <1>5, <1>6, <1>7, <1>8, <1>9 DEF Next

\* What a reader holds is clean of mutations that were answered before.
LEMMA FoundStep ==
    ASSUME Inv, [Next]_vars
    PROVE  FoundInv'
  <1> SUFFICES ASSUME NEW r \in Reader, NEW w \in before'[r]
               PROVE  /\ pc'[w] = "answered"
                      /\ page'[r] \in Purged =>
                            \A e \in found'[r] \cup answer'[r] : ~Stale(w, e)'
    BY DEF FoundInv
  <1>a. Shape BY DEF Inv
  <1>b. ASSUME NEW v \in Writer, pc[v] = "answered"
        PROVE  Idle(v) /\ pc'[v] = "answered"
    <2>1. v \notin Reader BY CacheAssumption
    <2>2. ~(Write(v) \/ WriteFails(v) \/ Purge(v) \/ ListKeys(v) \/ DeleteListed(v))
      BY <1>b DEF Write, WriteFails, Purge, ListKeys, DeleteListed
    <2>3. ~(Answer(v) \/ CallFails(v)) BY <1>b, <2>1 DEF Answer, CallFails
    <2>4. Idle(v) BY <1>a, <2>2, <2>3, IdleSteps
    <2> QED BY <1>b, <2>4 DEF Idle
  <1>1. CASE Lookup(r)
    <2>1. w \in Writer /\ pc[w] = "answered" /\ page' = page /\ answer'[r] = {}
          /\ found'[r] \subseteq Cached(page[r])
      BY <1>a, <1>1 DEF Lookup, Shape
    <2>2. Idle(w) /\ pc'[w] = "answered" BY <1>b, <2>1
    <2>3. ASSUME page[r] \in Purged, NEW e \in found'[r] PROVE ~Stale(w, e)'
      <3>1. page[r] \in DOMAIN store /\ e = store[page[r]] BY <2>1, <2>3 DEF Cached
      <3>2. Done(w) = Purged BY <2>1 DEF Done
      <3>3. ~Stale(w, store[page[r]])
        BY <2>1, <2>3, <3>1, <3>2 DEF Inv, PurgeInv, PurgeOf, Wrote
      <3> QED BY <2>2, <3>1, <3>3 DEF Stale, Idle
    <2> QED BY <2>1, <2>2, <2>3
  <1>2. CASE ~Lookup(r)
    <2>1. /\ w \in before[r] /\ page' = page
          /\ \A e \in found'[r] \cup answer'[r] : \E d \in found[r] \cup answer[r] :
                  d.version = e.version /\ d.by = e.by
      BY <1>a, <1>2, HeldFrom
    <2>2. w \in Writer /\ pc[w] = "answered"
          /\ (page[r] \in Purged => \A d \in found[r] \cup answer[r] : ~Stale(w, d))
      BY <1>a, <2>1 DEF Inv, FoundInv, Shape
    <2>3. Idle(w) /\ pc'[w] = "answered" BY <1>b, <2>2
    <2>4. ASSUME page[r] \in Purged, NEW e \in found'[r] \cup answer'[r] PROVE ~Stale(w, e)'
      <3>1. PICK d \in found[r] \cup answer[r] : d.version = e.version /\ d.by = e.by BY <2>1
      <3>2. ~Stale(w, d) BY <2>2, <2>4
      <3> QED BY <2>3, <3>1, <3>2 DEF Stale, Idle
    <2> QED BY <2>1, <2>3, <2>4
  <1> QED BY <1>1, <1>2

\* The invariant holds in every state.
THEOREM Invariance == ASSUME SameStore PROVE Spec => []Inv
  <1>1. Init => Inv
    <2> SUFFICES ASSUME Init PROVE Inv OBVIOUS
    <2>1. Shape BY ShapeInit
    <2>2. \A x \in Request : pc[x] = "new" BY DEF Init
    <2>3. \A r \in Reader : r \in Request /\ before[r] = {} BY DEF Init, Request
    <2>4. \A w \in Writer : w \in Request BY DEF Request
    <2>5. PurgeInv /\ RaceInv BY <2>2, <2>4 DEF PurgeInv, PurgeOf, RaceInv, Wrote
    <2>6. FoundInv BY <2>3 DEF FoundInv
    <2> QED BY <2>1, <2>5, <2>6 DEF Inv
  <1>2. Inv /\ [Next]_vars => Inv'
    <2> SUFFICES ASSUME Inv, [Next]_vars PROVE Inv' OBVIOUS
    <2>1. Shape' BY ShapeStep DEF Inv
    <2> QED BY <2>1, PurgeStep, RaceStep, FoundStep DEF Inv
  <1> QED BY <1>1, <1>2, PTL DEF Spec

\* Whatever the adapter, a request that comes after a mutation was answered is
\* answered from an older response only if a racing reader stored that.
THEOREM PurgesSeen == ASSUME SameStore PROVE Spec => []MutationSeen
  <1>1. Inv => MutationSeen
    BY DEF Inv, FoundInv, Stale, MutationSeen
  <1> QED BY <1>1, Invariance, PTL

=============================================================================
