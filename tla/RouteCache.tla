----------------------------- MODULE RouteCache ------------------------------
(***************************************************************************)
(* @Cache on reading routes and @CacheInvalidate on a mutating one         *)
(* (httpHandler in core/route-builder.ts), over the three adapters of      *)
(* core/cache.ts.                                                          *)
(*                                                                         *)
(* What the handlers read and write is one datum, seen as the number of    *)
(* mutations it went through.  A page is a cache key, that is a route with *)
(* its path and query.  A call to a remote store is split where it takes   *)
(* effect; the in-memory store answers at once, but its caller awaits it.  *)
(***************************************************************************)
EXTENDS Naturals, Sequences, FiniteSets, Functions

CONSTANTS
    Reader, Writer,  \* requests to reading routes and to the mutating one
    Page,
    Patterns,        \* for each pattern, the pages whose key starts with it
    Adapters,        \* the adapters considered
    SameStore,       \* the mutating route uses the adapter of the reading ones
    Ttl, MaxEntries  \* ttl in ticks, maxEntries of the in-memory adapter

ASSUME CacheAssumption ==
    /\ Reader \cap Writer = {}
    /\ Patterns \in Seq(SUBSET Page) /\ SameStore \in BOOLEAN
    /\ Adapters \subseteq {"memory", "redis", "postgres"}
    /\ Ttl \in Nat \ {0} /\ MaxEntries \in Nat

VARIABLES
    adapter,
    store,    \* the adapter's map from pages to entries
    data,     \* mutations made
    pc,       \* where each request stands
    page,     \* the page a reader asks for
    found,    \* what adapter.get returned: a set of at most one entry
    read,     \* the datum as the reader's handler saw it
    answer,   \* the entry a reader was answered from
    index,    \* the pattern a writer is purging
    listed,   \* what its KEYS returned
    written,  \* history: the datum after the writer's mutation
    racing,   \* history: readers that had read the datum before it and not stored yet
    before    \* history: writers that were answered before the reader's lookup

reading == <<found, read, answer, before>>
writing == <<index, listed, written, racing>>
vars == <<adapter, store, data, pc, page, reading, writing>>

Request == Reader \cup Writer
Entry == [version : Nat, left : 0..Ttl, by : Reader]
Purged == UNION Range(Patterns)

Init ==
    /\ adapter \in Adapters
    /\ store = <<>>
    /\ data = 0
    /\ pc = [x \in Request |-> "new"]
    /\ page \in [Reader -> Page]
    /\ found = [r \in Reader |-> {}] /\ read = [r \in Reader |-> 0]
    /\ answer = [r \in Reader |-> {}]
    /\ index = [w \in Writer |-> 1] /\ listed = [w \in Writer |-> {}]
    /\ written = [w \in Writer |-> 0] /\ racing = [w \in Writer |-> {}]
    /\ before = [r \in Reader |-> {}]

Goto(x, where) == pc' = [pc EXCEPT ![x] = where]

-----------------------------------------------------------------------------
(* The store. *)

Cached(p) == IF p \in DOMAIN store THEN {store[p]} ELSE {}

Expired(e) == e.left = 0

Without(pages) == Restrict(store, DOMAIN store \ pages)

\* adapter.set: past maxEntries, the in-memory adapter drops what has expired.
Stored(p, e) ==
    LET full == [q \in DOMAIN store \cup {p} |-> IF q = p THEN e ELSE store[q]]
    IN IF adapter = "memory" /\ Cardinality(DOMAIN full) > MaxEntries
         THEN Restrict(full, {q \in DOMAIN full : ~Expired(full[q])})
         ELSE full

-----------------------------------------------------------------------------
(* A reading request. *)

\* adapter.get at the store.  The in-memory adapter drops an expired entry; the
\* Postgres row is checked by the client.
Lookup(r) ==
    LET hits == Cached(page[r])
        live == {e \in hits : ~Expired(e)}
    IN /\ pc[r] = "new"
       /\ found' = [found EXCEPT ![r] = IF adapter = "postgres" THEN hits ELSE live]
       /\ store' = IF adapter = "memory" /\ live # hits THEN Without({page[r]}) ELSE store
       /\ before' = [before EXCEPT ![r] = {w \in Writer : pc[w] = "answered"}]
       /\ Goto(r, "found")
       /\ UNCHANGED <<adapter, data, page, read, answer, writing>>

\* Postgres: the row that was selected has expired by now.
Outdated(r) == adapter = "postgres" /\ \E e \in found[r] : Expired(e)

\* A hit is the answer.
Hit(r) ==
    /\ pc[r] = "found" /\ found[r] # {} /\ ~Outdated(r)
    /\ answer' = [answer EXCEPT ![r] = found[r]]
    /\ Goto(r, "answered")
    /\ UNCHANGED <<adapter, store, data, page, found, read, before, writing>>

\* Postgres: DELETE by key takes effect.
Evict(r) ==
    /\ pc[r] = "found" /\ Outdated(r)
    /\ store' = Without({page[r]})
    /\ found' = [found EXCEPT ![r] = {}]
    /\ UNCHANGED <<adapter, data, pc, page, read, answer, before, writing>>

\* A miss: the handler runs and reads the datum.
Read(r) ==
    /\ pc[r] = "found" /\ found[r] = {}
    /\ read' = [read EXCEPT ![r] = data]
    /\ Goto(r, "read")
    /\ UNCHANGED <<adapter, store, data, page, found, answer, before, writing>>

\* The handler returns a value to be cached; a Response, nothing or @HttpCode with
\* ignoreBody, which are not; or it throws.
Return(r) ==
    /\ pc[r] = "read"
    /\ \E next \in {"storing", "answered", "failed"} : Goto(r, next)
    /\ UNCHANGED <<adapter, store, data, page, reading, writing>>

\* adapter.set takes effect.
StoreResult(r) ==
    /\ pc[r] = "storing"
    /\ store' = Stored(page[r], [version |-> read[r], left |-> Ttl, by |-> r])
    /\ Goto(r, "stored")
    /\ UNCHANGED <<adapter, data, page, reading, writing>>

-----------------------------------------------------------------------------
(* The mutating request. *)

\* The handler succeeds.
Write(w) ==
    /\ pc[w] = "new"
    /\ data' = data + 1
    /\ written' = [written EXCEPT ![w] = data + 1]
    /\ racing' = [racing EXCEPT ![w] = {r \in Reader : pc[r] \in {"read", "storing"}}]
    /\ Goto(w, IF Patterns = <<>> THEN "purged" ELSE "purging")
    /\ UNCHANGED <<adapter, store, page, reading, index, listed>>

\* It throws, or @Serialize refuses its result, when the datum was changed or not:
\* nothing is purged.
WriteFails(w) ==
    /\ pc[w] = "new"
    /\ data' \in {data, data + 1}
    /\ Goto(w, "failed")
    /\ UNCHANGED <<adapter, store, page, reading, writing>>

\* The loop over the patterns, each awaited.
NextPattern(w) ==
    /\ index' = [index EXCEPT ![w] = @ + 1]
    /\ Goto(w, IF index[w] < Len(Patterns) THEN "purging" ELSE "purged")

Matched(w) == IF SameStore THEN Patterns[index[w]] \cap DOMAIN store ELSE {}

\* deletePattern of the in-memory and the Postgres adapter is one step.
Purge(w) ==
    /\ pc[w] = "purging" /\ adapter # "redis"
    /\ store' = Without(Matched(w))
    /\ NextPattern(w)
    /\ UNCHANGED <<adapter, data, page, reading, listed, written, racing>>

\* That of the Redis adapter is KEYS, and DEL of what it returned.
ListKeys(w) ==
    /\ pc[w] = "purging" /\ adapter = "redis"
    /\ listed' = [listed EXCEPT ![w] = Matched(w)]
    /\ IF Matched(w) = {} THEN NextPattern(w) ELSE Goto(w, "listed") /\ UNCHANGED index
    /\ UNCHANGED <<adapter, store, data, page, reading, written, racing>>

DeleteListed(w) ==
    /\ pc[w] = "listed"
    /\ store' = Without(listed[w])
    /\ NextPattern(w)
    /\ UNCHANGED <<adapter, data, page, reading, listed, written, racing>>

-----------------------------------------------------------------------------
(* Either. *)

\* Mutant: the purge is not awaited.
AnswerEarly(x) ==
    /\ pc[x] \in {"stored", "purging", "purged"}
    /\ Goto(x, "answered")
    /\ UNCHANGED <<adapter, store, data, page, reading, writing>>

\* The last store call was acknowledged.
Answer(x) ==
    /\ pc[x] \in {"stored", "purged"}
    /\ Goto(x, "answered")
    /\ UNCHANGED <<adapter, store, data, page, reading, writing>>

\* A call to a remote store rejects, with or without its effect: the answer is an
\* error.
CallFails(x) ==
    /\ adapter # "memory"
    /\ \/ pc[x] \in {"storing", "stored", "purging", "listed", "purged"}
       \/ x \in Reader /\ pc[x] \in {"new", "found"}
    /\ Goto(x, "failed")
    /\ UNCHANGED <<adapter, store, data, page, reading, writing>>

Older(e) == [e EXCEPT !.left = IF @ = 0 THEN 0 ELSE @ - 1]

\* Time passes; Redis drops what has expired.
Tick ==
    LET older == [p \in DOMAIN store |-> Older(store[p])]
    IN /\ store' = IF adapter = "redis"
                     THEN Restrict(older, {p \in DOMAIN older : ~Expired(older[p])})
                     ELSE older
       /\ found' = [r \in Reader |-> {Older(e) : e \in found[r]}]
       /\ UNCHANGED <<adapter, data, pc, page, read, answer, before, writing>>

Next ==
    \/ \E r \in Reader : Lookup(r) \/ Hit(r) \/ Evict(r) \/ Read(r) \/ Return(r) \/ StoreResult(r)
    \/ \E w \in Writer : \/ Write(w) \/ WriteFails(w)
                         \/ Purge(w) \/ ListKeys(w) \/ DeleteListed(w)
    \/ \E x \in Request : Answer(x) \/ CallFails(x)
    \/ Tick

Spec == Init /\ [][Next]_vars

-----------------------------------------------------------------------------
(* Properties. *)

Where == {"new", "found", "read", "storing", "stored", "purging", "listed", "purged",
          "answered", "failed"}

\* Types of the variables; a lookup returns at most one entry.
TypeOK ==
    /\ adapter \in Adapters
    /\ DOMAIN store \subseteq Page /\ \A p \in DOMAIN store : store[p] \in Entry
    /\ data \in Nat
    /\ pc \in [Request -> Where] /\ page \in [Reader -> Page]
    /\ found \in [Reader -> SUBSET Entry] /\ answer \in [Reader -> SUBSET Entry]
    /\ \A r \in Reader : Cardinality(found[r]) <= 1
    /\ read \in [Reader -> Nat] /\ written \in [Writer -> Nat]
    /\ index \in [Writer -> 1..Len(Patterns) + 1]
    /\ listed \in [Writer -> SUBSET Page] /\ racing \in [Writer -> SUBSET Reader]
    /\ before \in [Reader -> SUBSET Writer]

\* A request that comes after a mutation was answered, under a key that a pattern
\* matches, is answered from a response that precedes the mutation only if that was
\* stored by a reader that had read the datum before the mutation and had not stored
\* it yet: nothing else survives the purge.
MutationSeen ==
    \A r \in Reader : page[r] \in Purged =>
        \A w \in before[r], e \in answer[r] : e.version < written[w] => e.by \in racing[w]

\* The in-memory adapter holds more than maxEntries only of entries that are live
\* when one is added.
PrunedPastMax == [][
    adapter = "memory" /\ DOMAIN store' \ DOMAIN store # {} =>
        Cardinality(DOMAIN store') <= MaxEntries \/ \A p \in DOMAIN store' : ~Expired(store'[p])
    ]_vars

-----------------------------------------------------------------------------
(* What the documentation says and the code does not do. *)

\* "Invalidate cache entries after this handler succeeds" (interceptor.ts:27):
\* a reader that overlaps the mutation stores the old value after the purge.
NoStaleAfterPurge ==
    \A w \in Writer, p \in Purged \cap DOMAIN store :
        pc[w] = "answered" => store[p].version >= written[w]

\* "rows are also evicted lazily on read" when they have expired (cache.ts:231):
\* the DELETE of the Postgres adapter is by key, and takes a row that another
\* request has stored since.
OnlyExpiredEvicted == [][\A r \in Reader : Evict(r) => \A e \in Cached(page[r]) : Expired(e)]_vars

=============================================================================
