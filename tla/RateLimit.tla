----------------------------- MODULE RateLimit ------------------------------
(***************************************************************************)
(* @RateLimit: the fixed-window limiters of core/rate-limit.ts, one in the *)
(* memory of a process, one in Redis shared by all.                        *)
(*                                                                         *)
(* In memory a request is counted and judged in one step.  With Redis the  *)
(* limiter awaits INCR, for the first request of a window PEXPIRE, and     *)
(* PTTL; other requests run between them, a command may fail, and the      *)
(* process may crash.  Time is the time left to each entry and key.        *)
(***************************************************************************)
EXTENDS Naturals, FiniteSets, Sequences

CONSTANTS
    Route,       \* routes with @RateLimit
    HandlerName, \* [Route -> the name of its method], the default key prefix
    Identity,    \* what keyGenerator or the client's address tells apart
    Visitor,     \* requests under way at one time; an identity each
    Max,         \* max
    Window,      \* windowMs, in ticks
    Capacity     \* entries above which the expired are removed, 1000

ASSUME LimitAssumption == Max \in Nat \ {0} /\ Window \in Nat \ {0} /\ Capacity \in Nat

VARIABLES
    hits,       \* memory: [Route -> [some identities -> [count, left]]]
    store,      \* Redis: [some keys -> [count, left]]
    visit,      \* each visitor's request at the Redis limiter
    recent,     \* history: the ages, below Window, of what was let through
    orphans     \* history: the keys whose PEXPIRE was never made

limitVars == <<hits, store, visit, recent, orphans>>

NoExpiry == Window + 1
Saturated(count) == IF count > Max THEN count ELSE count + 1
Key == {HandlerName[r] : r \in Route} \X Identity
KeyOf(route, id) == <<HandlerName[route], id>>

Idle == [at |-> "idle", key |-> <<>>, count |-> 0]

LimitInit ==
    /\ hits = [r \in Route |-> <<>>]
    /\ store = <<>>
    /\ visit = [v \in Visitor |-> Idle]
    /\ recent = [k \in (Route \X Identity) \union Key |-> <<>>]
    /\ orphans = {}

With(f, key, value) == [k \in DOMAIN f \union {key} |-> IF k = key THEN value ELSE f[k]]
Without(f, removed) == [k \in DOMAIN f \ removed |-> f[k]]
LetThrough(k) == recent' = [recent EXCEPT ![k] = Append(@, 0)]

-----------------------------------------------------------------------------
(* In memory. *)

\* Mutant: the clean-up removes an entry that still counts.
CleanedAll(entries) == IF Cardinality(DOMAIN entries) > Capacity THEN <<>> ELSE entries

\* Opportunistic clean-up.
Cleaned(entries) ==
    IF Cardinality(DOMAIN entries) > Capacity
      THEN Without(entries, {id \in DOMAIN entries : entries[id].left = 0}) ELSE entries

\* The entry a request finds, or a new one.
Found(entries, id) ==
    IF id \in DOMAIN entries /\ entries[id].left > 0 THEN entries[id] ELSE [count |-> 0, left |-> Window]

Hit(route, id) ==
    LET entry == [Found(hits[route], id) EXCEPT !.count = Saturated(@)]
        entries == With(hits[route], id, entry)
    IN  /\ IF entry.count > Max
             THEN hits' = [hits EXCEPT ![route] = entries] /\ UNCHANGED recent
             ELSE hits' = [hits EXCEPT ![route] = Cleaned(entries)] /\ LetThrough(<<route, id>>)
        /\ UNCHANGED <<store, visit, orphans>>

-----------------------------------------------------------------------------
(* In Redis. *)

\* Mutant: the first of a window is taken for a later one.
IncrFromZero(v, route, id) ==
    LET key == KeyOf(route, id)
        old == IF key \in DOMAIN store THEN store[key] ELSE [count |-> 0, left |-> NoExpiry]
        new == [old EXCEPT !.count = Saturated(@)]
    IN  /\ visit[v].at = "idle"
        /\ store' = With(store, key, new)
        /\ visit' = [visit EXCEPT ![v] = [at |-> "expiring", key |-> key, count |-> new.count]]
        /\ IF new.count > Max THEN UNCHANGED recent ELSE LetThrough(key)
        /\ UNCHANGED <<hits, orphans>>

\* INCR: the reply is the count.
Incr(v, route, id) ==
    LET key == KeyOf(route, id)
        old == IF key \in DOMAIN store THEN store[key] ELSE [count |-> 0, left |-> NoExpiry]
        new == [old EXCEPT !.count = Saturated(@)]
    IN  /\ visit[v].at = "idle"
        /\ store' = With(store, key, new)
        /\ visit' = [visit EXCEPT ![v] = [at |-> IF new.count = 1 THEN "counted" ELSE "expiring",
                                          key |-> key, count |-> new.count]]
        /\ IF new.count > Max THEN UNCHANGED recent ELSE LetThrough(key)
        /\ UNCHANGED <<hits, orphans>>

\* PEXPIRE, for the first of a window.
Pexpire(v) ==
    /\ visit[v].at = "counted"
    /\ visit' = [visit EXCEPT ![v].at = "expiring"]
    /\ store' = IF visit[v].key \in DOMAIN store THEN [store EXCEPT ![visit[v].key].left = Window] ELSE store
    /\ UNCHANGED <<hits, recent, orphans>>

\* PTTL, and the request is let through or answered 429.
Pttl(v) ==
    /\ visit[v].at = "expiring"
    /\ visit' = [visit EXCEPT ![v] = Idle]
    /\ UNCHANGED <<hits, store, recent, orphans>>

\* A command fails, or the process crashes: the request ends there.
Lost(v) ==
    /\ visit[v].at # "idle"
    /\ visit' = [visit EXCEPT ![v] = Idle]
    /\ orphans' = IF visit[v].at = "counted" THEN orphans \union {visit[v].key} ELSE orphans
    /\ UNCHANGED <<hits, store, recent>>

-----------------------------------------------------------------------------
\* A tick later, without what is a window old: the oldest come first.
Aged(ages) ==
    LET older == [i \in DOMAIN ages |-> ages[i] + 1]
        past == Cardinality({i \in DOMAIN ages : older[i] >= Window})
    IN  SubSeq(older, past + 1, Len(ages))

\* The clock: entries stay when they expire, keys go.
LimitTick ==
    /\ hits' = [r \in Route |-> [id \in DOMAIN hits[r] |->
                    [hits[r][id] EXCEPT !.left = IF @ = 0 THEN 0 ELSE @ - 1]]]
    /\ store' = [k \in {key \in DOMAIN store : store[key].left # 1} |->
                    [store[k] EXCEPT !.left = IF @ = NoExpiry THEN @ ELSE @ - 1]]
    /\ recent' = [k \in DOMAIN recent |-> Aged(recent[k])]
    /\ UNCHANGED <<visit, orphans>>

MemoryNext == (\E r \in Route, id \in Identity : Hit(r, id)) \/ LimitTick

RedisNext ==
    \/ \E v \in Visitor, r \in Route, id \in Identity : Incr(v, r, id)
    \/ \E v \in Visitor : Pexpire(v) \/ Pttl(v) \/ Lost(v)
    \/ LimitTick

\* An application has one limiter: the one in memory, or the one of the
\* configured rateLimiterFactory.
LimitSpec == LimitInit /\ ([][MemoryNext]_limitVars \/ [][RedisNext]_limitVars)

-----------------------------------------------------------------------------
\* The requests counted and let through in any interval shorter than a window
\* are at most those of two windows, for each route in memory and each key in Redis, though
\* entries are renewed, removed to bound the memory, expire and are shared by
\* processes that crash.
AtMostTwoWindows == \A k \in DOMAIN recent : Len(recent[k]) <= 2 * Max

\* A counter without expiry belongs to a request that is about to set it, or
\* to one that was lost in between: of those that come later none mends it.
StuckMeansLost ==
    \A k \in DOMAIN store : store[k].left = NoExpiry =>
        k \in orphans \/ \E v \in Visitor : visit[v].at = "counted" /\ visit[v].key = k

\* "the tiny race between the two commands only affects a window's first
\* request" (rate-limit.ts): with nobody in the race every counter expires.
CountersExpire ==
    (\A v \in Visitor : visit[v].at # "counted") => \A k \in DOMAIN store : store[k].left # NoExpiry

=============================================================================
