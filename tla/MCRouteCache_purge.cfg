SPECIFICATION Spec
CONSTANTS
    list = list
    item = item
    Reader = {r1, r2, r3}
    Writer = {w1}
    Page <- Pages
    Patterns <- ListThenItem
    Adapters = {"memory", "redis", "postgres"}
    SameStore = TRUE
    Ttl = 1
    MaxEntries = 1
INVARIANTS
    MutationSeen
SYMMETRY Symmetric
\* Every request is over and the entries have expired.
CHECK_DEADLOCK FALSE
