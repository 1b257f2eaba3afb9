SPECIFICATION Spec
CONSTANTS
    Instance = {i1}
    Request = {r1, r2, r3, r4}
    Key = {k1}
    Body = {b1}
    Url = {u1}
    NoKey = NoKey
    NoHash = NoHash
    None = None
    SharedStore = SharedStore
    Idempotent = FALSE
    SingleFlight = FALSE
    HashCheck = TRUE
    RemoteStore = FALSE
    Bulkhead = TRUE
    MaxConcurrent = 1
    MaxCrashes = 0
    MaxExpiries = 0
INVARIANTS
    ConcurrencyCap
SYMMETRY Symmetric
\* Every request that will be sent has been answered: nothing is left to do.
CHECK_DEADLOCK FALSE
