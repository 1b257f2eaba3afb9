SPECIFICATION FairSpec
CONSTANTS
    Instance = {i1, i2}
    Request = {r1, r2, r3}
    Key = {k1}
    Body = {}
    Url = {u1}
    NoKey = NoKey
    NoHash = NoHash
    None = None
    SharedStore = SharedStore
    Idempotent = TRUE
    SingleFlight = FALSE
    HashCheck = FALSE
    RemoteStore = TRUE
    Bulkhead = FALSE
    MaxConcurrent = 1
    MaxCrashes = 1
    MaxExpiries = 0
INVARIANTS
    AcknowledgedIsStored
PROPERTIES
    EveryRequestAnswered
\* Every request that will be sent has been answered: nothing is left to do.
CHECK_DEADLOCK FALSE
