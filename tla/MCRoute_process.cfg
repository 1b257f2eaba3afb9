SPECIFICATION Spec
CONSTANTS
    Instance = {i1}
    Request = {r1, r2, r3}
    Key = {k1}
    Body = {b1, b2}
    Url = {u1}
    NoKey = NoKey
    NoHash = NoHash
    None = None
    SharedStore = SharedStore
    Idempotent = TRUE
    SingleFlight = FALSE
    HashCheck = TRUE
    RemoteStore = FALSE
    Bulkhead = TRUE
    MaxConcurrent = 1
    MaxCrashes = 1
    MaxExpiries = 1
INVARIANTS
    AnswerMatchesRequest
    NoSlotLeak
PROPERTIES
    ImplementsSharedExecution
\* Every request that will be sent has been answered: nothing is left to do.
CHECK_DEADLOCK FALSE
