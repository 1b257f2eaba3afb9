SPECIFICATION PartsSpec
CONSTANTS
    c1 = c1
    c2 = c2
    c3 = c3
    list = list
    listed = listed
    alice = alice
    bob = bob
    v1 = v1
    v2 = v2
    a1 = a1
    a2 = a2
    a3 = a3
    a4 = a4
    h1 = h1
    h2 = h2
    h3 = h3
    req1 = req1
    req2 = req2
    one = one
    two = two
    x = x
    y = y
    None = None
    Call = {c1, c2, c3}
    FailureThreshold = 2
    ResetAfter = 2
    Attempts = 2
    Route = {list, listed}
    HandlerName <- MethodNames
    Identity = {alice, bob}
    Visitor = {v1, v2}
    Max = 2
    Window = 2
    Capacity = 1
    Asking = {a1, a2, a3, a4}
    Hook = {h1, h2, h3}
    InRequest <- Requests
    Argument <- Arguments
    Service <- Instance
    Scope = "request"
    Ttl = 2
    Pause = 2
INVARIANTS
    ProbeAlive
    AtMostTwoWindows
    StuckMeansLost
    MemoIsolated
PROPERTIES
    WindowRespected
    EveryCallEnds
CHECK_DEADLOCK FALSE
