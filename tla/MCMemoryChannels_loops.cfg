SPECIFICATION FairSpec
CONSTANTS
    Client = {c1, c2}
    Channel = {ch1}
    Publish = {p1, p2}
    Corrupt = {p2}
    SetObject = {s1, s2, s3}
    Shutdown = TRUE
    None = None
INVARIANTS
    NothingOverStays
    PublishReachesStable
PROPERTIES
    LoopsReturn
\* Every client has left and every call has returned.
CHECK_DEADLOCK FALSE
