SPECIFICATION FairSpec
CONSTANTS
    Request = {r1, r2, r3}
    Signal = {s1, s2}
    db = db
    orders = orders
    mailer = mailer
    Singleton <- Singletons
    Boot <- BootOrder
    TimeoutMs = 2
    DrainMounted = TRUE
INVARIANTS
    NoRequestWhileDestroying
    CleanExitComplete
    LastRequestNoticed
PROPERTIES
    Exits
\* The process has exited.
CHECK_DEADLOCK FALSE
