SPECIFICATION Spec
CONSTANTS
    service = service
    helper = helper
    db = db
    key = key
    session = session
    user = user
    None = None
    Tokens <- AllTokens
    Scope <- Scopes
    Name <- Distinct
    Inject <- Injected
    Touches <- Touched
    Bodies <- Made
    Startup <- AtStartup
    Bare = {key}
    Plain <- Undecorated
    Hooked = {session, user}
    Contexts = {c1}
    MaxMade = 4
    MaxDepth = 2
    MaxChanges = 1
    Changed = {key, db}
    Roots = {service, session}
    Failing = {key}
INVARIANTS
    OneSingleton
    DependenciesFirst
    NoCaptive
PROPERTIES
    CircularMeansCycle
    LackIsTold
    ScopeLeavesNothing
CHECK_DEADLOCK FALSE
