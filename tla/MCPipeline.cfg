SPECIFICATION Spec
CONSTANTS
    Declared <- Controllers
    Modules <- Tree
    Parameters <- Colons
    Begins <- ColonPrefixes
    Apps <- Applications
    Requests <- Asked
    Thrown <- Raises
    FilterClasses <- FilterMeta
    OnError = TRUE
INVARIANTS
    GuardedHandler
    ErrorDecides
    NotFoundMeansAbsent
    TruthfulDocument
    ClientReachesRoute
CHECK_DEADLOCK FALSE
