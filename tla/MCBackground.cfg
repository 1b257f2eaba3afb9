SPECIFICATION Spec
CONSTANTS
    app = app
    feature = feature
    reports = reports
    janitor = janitor
    audit = audit
    nightly = nightly
    sweep = sweep
    broken = broken
    odd = odd
    onOrder = onOrder
    onAny = onAny
    first = first
    second = second
    Never = Never
    e1 = e1
    e2 = e2
    Class <- AllClasses
    Parts <- Listed
    Scheduled <- Methods
    Plan <- Plans
    TargetLists <- Lists
    PerMinute = 2
    PerHour = 2
    PerDay = 2
    MonthDays <- Months
    PerWeek = 2
    Horizon = 48
    MaxDelay = 100
    MaxAdjust = 1
    Bus = {first, second}
    Given <- Buses
    Declared <- Listening
    EventName <- Names
    Emission = {e1, e2}
    Runs = {first, second}
    Asked <- Calls
    Hooks <- HookLists
INVARIANTS
    NoOverlap
    BusesApart
    HooksRunOnce
PROPERTIES
    SilentAfterStop
    ArmedForNext
    CronGoesOn
CHECK_DEADLOCK FALSE
