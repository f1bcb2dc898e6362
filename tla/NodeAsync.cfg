SPECIFICATION FairSpec
CONSTANTS
    Destinations = {d}
    Items = {i}
    NoPath = NoPath
    MaxOperations = 3
    MaxReports = 2
    MaxDelegates = 3
INVARIANTS
    OneOperation
    ScriptOnLoop
    NothingMissed
PROPERTIES
    SettledOnce
    PromisesSettle
CHECK_DEADLOCK FALSE
