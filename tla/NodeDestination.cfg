SPECIFICATION Spec
CONSTANTS
    Destinations = {d}
    Items = {i1}
    NoPath = NoPath
    MaxOperations = 2
    MaxReports = 1
    MaxDelegates = 1
INVARIANTS
    DestinationKept
CHECK_DEADLOCK FALSE
