SPECIFICATION FairSpec
CONSTANTS
    Users = {u1, u2}
    Worker = w
    NoThread = NoThread
    MaxReports = 1
    MaxOperations = 2
    MaxCalls = 3
INVARIANTS
    RacesConfined
    CountsExact
    DecoderOutlivesUsers
    SilentAfterAbort
PROPERTIES
    CallsReturn
CHECK_DEADLOCK FALSE
