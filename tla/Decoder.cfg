SPECIFICATION FairSpec
CONSTANTS
    Threads = {t1, t2}
    NoThread = NoThread
    ItemsCount = 2
    MaxAborts = 2
INVARIANTS
    TypeOK
    OneOpener
    OneExtraction
    ReadersHaveStream
    AbortReachesAll
    CountAfterAbort
    OutClosedOnReturn
PROPERTIES
    OperationReturns
    AbortedStreamCloses
