SPECIFICATION FairSpec
CONSTANTS
    Threads = {t1, t2}
    NoThread = NoThread
    Dirs = {d1, d2}
    Files = {f}
    Streams = {s}
    MaxDirFiles = 2
    MaxItems = 3
INVARIANTS
    AbortedHoldsNothing
PROPERTIES
    ArchiveComplete
    NeverClosedUnderWriter
    AbortIsFinal
    CallsReturn
