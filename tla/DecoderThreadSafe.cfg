SPECIFICATION Spec
CONSTANTS
    Threads = {t1, t2}
    NoThread = NoThread
    ItemsCount = 2
    MaxAborts = 2
PROPERTIES
    NeverClosedUnderReader
