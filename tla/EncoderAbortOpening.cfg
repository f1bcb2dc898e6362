SPECIFICATION Spec
CONSTANTS
    Threads = {t1, t2}
    NoThread = NoThread
    Dirs = {d1}
    Files = {f}
    Streams = {s}
    MaxDirFiles = 1
    MaxItems = 3
PROPERTIES
    AbortStopsOpening
