SPECIFICATION FairSpec
CONSTANTS
    ItemsCount = 3
    BatchSize = 2
    MaxSelection = 5
    NoFolder = NoFolder
INVARIANTS
    ExtractsInOrder
    ExtractsAll
    PartsAsAnnounced
    StreamsServed
PROPERTIES
    Returns
CHECK_DEADLOCK FALSE
