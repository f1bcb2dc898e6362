SPECIFICATION FairSpec
CONSTANTS
    Byte = {0, 1}
    PartSize = 2
    MaxParts = 3
    MaxSize = 7
    MaxWrite = 4
INVARIANTS
    PartsFit
    WholeContent
PROPERTIES
    FlatSpec
    WriteReturns
