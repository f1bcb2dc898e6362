SPECIFICATION Spec
CONSTANTS
    Users = {u1, u2}
    Worker = worker
    Delegates = {d1, d2}
    NoDelegate = NoDelegate
    Paths = {p1}
    NoPath = NoPath
    NoReport = NoReport
    Scale = 16384
    Spacings = {1, 2, 4, 8, 16, 32}
    Accuracy = 1024
    Counts = {1, 6, 9}
    Totals = {0, 2}
    Amounts = {0, 1, 3}
    MaxExtractions = 2
    MaxCompressions = 3
INVARIANTS
    NoNewsLost
    EndsAtOne
    RangeUntilRetried
PROPERTIES
    NeverFalls
SYMMETRY Alike
