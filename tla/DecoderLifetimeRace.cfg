SPECIFICATION Spec
CONSTANTS
    Users = {u1}
    Worker = w
    NoThread = NoThread
    MaxReports = 1
    MaxOperations = 1
    MaxCalls = 1
INVARIANTS
    CallbackOutlivesCall
CHECK_DEADLOCK FALSE
