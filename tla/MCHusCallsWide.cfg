SPECIFICATION Spec
CONSTANTS
    Clients = {a, b}
    MaxReq = 2
    CallIds = {6, 7}
    IntMax = 5
    OutCap = 2
    InCap = 2
INVARIANT MatchesSocket
CHECK_DEADLOCK FALSE
