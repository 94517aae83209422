SPECIFICATION Spec
CONSTANTS
    KeepaliveInterval = 2
    ExpiryInterval = 3
    ResponseTime = 1
    IntMax = 1
    LoopMax = 2
    Mode = 0
    Calls = {c1}
    Requests = {"INVITE", "BYE"}
    Threads = {"device", "main"}
    OutCap = 1
    InCap = 1
INVARIANTS TypeOK NoOrphanPlay SilenceBound
PROPERTY RegisterBackoff
