SPECIFICATION FairSpec
CONSTANTS
    Period = 3
    KeepaliveInterval = 6
    Expires = 10
    MayRefuse = TRUE
INVARIANT TypeOK
INVARIANT KeepaliveGap
INVARIANT KeepaliveAfterAccept
PROPERTY GetsRegistered
CHECK_DEADLOCK FALSE
