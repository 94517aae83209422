SPECIFICATION FairSpec
CONSTANTS
    up = up
    low = low
    x = x
    Mode = 2
    Upper = up
    Lower = low
    Others = {x}
    NeedAuth = {up}
    Unregistering = {low}
    NetCap = 1
    ReplyCap = 2
INVARIANT TypeOK
INVARIANT BeliefMatches
INVARIANT NoUncheckedAccess
PROPERTY AnsweredUnlessLeft
PROPERTY LowerRegisters
CHECK_DEADLOCK FALSE
