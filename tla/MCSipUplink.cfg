SPECIFICATION FairSpec
CONSTANTS
    Expiry = 3600
    MsgExpiry = 0
    SeqMax = 2
    Retries = 3
    Challenge = TRUE
    Verdicts = {200, 401, 403, 0}
    MayFail = TRUE
    MayExit = TRUE
    QueueCap = 2
    AskMax = 1
INVARIANT TypeOK
INVARIANT StrayIdle
PROPERTY NotMislaid
PROPERTY ComesToAnEnd
CHECK_DEADLOCK FALSE
