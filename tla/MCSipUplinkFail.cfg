SPECIFICATION Spec
CONSTANTS
    Expiry = 3600
    MsgExpiry = 0
    SeqMax = 3
    Retries = 3
    Challenge = TRUE
    Verdicts = {200, 403, 0}
    MayFail = FALSE
    MayExit = TRUE
    QueueCap = 2
    AskMax = 1
PROPERTY FailureReturned
