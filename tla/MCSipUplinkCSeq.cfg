SPECIFICATION Spec
CONSTANTS
    Expiry = 3600
    MsgExpiry = 0
    SeqMax = 20
    Retries = 3
    Challenge = TRUE
    Verdicts = {200}
    MayFail = FALSE
    MayExit = TRUE
    QueueCap = 2
    AskMax = 1
INVARIANT CSeqCountsUp
