SPECIFICATION FairSpec
CONSTANTS
    Clients = {a, b}
    MaxReq = 2
    CallIds = {1, 6}
    IntMax = 5
    OutCap = 1
    InCap = 1
INVARIANTS TypeOK ReplyToAsker SingleReply
PROPERTIES LostOnlyInWindow AnswerDelivered DeskSpec
CHECK_DEADLOCK FALSE
