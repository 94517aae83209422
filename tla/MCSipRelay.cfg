SPECIFICATION FairSpec
CONSTANTS
    Realms = {"u", "l", "r"}
    Numbers = {"domain", "camera"}
    Upper <- MCUpper
    Lower <- MCLower
    Relay <- MCRelay
    Strangers <- MCStrangers
    Addressed <- MCAddressed
    MaxNew = 2
    MaxSent = 3
INVARIANTS TypeOK Confined Translated AnswerNamesAsked InOrder
PROPERTY PassedOn
CHECK_DEADLOCK FALSE
