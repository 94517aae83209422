SPECIFICATION FairSpec
CONSTANTS
    Period = 3
    KeepaliveInterval = 6
    Expires = 10
    MayRefuse = FALSE
PROPERTY BindingRenewed
