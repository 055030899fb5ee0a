SPECIFICATION FairSpec
CONSTANTS
    Clients = {k1}
    MinSize = 2
    ConnectingLimit = 0
    InitMode = "kAsync"
    nullptr = nullptr
PROPERTY
    ReturnsToMinSize
CHECK_DEADLOCK FALSE
