SPECIFICATION Spec
CONSTANTS
    Clients = {k1, k2}
    MinSize = 1
    ConnectingLimit = 0
    InitMode = "kAsync"
    nullptr = nullptr
INVARIANT
    NoCloseWithActiveStreams
CHECK_DEADLOCK FALSE
