SPECIFICATION Spec
CONSTANTS
    Clients = {k1}
    MinSize = 1
    ConnectingLimit = 0
    InitMode = "kAsync"
    nullptr = nullptr
INVARIANT
    NoNullDereference
CHECK_DEADLOCK FALSE
