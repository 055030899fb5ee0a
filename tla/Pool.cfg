SPECIFICATION FairSpec
CONSTANTS
    Clients = {k1, k2}
    MinSize = 3
    ConnectingLimit = 2
    InitMode = "kAsync"
    nullptr = nullptr
INVARIANTS
    TypeOK
    OneOwner
    PermitAccounting
    DanglingOnlyIfBroken
    DestroyedIsClean
PROPERTIES
    MaintainEnds
    BrokenConnectionLeaves
    DestructorReturns
CHECK_DEADLOCK FALSE
