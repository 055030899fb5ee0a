SPECIFICATION FairSpec
CONSTANTS
    NumAddresses = 3
INVARIANTS
    TypeOK
    CompressionAgreed
    EstablishedMeansReady
    HandshakeLeavesNothing
    EveryAddressIsTried
PROPERTY
    ConnectEnds
CHECK_DEADLOCK FALSE
