SPECIFICATION FairSpec
CONSTANTS
    Callers = {1, 2, 3}
    Streams = {1, 2}
    NoStream = NoStream
    NoFrame = NoFrame
    MaxCalls = 3
INVARIANTS
    TypeOK
    StreamsPartitioned
    ReplyIsOwn
    PushNeverStalls
    IdleIsQuiet
PROPERTIES
    KeepsPromise
    EveryCallReturns
    DeadReceiverIsNoticed
ACTION_CONSTRAINTS
    FirstCallsInOrder
    FirstStreamFirst
CHECK_DEADLOCK FALSE
