SPECIFICATION Spec
CONSTANTS
    Callers = {c1, c2}
    Streams = {s1}
    NoStream = NoStream
    NoFrame = NoFrame
    MaxCalls = 2
INVARIANT
    HealthyReplyIsOwn
CHECK_DEADLOCK FALSE
