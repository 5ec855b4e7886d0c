SPECIFICATION Spec
CONSTANTS
    HeaderLen = 2
    Framings <- SmallFramings
    MinQuery = 1
    Base = 2
    MaxBytes = 8
    MaxChunk = 3
    MaxDown = 2
    MaxBacklog = 3
INVARIANTS
    QueueIsBounded
    UplinkOnce
    RepliesAreOwn
    PacketsAsSent
PROPERTY SessionSettles
CHECK_DEADLOCK FALSE
