CONSTANTS
    Socket = {s1, s2}
    NoSocket = NoSocket
    Drain = {d1}
    Command = {1}
    Realtime = {}
    MaxAttempts = 2
    MaxTracked = 0
    MaxFailures = 0
CHECK_DEADLOCK FALSE
SPECIFICATION FairSpec
PROPERTY TrackingEnds
PROPERTY QueueDrained
PROPERTY SuccessStaysCompleted
INVARIANT AttemptsBounded
