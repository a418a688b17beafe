CONSTANTS
    Socket = {s1}
    NoSocket = NoSocket
    Drain = {d1}
    Command = {1, 2}
    Realtime = {1}
    MaxAttempts = 1
    MaxTracked = 2
    MaxFailures = 1
CHECK_DEADLOCK FALSE
SPECIFICATION Spec
PROPERTY RowLeavesAfterSend
PROPERTY ExecutedOnce
INVARIANT TypeOK
INVARIANT RealtimeSentAtOnce
