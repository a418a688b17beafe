CONSTANTS
    Trigger = {t1, t2}
    Bare = {t2}
    Copy = {1, 2}
    NoCommand = NoCommand
    Fault = {"connection", "agent", "server", "query", "command"}
    MaxVersions = 2
    MaxFailures = 1
SPECIFICATION FairSpec
INVARIANT TypeOK
INVARIANT ClearedMeansApplied
PROPERTY PendingDelivered
