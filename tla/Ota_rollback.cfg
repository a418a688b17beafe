CONSTANTS
    v1 = v1
    v2 = v2
    v3 = v3
    v4 = v4
    Version = {v1, v2, v3, v4}
    Previous = v1
    Installed = v2
    Offered = {v3, v4}
    Crashing = {v4}
    Archive <- MCArchive
    Request <- MCRequest
    Broken = Broken
    Absent = Absent
    CrashThreshold = 2
    MaxUpdates = 2
    MaxFaults = 1
CHECK_DEADLOCK FALSE
SPECIFICATION OtaSpec
INVARIANT FailedUpdateUndone
