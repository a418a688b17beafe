CONSTANTS
    Version = {v2, v3}
    Installed = v2
    Offered = {v3}
    Target = v3
    NoVersion = NoVersion
    Slot = {r1, r2}
    MaxCommands = 1
    MaxTries = 1
CHECK_DEADLOCK FALSE
SPECIFICATION FairSpec
INVARIANT TypeOK
INVARIANT CompletedMeansBegun
PROPERTY DeploymentReported
PROPERTY CompletedIsReported
