CONSTANTS
    Site = {p1}
    IsGroup = TRUE
    Slot = {j1, j2}
    NoSlot = NoSlot
    Run = {r1}
    MaxVariants = 0
    MaxFailures = 1
SPECIFICATION FairSpec
PROPERTY DeploymentReported
