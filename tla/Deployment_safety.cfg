CONSTANTS
    Site = {p1}
    IsGroup = FALSE
    Slot = {j1, j2}
    NoSlot = NoSlot
    Run = {r1}
    MaxVariants = 1
    MaxFailures = 0
SPECIFICATION Spec
SYMMETRY Symmetry
INVARIANT TypeOK
INVARIANT CompletedMeansFetched
INVARIANT WaitersAttended
