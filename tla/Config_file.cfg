CONSTANTS
    Task = {t1, t2}
    Setting = {}
    Edit = {e1}
    Switch = {w1}
    Setup = {p1}
    MaxFailures = 1
SPECIFICATION FairSpec
INVARIANT TypeOK
PROPERTY OnlyInPlaceDamages
PROPERTY RenamedIsOwn
PROPERTY Healed
