CONSTANTS
    Task = {t1}
    Setting = {}
    Edit = {e1}
    Switch = {}
    Setup = {}
    MaxFailures = 1
SPECIFICATION Spec
PROPERTY EmptyOnlyWithoutBackup
