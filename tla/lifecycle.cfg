CONSTANTS
    Pid = {1, 2, 3}
    Manager = {m1, m2}
    Hook = {h}
    Migrations = 2
    UnlinksOpenFiles = FALSE
    MaxFailures = 1
SPECIFICATION Spec
INVARIANTS SchemaGrowsOnce CommandsTellTheTruth
PROPERTIES OwnState Succeeds
CHECK_DEADLOCK FALSE
