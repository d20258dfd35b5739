SPECIFICATION Spec
CONSTANTS
    Kinds = {"remote", "local"}
    WipeEnabled = TRUE
    QueueCap = 2
    MaxJobs = 3
    MaxInGame = 1
    MaxRestarts = 1
    MaxCrashes = 1
INVARIANTS
    StartsInOrder
PROPERTIES
    ClearHolds
