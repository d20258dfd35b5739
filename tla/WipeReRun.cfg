SPECIFICATION Spec
CONSTANTS
    Kinds = {"remote"}
    WipeEnabled = TRUE
    QueueCap = 40
    MaxJobs = 2
    MaxInGame = 0
    MaxRestarts = 1
    MaxCrashes = 0
INVARIANTS
    NeverReRun
