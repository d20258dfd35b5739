SPECIFICATION FairSpec
CONSTANTS
    bob = bob
    bobby = bobby
    NoOwner = NoOwner
    NoAck = NoAck
    Restricted <- MCRestricted
    Rects <- MCTwoRects
    Players <- MCOnePlayer
    Cmds <- MCCmds
    FilesKind = "local"
    HasLocalDir = TRUE
    Clipped <- MCClipped
    QueueCap = 40
    MaxJobs = 2
    MaxRestarts = 1
    MaxMoves = 1
    MaxCrashes = 0
PROPERTIES
    FileDrains
    DumpCatchesUp
