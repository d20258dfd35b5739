SPECIFICATION Spec
CONSTANTS
    bob = bob
    bobby = bobby
    NoOwner = NoOwner
    NoAck = NoAck
    Restricted <- MCRestricted
    Rects <- MCRects
    Players <- MCPlayers
    Cmds <- MCUpdates
    FilesKind = "remote"
    HasLocalDir = FALSE
    Clipped <- MCClipped
    QueueCap = 1
    MaxJobs = 2
    MaxRestarts = 1
    MaxMoves = 1
    MaxCrashes = 1
INVARIANTS
    ZonesDisjoint
PROPERTIES
    RegistrySpec
