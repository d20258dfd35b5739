SPECIFICATION Spec
CONSTANTS
    bob = bob
    bobby = bobby
    NoOwner = NoOwner
    NoAck = NoAck
    Restricted <- MCRestricted
    Rects <- MCTwoRects
    Players <- MCOnePlayer
    Cmds <- MCCreates
    FilesKind = "remote"
    HasLocalDir = TRUE
    Clipped <- MCClipped
    QueueCap = 2
    MaxJobs = 3
    MaxRestarts = 1
    MaxMoves = 0
    MaxCrashes = 0
INVARIANTS
    ErrorMeansNoEffect
    OncePerLife
    AckTruthful
PROPERTIES
    AnswersAreFinal
    FirstRunsInOrder
