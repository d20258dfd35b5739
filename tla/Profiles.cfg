CONSTANTS
    east = east
    north = north
    west = west
    None = None
    Names <- MCNames
    EnvServer = north
    Loop = 0
    Workers = {1}
    MaxEdits = 3
    MaxCrashes = 1
SPECIFICATION Spec
INVARIANT TypeOK
PROPERTIES ProfilesKept IndexHeals
