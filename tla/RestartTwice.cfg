SPECIFICATION MonSpec
CONSTANTS
    MaxStamp = 2
    MaxStarts = 2
    MaxWrites = 1
    MaxMonDies = 0
INVARIANT
    OneRestart
