CONSTANTS
    None = None
    Files = {f1, f2}
    Versions <- MCVersions
    SizeOf <- MCSizeOf
    Starts = {1}
    MaxJobs = 2
    MaxUpsets = 1
SPECIFICATION Spec
INVARIANTS TypeOK ChecksumsTrue FullPullIsFull CompleteIsWhole

SYMMETRY MCSymmetry
CHECK_DEADLOCK FALSE
