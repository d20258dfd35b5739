SPECIFICATION FairSpec
CONSTANTS
    Boxes <- MCBoxes
    ZLevels <- MCLevels
    Budget = 3
    MaxJobs = 2
    MaxStops = 1
INVARIANTS
    ReportIsComplete
PROPERTIES
    PlanSpec
    SweepsEnd
CHECK_DEADLOCK FALSE
