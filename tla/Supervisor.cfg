SPECIFICATION FairSpec
CONSTANTS
    NWorkers = 3
    Durations = {0, 1, 2}
    MaxTime = 3
    SetBack = {1, 2}
INVARIANTS
    NoOrphans
    NotEarly
    AllSignalled
    PidsOwned
PROPERTIES
    DurationKept
    ImplementsPool
