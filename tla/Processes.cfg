SPECIFICATION FairSpec
CONSTANTS
    MaxThreads = 2
    Logging = {TRUE, FALSE}
INVARIANTS
    ChildrenWaitedFor
PROPERTIES
    ChildrenDepart
    KeepsSpawning
    UnwindEnds
