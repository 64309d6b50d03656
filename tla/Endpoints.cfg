SPECIFICATION FairSpec
CONSTANTS
    NWorkers = 2
    Distributions <- SmallDistributions
    FirstPort = 1
    PortSpace = 4
    TopPort = 4
    Contested = {2}
    Rooms = {0, 1, 2}
INVARIANTS
    NoSelfConflict
    BoundByListeners
PROPERTIES
    PortsListened
    RestartsAfterSleep
