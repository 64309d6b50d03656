SPECIFICATION FairSpec
CONSTANTS
    PortBase = 4
    PortSpace = 8
    BaseAddr = 3
    AddrSpace = 32
    Workloads <- AllWorkloads
    MaxConns = 5
    PollDelays <- Delays
    WaitCap = 2
    NoDelay = NoDelay
    MonotonicClock = FALSE
INVARIANTS
    TypeOK
    RemovalsValid
    SlotsBounded
    VictimFound
    CounterCovers
    CounterExact
    StaticEndpointsOwned
    StaticsSurvive
PROPERTIES
    LoopProgress
    DynamicsDepart
