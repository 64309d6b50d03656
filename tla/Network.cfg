SPECIFICATION NetSpec
CONSTANTS
    PortBase = 4
    PortSpace = 8
    BaseAddr = 3
    AddrSpace = 32
    Workloads <- SmallWorkloads
    MaxConns = 3
    PollDelays = {NoDelay}
    WaitCap = 2
    NoDelay = NoDelay
    MonotonicClock = FALSE
    Limits = {2}
    MaxLines = 1
    Generations = {0, 1}
    MaxStreams = 3
INVARIANTS
    StreamsBounded
PROPERTIES
    ConnectionsServed
    StaticsStayServed
CONSTRAINT
    Explored
