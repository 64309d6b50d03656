SPECIFICATION Spec
CONSTANTS
    PortBase = 4
    PortSpace = 8
    BaseAddr = 3
    AddrSpace = 32
    Workloads <- PreemptingWorkloads
    MaxConns = 6
    PollDelays <- Delays
    WaitCap = 2
    NoDelay = NoDelay
    MonotonicClock = TRUE
INVARIANT StaticsLive
