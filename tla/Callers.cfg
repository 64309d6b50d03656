SPECIFICATION FairSpec
CONSTANTS
    Kinds = {"plain", "transient", "mmap", "mount", "remount", "held", "accept", "uring_open", "uring_plain", "unsupported", "bpf"}
    TableSize = 6
    MaxInterrupts = 2
    MaxProgs = 3
    NameRoom = 2
INVARIANTS
    Accounted
    ClosedOnce
    LagExact
    LinksSound
PROPERTY KeepsInvoking
