SPECIFICATION FairSpec
CONSTANTS
    Conn = {c1, c2}
    Limits = {1, 2}
    MaxLines = 2
INVARIANTS
    LockStepLossless
PROPERTIES
    LinesConsumed
    StreamsReleased
