SPECIFICATION Spec
CONSTANTS
    PortBase = 4
    PortSpace = 8
    BaseAddr = 3
    AddrSpace = 64
    PerAddr = {1, 2, 3, 4}
    MaxIndex = 40
INVARIANTS
    ClosedForm
    EndpointsUnique
PROPERTY GroupsFull
CHECK_DEADLOCK FALSE
