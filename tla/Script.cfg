SPECIFICATION Spec
CONSTANTS
    Items <- SmallItems
    PortOf <- Ports
    RateOf <- RateNumbers
    MaxItems = 2
INVARIANTS
    PanicsOnUnusable
    TreesTell
CHECK_DEADLOCK FALSE
