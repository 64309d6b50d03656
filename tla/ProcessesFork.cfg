SPECIFICATION FairSpec
CONSTANTS
    MaxThreads = 2
    Logging = {TRUE}
PROPERTY EveryChildDeparts
