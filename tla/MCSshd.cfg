SPECIFICATION FairSpec
CONSTANTS
    Jobs <- TheJobs
    MaxDepth = 3
    ConfigIntMax = 2147483647
    MaxAttempts = 3
    GroupListMax = 3
    Scripts <- TheScripts
    PipeCap = 3
    BufUnits = 2
    FlushTries = 2
    MaxShort = 1
INVARIANTS
    PolicyKept
    RelayIntact

    
