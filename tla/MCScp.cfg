SPECIFICATION FairSpec
CONSTANTS
    Kind <- TheKind
    Entries <- TheEntries
    Size <- TheSize
    Jobs <- TheJobs
    AnyUnits <- TheUnits
    BufUnits = 2
    MaxMsg = 3
    MaxAny = 4
    MaxRekeys = 1
    MaxFaults = 1
INVARIANTS
    Copied
    Confined
PROPERTIES
    TransferEnds
CHECK_DEADLOCK FALSE
