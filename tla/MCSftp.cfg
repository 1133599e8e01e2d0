SPECIFICATION FairSpec
CONSTANTS
    Locals = {"l"}
    Remotes = {"r", "s", "x"}
    Outside = {"x"}
    Ops = {"get", "put", "ls", "chmod", "rename", "remove", "mkdir", "rmdir", "stat", "open", "close"}
    StartLocal <- LocalFiles
    StartRemote <- RemoteFiles
    MaxHandles = 1
    MaxReadDir = 2
    OfstSlots = 1
    WindowFull = {"start"}
    MaxCalls = 2
    MaxInts = 1
    MaxFaults = 1
    MaxFulls = 1
INVARIANTS
    InStep
    NoLeak
    Faithful
PROPERTIES
    CallReturns
CHECK_DEADLOCK FALSE
