SPECIFICATION Spec
CONSTANTS
    Addrs = {"host", "wild"}
    WildAddrs = {"wild"}
    Ports = {1}
    MaxReplies = 2
    MaxCalls = 3
    MaxNest = 2
    MaxOpens = 1
    MaxStray = 2
    PeerKinds = {"wolfssh", "any"}
    MatchModes = {"STRICT", "PORT", "OFF"}
    SendFaults = {"general"}
    Nestings = {"any", "apart"}
INVARIANTS
    Paired
    Owned
    
CHECK_DEADLOCK FALSE
