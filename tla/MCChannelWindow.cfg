SPECIFICATION FairSpec
CONSTANTS
    WindowSz = 4
    MaxPacketSz = 3
    PeerMaxPacketSz = 2
    UINT32_MAX = 4
    SendFaults = {"none", "memory"}
    MaxFaults = 1
    MaxSend = 7
    MaxWrite = 4
    MaxWire = 3
INVARIANTS
    TypeOK
    NoOverrun
    Conservation
    BufferFits
PROPERTIES
    StreamSpec
    SenderUnblocks
CHECK_DEADLOCK FALSE
