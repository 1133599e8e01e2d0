SPECIFICATION FairSpec
CONSTANTS
    IdSpace = 8
    AgentEnabled = FALSE
    OpenOutcomes = {"accept", "refuse"}
    RespOutcomes = {"ok"}
    ReqOutcomes = {"grant"}
    OpenFaults = {"none"}
    AppCalls = {"send", "read", "eof", "exit", "exit_short", "stream_exit", "shutdown"}
    Careful = TRUE
    ClientOpens = 1
    ServerOpens = 0
    MaxData = 1
    MaxRequests = 1
    MaxRekeys = 1
PROPERTIES
    ChannelsSettle
CHECK_DEADLOCK FALSE
