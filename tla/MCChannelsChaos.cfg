SPECIFICATION Spec
CONSTANTS
    IdSpace = 2
    AgentEnabled = FALSE
    OpenOutcomes = {"accept", "refuse"}
    RespOutcomes = {"ok", "fails"}
    ReqOutcomes = {"grant", "reject", "free"}
    OpenFaults = {"none", "want_write", "id_fails"}
    AppCalls = {"exit", "forward", "free", "resize"}
    Careful = FALSE
    ClientOpens = 3
    ServerOpens = 0
    MaxData = 0
    MaxRequests = 1
    MaxRekeys = 0
INVARIANTS
    UniqueIds
    SetupsOwed
CHECK_DEADLOCK FALSE
