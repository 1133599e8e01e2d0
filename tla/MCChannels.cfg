SPECIFICATION Spec
CONSTANTS
    IdSpace = 8
    AgentEnabled = TRUE
    OpenOutcomes = {"accept", "refuse", "unregistered", "setup_fails", "id_fails"}
    RespOutcomes = {"ok"}
    ReqOutcomes = {"grant"}
    OpenFaults = {"none", "memory"}
    AppCalls = {"exit", "forward"}
    Careful = TRUE
    ClientOpens = 2
    ServerOpens = 2
    MaxData = 0
    MaxRequests = 1
    MaxRekeys = 0
INVARIANTS
    Addressed
    Healthy
    Agreement
CHECK_DEADLOCK FALSE
