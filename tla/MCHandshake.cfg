SPECIFICATION Spec
CONSTANTS
    Kinds = {"wolfssh", "any"}
    Methods = {"password", "keyboard", "publickey"}
    Verdicts = {"SUCCESS", "PARTIAL", "FAILURE", "REJECTED", "WOULD_BLOCK", "ANOTHER"}
    Users = {"u1", "u2"}
    MaxAuthAttempts = 2
    KbAttempts = 1
    AgentEnabled = TRUE
    Terminal = TRUE
    AppChannels = FALSE
    MaxShort = 1
    MaxPending = 1
    MaxKeepalive = 1
    MaxRequests = 3
INVARIANTS ScriptKept  LoginEarned GuessesBounded
PROPERTIES LoginEnds
CHECK_DEADLOCK FALSE
