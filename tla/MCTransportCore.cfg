SPECIFICATION Spec
CONSTANTS
    Marks <- MarksOff
    KexIds = {"DH", "GEX"}
    StrictChoices = {TRUE, FALSE}
    MatchChoices = {TRUE, FALSE}
    AuthRounds = 1
    MaxTrigger = 1
    MaxData = 1
    MaxIgnore = 1
    MaxDisconnect = 0
    TriggerAnytime = FALSE
INVARIANTS
    SessionAgreement
    Healthy
CHECK_DEADLOCK FALSE
