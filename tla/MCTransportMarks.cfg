SPECIFICATION FairSpec
CONSTANTS
    Marks <- MarksMixed
    KexIds = {"DH", "GEX"}
    StrictChoices = {TRUE, FALSE}
    MatchChoices = {TRUE}
    AuthRounds = 1
    MaxTrigger = 1
    MaxData = 1
    MaxIgnore = 0
    MaxDisconnect = 1
    TriggerAnytime = TRUE

    
PROPERTIES
    FreshNonces
    
    KeyRetired
CHECK_DEADLOCK FALSE
