SPECIFICATION Spec
CHECK_DEADLOCK FALSE
CONSTANTS
    Keys <- MCKeys
    TpmKey <- MCTpmKey
    StoreKeys <- MCStoreKeys
    MaxPvtKeys = 3
    MaxLoads = 3
    ServerLists <- MCServerLists
    AcceptedKeyAlgos <- MCAccepted
    CannedKeyAlgos <- MCCanned
    Scenarios <- MCScenarios
INVARIANTS
    SlotsConsistent
    ExchangeSound
    NoFalseAlarm
    UserKeyAccepted
