SPECIFICATION FairSpec
CONSTANTS
    Settings <- MCSettings
    MayFail = {1}
    MaxRetries = 1
INVARIANTS
    TakenInPhase
    ResultsRight
    BarrierHolds
    ExchangeLimit
    ReportComplete
PROPERTIES
    EveryoneEnds
CHECK_DEADLOCK FALSE
