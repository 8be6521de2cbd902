SPECIFICATION FairSpec
CONSTANTS
    NoPnl = NoPnl
    NoPosition = NoPosition
    TrailingOn = TRUE
    TriggerPct = 3
    DropPct = 2
    StopLossPct <- MinusFifty
    TakeProfitPct = 20
    DropTolerance = 1
    Relay = FALSE
    Positions = {p1}
    Readings <- Reasons
    MaxPositions = 1
    LlmEnabled = TRUE
    Crashes = TRUE
INVARIANT ClosedIsClosedOnChain
PROPERTY RechecksSettle
PROPERTY ManagementReleases
