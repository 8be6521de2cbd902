SPECIFICATION Spec
CONSTANTS
    NoPnl = NoPnl
    NoPosition = NoPosition
    TrailingOn = TRUE
    TriggerPct = 3
    DropPct = 2
    StopLossPct <- MinusFifty
    TakeProfitPct = 20
    DropTolerance = 1
    Relay = FALSE
    Positions = {p1, p2}
    Readings <- Gaps
    MaxPositions = 1
    LlmEnabled = TRUE
    Crashes = FALSE
PROPERTY StopLossAlwaysSelected
