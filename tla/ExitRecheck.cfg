SPECIFICATION Spec
CONSTANTS
    NoPnl = NoPnl
    NoPosition = NoPosition
    TrailingOn = TRUE
    TriggerPct = 3
    DropPct = 2
    StopLossPct <- MinusFifty
    TakeProfitPct = 20
    DropTolerance = 1
    Relay = FALSE
    Positions = {p1, p2}
    Readings <- Losses
    MaxPositions = 1
    LlmEnabled = TRUE
    Crashes = FALSE
INVARIANT ExitEvidence
INVARIANT PendingHasRecheckUntilRestart
INVARIANT OneHolder
PROPERTY StopLossSelected
PROPERTY PeakRisesByRecheck
