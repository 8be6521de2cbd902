SPECIFICATION Spec
CONSTANTS
    LlmEnabled = TRUE
    MaxMessages = 0
    QueueLimit = 1
    MaxStarts = 1
INVARIANT LedgerNeverStopsScreening
CHECK_DEADLOCK FALSE
