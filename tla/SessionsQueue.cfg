SPECIFICATION SettlingSpec
CONSTANTS
    LlmEnabled = TRUE
    MaxMessages = 1
    QueueLimit = 1
    MaxStarts = 1
PROPERTY QueuedIsHandled
CHECK_DEADLOCK FALSE
