SPECIFICATION FairSpec
CONSTANTS
    LlmEnabled = TRUE
    MaxMessages = 2
    QueueLimit = 1
    MaxStarts = 2
INVARIANT TypeOK
INVARIANT SessionsCounted
INVARIANT UpdatesAccounted
INVARIANT LockAccounted
INVARIANT CronMatchesSwitch
PROPERTY EveryUpdateTaken
CHECK_DEADLOCK FALSE
