SPECIFICATION Spec
CONSTANTS
    Absent = Absent
    Null = Null
    Text = Text
    Torn = Torn
    NoFile = NoFile
    MaxChanges = 2
    Changes <- MCChanges
    Edits <- MCEdits
    FirstFiles <- MCFirstFiles
    Environments <- MCEnvironments
INVARIANT OnlyLiveSends
CHECK_DEADLOCK FALSE
