SPECIFICATION Spec
CONSTANTS
    c1 = c1
    c2 = c2
    None = None
    Torn = Torn
    Glued = Glued
    Usd <- Costs
    Candidates = {c1}
    Farms = {c1}
    Permitted = {c1}
    Signable = {c1}
    Tags = {t1}
    Level = 2
    KillFile = TRUE
    SigningPrep = TRUE
    AllowBroadcast = TRUE
    Autonomous = FALSE
    MaxTx = 2
    MaxDaily = 0
    Faults = {"crash", "tear"}
    MaxSigned = 2
    MaxApprovals = 2
    MaxReceipts = 2
    MaxCloses = 1
    MaxDay = 0
    Switches = {"stopFile", "macro"}
INVARIANT TypeOK
INVARIANT SubmittedWasApproved
INVARIANT PositionHasReceipt
PROPERTY RefinesApproved
