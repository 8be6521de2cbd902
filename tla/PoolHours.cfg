SPECIFICATION Spec
CONSTANTS
    Pools = {p1, p2}
    Tokens = {t1}
    TokenOf <- MCTokenOf
    NoToken = NoToken
    Torn = Torn
    OorTrigger = 2
    OorHours = 2
    RepeatTrigger = 2
    RepeatHours = 1
    RepeatScope = "token"
    MinFeePct = 0
    LowYieldHours = 1
    SnapshotCap = 2
    EvolveEach = 2
    Caps <- MCCaps
    Signals = {s1}
    MinSamples = 2
    WeightFloor = 960
    WeightCeiling = 1040
    Deployers = {d1}
    Closes <- MCCloses
    Manual <- MCManual
    MaxTime = 1
    MaxCloses = 3
    MaxExtras = 1
SYMMETRY PoolSymmetry
INVARIANT TokenStaysCold
CHECK_DEADLOCK FALSE
