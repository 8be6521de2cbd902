SPECIFICATION Spec
CONSTANTS
    p1 = p1
    p2 = p2
    t1 = t1
    d1 = d1
    NoDev = NoDev
    Pools = {p1, p2}
    Tokens = {t1}
    Devs = {d1}
    MintOf <- Mints
    DevOf <- Deployers
    UseDiscord = TRUE
    DiscordOnly = FALSE
    AvoidPvp = TRUE
    BlockPvp = TRUE
    PvpShortlist = 1
    CycleLimit = 2
    CommandLimit = 1
    Ttl = 1
    EntryPreset = "supertrend_or_rsi"
    Intervals = {"5_MINUTE", "15_MINUTE"}
    RequireAll = TRUE
    MaxTime = 2
    MaxChanges = 2
    MaxStaged = 4
    MaxScreens = 2
SYMMETRY Twins
INVARIANT BlockedDeployerIsDropped
INVARIANT SignalsServeOnce
