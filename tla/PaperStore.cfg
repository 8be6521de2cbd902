SPECIFICATION Spec
CONSTANTS
    Positions = {p1, p2, p3}
    Tools = {t1}
    Cycle = Cycle
    MaxFiled = 2
    Torn = Torn
    None = None
    MaxFaults = 1
SYMMETRY Symmetry
INVARIANT UntangledAreKept
INVARIANT ClosedIsNotShown
PROPERTY LivesAsPromised
