SPECIFICATION Spec
CONSTANTS
    Positions = {p1, p2}
    Tools = {t1, t2}
    Cycle = Cycle
    MaxFiled = 2
    Torn = Torn
    None = None
    MaxFaults = 0
SYMMETRY Symmetry
INVARIANT NothingIsLost
