SPECIFICATION LoopSpec
CONSTANTS
    CallSlot = {k1, k2}
    MaxSteps = 3
INVARIANT NoDeployNotedIsReal
