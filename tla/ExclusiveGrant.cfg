CONSTANTS
    Devices = {3}
    Noisy = {}
    Gate <- OneStubPerLine
    NoGate = NoGate
    TailPops = 0
    StartLevels <- Cleared
    Driver = {d1, d2}
    Wanted = {3, 10}
    NoHandler = NoHandler
    MaxDepth = 2
SPECIFICATION Spec
INVARIANT ExclusiveGrant
CHECK_DEADLOCK FALSE
