CONSTANTS
    Devices = {3}
    Noisy = {}
    Gate <- OneStubPerLine
    NoGate = NoGate
    TailPops = 0
    StartLevels <- Cleared
    Driver = {d1}
    Wanted = {3}
    NoHandler = NoHandler
    MaxDepth = 2
SPECIFICATION Spec
INVARIANT CriticalSectionIsUnit
CHECK_DEADLOCK FALSE
