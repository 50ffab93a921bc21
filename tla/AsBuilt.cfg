CONSTANTS
    Devices = {0, 8}
    Noisy = {}
    Gate <- BuiltGate
    NoGate = NoGate
    TailPops = 1
    StartLevels <- BuiltLevels
    Driver = {d1}
    Wanted = {15}
    NoHandler = NoHandler
    MaxDepth = 2
SPECIFICATION Spec
INVARIANT VintIsIrq
CHECK_DEADLOCK FALSE
