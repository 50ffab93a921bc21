CONSTANTS
    Devices = {3, 10}
    Noisy = {10}
    Gate <- OneStubPerLine
    NoGate = NoGate
    TailPops = 0
    StartLevels <- Cleared
    Driver = {d1}
    Wanted = {3}
    NoHandler = NoHandler
    MaxDepth = 2
SPECIFICATION Spec
PROPERTY SpuriousSlaveAcknowledged
CHECK_DEADLOCK FALSE
