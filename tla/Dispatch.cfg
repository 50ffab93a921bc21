CONSTANTS
    Devices = {0, 3, 8}
    Noisy = {8}
    Gate <- OneStubPerLine
    NoGate = NoGate
    TailPops = 0
    StartLevels <- Cleared
    Driver = {d1}
    Wanted = {0, 3, 8, 14}
    NoHandler = NoHandler
    MaxDepth = 4
SPECIFICATION FairSpec
INVARIANTS TypeOK OwnInService ServiceOrder NoReentry GrantIsRegistered
PROPERTIES StuckForGood NestedSpec KernelResumes AcquireReturns
CHECK_DEADLOCK FALSE
