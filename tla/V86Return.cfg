SPECIFICATION FairSpec
CONSTANTS
    Vectors = {"10h"}
    Stub <- AsMeant
    KernelWords = 3
    MonitorWords = 6
    StackWords = 256
    MaxCalls = 1
PROPERTIES CallReturns
