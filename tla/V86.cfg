SPECIFICATION FairSpec
CONSTANTS
    Vectors = {"10h", "13h"}
    Stub <- AsMeant
    KernelWords = 3
    MonitorWords = 6
    StackWords = 256
    MaxCalls = 2
INVARIANTS TypeOK CallersKept 
PROPERTIES ResumesV86 Answered
