CONSTANTS
    Stubs = {"Low0", "Low5"}
    Raised = {"NMI", "Divide0", "PageFault"}
    Codes = {2, 4}
    TailPops = 0
    None = None
    MaxDepth = 3
SPECIFICATION Spec
INVARIANTS TypeOK FramesIntact OwnArgument
PROPERTY ResumesExactly
