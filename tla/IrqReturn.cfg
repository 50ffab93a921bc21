CONSTANTS
    Stubs = {"Low0", "Low5"}
    Raised = {"NMI", "Divide0", "PageFault"}
    Codes = {2, 4}
    TailPops = 1
    None = None
    MaxDepth = 2
SPECIFICATION Spec
PROPERTY ResumesExactly
