SPECIFICATION LoaderSpec
CONSTANTS
    Bases <- TheBases
    FileSizes <- TheSizes
INVARIANT KernelLoads
