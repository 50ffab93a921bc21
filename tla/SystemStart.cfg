SPECIFICATION SystemSpec
CONSTANTS
    Bases <- SomeBases
    FileSizes <- SomeSizes
    NotPresent = NotPresent
    Tss <- TssAt
    Ldt <- LdtAt
    Devices = {0, 9}
    DosMasks <- SomeMasks
    Called <- Calls
    MAX_IO_RSC = 2
    MAX_SUPPORTED_FAR_CALLS = 3
    Resource = {com1, lpt1}
    Handler = {h1}
    Link = {lnk}
    VINT = {33, 47}
    Garbage = Garbage
    Format <- SomeFormats
    Message <- SomeMessages
    ReadBound = 10
    MAX_STR_LENGTH_OF_UINT32 = 3
    Number <- SomeNumbers
INVARIANTS LoaderTypeOK FoundWhereMapped
INVARIANTS SetupTypeOK TablesReached Programmed OwnGates
INVARIANTS DebugTypeOK ResourcesKept FarCallsKept 
PROPERTIES NoSecondTry AttemptEnds IntReflected InitEnds
