CONSTANTS
    LongBits = 8
    MaxArguments = 3
    PrintBuf = 4
    MaxError = 6
    AddrUnit = 2
    SectSize = 3
    MemTop = 12
    ElfHdr = 0
    HdrSectors = 1
    Entries = 16
    KernelTables = 2
    PageBytes = 8
    IoFrame = 4
    ExtFrame = 5
    Frame16M = 20
    BlockFrames = 2
    FrameInfoSize = 1
    StackPages = 1
    LPage = 4
    LWord = 64
    StabsVA = 8
    StabsLimit = 1
    StackVA = 48
    LTable = 16
    TwsMax = 2
    MaxText = 5
    MaxTable = 4
    StabGap = 3
    MaxArray = 5
    MaxValue = 2
SPECIFICATION LibrarySpec
INVARIANT RegionHoldsAddress
