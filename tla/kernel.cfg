CONSTANTS
    H = 6
    Frames = {f1, f2, f3}
    MaxSize = 3
    NoFrame = NoFrame
    CrtRows = 3
    CrtCols = 3
    ConsBufSize = 3
    BufLen = 4
    HistoryMax = 2
    Keys = {"r", "BS", "TAB", "ENTER", "UP", "DOWN", "DEL"}
    Modifiers = {"RCTL", "ALT"}
    SerialExists = TRUE
    FifoSize = 4
    MaxKeys = 5
    LongBits = 8
    MaxArguments = 3
    PrintBuf = 4
    MaxError = 6
    AddrUnit = 2
    SectSize = 3
    MemTop = 12
    ElfHdr = 0
    HdrSectors = 1
    Entries = 16
    KernelTables = 2
    PageBytes = 8
    IoFrame = 4
    ExtFrame = 5
    Frame16M = 20
    BlockFrames = 2
    FrameInfoSize = 1
    StackPages = 1
    LPage = 4
    LWord = 64
    StabsVA = 8
    StabsLimit = 1
    StackVA = 48
    LTable = 16
    TwsMax = 2
    MaxText = 5
    MaxTable = 3
    StabGap = 3
    MaxArray = 5
    MaxValue = 2
SPECIFICATION KernelSpec
INVARIANTS
    KHeapTypeOK
    ReverseMapExact
    BlocksIntact
    RefsExact
    NoOrphans
    TestsPass
    InputInOrder
    EditorConsistent
    NoStuckModifier
    TextExact
    SymbolsFound
    SortsArrays
    StartUpExact
PROPERTY
    PromptDrains
