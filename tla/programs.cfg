CONSTANTS
    Envs = {e1}
    Frames = {1, 2, 3, 4}
    DiskFrames = {1, 2, 3, 4}
    NProg = 1
    NHeap = 1
    NStack = 2
    PagesPerTable = 3
    WSMax = 2
    LoadMax = 6
    TopBit = 2
    MinTime = 1
    Values = {}
    Algorithms = {"LRU", "FIFO", "CLOCK"}
    NoFrame = 0
    NoDisk = 0
    NoEnv = NoEnv
    N = 6
    MaxRequest = 7
    Word = 64
    Strategies = {"NEXTFIT", "FIRSTFIT", "BESTFIT", "WORSTFIT", "unknown"}
SPECIFICATION ProgramsSpec
CONSTRAINT FollowIntact
CHECK_DEADLOCK FALSE
INVARIANTS
    UHeapTypeOK
    BlocksDisjoint
    PageFileMatchesBlocks
    NeverInsideABlock
    NullOnlyWhenFull
PROPERTIES
    InstructionCompletes
    ChoiceIsPlacement
    MallocReturns
