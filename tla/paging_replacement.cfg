CONSTANTS
    Envs = {e1}
    Frames = {f1, f2, f3, f4}
    DiskFrames = {d1, d2, d3, d4}
    NProg = 1
    NHeap = 1
    NStack = 2
    PagesPerTable = 2
    WSMax = 2
    LoadMax = 6
    TopBit = 2
    MinTime = 1
    Values = {v1}
    Algorithms = {"LRU", "FIFO", "CLOCK"}
    NoFrame = NoFrame
    NoDisk = NoDisk
    NoEnv = NoEnv
SPECIFICATION Spec
SYMMETRY FrameSymmetry
CHECK_DEADLOCK FALSE
INVARIANTS TypeOK WSMatchesPageTable
PROPERTIES EvictionLeavesAFrame RecentlyUsedSpared PagingIsTransparent
