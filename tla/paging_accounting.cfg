CONSTANTS
    Envs = {e1, e2}
    Frames = {1, 2, 3, 4, 5}
    DiskFrames = {1, 2, 3, 4}
    NProg = 1
    NHeap = 1
    NStack = 1
    PagesPerTable = 2
    WSMax = 2
    LoadMax = 6
    TopBit = 2
    MinTime = 1
    Values = {v1}
    Algorithms = {"FIFO"}
    NoFrame = 0
    NoDisk = 0
    NoEnv = NoEnv
SPECIFICATION Spec
ACTION_CONSTRAINT TakesLeast
CHECK_DEADLOCK FALSE
INVARIANTS FramesExact DiskAccounting
PROPERTIES LossOnlyWithoutDiskFrame
