CONSTANTS
    Envs = {e1}
    TheEnv = e1
    MaxTicks = 0
    Frames = {1, 2, 3, 4, 5, 6, 7, 8, 9, 10, 11, 12, 13, 14, 15}
    DiskFrames = {1, 2, 3, 4, 5, 6, 7, 8, 9, 10, 11, 12, 13, 14, 15, 16, 17, 18, 19, 20, 21, 22, 23, 24, 25, 26, 27, 28, 29, 30, 31, 32, 33, 34, 35, 36, 37, 38, 39, 40}
    NProg = 22
    NHeap = 22
    NStack = 11
    PagesPerTable = 22
    WSMax = 9
    LoadMax = 6
    TopBit = 536870912
    MinTime = 268435456
    Values = {v1}
    Algorithms = {"LRU", "FIFO", "CLOCK"}
    NoFrame = 0
    NoDisk = 0
    NoEnv = NoEnv
SPECIFICATION TestSpec
CHECK_DEADLOCK FALSE
INVARIANT FinalCheckAsTested
