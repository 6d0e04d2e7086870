CONSTANTS
    N = 4
    MaxRequest = 4
    Word = 64
    Strategies = {"NEXTFIT"}
SPECIFICATION UHeapSpec
INVARIANT NullMeansNoSpace
