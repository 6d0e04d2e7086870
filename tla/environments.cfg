CONSTANTS
    Envs = {1, 2, 3, 4}
    NoEnv = 0
    NENV = 1379
    ENVGENSHIFT = 12
    MaxInt = 2147483647
    Slots = {0, 1, 2, 34, 1378}
    BitAnd <- MCBitAnd
    BitOr <- MCBitOr
SPECIFICATION EnvironmentsSpec
INVARIANTS
    QueuesConsistent
    PromptOnlyWhenIdle
    QueuesExact
    NobodyMissed
    LiveIdsDistinct
PROPERTIES
    NobodyOvertaken
    EveryoneRuns
    CallReturns
