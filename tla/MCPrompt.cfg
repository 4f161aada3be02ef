\* Two workers, a reset, two images and their deletion.
SPECIFICATION Spec
CONSTANTS
    w1 = w1
    w2 = w2
    Free = Free
    Nobody = Free
    Workers = {w1, w2}
    Messages <- MCMessages
    Keys <- MCKeys
    SizeOf <- MCSizeOf
    TokensOf <- MCTokensOf
    MaxBytes = 2
    TTL = 1
    MaxLoad = 1
    MaxBuild = 1
    MaxClock = 1
    MaxInvalidations = 2
    Resets = {2}
    Limit = 2
    RefreshEvery = 3
    Reserve = 1
    Triggers = {1, 3, 5}
    Slots = {4}
    Deletable = {3}
    MaxReads = 1
SYMMETRY WorkerSymmetry
INVARIANTS
    NoLateStore
PROPERTIES
    PrefixKept
    DeletedNotSent
CHECK_DEADLOCK FALSE
