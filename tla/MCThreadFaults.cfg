\* Two calls, every fault.
SPECIFICATION Spec
CONSTANTS
    r1 = r1
    r2 = r2
    p1 = p1
    p2 = p2
    Runs <- TwoRuns
    Posts <- TwoPosts
    Size <- Plain
    MAX_FOLLOW_UPS = 2
    MAX_RECORD_ITEMS = 2
    MAX_RECORD_BYTES = 4
    SAVE_ATTEMPTS = 2
    Faults = {"redis", "expiry", "embed", "create", "start", "delete", "run", "corrupt", "cancel", "crash"}
SYMMETRY AllAlike
INVARIANTS
    NoClobber
PROPERTIES
    NothingSlipsBy
    NoBlindOverwrite
CHECK_DEADLOCK FALSE
