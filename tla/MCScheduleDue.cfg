\* Every upset but a long stop, fairly scheduled.
SPECIFICATION FairSpec
CONSTANTS
    FirstTiming <- Shortest
    Timings <- NoEdits
    MinGap = 3
    OnTimeGrace = 1
    MarkerTTL = 4
    Upsets = {"edit", "call", "full", "restart", "config", "access", "model", "redis", "lease"}
    MaxUpsets = 2
    MaxTime = 3
    MaxJobs = 2
INVARIANTS
    StartedOnce
PROPERTIES
    DueIsHandled
CHECK_DEADLOCK FALSE
