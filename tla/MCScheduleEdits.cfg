\* Edits, faults, calls, crashes: a schedule that repeats every minimum gap.
SPECIFICATION Spec
CONSTANTS
    FirstTiming <- Shortest
    Timings <- Edits
    MinGap = 3
    OnTimeGrace = 1
    MarkerTTL = 4
    Upsets = {"edit", "call", "full", "restart", "config", "access", "model", "redis", "week"}
    MaxUpsets = 2
    MaxTime = 5
    MaxJobs = 2
INVARIANTS
    NoOverlap
    GapKept
    OnTimetable
CHECK_DEADLOCK FALSE
