\* Two calls in turn, one voice channel or the other, and one mishap.
SPECIFICATION CallSpec
CONSTANTS
    s1 = s1
    s2 = s2
    a = a
    b = b
    Sessions = {s1, s2}
    Channels = {a, b}
    None = None
    Faults = {"link", "network", "kick", "slow"}
    MaxTroubles = 1
SYMMETRY MCAlike
INVARIANTS
    GateMeansCall
    CallMeansGate
CHECK_DEADLOCK FALSE
