\* Two requests, two pieces each, and one other utterance.
SPECIFICATION Spec
CONSTANTS
    MaxRequests = 2
    MaxQueued = 1
    MaxItems = 1
    MaxOthers = 1
    Failures = {"model", "option", "speech"}
INVARIANTS
    SpokenInOrder
    GoodbyeIsHeard
PROPERTIES
    StopIsFinal
CHECK_DEADLOCK FALSE
