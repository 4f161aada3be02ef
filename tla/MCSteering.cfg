\* Three messages, two of them retained: one is compacted away.
SPECIFICATION Spec
CONSTANTS
    m1 = m1
    m2 = m2
    m3 = m3
    Messages = {m1, m2, m3}
    FromRequester = {m1}
    WithId = {m1, m2, m3}
    TextLength <- MCTextLength
    MAX_PENDING_MESSAGES = 2
    MAX_PENDING_CHARS = 2
    MAX_MESSAGE_CHARS = 1
    MAX_RETAINED_EVENTS = 2
    MAX_FOLLOW_UPS = 1
    MaxRevision = 3
    MaxQuestions = 4
    MaxChanges = 5
    MaxItems = 8
    DecisionsMade = {"done", "will_apply"}
    Responses <- SteeringResponses
    Paths = {}
    AskTimeouts = TRUE
    SendsFail = FALSE
    Interruptions = {}
    MAX_GATE_REFUSALS = 2
    MAX_CONTINUATIONS = 1
    MIN_CONTINUATION_TURNS = 1
    SANDBOX_MAX_TURNS = 3
INVARIANTS
    HonestReport
    GivesUpAfterRefusals
PROPERTIES
    GuidanceKept
    KeepsPromises
    ActsOnWhatItSaw
    TranscriptStable
CHECK_DEADLOCK FALSE
