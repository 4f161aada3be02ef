\* Questions, files, failing sends, every interruption.
SPECIFICATION FairSpec
CONSTANTS
    m1 = m1
    m2 = m2
    m3 = m3
    Messages = {m1}
    FromRequester = {m1}
    WithId = {m1}
    TextLength <- MCTextLength
    MAX_PENDING_MESSAGES = 2
    MAX_PENDING_CHARS = 2
    MAX_MESSAGE_CHARS = 1
    MAX_RETAINED_EVENTS = 2
    MAX_FOLLOW_UPS = 1
    MaxRevision = 1
    MaxQuestions = 4
    MaxChanges = 5
    MaxItems = 8
    DecisionsMade = {"done", "noted"}
    Responses <- AskingResponses
    Paths = {"chart.png", "data.csv"}
    AskTimeouts = TRUE
    SendsFail = TRUE
    Interruptions = {"timeout", "model", "infra"}
    MAX_GATE_REFUSALS = 1
    MAX_CONTINUATIONS = 1
    MIN_CONTINUATION_TURNS = 1
    SANDBOX_MAX_TURNS = 3
INVARIANTS
    CleanEndAnswersAll
    DecisionsAreVisible
PROPERTIES
    WaitingPausesGatedCalls
    LedgerSpec
    Terminates
CHECK_DEADLOCK FALSE
