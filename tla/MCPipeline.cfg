\* Two messages in the channel, one in the thread; two workers, a queue of one.
SPECIFICATION Spec
CONSTANTS
    m1 = m1
    m2 = m2
    m3 = m3
    w1 = w1
    w2 = w2
    chat = chat
    thread = thread
    Channel = chat
    Thread = thread
    Messages = {m1, m2, m3}
    ChannelOf <- MCChannelOf
    Mentions = {m1, m2}
    Direct = {}
    Workers = {w1, w2}
    NoOne = NoOne
    QUEUE_MAX_SIZE = 1
    LLM_MAX_TURNS = 1
    Cooldown = 1
    ReplySizes = {2}
    MAX_RECENT_DONE = 0
    MaxCalls = 1
    Failures = {"discord", "redis", "model"}
SYMMETRY Alike
INVARIANTS
    RepliesStayTogether
    PairsAreSpaced
PROPERTIES
    HintNamesWhatRuns
CHECK_DEADLOCK FALSE
