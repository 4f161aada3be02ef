\* A reply that asks for two pictures, one an edit, and a slash command.
SPECIFICATION Spec
CONSTANTS
    a = a
    edit = edit
    slash = slash
    reply = reply
    Calls = {a, edit, slash}
    Slash = {slash}
    Edits = {edit}
    ReplyOf <- MCReplyOf
    MAX_IMAGE_CALLS = 1
    Retries = 1
    QUEUE_SIZE = 1
    Models = {"natural", "sdxl"}
    MaxMissing = 2
    None = None
    Failures = {"generation", "timeout", "health", "request", "post", "picture"}
    MaxRestarts = 1
INVARIANTS
    BestIsPosted
    ReplyIsBounded
    LatchIsDeserved
CHECK_DEADLOCK FALSE
