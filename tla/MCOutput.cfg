\* Two runs of a thread, the second resuming the workspace of the first. Four
\* sets of tool calls: two commands side by side, a command and input to one,
\* a command and an attachment of what it writes, and two attachments.
SPECIFICATION OutputSpec
CONSTANTS
    c = c
    d = d
    e = e
    w = w
    x = x
    y = y
    f = f
    g = g
    Execs = {c, d, e}
    Polls = {w}
    Attaches = {x, y}
    Workloads <- CallSets
    Files <- Workspace
    Offers <- ChatFiles
    MAX_INPUT_FILES = 2
    MAX_INPUT_BYTES = 2
    OutFiles = {f, g}
    Outputs <- CommandOutputs
    MAX_FIELDS = 2
    MAX_DELETIONS = 1
    MAX_RUNS = 2
    MAX_ARTIFACT_FILES = 2
    MAX_ARTIFACT_BYTES = 2
INVARIANTS
    OutputUnderItsCommand
    CardSettles
    OldFilesStay
    AnswerIsSaidOnce
SYMMETRY Alike
CHECK_DEADLOCK FALSE
