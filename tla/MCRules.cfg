\* Two people, three rules, a message delivered twice; one upset of any kind.
SPECIFICATION Spec
CONSTANTS
    d1 = d1
    d2 = d2
    d3 = d3
    Nobody = Nobody
    m1 = m1
    m2 = m2
    Rules = {1, 2, 3}
    People = {p1, p2}
    Deliveries = {d1, d2, d3}
    MessageOf <- Delivered
    Matching <- Matched
    RULE_MAX_PER_GUILD = 2
    QUEUE_MAX_SIZE = 1
    Upsets = {"redis", "lost", "access", "call", "restart"}
    MaxUpsets = 1
    MaxEdits = 2
SYMMETRY AllAlike
INVARIANTS
    NoRuleOverlap
    OncePerMessage
    SentBackIsUndone
CHECK_DEADLOCK FALSE
