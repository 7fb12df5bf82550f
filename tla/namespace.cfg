CONSTANTS
    s = s
    c = c
    k = k
    Node = {s, c, k}
    Server = s
    Client = {c}
    Cluster = {k}
    Stubborn = {}
    Disturbed = {s}
    Overlap = TRUE
    Failures = TRUE
SPECIFICATION Spec
INVARIANTS
    DestroyLeavesNothing
    PlaybookReachesAll
PROPERTIES
    DestroySucceeds
    KeepSparesNodes
    CommandsReturn
CHECK_DEADLOCK FALSE
