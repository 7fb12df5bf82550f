CONSTANTS
    s = s
    c = c
    k = k
    Node = {s, c, k}
    Server = s
    Client = {c}
    Cluster = {k}
    Stubborn = {c}
    Disturbed = {}
    Overlap = FALSE
    Failures = FALSE
SPECIFICATION Spec
PROPERTIES
    DestroySucceeds
CHECK_DEADLOCK FALSE
