CONSTANTS
    MaxLines = 2
    PipeSize = 2
    Lingering = TRUE
SPECIFICATION Spec
INVARIANTS
    BufferedOutputIsWhole
    PipeTextIsPrefix
    PipeReturnIsFinal
PROPERTIES
    KeepsPromise
    GoroutinesEnd
CHECK_DEADLOCK FALSE
