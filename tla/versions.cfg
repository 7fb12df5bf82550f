CONSTANTS
    pg = pg
    mongo = mongo
    pmm = pmm
    operator = operator
    self = self
    el9 = el9
    x86 = x86
    arm = arm
    Blank = Blank
    Source = {pg, mongo, pmm, operator, self}
    Strip = {pg, mongo, pmm}
    Operators = {operator}
    Hub = {pmm}
    p1 = p1
    p2 = p2
    OS = {el9}
    Arch = {x86, arm}
    Proc = {p1, p2}
    ThisArch = x86
    Self = self
    Base <- MCBase
    OldRows <- MCOldRows
    Late <- MCLate
    Series <- MCSeries
    Sites <- MCSites
    Binary <- MCBinary
SPECIFICATION Spec
SYMMETRY Symmetry
INVARIANTS
    UpdateRepairs
    FetchedRowsAreComplete
    ListedIsDeployable
    TipDeploysNewest
    UnpinnedDeploysNewest
    NagsWhileOld
PROPERTIES
    FetchForgetsNothing
CHECK_DEADLOCK FALSE
