CONSTANTS
  Node = {n1, n2}
  IP = {i1, i2}
  NoIP = NoIP
  Profile = {degrade, part}
  Partition = part
  NoFault = NoFault
  MaxPeers = 15
  Proc = {ui}
  UI = ui
  None = None
  Failures = {}
  FlapLoop = {l1, l2}
  Monkey = {}
  Handler = {}
  NodeActions = {}
  MonkeyModes = {}
  TTL = 1
  UseFlux = TRUE
  LateRequests = FALSE
  Crashes = FALSE
  Restarts = FALSE
SPECIFICATION Spec
CHECK_DEADLOCK FALSE
INVARIANTS
  FlapPhaseFollowsOwner
  FaultsMatchBoard
  ExitLeavesNoFault
  FaultsAreWatched
PROPERTIES
  KeepsBoard
