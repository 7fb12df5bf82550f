CONSTANTS
  Node = {n1, n2}
  IP = {i1, i2, i3}
  NoIP = NoIP
  Profile = {part}
  Partition = part
  NoFault = NoFault
  MaxPeers = 15
  Proc = {ui}
  UI = ui
  None = None
  Failures = {"delete"}
  FlapLoop = {}
  Monkey = {m1}
  Handler = {h1}
  NodeActions = {"kill", "start"}
  MonkeyModes = {"kill"}
  TTL = 0
  UseFlux = FALSE
  LateRequests = FALSE
  Crashes = FALSE
  Restarts = FALSE
SPECIFICATION Spec
SYMMETRY Permute
CHECK_DEADLOCK FALSE
INVARIANTS
  TypeOK
  StaleHelperIsDoomed
