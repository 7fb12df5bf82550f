CONSTANTS
  Node = {n1, n2, n3}
  IP = {i1, i2, i3}
  NoIP = NoIP
  Profile = {part}
  Partition = part
  NoFault = NoFault
  MaxPeers = 2
  Proc = {ui}
  UI = ui
  None = None
  Failures = {"list", "inspect", "helpers", "run", "shape"}
  FlapLoop = {}
  Monkey = {}
  Handler = {h1}
  NodeActions = {"kill"}
  MonkeyModes = {}
  TTL = 0
  UseFlux = FALSE
  LateRequests = FALSE
  Crashes = TRUE
  Restarts = TRUE
SPECIFICATION Spec
SYMMETRY Permute
PROPERTIES
  KeepsBoard
