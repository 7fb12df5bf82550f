CONSTANTS
  Node = {n1, n2}
  IP = {i1, i2}
  NoIP = NoIP
  Profile = {part}
  Partition = part
  NoFault = NoFault
  MaxPeers = 15
  Proc = {ui}
  UI = ui
  None = None
  Failures = {}
  FlapLoop = {}
  Monkey = {m1}
  Handler = {}
  NodeActions = {}
  MonkeyModes = {"pause"}
  TTL = 1
  UseFlux = FALSE
  LateRequests = FALSE
  Crashes = FALSE
  Restarts = FALSE
SPECIFICATION FairSpec
CHECK_DEADLOCK FALSE
INVARIANTS
  ShapedThroughHelper
PROPERTIES
  MonkeyRevives
  DeadmanClears
