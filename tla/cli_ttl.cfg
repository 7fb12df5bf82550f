CONSTANTS
  Node = {n1, n2}
  IP = {i1, i2}
  NoIP = NoIP
  Profile = {part}
  Partition = part
  NoFault = NoFault
  MaxPeers = 15
  Proc = {c1}
  Failures = {}
  None = None
  Shell = {s1, s2}
  NodeActions = {"kill", "start"}
  WithTTL = {TRUE}
  Overlap = TRUE
  Interrupts = FALSE
SPECIFICATION FairSpec
PROPERTIES
  ForgottenFaultsClear
