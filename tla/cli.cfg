CONSTANTS
  Node = {n1, n2, n3}
  IP = {i1, i2, i3}
  NoIP = NoIP
  Profile = {part}
  Partition = part
  NoFault = NoFault
  MaxPeers = 15
  Proc = {c1}
  Failures = {"list", "inspect", "helpers", "run", "shape"}
  None = None
  Shell = {s1}
  NodeActions = {"pause", "kill"}
  WithTTL = {FALSE, TRUE}
  Overlap = FALSE
  Interrupts = TRUE
SPECIFICATION Spec
SYMMETRY Permute
INVARIANTS
  FileMatchesShaping
PROPERTIES
  LinksAccumulate
  KeepsBoard
