CONSTANTS
  p0 = p0
  p1 = p1
  p2 = p2
  Procs = {p0, p1, p2}
  Crashed = {p0}
  NoProc = noproc
  Paths = {s1, s2}
  NoPath = nopath
  Nodes <- MCNodes
  Blocks <- MCBlocks
  Unset = ""
SPECIFICATION Spec
SYMMETRY MCSymmetry
INVARIANTS
  TypeOK
  OneInstance
  InstanceServed
  DevicesSettled
PROPERTIES
  CleanExit
CHECK_DEADLOCK FALSE
