SPECIFICATION MCSpec
CONSTANTS
  Proc = {p1, p2}
  p1 = p1
  p2 = p2
  NoProc = NoProc
  NINODES = 3
  Name = {"a", "b"}
  Path <- PathSet
  Links <- LinkSet
  Fd = {0}
  MaxCalls = 2
INVARIANTS InodesCounted TreeConsistent FreesOnlyUnused PanicsExplained

CHECK_DEADLOCK FALSE

PROPERTIES CallsReturn
