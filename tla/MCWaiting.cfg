CONSTANTS
  Proc = {p1, p2}
  NoProc = NoProc
  Data = {a, b}
  PIPESIZE = 2
  UINT = 4
  MaxN = 3
  INPUT_BUF = 2
  Plain = {x}
  MaxKeys = 3
  Sector = {1, 2, 3}
  Programs = {"pipe", "console"}
SPECIFICATION MCSpec
INVARIANTS NoLostWakeup
PROPERTIES RefinesFifo IsTty 
SYMMETRY Symm
CHECK_DEADLOCK FALSE
