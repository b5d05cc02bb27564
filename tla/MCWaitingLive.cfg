CONSTANTS
  Proc = {p1, p2}
  NoProc = NoProc
  Data = {a}
  PIPESIZE = 1
  UINT = 2
  MaxN = 2
  INPUT_BUF = 1
  Plain = {x}
  MaxKeys = 2
  Sector = {1, 2}
  Programs = {"pipe", "console", "cache"}
SPECIFICATION MCFairSpec
PROPERTIES CallsEnd InputIsRead WaitersWake
CHECK_DEADLOCK FALSE
