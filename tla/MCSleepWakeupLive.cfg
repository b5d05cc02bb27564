SPECIFICATION FairSpec
CONSTANTS
  Cpu = {c0, c1}
  Cpu0 = c0
  NPROC = 1
  MaxSleep = 2
  Free = Free
PROPERTIES SleepEnds
