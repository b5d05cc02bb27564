SPECIFICATION Spec
CONSTANTS
  Cpu = {c0, c1}
  Cpu0 = c0
  NPROC = 2
  MaxSleep = 1
  Free = Free
INVARIANTS OneCpuPerProcess InterruptsFollowLocks NoLostWakeup
