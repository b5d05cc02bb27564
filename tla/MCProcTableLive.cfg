CONSTANTS
  NPROC = 3
  MaxPid = 4
  NCPU = 1
  Pgdir = {g1, g2, g3}
  NoPgdir = NoPgdir
  Kills = {2, 3, 4}
  Threads = FALSE
  Joins = FALSE
SPECIFICATION FairSpec
PROPERTIES ProcessesEnd
