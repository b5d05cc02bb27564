CONSTANTS
  NPROC = 4
  MaxPid = 4
  NCPU = 2
  Pgdir = {g1, g2, g3}
  NoPgdir = NoPgdir
  Kills = {2, 3}
  Threads = TRUE
  Joins = TRUE
SPECIFICATION Spec
SYMMETRY Symm
INVARIANTS ParentAlive WaiterHasReason PgdirAccounted
