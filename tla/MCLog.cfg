SPECIFICATION FairSpec
CONSTANTS
  Proc = {p1, p2}
  InitProc = p1
  Sector = {s1, s2}
  Data = {d0, d1}
  Zero = d0
  LOGSIZE = 2
  NLOG = 4
  NoBuf = NoBuf
  NoProc = NoProc
INVARIANTS SleeperHasWaker
PROPERTIES RefinesAtomicDisk CommitAndRecoveryEnd
