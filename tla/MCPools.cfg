SPECIFICATION MCSpec
CONSTANTS
  Proc = {p1, p2}
  Buf = {b1, b2}
  Sector = {1, 2, 3}
  Data = {d0, d1}
  NoSector = 0
  NoBuf = NoBuf
  MaxHold = 2
  LOGSIZE = 1
  DriveErrors = FALSE
  File = {1, 2}
  NDIRECT = 1
  NUM_INDIRECT = 2
  PTRS_PER_BLOCK = 4
  BSIZE = 2
  NRES = 1
  NDATA = 36
  NLOG = 10
  BPB = 20
  LogBlocks = 10
  WriteSizes = {3, 20}
  MaxCalls = 3
  BigFilesRemoved = FALSE
INVARIANTS BuffersExclusive BreadReturnsNewest BlocksAccounted ReadsBack OverflowExplained MemoryAccounted HeapTiled FunctionsCompute
PROPERTIES NoLostWrite ImagesPrivate
SYMMETRY Symm
CHECK_DEADLOCK FALSE
