SPECIFICATION Spec
CONSTANTS
  File = {1, 2}
  NDIRECT = 1
  NUM_INDIRECT = 2
  PTRS_PER_BLOCK = 4
  BSIZE = 2
  NRES = 1
  NDATA = 36
  NLOG = 10
  BPB = 20
  LOGSIZE = 10
  WriteSizes = {3, 20}
  Made <- MadeSizes
  MaxCalls = 3
  BigFilesRemoved = TRUE
  Behind <- NextBuf
INVARIANTS ContentFreed
CHECK_DEADLOCK FALSE
