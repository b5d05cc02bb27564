----------------------------- MODULE MCBufCache -----------------------------
(* Two processes, sectors that outnumber the buffers, and a log that pins at *)
(* most LOGSIZE buffers.  Processes and contents are interchangeable.        *)
EXTENDS BufCache, TLC

Symm == Permutations(Proc) \cup Permutations(Data)
=============================================================================
