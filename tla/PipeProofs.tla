----------------------------- MODULE PipeProofs -----------------------------
(***************************************************************************)
(* Proofs about pipes: for any number of processes, any pipe size and any  *)
(* sizes of reads and writes, the lock is exclusive, the open flags agree  *)
(* with the processes that hold the ends, no sleeper is forgotten, and the *)
(* ring implements a queue (module Fifo).                                  *)
(***************************************************************************)
EXTENDS Pipe, Remainders

\* A remainder is in range.
LEMMA ModRange == \A x \in Nat, n \in Nat \ {0} : x % n \in 0 .. n - 1
BY SMT

\* The counters of a wrapped ring stay in range (pipe.c:92, 115).
LEMMA RingTypes ==
  ASSUME TypeOK
  PROVE  /\ (nread + 1) % UINT \in 0 .. UINT - 1
         /\ (nwrite + 1) % UINT \in 0 .. UINT - 1
         /\ data[nread % PIPESIZE] \in Data
<1>1. nread \in Nat /\ nwrite \in Nat /\ UINT \in Nat \ {0} /\ PIPESIZE \in Nat \ {0}
  BY PipeConstants DEF TypeOK
<1> QED
  BY <1>1, ModRange DEF TypeOK

\* pipealloc and fork establish the invariant.
LEMMA InitIInv == Init => IInv
<1> SUFFICES ASSUME Init PROVE IInv
  OBVIOUS
<1>1. TypeOK
  BY PipeConstants DEF Init, TypeOK, PC
<1>2. LockHeld /\ NoLostWakeup /\ Deciding
  BY PipeConstants DEF Init, LockHeld, NoLostWakeup, Deciding, Holding
<1>3. EndsCounted
  BY DEF Init, EndsCounted, End
<1> QED
  BY <1>1, <1>2, <1>3 DEF IInv

\* A process calls read or write.
LEMMA CallIInv ==
  ASSUME IInv, NEW p \in Proc, Write(p) \/ Read(p)
  PROVE  IInv'
<1> USE PipeConstants
<1>1. TypeOK'
  <2>1. PICK to \in {"w_acquire", "r_acquire"}, n \in 0 .. MaxN :
             pc' = [pc EXCEPT ![p] = to] /\ left' = [left EXCEPT ![p] = n]
    BY DEF Write, Read, Call
  <2>2. UNCHANGED <<pipe, lock, fd, killed, out>>
    BY DEF Write, Read, Call
  <2> QED
    BY <2>1, <2>2 DEF IInv, TypeOK, pipe, PC
<1>2. LockHeld'
  BY DEF IInv, TypeOK, LockHeld, Holding, Write, Read, Call, pipe
<1>3. EndsCounted'
  BY SMTT(30) DEF IInv, TypeOK, EndsCounted, Holding, End, Write, Read, Call, pipe
<1>4. NoLostWakeup' /\ Deciding'
  BY SMTT(30) DEF IInv, TypeOK, LockHeld, EndsCounted, NoLostWakeup, Deciding, Holding, Full, Empty,
     Write, Read, Call, pipe
<1> QED
  BY <1>1, <1>2, <1>3, <1>4 DEF IInv

\* A process takes p->lock; whoever sleeps then has reason to.
LEMMA AcquireIInv ==
  ASSUME IInv, NEW p \in Proc, Acquire(p)
  PROVE  IInv'
<1> USE PipeConstants
<1>1. TypeOK'
  BY DEF IInv, TypeOK, Acquire, pipe, PC, End
<1>2. LockHeld'
  BY DEF IInv, TypeOK, LockHeld, Holding, Acquire, pipe
<1>3. EndsCounted'
  BY DEF IInv, TypeOK, EndsCounted, Holding, End, Acquire, pipe
<1>4. NoLostWakeup' /\ Deciding'
  BY SMTT(30) DEF IInv, TypeOK, LockHeld, EndsCounted, NoLostWakeup, Deciding, Holding, Full, Empty,
     Acquire, pipe
<1> QED
  BY <1>1, <1>2, <1>3, <1>4 DEF IInv

\* A call returns: a writer that has written has woken the readers or was
\* killed, a reader has woken the writers.
LEMMA ReturnIInv ==
  ASSUME IInv, NEW p \in Proc, NEW st, Return(p, st), pc[p] \in Holding,
         \/ st = pc /\ pc[p] = "w_loop" /\ (killed[p] \/ ~readopen)
         \/ st = pc /\ pc[p] = "r_loop"
         \/ st = WakeReaders /\ pc[p] = "w_loop"
         \/ st = WakeWriters /\ pc[p] = "r_copy"
  PROVE  IInv'
<1> USE PipeConstants
<1>1. TypeOK'
  BY DEF IInv, TypeOK, Return, WakeReaders, WakeWriters, Wake, pipe, PC, End
<1>2. LockHeld'
  BY DEF IInv, TypeOK, LockHeld, Holding, Return, WakeReaders, WakeWriters, Wake, pipe
<1>3. EndsCounted'
  BY SMTT(30) DEF IInv, TypeOK, EndsCounted, Holding, End, Return, WakeReaders, WakeWriters, Wake, pipe
<1>4. NoLostWakeup' /\ Deciding'
  BY SMTT(30) DEF IInv, TypeOK, LockHeld, EndsCounted, NoLostWakeup, Deciding, Holding, Full, Empty,
     Return, WakeReaders, WakeWriters, Wake, pipe
<1> QED
  BY <1>1, <1>2, <1>3, <1>4 DEF IInv

\* A process goes to sleep, as it decided to.
LEMMA SleepIInv ==
  ASSUME IInv, NEW p \in Proc, Sleep(p)
  PROVE  IInv'
<1> USE PipeConstants
<1>1. TypeOK'
  BY ZenonT(30) DEF IInv, TypeOK, Sleep, pipe, PC, End
<1>2. LockHeld'
  BY ZenonT(30) DEF IInv, TypeOK, LockHeld, Holding, Sleep, pipe
<1>3. EndsCounted'
  BY DEF IInv, TypeOK, EndsCounted, Holding, End, Sleep, pipe
<1>4. NoLostWakeup' /\ Deciding'
  BY ZenonT(30) DEF IInv, TypeOK, LockHeld, EndsCounted, NoLostWakeup, Deciding, Holding, Full, Empty,
     Sleep, pipe
<1> QED
  BY <1>1, <1>2, <1>3, <1>4 DEF IInv

\* A writer adds a byte; it holds the lock, and no writer sleeps.
LEMMA WriteByteIInv ==
  ASSUME IInv, NEW p \in Proc, WriteByte(p)
  PROVE  IInv'
<1> USE PipeConstants
<1>0. TypeOK
  BY DEF IInv
<1>1. TypeOK'
  <2>1. left' \in [Proc -> 0 .. MaxN]
    BY <1>0 DEF TypeOK, WriteByte
  <2>2. nread' \in 0 .. UINT - 1 /\ nwrite' \in 0 .. UINT - 1 /\ out' \in Data
    BY <1>0, RingTypes DEF TypeOK, WriteByte
  <2>3. data' \in [0 .. PIPESIZE - 1 -> Data]
    BY ZenonT(30), <1>0 DEF TypeOK, WriteByte
  <2> QED
    BY ZenonT(30), <1>0, <2>1, <2>2, <2>3 DEF TypeOK, WriteByte
<1>2. LockHeld'
  BY DEF IInv, TypeOK, LockHeld, Holding, WriteByte, pipe
<1>3. EndsCounted'
  BY ZenonT(30) DEF IInv, TypeOK, EndsCounted, Holding, End, WriteByte, pipe
<1>4. NoLostWakeup' /\ Deciding'
  BY ZenonT(30) DEF IInv, TypeOK, LockHeld, EndsCounted, NoLostWakeup, Deciding, Holding, Full, Empty,
     WriteByte, pipe
<1> QED
  BY <1>1, <1>2, <1>3, <1>4 DEF IInv

\* A writer finds the pipe full and wakes the readers.
LEMMA WriteWaitsIInv ==
  ASSUME IInv, NEW p \in Proc, WriteWaits(p)
  PROVE  IInv'
<1> USE PipeConstants
<1>1. TypeOK'
  BY DEF IInv, TypeOK, WriteWaits, WakeReaders, Wake, pipe, PC, End
<1>2. LockHeld'
  BY DEF IInv, TypeOK, LockHeld, Holding, WriteWaits, WakeReaders, Wake, pipe
<1>3. EndsCounted'
  BY DEF IInv, TypeOK, EndsCounted, Holding, End, WriteWaits, WakeReaders, Wake, pipe
<1>4. NoLostWakeup' /\ Deciding'
  BY ZenonT(30) DEF IInv, TypeOK, LockHeld, EndsCounted, NoLostWakeup, Deciding, Holding, Full, Empty,
     WriteWaits, WakeReaders, Wake, pipe
<1> QED
  BY <1>1, <1>2, <1>3, <1>4 DEF IInv

\* A reader finds the pipe empty, or not.
LEMMA ReadLoopIInv ==
  ASSUME IInv, NEW p \in Proc, ReadWaits(p) \/ ReadStarts(p)
  PROVE  IInv'
<1> USE PipeConstants
<1>1. TypeOK'
  BY ZenonT(30) DEF IInv, TypeOK, ReadWaits, ReadStarts, pipe, PC, End
<1>2. LockHeld'
  BY DEF IInv, TypeOK, LockHeld, Holding, ReadWaits, ReadStarts, pipe
<1>3. EndsCounted'
  BY DEF IInv, TypeOK, EndsCounted, Holding, End, ReadWaits, ReadStarts, pipe
<1>4. NoLostWakeup' /\ Deciding'
  BY SMTT(30) DEF IInv, TypeOK, LockHeld, EndsCounted, NoLostWakeup, Deciding, Holding, Full, Empty,
     ReadWaits, ReadStarts, pipe
<1> QED
  BY <1>1, <1>2, <1>3, <1>4 DEF IInv

\* A reader takes a byte; it holds the lock, and no reader sleeps.
LEMMA ReadByteIInv ==
  ASSUME IInv, NEW p \in Proc, ReadByte(p)
  PROVE  IInv'
<1> USE PipeConstants
<1>0. TypeOK
  BY DEF IInv
<1>1. TypeOK'
  <2>1. left' \in [Proc -> 0 .. MaxN]
    BY SMTT(30), <1>0 DEF TypeOK, ReadByte
  <2>2. nread' \in 0 .. UINT - 1 /\ nwrite' \in 0 .. UINT - 1 /\ out' \in Data
    BY <1>0, RingTypes DEF TypeOK, ReadByte
  <2>3. data' \in [0 .. PIPESIZE - 1 -> Data]
    BY <1>0 DEF TypeOK, ReadByte
  <2> QED
    BY Zenon, <1>0, <2>1, <2>2, <2>3 DEF TypeOK, ReadByte
<1>2. LockHeld'
  BY DEF IInv, TypeOK, LockHeld, Holding, ReadByte, pipe
<1>3. EndsCounted'
  BY DEF IInv, TypeOK, EndsCounted, Holding, End, ReadByte, pipe
<1>4. NoLostWakeup' /\ Deciding'
  BY DEF IInv, TypeOK, LockHeld, EndsCounted, NoLostWakeup, Deciding, Holding, Full, Empty,
     ReadByte, pipe
<1> QED
  BY <1>1, <1>2, <1>3, <1>4 DEF IInv

\* An end is closed, the last time with a wakeup of the other end.
LEMMA CloseIInv ==
  ASSUME IInv, NEW p \in Proc, NEW e \in End, Close(p, e)
  PROVE  IInv'
<1> USE PipeConstants
<1>1. TypeOK'
  BY ZenonT(30) DEF IInv, TypeOK, Close, pipeclose, WakeReaders, WakeWriters, Wake, pipe, PC, End
<1>2. LockHeld'
  BY DEF IInv, TypeOK, LockHeld, Holding, Close, pipeclose, WakeReaders, WakeWriters, Wake, pipe
<1>3. /\ pc[p] = "user" /\ e \in fd[p] /\ fd'[p] = fd[p] \ {e}
      /\ \A o \in Proc \ {p} : fd'[o] = fd[o]
  BY DEF IInv, TypeOK, Close
<1>4. CASE \E o \in Proc \ {p} : e \in fd[o]
  <2>1. UNCHANGED <<readopen, writeopen, pc, nread, nwrite, killed>>
    BY <1>4 DEF Close
  <2>2. EndsCounted'
    BY <1>3, <1>4, <2>1 DEF IInv, EndsCounted, End
  <2>3. NoLostWakeup' /\ Deciding'
    BY <2>1 DEF IInv, NoLostWakeup, Deciding, Full, Empty
  <2> QED
    BY <1>1, <1>2, <2>2, <2>3 DEF IInv
<1>5. CASE ~ \E o \in Proc \ {p} : e \in fd[o]
  <2>1. /\ lock = NoProc /\ UNCHANGED <<nread, nwrite, killed>>
        /\ readopen' = (readopen /\ e # "r") /\ writeopen' = (writeopen /\ e # "w")
        /\ \A o \in Proc : pc'[o] = IF e = "w" /\ pc[o] = "r_asleep" THEN "r_acquire"
                                    ELSE IF e = "r" /\ pc[o] = "w_asleep" THEN "w_acquire"
                                    ELSE pc[o]
    BY <1>5 DEF Close, pipeclose, WakeReaders, WakeWriters, Wake, End
  <2>2. EndsCounted'
    <3>1. /\ readopen' <=> \E o \in Proc : "r" \in fd'[o]
          /\ writeopen' <=> \E o \in Proc : "w" \in fd'[o]
      <4>1. e = "r" \/ e = "w"
        BY DEF End
      <4>2. readopen \in BOOLEAN /\ writeopen \in BOOLEAN
        BY DEF IInv, TypeOK
      <4>3. CASE e = "r"
        <5>1. readopen' = FALSE /\ writeopen' = writeopen
          BY ZenonT(30), <2>1, <4>2, <4>3
        <5>2. \A o \in Proc : "r" \notin fd'[o] /\ ("w" \in fd'[o] <=> "w" \in fd[o])
          BY <1>3, <1>5, <4>3
        <5> QED
          BY <5>1, <5>2 DEF IInv, EndsCounted
      <4>4. CASE e = "w"
        <5>1. writeopen' = FALSE /\ readopen' = readopen
          BY ZenonT(30), <2>1, <4>2, <4>4
        <5>2. \A o \in Proc : "w" \notin fd'[o] /\ ("r" \in fd'[o] <=> "r" \in fd[o])
          BY <1>3, <1>5, <4>4
        <5> QED
          BY <5>1, <5>2 DEF IInv, EndsCounted
      <4> QED
        BY <4>1, <4>3, <4>4
    <3>2. \A o \in Proc \ {p} : fd'[o] = fd[o]
      BY <1>3
    <3> QED
      BY <1>3, <2>1, <3>1, <3>2 DEF IInv, EndsCounted
  <2>3. NoLostWakeup'
    BY ZenonT(30), <1>5, <2>1 DEF IInv, NoLostWakeup, LockHeld, Holding, Full, Empty, End
  <2>4. Deciding'
    BY <2>1 DEF IInv, LockHeld, Holding, Deciding
  <2> QED
    BY <1>1, <1>2, <2>2, <2>3, <2>4 DEF IInv
<1> QED
  BY <1>4, <1>5

\* kill.
LEMMA KillIInv ==
  ASSUME IInv, NEW p \in Proc, Kill(p)
  PROVE  IInv'
<1> USE PipeConstants
<1>1. TypeOK'
  BY DEF IInv, TypeOK, Kill, pipe, PC, End
<1>2. LockHeld'
  BY DEF IInv, TypeOK, LockHeld, Holding, Kill, pipe
<1>3. EndsCounted'
  BY DEF IInv, TypeOK, EndsCounted, Holding, End, Kill, pipe
<1>4. NoLostWakeup' /\ Deciding'
  BY DEF IInv, TypeOK, LockHeld, EndsCounted, NoLostWakeup, Deciding, Holding, Full, Empty,
     Kill, pipe
<1> QED
  BY <1>1, <1>2, <1>3, <1>4 DEF IInv

\* Every step of the system keeps the invariant.
LEMMA NextIInv == IInv /\ [Next]_vars => IInv'
<1> SUFFICES ASSUME IInv, [Next]_vars PROVE IInv'
  OBVIOUS
<1>1. CASE UNCHANGED vars
  BY <1>1 DEF IInv, TypeOK, LockHeld, EndsCounted, NoLostWakeup, Deciding, Full, Empty,
     vars, pipe
<1>2. ASSUME NEW p \in Proc, Step(p) PROVE IInv'
  <2>1. CASE WriteFails(p) \/ ReadFails(p)
    BY <2>1, ReturnIInv DEF WriteFails, ReadFails, Holding
  <2>2. CASE WriteDone(p) \/ ReadDone(p)
    BY <2>2, ReturnIInv DEF WriteDone, ReadDone, Holding
  <2> QED
    BY <1>2, <2>1, <2>2, AcquireIInv, SleepIInv, WriteByteIInv, WriteWaitsIInv,
       ReadLoopIInv, ReadByteIInv DEF Step
<1> QED
  BY <1>1, <1>2, CallIInv, CloseIInv, KillIInv DEF Next

\* The invariant of pipes holds of every behaviour.
THEOREM PipeInvariant == Spec => []IInv
BY InitIInv, NextIInv, PTL DEF Spec

\* No reader or writer sleeps on although what it waits for has happened, the
\* silent exit of a killed writer aside (pipewrite, piperead, pipeclose).
THEOREM PipeNoLostWakeup == Spec => []NoLostWakeup
<1>1. IInv => NoLostWakeup
  BY DEF IInv
<1> QED
  BY <1>1, PipeInvariant, PTL

-----------------------------------------------------------------------------
(* The ring implements a queue.                                             *)

\* Constants and counters, as numbers.
LEMMA RingNumbers ==
  ASSUME TypeOK
  PROVE  /\ PIPESIZE \in Nat \ {0} /\ UINT \in Nat \ {0} /\ PIPESIZE < UINT
         /\ nread \in Nat /\ nwrite \in Nat /\ nread < UINT /\ nwrite < UINT
BY PipeConstants DEF TypeOK

\* nread++ and nwrite++ on a uint (pipe.c:92, 115).
LEMMA Increment ==
  ASSUME NEW x \in 0 .. UINT - 1
  PROVE  (x + 1) % UINT = IF x = UINT - 1 THEN 0 ELSE x + 1
<1>1. UINT \in Nat \ {0} /\ PIPESIZE < UINT /\ PIPESIZE \in Nat \ {0}
  BY PipeConstants
<1>2. x \in Nat /\ x + 1 \in Nat /\ x < UINT
  BY <1>1
<1>3. /\ x + 1 < UINT => (x + 1) % UINT = x + 1
      /\ UINT <= x + 1 /\ x + 1 < UINT + UINT => (x + 1) % UINT = (x + 1) - UINT
  BY Zenon, <1>1, <1>2, ModSmall
<1> QED
  BY <1>1, <1>2, <1>3

\* nwrite - nread on uints.
LEMMA Difference ==
  ASSUME NEW r \in 0 .. UINT - 1, NEW w \in 0 .. UINT - 1
  PROVE  (w + UINT - r) % UINT = IF r <= w THEN w - r ELSE w + UINT - r
<1>1. UINT \in Nat \ {0}
  BY PipeConstants
<1>2. w + UINT - r \in Nat
  BY <1>1
<1>3. /\ w + UINT - r < UINT => (w + UINT - r) % UINT = w + UINT - r
      /\ /\ UINT <= w + UINT - r
         /\ w + UINT - r < UINT + UINT
         => (w + UINT - r) % UINT = (w + UINT - r) - UINT
  BY Zenon, <1>1, <1>2, ModSmall
<1> QED
  BY <1>1, <1>3

\* How many bytes are in the ring.
LEMMA UsedIs ==
  ASSUME TypeOK
  PROVE  /\ Used = IF nread <= nwrite THEN nwrite - nread ELSE nwrite + UINT - nread
         /\ Used \in Nat /\ Used < UINT
<1>1. Used = IF nread <= nwrite THEN nwrite - nread ELSE nwrite + UINT - nread
  BY Zenon, Difference DEF TypeOK, Used
<1> QED
  BY <1>1, RingNumbers

\* What pipewrite and piperead compare (pipe.c:84, 105).
LEMMA FullEmpty ==
  ASSUME TypeOK
  PROVE  (Full <=> Used = PIPESIZE) /\ (Empty <=> Used = 0)
<1>1. nread + PIPESIZE \in Nat
  BY RingNumbers
<1>2. /\ nread + PIPESIZE < UINT => (nread + PIPESIZE) % UINT = nread + PIPESIZE
      /\ /\ UINT <= nread + PIPESIZE
         /\ nread + PIPESIZE < UINT + UINT
         => (nread + PIPESIZE) % UINT = (nread + PIPESIZE) - UINT
  BY <1>1, RingNumbers, ModSmall
<1> QED
  BY <1>2, RingNumbers, UsedIs DEF Full, Empty

\* A counter that has wrapped points to the same byte: PIPESIZE divides 2^32.
LEMMA WrappedIndex ==
  ASSUME TypeOK, NEW x \in Nat
  PROVE  (x + UINT) % PIPESIZE = x % PIPESIZE
<1>1. UINT \in Nat /\ PIPESIZE \in Nat \ {0} /\ UINT % PIPESIZE = 0
  BY RingNumbers, PipeConstants
<1>2. PICK k \in Nat : UINT = PIPESIZE * k + 0
  BY Zenon, <1>1, ModDiv
<1>3. UINT = PIPESIZE * k
  BY <1>1, <1>2
<1>4. (x + PIPESIZE * k) % PIPESIZE = x % PIPESIZE
  BY Zenon, <1>1, ModPeriod
<1> QED
  BY Zenon, <1>3, <1>4

\* The bytes are bytes.
LEMMA Bytes ==
  ASSUME NEW d \in [0 .. PIPESIZE - 1 -> Data], NEW r \in 0 .. UINT - 1, NEW n \in Nat
  PROVE  [i \in 1 .. n |-> d[(r + i - 1) % PIPESIZE]] \in [1 .. n -> Data]
<1> SUFFICES ASSUME NEW i \in 1 .. n
             PROVE  d[(r + i - 1) % PIPESIZE] \in Data
  BY Zenon
<1>1. r + i - 1 \in Nat /\ PIPESIZE \in Nat \ {0}
  BY PipeConstants
<1>2. (r + i - 1) % PIPESIZE \in 0 .. PIPESIZE - 1
  BY Zenon, <1>1, ModDiv
<1> QED
  BY Zenon, <1>2

\* Steps that leave the ring alone leave its contents alone.
LEMMA SameRing ==
  ASSUME UNCHANGED <<data, nread, nwrite>>
  PROVE  Contents' = Contents /\ Used' = Used
BY DEF Contents, Used

\* A writer appends a byte, and writes over none that is unread.
LEMMA WritePuts ==
  ASSUME IInv, IInv', RingInv, NEW p \in Proc, WriteByte(p)
  PROVE  RingInv' /\ Abstract!Put
<1>0. TypeOK /\ TypeOK'
  BY DEF IInv
<1>1. PICK d \in Data : data' = [data EXCEPT ![nwrite % PIPESIZE] = d]
  BY Zenon DEF WriteByte
<1>2. nread' = nread /\ nwrite' = IF nwrite = UINT - 1 THEN 0 ELSE nwrite + 1
  BY <1>0, Increment DEF WriteByte, TypeOK
<1>3. Used < PIPESIZE
  BY <1>0, UsedIs, FullEmpty, RingNumbers DEF WriteByte, RingInv
<1>4. Used' = IF nread <= nwrite' THEN nwrite' - nread ELSE nwrite' + UINT - nread
  BY Zenon, <1>0, <1>2, Difference DEF TypeOK, Used
<1>5. Used' = Used + 1
  BY <1>0, <1>2, <1>3, <1>4, UsedIs, RingNumbers
<1>6. \A i \in 1 .. Used : /\ nread + i - 1 \in Nat
                           /\ (nread + i - 1) % PIPESIZE # nwrite % PIPESIZE
  <2> SUFFICES ASSUME NEW i \in 1 .. Used
               PROVE  /\ nread + i - 1 \in Nat
                      /\ (nread + i - 1) % PIPESIZE # nwrite % PIPESIZE
    OBVIOUS
  <2>1. nread + i - 1 \in Nat
    BY <1>0, UsedIs, RingNumbers
  <2>2. PICK w \in {nwrite, nwrite + UINT} : w = nread + Used
    BY <1>0, UsedIs, RingNumbers
  <2>3. w \in Nat /\ nread + i - 1 < w /\ w < (nread + i - 1) + PIPESIZE
    BY <1>0, <1>3, <2>2, UsedIs, RingNumbers
  <2>4. w % PIPESIZE = nwrite % PIPESIZE
    BY <1>0, <2>2, WrappedIndex, RingNumbers
  <2>5. (nread + i - 1) % PIPESIZE # w % PIPESIZE
    BY Zenon, <1>0, <2>1, <2>3, RingNumbers, ModDistinct
  <2> QED
    BY <2>1, <2>4, <2>5
<1>7. (nread + Used) % PIPESIZE = nwrite % PIPESIZE /\ nwrite % PIPESIZE \in 0 .. PIPESIZE - 1
  <2>1. nread + Used \in {nwrite, nwrite + UINT}
    BY <1>0, UsedIs, RingNumbers
  <2>2. nwrite % PIPESIZE \in 0 .. PIPESIZE - 1
    BY Zenon, <1>0, RingNumbers, ModDiv
  <2> QED
    BY Zenon, <1>0, <2>1, <2>2, WrappedIndex, RingNumbers
<1>8. \A i \in 1 .. Used : Contents'[i] = Contents[i]
  <2> SUFFICES ASSUME NEW i \in 1 .. Used PROVE Contents'[i] = Contents[i]
    OBVIOUS
  <2>1. i \in 1 .. Used'
    BY <1>0, <1>5, UsedIs
  <2>2. (nread + i - 1) % PIPESIZE \in 0 .. PIPESIZE - 1
    BY Zenon, <1>0, <1>6, RingNumbers, ModDiv
  <2>3. data'[(nread + i - 1) % PIPESIZE] = data[(nread + i - 1) % PIPESIZE]
    BY Zenon, <1>0, <1>1, <1>6, <2>2 DEF TypeOK
  <2> QED
    BY Zenon, <1>2, <2>1, <2>3 DEF Contents
<1>9. Contents'[Used + 1] = d
  <2>1. Used + 1 \in 1 .. Used' /\ nread + (Used + 1) - 1 = nread + Used
    BY <1>0, <1>5, UsedIs, RingNumbers
  <2>2. data'[nwrite % PIPESIZE] = d
    BY <1>0, <1>1, <1>7 DEF TypeOK
  <2> QED
    BY Zenon, <1>2, <1>7, <2>1, <2>2 DEF Contents
<1>10. Contents' = Append(Contents, d) /\ Len(Contents) = Used
  <2>1. Used \in Nat /\ Used' \in Nat
    BY <1>0, <1>5, UsedIs
  <2>2. Contents \in [1 .. Used -> Data] /\ Contents' \in [1 .. Used' -> Data]
    BY Zenon, <1>0, <2>1, Bytes DEF TypeOK, Contents
  <2> QED
    BY Zenon, <1>5, <1>8, <1>9, <2>1, <2>2, Appended
<1>11. RingInv'
  BY <1>0, <1>3, <1>5, UsedIs, RingNumbers DEF RingInv
<1> QED
  BY <1>3, <1>10, <1>11 DEF Abstract!Put, WriteByte

\* A reader takes the oldest byte out.
LEMMA ReadGets ==
  ASSUME IInv, IInv', RingInv, NEW p \in Proc, ReadByte(p)
  PROVE  RingInv' /\ Abstract!Get
<1>0. TypeOK /\ TypeOK'
  BY DEF IInv
<1>1. nwrite' = nwrite /\ data' = data /\ nread' = IF nread = UINT - 1 THEN 0 ELSE nread + 1
  BY <1>0, Increment DEF ReadByte, TypeOK
<1>2. Used # 0
  BY <1>0, FullEmpty DEF ReadByte
<1>3. Used' = IF nread' <= nwrite THEN nwrite - nread' ELSE nwrite + UINT - nread'
  BY Zenon, <1>0, <1>1, Difference DEF TypeOK, Used
<1>4. PICK m \in Nat : Used' = m /\ Used = m + 1
  <2>1. Used' \in Nat /\ Used = Used' + 1
    BY <1>0, <1>1, <1>2, <1>3, UsedIs, RingNumbers
  <2> QED
    BY Zenon, <2>1
<1>5. \A i \in 1 .. m : (nread' + i - 1) % PIPESIZE = (nread + (i + 1) - 1) % PIPESIZE
  <2> SUFFICES ASSUME NEW i \in 1 .. m
               PROVE  (nread' + i - 1) % PIPESIZE = (nread + (i + 1) - 1) % PIPESIZE
    OBVIOUS
  <2>1. nread' + i - 1 \in Nat
    BY <1>0, <1>1, <1>4, RingNumbers
  <2>2. nread + (i + 1) - 1 \in {nread' + i - 1, (nread' + i - 1) + UINT}
    BY <1>0, <1>1, <1>4, RingNumbers
  <2> QED
    BY <1>0, <2>1, <2>2, WrappedIndex
<1>6. \A i \in 1 .. m : Contents'[i] = Contents[i + 1]
  <2> SUFFICES ASSUME NEW i \in 1 .. m PROVE Contents'[i] = Contents[i + 1]
    OBVIOUS
  <2>1. i \in 1 .. m /\ i + 1 \in 1 .. m + 1
    OBVIOUS
  <2> QED
    BY Zenon, <1>1, <1>4, <1>5, <2>1 DEF Contents
<1>7. Contents' = Tail(Contents) /\ Head(Contents) = Contents[1] /\ Contents # <<>>
  <2>1. m + 1 \in Nat
    OBVIOUS
  <2>2. Contents' \in [1 .. m -> Data] /\ Contents \in [1 .. m + 1 -> Data]
    BY Zenon, <1>0, <1>4, <2>1, Bytes DEF TypeOK, Contents
  <2> QED
    BY <1>6, <2>2, Behead
<1>8. out' = Contents[1]
  <2>1. 1 \in 1 .. m + 1 /\ nread + 1 - 1 = nread
    BY <1>0, RingNumbers
  <2> QED
    BY Zenon, <1>4, <2>1 DEF Contents, ReadByte
<1>9. RingInv'
  BY <1>0, <1>4, UsedIs, RingNumbers DEF RingInv
<1> QED
  BY <1>7, <1>8, <1>9 DEF Abstract!Get, ReadByte

\* Every step keeps the ring within its size and is a step of the queue, or
\* one the queue does not see.
LEMMA NextFifo ==
  IInv /\ IInv' /\ RingInv /\ [Next]_vars
     => /\ RingInv'
        /\ [Abstract!Put \/ Abstract!Get \/ Abstract!CloseRead \/ Abstract!CloseWrite]_<<
              Contents, out, readopen, writeopen>>
<1> SUFFICES ASSUME IInv, IInv', RingInv, [Next]_vars
             PROVE  /\ RingInv'
                    /\ \/ Abstract!Put \/ Abstract!Get
                       \/ Abstract!CloseRead \/ Abstract!CloseWrite
                       \/ UNCHANGED <<Contents, out, readopen, writeopen>>
  OBVIOUS
<1>1. ASSUME UNCHANGED <<data, nread, nwrite, out>>,
             \/ UNCHANGED <<readopen, writeopen>>
             \/ readopen /\ readopen' = FALSE /\ writeopen' = writeopen
             \/ writeopen /\ writeopen' = FALSE /\ readopen' = readopen
      PROVE  /\ RingInv'
             /\ \/ Abstract!CloseRead \/ Abstract!CloseWrite
                \/ UNCHANGED <<Contents, out, readopen, writeopen>>
  <2>1. Contents' = Contents /\ Used' = Used
    BY <1>1, SameRing
  <2> QED
    BY <1>1, <2>1 DEF RingInv, Abstract!CloseRead, Abstract!CloseWrite
<1>2. ASSUME NEW p \in Proc, NEW e \in End, Close(p, e)
      PROVE  /\ UNCHANGED <<data, nread, nwrite, out>>
             /\ \/ UNCHANGED <<readopen, writeopen>>
                \/ readopen /\ readopen' = FALSE /\ writeopen' = writeopen
                \/ writeopen /\ writeopen' = FALSE /\ readopen' = readopen
  <2>1. readopen \in BOOLEAN /\ writeopen \in BOOLEAN /\ e \in {"r", "w"}
    BY DEF IInv, TypeOK, End
  <2> QED
    BY Zenon, <1>2, <2>1 DEF Close, pipeclose
<1>3. ASSUME NEW p \in Proc,
             \/ Write(p) \/ Read(p) \/ Kill(p) \/ Acquire(p) \/ Sleep(p)
             \/ WriteFails(p) \/ WriteWaits(p) \/ WriteDone(p)
             \/ ReadFails(p) \/ ReadWaits(p) \/ ReadStarts(p) \/ ReadDone(p)
      PROVE  UNCHANGED <<data, nread, nwrite, out, readopen, writeopen>>
  BY Zenon, <1>3 DEF Write, Read, Call, Kill, Acquire, Sleep, WriteFails, WriteWaits,
     WriteDone, ReadFails, ReadWaits, ReadStarts, ReadDone, Return, pipe
<1>4. CASE UNCHANGED vars
  BY Zenon, <1>1, <1>4 DEF vars, pipe
<1> QED
  BY Zenon, <1>1, <1>2, <1>3, <1>4, WritePuts, ReadGets DEF Next, Step

\* The pipe implements a bounded queue of bytes, for any number of readers and
\* writers, any PIPESIZE that divides the range of a uint, and however often
\* nread and nwrite wrap around (pipewrite, piperead and pipeclose).
THEOREM PipeIsFifo == Spec => RefinesFifo
<1>1. Init => RingInv /\ Abstract!Init
  <2> SUFFICES ASSUME Init PROVE RingInv /\ Abstract!Init
    OBVIOUS
  <2>1. Used = 0
    <3>1. TypeOK /\ nread = 0 /\ nwrite = 0
      BY InitIInv DEF IInv, Init
    <3> QED
      BY <3>1, UsedIs
  <2>2. Contents = <<>>
    BY <2>1 DEF Contents
  <2>3. out \in Data /\ readopen = TRUE /\ writeopen = TRUE
    BY Zenon DEF Init
  <2> QED
    BY <2>1, <2>2, <2>3, PipeConstants DEF RingInv, Abstract!Init
<1> QED
  BY <1>1, PipeInvariant, NextFifo, PTL DEF Spec, RefinesFifo, Abstract!Spec
=============================================================================
