-------------------------------- MODULE Pipe --------------------------------
(***************************************************************************)
(* Pipes (pipe.c): pipewrite, piperead and pipeclose, called by processes  *)
(* that hold one or both ends.  Between acquire(&p->lock) and release only *)
(* kill, which does not take that lock, interferes; sleep gives the lock   *)
(* up and goes to sleep in one step (module SleepWakeup).                  *)
(***************************************************************************)
EXTENDS Naturals, Sequences, FiniteSets

CONSTANTS Proc, NoProc,
          Data,       \* bytes
          PIPESIZE,
          UINT,       \* the number of values of a uint
          MaxN        \* bound on the size of a read or write

ASSUME PipeConstants == /\ NoProc \notin Proc
                        /\ {PIPESIZE, UINT} \subseteq Nat \ {0} /\ MaxN \in Nat
                        /\ UINT % PIPESIZE = 0 /\ UINT > PIPESIZE
                        /\ Data # {}

VARIABLES data, nread, nwrite, readopen, writeopen,   \* struct pipe
          lock,     \* the process that holds p->lock
          fd,       \* the ends each process has open
          pc,       \* where in pipewrite ("w...") or piperead ("r...")
          left,     \* n - i
          killed,
          out       \* the last byte copied to a reader

pipe == <<data, nread, nwrite, readopen, writeopen>>
vars == <<pipe, lock, fd, pc, left, killed, out>>

End == {"r", "w"}
PC == {"user", "w_acquire", "w_loop", "w_sleep", "w_asleep",
       "r_acquire", "r_loop", "r_copy", "r_sleep", "r_asleep"}

TypeOK == /\ data \in [0 .. PIPESIZE - 1 -> Data]
          /\ nread \in 0 .. UINT - 1 /\ nwrite \in 0 .. UINT - 1
          /\ readopen \in BOOLEAN /\ writeopen \in BOOLEAN
          /\ lock \in Proc \cup {NoProc}
          /\ fd \in [Proc -> SUBSET End]
          /\ pc \in [Proc -> PC]
          /\ left \in [Proc -> 0 .. MaxN]
          /\ killed \in [Proc -> BOOLEAN]
          /\ out \in Data

\* pipealloc, and the forks and closes that hand its ends out.
Init == /\ \E d \in Data : data = [i \in 0 .. PIPESIZE - 1 |-> d] /\ out = d
        /\ nread = 0 /\ nwrite = 0
        /\ readopen = TRUE /\ writeopen = TRUE
        /\ lock = NoProc
        /\ fd \in [Proc -> SUBSET End] /\ UNION {fd[p] : p \in Proc} = End
        /\ pc = [p \in Proc |-> "user"]
        /\ left = [p \in Proc |-> 0]
        /\ killed = [p \in Proc |-> FALSE]

-----------------------------------------------------------------------------
\* The ring.
FullTooLate == nwrite = (nread + PIPESIZE + 1) % UINT

Full == nwrite = (nread + PIPESIZE) % UINT

Empty == nread = nwrite

\* Every process after wakeup(&p->nread) and wakeup(&p->nwrite): those it
\* wakes take the lock again.
Wake(from, to) == [p \in Proc |-> IF pc[p] = from THEN to ELSE pc[p]]

WakeReaders == Wake("r_asleep", "r_acquire")
WakeWriters == Wake("w_asleep", "w_acquire")

\* A process in user space calls read or write.
Call(p, e, to) == /\ pc[p] = "user" /\ e \in fd[p] /\ ~killed[p]
                  /\ pc' = [pc EXCEPT ![p] = to]
                  /\ \E n \in 0 .. MaxN : left' = [left EXCEPT ![p] = n]
                  /\ UNCHANGED <<pipe, lock, fd, killed, out>>

Write(p) == Call(p, "w", "w_acquire")
Read(p) == Call(p, "r", "r_acquire")

Acquire(p) ==
  /\ lock = NoProc
  /\ lock' = p
  /\ \/ pc[p] = "w_acquire" /\ pc' = [pc EXCEPT ![p] = "w_loop"]
     \/ pc[p] = "r_acquire" /\ pc' = [pc EXCEPT ![p] = "r_loop"]
  /\ UNCHANGED <<pipe, fd, left, killed, out>>

\* release(&p->lock) and return, in the states st the others are left in.
Return(p, st) == /\ lock' = NoProc
                 /\ pc' = [st EXCEPT ![p] = "user"]
                 /\ left' = [left EXCEPT ![p] = 0]
                 /\ UNCHANGED <<pipe, fd, killed, out>>

Sleep(p) ==
  /\ lock' = NoProc
  /\ \/ pc[p] = "w_sleep" /\ pc' = [pc EXCEPT ![p] = "w_asleep"]
     \/ pc[p] = "r_sleep" /\ pc' = [pc EXCEPT ![p] = "r_asleep"]
  /\ UNCHANGED <<pipe, fd, left, killed, out>>

-----------------------------------------------------------------------------
(* pipewrite.                                                               *)

WriteByte(p) ==
  /\ pc[p] = "w_loop" /\ left[p] > 0 /\ ~Full
  /\ \E d \in Data : data' = [data EXCEPT ![nwrite % PIPESIZE] = d]
  /\ nwrite' = (nwrite + 1) % UINT
  /\ left' = [left EXCEPT ![p] = @ - 1]
  /\ UNCHANGED <<nread, readopen, writeopen, lock, fd, pc, killed, out>>

\* The pipe is full: fail, or wake the readers before going to sleep.
WriteFails(p) ==
  /\ pc[p] = "w_loop" /\ left[p] > 0 /\ Full
  /\ ~readopen \/ killed[p]
  /\ Return(p, pc)

WriteWaitsQuietly(p) ==
  /\ pc[p] = "w_loop" /\ left[p] > 0 /\ Full
  /\ readopen /\ ~killed[p]
  /\ pc' = [pc EXCEPT ![p] = "w_sleep"]
  /\ UNCHANGED <<pipe, lock, fd, left, killed, out>>

WriteWaits(p) ==
  /\ pc[p] = "w_loop" /\ left[p] > 0 /\ Full
  /\ readopen /\ ~killed[p]
  /\ pc' = [WakeReaders EXCEPT ![p] = "w_sleep"]
  /\ UNCHANGED <<pipe, lock, fd, left, killed, out>>

WriteDone(p) ==
  /\ pc[p] = "w_loop" /\ left[p] = 0
  /\ Return(p, WakeReaders)

(* piperead.                                                                *)

ReadFails(p) ==
  /\ pc[p] = "r_loop" /\ Empty /\ writeopen /\ killed[p]
  /\ Return(p, pc)

ReadWaits(p) ==
  /\ pc[p] = "r_loop" /\ Empty /\ writeopen /\ ~killed[p]
  /\ pc' = [pc EXCEPT ![p] = "r_sleep"]
  /\ UNCHANGED <<pipe, lock, fd, left, killed, out>>

ReadStarts(p) ==
  /\ pc[p] = "r_loop" /\ ~(Empty /\ writeopen)
  /\ pc' = [pc EXCEPT ![p] = "r_copy"]
  /\ UNCHANGED <<pipe, lock, fd, left, killed, out>>

ReadByte(p) ==
  /\ pc[p] = "r_copy" /\ left[p] > 0 /\ ~Empty
  /\ out' = data[nread % PIPESIZE]
  /\ nread' = (nread + 1) % UINT
  /\ left' = [left EXCEPT ![p] = @ - 1]
  /\ UNCHANGED <<data, nwrite, readopen, writeopen, lock, fd, pc, killed>>

ReadDone(p) ==
  /\ pc[p] = "r_copy" /\ (left[p] = 0 \/ Empty)
  /\ Return(p, WakeWriters)

-----------------------------------------------------------------------------
\* fileclose: the last close of an end is pipeclose, which wakes those who
\* wait at the other end.  Dropping the reference and pipeclose are one step: a
\* process between them counts as still holding the end.
ClosesSilently(e) == /\ readopen' = (readopen /\ e # "r")
                     /\ writeopen' = (writeopen /\ e # "w")
                     /\ UNCHANGED pc

pipeclose(e) == /\ readopen' = (readopen /\ e # "r")
                /\ writeopen' = (writeopen /\ e # "w")
                /\ pc' = IF e = "w" THEN WakeReaders ELSE WakeWriters

Close(p, e) ==
  /\ pc[p] = "user" /\ e \in fd[p]
  /\ fd' = [fd EXCEPT ![p] = @ \ {e}]
  /\ IF \E o \in Proc \ {p} : e \in fd[o]
     THEN UNCHANGED <<readopen, writeopen, pc>>
     ELSE lock = NoProc /\ pipeclose(e)
  /\ UNCHANGED <<data, nread, nwrite, lock, left, killed, out>>

\* kill makes a sleeper runnable.
Kill(p) ==
  /\ killed' = [killed EXCEPT ![p] = TRUE]
  /\ pc' = CASE pc[p] = "r_asleep" -> [pc EXCEPT ![p] = "r_acquire"]
             [] pc[p] = "w_asleep" -> [pc EXCEPT ![p] = "w_acquire"]
             [] OTHER -> pc
  /\ UNCHANGED <<pipe, lock, fd, left, out>>

Step(p) == \/ Acquire(p) \/ Sleep(p)
           \/ WriteByte(p) \/ WriteFails(p) \/ WriteWaits(p) \/ WriteDone(p)
           \/ ReadFails(p) \/ ReadWaits(p) \/ ReadStarts(p) \/ ReadByte(p) \/ ReadDone(p)

Next == \E p \in Proc : \/ Write(p) \/ Read(p) \/ Step(p) \/ Kill(p)
                        \/ \E e \in End : Close(p, e)

Spec == Init /\ [][Next]_vars

(* A process that can run does, and a spinning acquire succeeds if the lock *)
(* is free again and again.                                                 *)
Fairness == \A p \in Proc : SF_vars(Step(p))

FairSpec == Spec /\ Fairness

-----------------------------------------------------------------------------
(* Correctness.                                                             *)

\* How many bytes are in the ring, and which, oldest first.
Used == (nwrite + UINT - nread) % UINT
Contents == [i \in 1 .. Used |-> data[(nread + i - 1) % PIPESIZE]]

Abstract == INSTANCE Fifo WITH q <- Contents, ropen <- readopen, wopen <- writeopen

\* The pipe is a bounded FIFO queue of bytes for any number of readers and
\* writers, also when nread and nwrite wrap around (pipe.c:84, 92, 115).
RefinesFifo == Abstract!Spec

\* Where a process can be while it holds p->lock.
Holding == {"w_loop", "w_sleep", "r_loop", "r_copy", "r_sleep"}

\* p->lock is held by one process at a time, the one inside.
LockHeld == \A p \in Proc : pc[p] \in Holding <=> lock = p

\* An end is open as long as a process has it, and no process is in a call on
\* an end it does not have, so that kfree (pipe.c:71) takes the pipe from
\* nobody.
EndsCounted ==
  /\ readopen <=> \E p \in Proc : "r" \in fd[p]
  /\ writeopen <=> \E p \in Proc : "w" \in fd[p]
  /\ \A p \in Proc :
        /\ pc[p] \in {"r_acquire", "r_loop", "r_copy", "r_sleep", "r_asleep"} => "r" \in fd[p]
        /\ pc[p] \in {"w_acquire", "w_loop", "w_sleep", "w_asleep"} => "w" \in fd[p]

\* No lost wakeup, except the one of a killed writer, which leaves a full pipe
\* without a word to the readers (pipe.c:85-87): a reader sleeps only on an
\* empty pipe that can still be written to, a writer only on a full pipe that
\* can still be read, unless the process that changed that holds the lock and
\* is about to wake them (pipe.c:64, 67, 89, 94, 117).
NoLostWakeup ==
  \A p \in Proc :
     /\ pc[p] = "r_asleep" => /\ writeopen
                              /\ \/ Empty
                                 \/ \E o \in Proc : pc[o] = "w_loop" \/ killed[o]
     /\ pc[p] = "w_asleep" => /\ readopen
                              /\ Full \/ \E o \in Proc : pc[o] = "r_copy"

\* The same for a process that has decided to sleep and not yet done so.
Deciding == \A p \in Proc : /\ pc[p] = "r_sleep" => Empty /\ writeopen
                            /\ pc[p] = "w_sleep" => Full /\ readopen

\* The inductive invariant behind NoLostWakeup.
IInv == TypeOK /\ LockHeld /\ EndsCounted /\ NoLostWakeup /\ Deciding

\* The invariant behind RefinesFifo: the ring never holds more than it has room
\* for, so that no unread byte is written over.
RingInv == Used <= PIPESIZE

\* Closing the last writer ends every read, also of a reader that is asleep
\* (the wakeup of pipe.c:64).
ReadEnds == \A p \in Proc : ("r" \in fd[p] /\ ~writeopen) ~> pc[p] = "user"

\* Closing the last reader ends every write, also of a writer that waits for
\* room (the wakeup of pipe.c:67).
WriteEnds == \A p \in Proc : ("w" \in fd[p] /\ ~readopen) ~> pc[p] = "user"

\* Together: nobody stays in a pipe whose other end is gone.
CallsEnd == ReadEnds /\ WriteEnds
=============================================================================
