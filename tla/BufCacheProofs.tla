--------------------------- MODULE BufCacheProofs ---------------------------
(***************************************************************************)
(* The theorems about the buffer cache and the IDE driver, for any number  *)
(* of processes, buffers and sectors: the invariant, which buffers are     *)
(* shared, whose contents bread returns, and why bget finds a buffer.      *)
(***************************************************************************)
EXTENDS BufCache, TLAPS, FiniteSetTheorems

-----------------------------------------------------------------------------
(* Every step preserves the invariant.                                      *)

\* The fields of struct buf after the assignments that bio.c and ide.c make.
LEMMA BufFields ==
  ASSUME NEW r \in BufRecord
  PROVE  /\ r.sector \in Sector \cup {NoSector} /\ r.data \in Data
         /\ r.busy \in BOOLEAN /\ r.valid \in BOOLEAN /\ r.dirty \in BOOLEAN
BY Zenon DEF BufRecord

\* B_BUSY is set or cleared.
LEMMA BusySet ==
  ASSUME buf \in [Buf -> BufRecord], NEW b \in Buf, NEW v \in BOOLEAN, buf' = [buf EXCEPT ![b].busy = v]
  PROVE  /\ buf' \in [Buf -> BufRecord] /\ \A c \in Buf \ {b} : buf'[c] = buf[c]
         /\ buf'[b].busy = v /\ buf'[b].sector = buf[b].sector /\ buf'[b].data = buf[b].data
         /\ buf'[b].valid = buf[b].valid /\ buf'[b].dirty = buf[b].dirty
<1>1. buf'[b] = [buf[b] EXCEPT !.busy = v]
  BY Zenon
<1> QED
  BY <1>1, Zenon DEF BufRecord

\* bget gives the buffer to another sector.
LEMMA Recycled ==
  ASSUME buf \in [Buf -> BufRecord], NEW b \in Buf, NEW s \in Sector,
         buf' = [buf EXCEPT ![b] = [@ EXCEPT !.sector = s, !.busy = TRUE, !.valid = FALSE, !.dirty = FALSE]]
  PROVE  /\ buf' \in [Buf -> BufRecord] /\ \A c \in Buf \ {b} : buf'[c] = buf[c]
         /\ buf'[b].sector = s /\ buf'[b].data = buf[b].data
         /\ buf'[b].busy /\ ~buf'[b].valid /\ ~buf'[b].dirty
BY Zenon DEF BufRecord

\* The holder puts new contents in and marks the buffer B_DIRTY.
LEMMA DataSet ==
  ASSUME buf \in [Buf -> BufRecord], NEW b \in Buf, NEW d \in Data,
         buf' = [buf EXCEPT ![b].data = d, ![b].dirty = TRUE]
  PROVE  /\ buf' \in [Buf -> BufRecord] /\ \A c \in Buf \ {b} : buf'[c] = buf[c]
         /\ buf'[b].sector = buf[b].sector /\ buf'[b].data = d
         /\ buf'[b].busy = buf[b].busy /\ buf'[b].valid = buf[b].valid /\ buf'[b].dirty
BY Zenon DEF BufRecord

\* ideintr marks the buffer valid and clean, after a read with what it read.
LEMMA IoDone ==
  ASSUME buf \in [Buf -> BufRecord], NEW b \in Buf, NEW v \in Data,
         buf' = [buf EXCEPT ![b] = [@ EXCEPT !.valid = TRUE, !.dirty = FALSE, !.data = v]]
  PROVE  /\ buf' \in [Buf -> BufRecord] /\ \A c \in Buf \ {b} : buf'[c] = buf[c]
         /\ buf'[b].sector = buf[b].sector /\ buf'[b].data = v
         /\ buf'[b].busy = buf[b].busy /\ buf'[b].valid /\ ~buf'[b].dirty
BY Zenon DEF BufRecord

-----------------------------------------------------------------------------
(* What a step leaves alone.                                                *)

\* The buffers a process has locked change only with held, cur, or where it is.
LEMMA LockedKept ==
  ASSUME NEW q \in Proc, held'[q] = held[q], cur'[q] = cur[q],
         pc'[q] \in InIderw \cup {"got"} <=> pc[q] \in InIderw \cup {"got"}
  PROVE  Locked(q)' = Locked(q)
BY Zenon DEF Locked

\* Nobody's locks change, and B_BUSY neither.
LEMMA OneUserKept ==
  ASSUME OneUser, \A q \in Proc : Locked(q)' = Locked(q), \A b \in Buf : buf'[b].busy <=> buf[b].busy
  PROVE  OneUser'
BY DEF OneUser

\* Process p locks a buffer that was not B_BUSY and is now.
LEMMA OneUserMore ==
  ASSUME OneUser, NEW p \in Proc, NEW b \in Buf, ~buf[b].busy, buf'[b].busy,
         \A x \in Buf \ {b} : buf'[x].busy <=> buf[x].busy,
         Locked(p)' = Locked(p) \cup {b}, \A q \in Proc \ {p} : Locked(q)' = Locked(q)
  PROVE  OneUser'
BY DEF OneUser

\* Process p unlocks a buffer of its own, and clears B_BUSY.
LEMMA OneUserLess ==
  ASSUME OneUser, NEW p \in Proc, NEW b \in Locked(p), b \in Buf, ~buf'[b].busy,
         \A x \in Buf \ {b} : buf'[x].busy <=> buf[x].busy,
         Locked(p)' = Locked(p) \ {b}, \A q \in Proc \ {p} : Locked(q)' = Locked(q)
  PROVE  OneUser'
BY DEF OneUser

\* The queue stays as it is, with the buffers in it and the processes that wait
\* for them.
LEMMA QueueKept ==
  ASSUME QueueServed, queue \in Seq(Buf), queue' = queue, drive' = drive,
         \A i \in 1 .. Len(queue) : buf'[queue[i]].sector = buf[queue[i]].sector /\ buf'[queue[i]].data = buf[queue[i]].data,
         \A i \in 1 .. Len(queue) : (buf'[queue[i]].valid <=> buf[queue[i]].valid) /\ (buf'[queue[i]].dirty <=> buf[queue[i]].dirty),
         \A q \in Proc : pc[q] \in InIderw /\ cur[q] \in Range(queue) => pc'[q] \in InIderw /\ cur'[q] = cur[q]
  PROVE  QueueServed'
<1>1. ASSUME NEW i \in 1 .. Len(queue)
      PROVE  ~Synced(queue[i])' /\ \E p \in Proc : cur'[p] = queue[i] /\ pc'[p] \in InIderw
  <2>1. PICK p \in Proc : cur[p] = queue[i] /\ pc[p] \in InIderw
    BY Zenon DEF QueueServed
  <2>2. cur[p] \in Range(queue)
    BY <2>1 DEF Range
  <2>3. cur'[p] = queue[i] /\ pc'[p] \in InIderw
    BY <2>1, <2>2, Zenon
  <2>4. ~Synced(queue[i])'
    BY Zenon DEF QueueServed, Synced
  <2> QED
    BY <2>3, <2>4, Zenon
<1>2. queue # <<>> => 1 \in 1 .. Len(queue) /\ Head(queue) = queue[1]
  OBVIOUS
<1>3. queue # <<>> => Start(Head(queue), buf)' = Start(Head(queue), buf)
  BY <1>2 DEF Start
<1> QED
  BY <1>1, <1>3, Zenon DEF QueueServed, Synced

\* Nobody goes to sleep and nobody's locks are dropped.
LEMMA SleepersKept ==
  ASSUME SleeperHasWaker, queue' = queue, \A q \in Proc : Locked(q) \subseteq Locked(q)',
         \A q \in Proc : pc'[q] \in {"bgetsleep", "iosleep"} => pc'[q] = pc[q] /\ cur'[q] = cur[q]
  PROVE  SleeperHasWaker'
BY Zenon DEF SleeperHasWaker

\* A process that does not move, while the flags and sectors stay as they are.
LEMMA ProcKept ==
  ASSUME NEW q \in Proc, ProcInv(q), held[q] \subseteq Buf, cur[q] \in Buf \cup {NoBuf}, NoBuf \notin Buf,
         pc'[q] = pc[q], want'[q] = want[q], cur'[q] = cur[q], held'[q] = held[q], queue' = queue,
         \A b \in held[q] : buf'[b].sector = buf[b].sector,
         pc[q] = "iowake" => (Synced(cur[q]) => Synced(cur[q])')
  PROVE  ProcInv(q)'
BY Zenon DEF ProcInv

\* The conjuncts of the invariant.
LEMMA Parts ==
  ASSUME IInv
  PROVE  /\ TypeOK /\ OneUser /\ OneBufferPerSector /\ QueueServed /\ SleeperHasWaker
         /\ queue \in Seq(Buf) /\ Cardinality(Pinned) <= LOGSIZE
         /\ \A b \in Buf : BufInv(b) /\ buf[b] \in BufRecord
         /\ \A p \in Proc : ProcInv(p) /\ held[p] \subseteq Buf /\ cur[p] \in Buf \cup {NoBuf}
BY Zenon DEF IInv, TypeOK

\* A buffer that somebody has locked is B_BUSY, and nobody else has it.
LEMMA LockedBusy ==
  ASSUME IInv, NEW p \in Proc, NEW b \in Locked(p)
  PROVE  /\ b \in Buf /\ buf[b].busy /\ buf[b].sector \in Sector
         /\ \A q \in Proc \ {p} : b \notin Locked(q)
<1>1. b \in Buf
  BY Parts, Zenon DEF Locked
<1>2. buf[b].busy
  BY <1>1, Parts, Zenon DEF OneUser
<1>3. buf[b].sector \in Sector
  BY <1>1, <1>2, Parts, Zenon DEF BufInv
<1> QED
  BY <1>1, <1>2, <1>3, Parts, Zenon DEF OneUser

\* A queued buffer is B_BUSY, and the process that has it waits in iderw.
LEMMA QueuedBusy ==
  ASSUME IInv, NEW b \in Range(queue)
  PROVE  /\ b \in Buf /\ buf[b].busy /\ ~Synced(b)
         /\ \E q \in Proc : b \in Locked(q) /\ cur[q] = b /\ pc[q] \in InIderw
         /\ \A q \in Proc : b \in Locked(q) => cur[q] = b /\ pc[q] \in InIderw
<1>1. PICK i \in 1 .. Len(queue) : queue[i] = b
  BY Parts DEF Range
<1>2. b \in Buf
  BY <1>1, Parts
<1>3. ~Synced(b)
  BY <1>1, Parts, Zenon DEF QueueServed
<1>4. PICK q \in Proc : cur[q] = b /\ pc[q] \in InIderw
  BY <1>1, Parts, Zenon DEF QueueServed
<1>5. b \in Locked(q)
  BY <1>2, <1>4, Zenon DEF Locked
<1>6. \A o \in Proc : b \in Locked(o) => o = q
  BY <1>5, LockedBusy, Zenon
<1> QED
  BY <1>2, <1>3, <1>4, <1>5, <1>6, LockedBusy, Zenon

\* What the steps use of the numbers of buffers that a process holds, that the log
\* pins and that there are.
Counting ==
  /\ NBUF \in Nat
  /\ \A S \in SUBSET Buf : /\ Cardinality(S) \in Nat
                           /\ \A b \in Buf : Cardinality(S \cup {b}) <= Cardinality(S) + 1
                           /\ \A T \in SUBSET S : Cardinality(T) <= Cardinality(S)

-----------------------------------------------------------------------------
(* bget.                                                                    *)

\* Steps that only move a process which has no buffer in hand and gets none:
\* the call of bread, going to sleep in bget, its panic, and kill.
LEMMA OnlyMoves ==
  ASSUME IInv, NEW p \in Proc, UNCHANGED <<buf, lru, queue, drive, disk, held>>,
         NEW to \in PC, pc' = [pc EXCEPT ![p] = to], to \in InIderw <=> pc[p] \in InIderw, pc[p] # "got", to # "got",
         \A q \in Proc \ {p} : cur'[q] = cur[q] /\ want'[q] = want[q],
         pc[p] \in InIderw => cur'[p] = cur[p], cur' \in [Proc -> Buf \cup {NoBuf}], want' \in [Proc -> Sector \cup {NoSector}],
         to = "bgetsleep" => \E q \in Proc \ {p} : cur'[p] \in Locked(q),
         to = "iosleep" => cur[p] \in Range(queue),
         ProcInv(p)'
  PROVE  IInv'
<1>0. /\ TypeOK /\ OneUser /\ QueueServed /\ SleeperHasWaker /\ queue \in Seq(Buf)
      /\ \A q \in Proc : ProcInv(q) /\ held[q] \subseteq Buf /\ cur[q] \in Buf \cup {NoBuf}
  BY Parts, Zenon
<1>1. pc'[p] = to /\ \A q \in Proc \ {p} : pc'[q] = pc[q]
  BY <1>0, Zenon DEF TypeOK
<1>2. TypeOK'
  BY <1>0, Zenon DEF TypeOK
<1>3. ASSUME NEW q \in Proc PROVE Locked(q)' = Locked(q)
  <2>1. CASE q # p
    BY <1>1, <2>1, LockedKept, Zenon
  <2>2. CASE q = p /\ pc[p] \in InIderw
    BY <1>1, <2>2, LockedKept, Zenon
  <2>3. CASE q = p /\ pc[p] \notin InIderw
    BY <1>1, <2>3 DEF Locked
  <2> QED
    BY <2>1, <2>2, <2>3, Zenon
<1>4. OneUser'
  BY <1>0, <1>3, OneUserKept, Zenon
<1>5. QueueServed'
  BY <1>0, <1>1, QueueKept, Zenon
<1>6. SleeperHasWaker'
  <2>1. ASSUME NEW q \in Proc, pc'[q] = "bgetsleep" PROVE \E o \in Proc \ {q} : cur'[q] \in Locked(o)'
    BY <1>0, <1>1, <1>3, <2>1 DEF SleeperHasWaker
  <2>2. ASSUME NEW q \in Proc, pc'[q] = "iosleep" PROVE cur'[q] \in Range(queue')
    BY <1>0, <1>1, <2>2, Zenon DEF SleeperHasWaker, InIderw
  <2> QED
    BY <2>1, <2>2, Zenon DEF SleeperHasWaker
<1>7. ASSUME NEW q \in Proc PROVE ProcInv(q)'
  BY <1>0, <1>1, BufCacheConstants, ProcKept, Zenon DEF Synced
<1>8. OneBufferPerSector' /\ \A b \in Buf : BufInv(b)'
  BY Zenon DEF IInv, OneBufferPerSector, BufInv
<1>9. Pinned' = Pinned
  BY Zenon DEF Pinned
<1> QED
  BY <1>2, <1>4, <1>5, <1>6, <1>7, <1>8, <1>9, Parts, Zenon DEF IInv

\* bread begins: the caller asks for a sector that it does not hold.
LEMMA CallBreadIInv ==
  ASSUME IInv, NEW p \in Proc, NEW s \in Sector, CallBread(p, s)
  PROVE  IInv'
<1>1. /\ pc[p] = "idle" /\ Cardinality(held[p]) < MaxHold /\ \A b \in held[p] : buf[b].sector # s
      /\ pc' = [pc EXCEPT ![p] = "bget"] /\ want' = [want EXCEPT ![p] = s]
      /\ UNCHANGED <<buf, lru, queue, drive, disk, cur, held>>
  BY Zenon DEF CallBread
<1>2. pc'[p] = "bget" /\ want'[p] = s /\ \A q \in Proc \ {p} : want'[q] = want[q]
  BY <1>1, Parts, Zenon DEF TypeOK
<1>3. want' \in [Proc -> Sector \cup {NoSector}] /\ cur' \in [Proc -> Buf \cup {NoBuf}]
  BY <1>1, Parts, Zenon DEF TypeOK
<1>4. ProcInv(p)'
  BY <1>1, <1>2, Parts, Zenon DEF ProcInv, InIderw
<1> QED
  BY <1>1, <1>2, <1>3, <1>4, OnlyMoves, Zenon DEF PC, InIderw

\* Somebody uses the buffer: it is not the process itself, whose buffers are
\* all of other sectors.
LEMMA BgetWaitIInv ==
  ASSUME IInv, NEW p \in Proc, BgetWait(p)
  PROVE  IInv'
<1>1. PICK b \in Buf : buf[b].sector = want[p] /\ buf[b].busy /\ cur' = [cur EXCEPT ![p] = b]
  BY Zenon DEF BgetWait, Cached, Busy
<1>2. pc[p] = "bget" /\ pc' = [pc EXCEPT ![p] = "bgetsleep"] /\ UNCHANGED <<buf, lru, queue, drive, disk, want, held>>
  BY Zenon DEF BgetWait
<1>3. pc'[p] = "bgetsleep" /\ cur'[p] = b /\ \A q \in Proc \ {p} : cur'[q] = cur[q]
  BY <1>1, <1>2, Parts, Zenon DEF TypeOK
<1>4. PICK q \in Proc : b \in Locked(q)
  BY <1>1, Parts, Zenon DEF OneUser
<1>5. want[p] \in Sector /\ \A x \in held[p] : buf[x].sector # want[p]
  BY <1>2, Parts, BufCacheConstants, Zenon DEF ProcInv
<1>6. b \notin held[p]
  BY <1>1, <1>5, Zenon
<1>7. q # p
  BY <1>2, <1>4, <1>6, Zenon DEF Locked, InIderw
<1>8. want' \in [Proc -> Sector \cup {NoSector}] /\ cur' \in [Proc -> Buf \cup {NoBuf}]
  BY <1>1, <1>2, Parts, Zenon DEF TypeOK
<1>9. ProcInv(p)'
  BY <1>2, <1>3, Parts, Zenon DEF ProcInv, InIderw
<1> QED
  BY <1>2, <1>3, <1>4, <1>7, <1>8, <1>9, OnlyMoves, Zenon DEF PC, InIderw

\* "bget: no buffers".
LEMMA BgetPanicIInv ==
  ASSUME IInv, NEW p \in Proc, BgetPanic(p)
  PROVE  IInv'
<1>1. pc[p] = "bget" /\ pc' = [pc EXCEPT ![p] = "panic"] /\ UNCHANGED <<buf, lru, queue, drive, disk, want, cur, held>>
  BY Zenon DEF BgetPanic
<1>2. pc'[p] = "panic"
  BY <1>1, Parts, Zenon DEF TypeOK
<1>3. want' \in [Proc -> Sector \cup {NoSector}] /\ cur' \in [Proc -> Buf \cup {NoBuf}]
  BY <1>1, Parts, Zenon DEF TypeOK
<1>4. ProcInv(p)'
  BY <1>1, <1>2, Parts, Zenon DEF ProcInv, InIderw
<1> QED
  BY <1>1, <1>3, <1>4, OnlyMoves, Zenon DEF PC, InIderw

\* bget returns a buffer that was not B_BUSY, for a sector that no other buffer
\* has.
LEMMA Taken ==
  ASSUME IInv, Counting, NEW p \in Proc, NEW b \in Buf, pc[p] = "bget", ~buf[b].busy,
         buf' \in [Buf -> BufRecord], buf'[b].busy, buf'[b].sector = want[p],
         buf'[b].dirty => buf[b].dirty /\ buf'[b].valid,
         \A c \in Buf \ {b} : buf'[c] = buf[c] /\ buf[c].sector # want[p],
         pc' = [pc EXCEPT ![p] = "got"], cur' = [cur EXCEPT ![p] = b],
         UNCHANGED <<lru, queue, drive, disk, want, held>>
  PROVE  IInv'
<1>0. /\ TypeOK /\ OneUser /\ OneBufferPerSector /\ QueueServed /\ SleeperHasWaker /\ queue \in Seq(Buf)
      /\ \A q \in Proc : ProcInv(q) /\ held[q] \subseteq Buf /\ cur[q] \in Buf \cup {NoBuf}
      /\ \A c \in Buf : BufInv(c)
  BY Parts, Zenon
<1>1. /\ pc'[p] = "got" /\ \A q \in Proc \ {p} : pc'[q] = pc[q]
      /\ cur'[p] = b /\ \A q \in Proc \ {p} : cur'[q] = cur[q]
  BY <1>0, Zenon DEF TypeOK
<1>2. TypeOK'
  BY <1>0, Zenon DEF TypeOK, PC
<1>3. \A q \in Proc : b \notin Locked(q)
  BY LockedBusy, Zenon
<1>4. \A q \in Proc \ {p} : Locked(q)' = Locked(q)
  BY <1>1, LockedKept, Zenon
<1>5. Locked(p)' = Locked(p) \cup {b}
  BY <1>1, Zenon DEF Locked, InIderw
<1>6. OneUser'
  BY <1>0, <1>4, <1>5, OneUserMore
<1>7. \A i \in 1 .. Len(queue) : buf'[queue[i]] = buf[queue[i]]
  <2> TAKE i \in 1 .. Len(queue)
  <2>1. queue[i] \in Range(queue)
    BY <1>0 DEF Range
  <2> QED
    BY <2>1, QueuedBusy, Zenon
<1>8. QueueServed'
  BY <1>0, <1>1, <1>7, QueueKept, Zenon DEF InIderw
<1>9. SleeperHasWaker'
  BY <1>0, <1>1, <1>4, <1>5, SleepersKept
<1>10. want[p] \in Sector
  BY <1>0, Zenon DEF ProcInv
<1>11. ASSUME NEW q \in Proc \ {p} PROVE ProcInv(q)'
  <2>1. pc[q] = "iowake" => cur[q] # b
    BY <1>3, Zenon DEF Locked, InIderw
  <2>2. \A c \in held[q] : c # b
    BY <1>3, Zenon DEF Locked
  <2>3. pc[q] = "iowake" => cur[q] \in Buf
    BY <1>0, Zenon DEF ProcInv, InIderw
  <2> QED
    BY <1>0, <1>1, <2>1, <2>2, <2>3, BufCacheConstants, ProcKept DEF Synced
<1>12. \A c \in held[p] : c # b
  BY <1>3, Zenon DEF Locked
<1>13. ProcInv(p)'
  BY <1>0, <1>1, <1>12 DEF ProcInv, InIderw
<1>14. OneBufferPerSector'
  BY <1>0, <1>10, BufCacheConstants DEF OneBufferPerSector
<1>15. ASSUME NEW c \in Buf PROVE BufInv(c)'
  <2>1. CASE c = b
    BY <1>3, <1>10, <2>1, Zenon DEF BufInv, Locked
  <2>2. CASE c # b
    BY <1>0, <2>2, Zenon DEF BufInv
  <2> QED
    BY <2>1, <2>2, Zenon
<1>16. Cardinality(Pinned') <= LOGSIZE
  <2>1. Pinned' \subseteq Pinned /\ Pinned \subseteq Buf
    BY Zenon DEF Pinned
  <2>2. Cardinality(Pinned) \in Nat /\ Cardinality(Pinned') \in Nat /\ Cardinality(Pinned') <= Cardinality(Pinned)
    BY <2>1, Zenon DEF Counting
  <2> QED
    BY <2>2, Parts, BufCacheConstants
<1> QED
  BY <1>2, <1>6, <1>8, <1>9, <1>11, <1>13, <1>14, <1>15, <1>16, Zenon DEF IInv

\* The buffer is cached and free.
LEMMA BgetHitIInv ==
  ASSUME IInv, Counting, NEW p \in Proc, BgetHit(p)
  PROVE  IInv'
<1>1. PICK b \in Buf : /\ buf[b].sector = want[p] /\ ~buf[b].busy
                       /\ buf' = [buf EXCEPT ![b].busy = TRUE] /\ cur' = [cur EXCEPT ![p] = b]
  BY Zenon DEF BgetHit, Cached, Busy
<1>2. pc[p] = "bget" /\ pc' = [pc EXCEPT ![p] = "got"] /\ UNCHANGED <<lru, queue, drive, disk, want, held>>
  BY Zenon DEF BgetHit
<1>3. buf \in [Buf -> BufRecord] /\ buf[b] \in BufRecord /\ BufInv(b)
  BY Parts, Zenon DEF TypeOK
<1>4. want[p] \in Sector
  BY <1>2, Parts, Zenon DEF ProcInv
<1>5. /\ buf' \in [Buf -> BufRecord] /\ buf'[b].busy /\ buf'[b].sector = buf[b].sector
      /\ buf'[b].valid = buf[b].valid /\ buf'[b].dirty = buf[b].dirty /\ \A c \in Buf \ {b} : buf'[c] = buf[c]
  BY <1>1, <1>3, BusySet, Zenon
<1>6. buf'[b].dirty => buf[b].dirty /\ buf'[b].valid
  BY <1>3, <1>5, Zenon DEF BufInv
<1>7. \A c \in Buf \ {b} : buf[c].sector # want[p]
  BY <1>1, <1>4, Parts, BufCacheConstants, Zenon DEF OneBufferPerSector
<1> QED
  BY <1>1, <1>2, <1>5, <1>6, <1>7, Taken, Zenon

\* Not cached: a free buffer is recycled.
LEMMA BgetRecycleIInv ==
  ASSUME IInv, Counting, NEW p \in Proc, BgetRecycle(p)
  PROVE  IInv'
<1>1. PICK k \in 1 .. NBUF : /\ Free(lru[k])
                             /\ buf' = [buf EXCEPT ![lru[k]] = [@ EXCEPT !.sector = want[p], !.busy = TRUE,
                                                                         !.valid = FALSE, !.dirty = FALSE]]
                             /\ cur' = [cur EXCEPT ![p] = lru[k]]
  BY Zenon DEF BgetRecycle
<1>2. /\ pc[p] = "bget" /\ pc' = [pc EXCEPT ![p] = "got"] /\ UNCHANGED <<lru, queue, drive, disk, want, held>>
      /\ Cached(want[p]) = {}
  BY Zenon DEF BgetRecycle
<1> DEFINE b == lru[k]
<1>3. b \in Buf /\ ~buf[b].busy
  BY <1>1, Parts, Zenon DEF TypeOK, Bijection, Injection, Free
<1>4. buf \in [Buf -> BufRecord] /\ buf[b] \in BufRecord
  BY <1>3, Parts, Zenon DEF TypeOK
<1>5. want[p] \in Sector
  BY <1>2, Parts, Zenon DEF ProcInv
<1>6. /\ buf' \in [Buf -> BufRecord] /\ buf'[b].busy /\ buf'[b].sector = want[p] /\ ~buf'[b].dirty
      /\ \A c \in Buf \ {b} : buf'[c] = buf[c]
  BY <1>1, <1>3, <1>4, <1>5, Recycled, Zenon
<1>7. \A c \in Buf : buf[c].sector # want[p]
  BY <1>2, Zenon DEF Cached
<1>8. cur' = [cur EXCEPT ![p] = b]
  BY <1>1, Zenon
<1> HIDE DEF b
<1> QED
  BY <1>2, <1>3, <1>6, <1>7, <1>8, Taken, Zenon

-----------------------------------------------------------------------------
(* bread returns.                                                           *)

\* The buffer in hand joins the ones bread has returned: it was locked before
\* and is locked now.
LEMMA Returned ==
  ASSUME IInv, Counting, NEW p \in Proc, pc[p] \in {"got", "iowake"}, buf[cur[p]].valid, cur[p] \notin Range(queue),
         Return(p, cur[p]), UNCHANGED <<buf, lru, queue, drive, disk>>
  PROVE  IInv'
<1> DEFINE b == cur[p]
<1>0. /\ TypeOK /\ OneUser /\ OneBufferPerSector /\ QueueServed /\ SleeperHasWaker /\ queue \in Seq(Buf)
      /\ \A q \in Proc : ProcInv(q) /\ held[q] \subseteq Buf /\ cur[q] \in Buf \cup {NoBuf}
      /\ \A c \in Buf : BufInv(c)
  BY Parts, Zenon
<1>1. /\ pc' = [pc EXCEPT ![p] = "idle"] /\ held' = [held EXCEPT ![p] = @ \cup {b}]
      /\ cur' = [cur EXCEPT ![p] = NoBuf] /\ want' = [want EXCEPT ![p] = NoSector]
  BY Zenon DEF Return
<1>2. b \in Buf
  BY <1>0, Zenon DEF ProcInv, InIderw
<1>3. /\ pc'[p] = "idle" /\ held'[p] = held[p] \cup {b} /\ cur'[p] = NoBuf /\ want'[p] = NoSector
      /\ \A q \in Proc \ {p} : pc'[q] = pc[q] /\ held'[q] = held[q] /\ cur'[q] = cur[q] /\ want'[q] = want[q]
  BY <1>0, <1>1, Zenon DEF TypeOK
<1>4. TypeOK'
  BY <1>0, <1>1, <1>2, Zenon DEF TypeOK, PC
<1>5. Locked(p)' = Locked(p)
  BY <1>2, <1>3, BufCacheConstants, Zenon DEF Locked, InIderw
<1>6. \A q \in Proc : Locked(q)' = Locked(q)
  BY <1>3, <1>5, LockedKept, Zenon
<1>7. OneUser'
  BY <1>0, <1>6, OneUserKept, Zenon
<1>8. QueueServed'
  BY <1>0, <1>3, QueueKept, Zenon
<1>9. SleeperHasWaker'
  BY <1>0, <1>3, <1>6, SleepersKept, Zenon
<1>10. Cardinality(held'[p]) <= MaxHold
  <2>1. CASE want[p] = NoSector
    <3>1. held'[p] = held[p]
      BY <1>0, <1>3, <2>1, BufCacheConstants DEF ProcInv, InIderw
    <3> QED
      BY <1>0, <3>1, Zenon DEF ProcInv
  <2>2. CASE want[p] # NoSector
    <3>1. Cardinality(held[p]) < MaxHold
      BY <1>0, <2>2, Zenon DEF ProcInv
    <3>2. /\ Cardinality(held[p]) \in Nat /\ Cardinality(held[p] \cup {b}) \in Nat
          /\ Cardinality(held[p] \cup {b}) <= Cardinality(held[p]) + 1
      BY <1>0, <1>2, Zenon DEF Counting
    <3> QED
      BY <1>3, <3>1, <3>2, BufCacheConstants
  <2> QED
    BY <2>1, <2>2, Zenon
<1>11. ProcInv(p)'
  BY <1>3, <1>10, Zenon DEF ProcInv, InIderw
<1>12. \A q \in Proc : ProcInv(q)'
  BY <1>0, <1>3, <1>11, BufCacheConstants, ProcKept, Zenon DEF Synced
<1>13. OneBufferPerSector' /\ Pinned' = Pinned
  BY <1>0, Zenon DEF OneBufferPerSector, Pinned
<1>14. \A c \in Buf : BufInv(c)'
  BY <1>0, <1>3 DEF BufInv
<1> QED
  BY <1>4, <1>7, <1>8, <1>9, <1>12, <1>13, <1>14, Parts, Zenon DEF IInv

\* bread finds the buffer B_VALID.
LEMMA BreadReturnIInv ==
  ASSUME IInv, Counting, NEW p \in Proc, BreadReturn(p)
  PROVE  IInv'
<1>1. pc[p] = "got" /\ buf[cur[p]].valid /\ Return(p, cur[p]) /\ UNCHANGED <<buf, lru, queue, drive, disk>>
  BY Zenon DEF BreadReturn
<1>2. cur[p] \in Locked(p)
  BY <1>1, Parts, Zenon DEF ProcInv, Locked
<1>3. cur[p] \notin Range(queue)
  BY <1>1, <1>2, QueuedBusy, Zenon DEF InIderw
<1> QED
  BY <1>1, <1>3, Returned, Zenon

\* iderw has seen the buffer valid and clean, so its request has left the queue.
LEMMA IderwReturnIInv ==
  ASSUME IInv, Counting, NEW p \in Proc, IderwReturn(p)
  PROVE  IInv'
<1>1. pc[p] = "iowake" /\ Synced(cur[p]) /\ Return(p, cur[p]) /\ UNCHANGED <<buf, lru, queue, drive, disk>>
  BY Zenon DEF IderwReturn
<1>2. cur[p] \notin Range(queue) /\ buf[cur[p]].valid
  BY <1>1, QueuedBusy, Zenon DEF Synced
<1> QED
  BY <1>1, <1>2, Returned, Zenon

\* iderw was woken too early and sleeps again: its request is still queued.
LEMMA IderwSleepIInv ==
  ASSUME IInv, NEW p \in Proc, IderwSleep(p)
  PROVE  IInv'
<1>1. /\ pc[p] = "iowake" /\ ~Synced(cur[p]) /\ pc' = [pc EXCEPT ![p] = "iosleep"]
      /\ UNCHANGED <<buf, lru, queue, drive, disk, want, cur, held>>
  BY Zenon DEF IderwSleep
<1>2. pc'[p] = "iosleep" /\ cur[p] \in Range(queue)
  BY <1>1, Parts, Zenon DEF TypeOK, ProcInv
<1>3. want' \in [Proc -> Sector \cup {NoSector}] /\ cur' \in [Proc -> Buf \cup {NoBuf}]
  BY <1>1, Parts, Zenon DEF TypeOK
<1>4. ProcInv(p)'
  BY <1>1, <1>2, Parts, Zenon DEF ProcInv, InIderw
<1> QED
  BY <1>1, <1>2, <1>3, <1>4, OnlyMoves, Zenon DEF PC, InIderw

\* kill() gets a sleeper out of bget's sleep or of iderw's.
LEMMA KillIInv ==
  ASSUME IInv, NEW p \in Proc, Kill(p)
  PROVE  IInv'
<1> DEFINE to == IF pc[p] = "bgetsleep" THEN "bget" ELSE "iowake"
<1>1. /\ pc[p] \in {"bgetsleep", "iosleep"} /\ pc' = [pc EXCEPT ![p] = to]
      /\ UNCHANGED <<buf, lru, queue, drive, disk, want, cur, held>>
  BY Zenon DEF Kill
<1>2. pc'[p] = to
  BY <1>1, Parts, Zenon DEF TypeOK
<1>3. want' \in [Proc -> Sector \cup {NoSector}] /\ cur' \in [Proc -> Buf \cup {NoBuf}]
  BY <1>1, Parts, Zenon DEF TypeOK
<1>4. pc[p] = "iosleep" => cur[p] \in Range(queue)
  BY Parts, Zenon DEF SleeperHasWaker
<1>5. ProcInv(p)'
  BY <1>1, <1>2, <1>4, Parts DEF ProcInv, InIderw
<1>6. to \in PC /\ (to \in InIderw <=> pc[p] \in InIderw) /\ pc[p] # "got" /\ to \notin {"got", "bgetsleep", "iosleep"}
  BY <1>1, Zenon DEF PC, InIderw
<1> HIDE DEF to
<1> QED
  BY <1>1, <1>3, <1>5, <1>6, OnlyMoves, Zenon

-----------------------------------------------------------------------------
(* iderw and ideintr: the ends of the queue.                                 *)

\* idequeue with a request appended.
LEMMA Appended ==
  ASSUME NEW q \in Seq(Buf), NEW b \in Buf
  PROVE  /\ Append(q, b) \in Seq(Buf) /\ Len(Append(q, b)) = Len(q) + 1 /\ Append(q, b) # <<>>
         /\ \A i \in 1 .. Len(q) : Append(q, b)[i] = q[i]
         /\ Append(q, b)[Len(q) + 1] = b
         /\ Head(Append(q, b)) = IF q = <<>> THEN b ELSE Head(q)
         /\ Range(Append(q, b)) = Range(q) \cup {b}
         /\ IsInjective(q) /\ b \notin Range(q) => IsInjective(Append(q, b))
<1>1. /\ Append(q, b) \in Seq(Buf) /\ Len(Append(q, b)) = Len(q) + 1 /\ Append(q, b) # <<>>
      /\ \A i \in 1 .. Len(q) : Append(q, b)[i] = q[i]
      /\ Append(q, b)[Len(q) + 1] = b
      /\ Head(Append(q, b)) = IF q = <<>> THEN b ELSE Head(q)
  OBVIOUS
<1>2. DOMAIN q = 1 .. Len(q) /\ DOMAIN Append(q, b) = 1 .. Len(q) + 1 /\ Len(q) \in Nat
  OBVIOUS
<1>3. Range(Append(q, b)) = Range(q) \cup {b}
  BY <1>1, <1>2 DEF Range
<1>4. IsInjective(q) /\ b \notin Range(q) => IsInjective(Append(q, b))
  BY <1>1, <1>2 DEF Range, IsInjective
<1> QED
  BY <1>1, <1>3, <1>4, Zenon

\* idequeue without its head.
LEMMA Removed ==
  ASSUME NEW q \in Seq(Buf), q # <<>>, IsInjective(q)
  PROVE  /\ Tail(q) \in Seq(Buf) /\ IsInjective(Tail(q)) /\ Range(Tail(q)) = Range(q) \ {Head(q)}
         /\ Head(q) \in Range(q) /\ Head(q) \in Buf
         /\ \A i \in 1 .. Len(Tail(q)) : Tail(q)[i] = q[i + 1] /\ i + 1 \in 1 .. Len(q) /\ Tail(q)[i] # Head(q)
<1>1. /\ Tail(q) \in Seq(Buf) /\ Len(Tail(q)) = Len(q) - 1 /\ Len(q) \in Nat \ {0}
      /\ Head(q) = q[1] /\ q[1] \in Buf
      /\ \A i \in 1 .. Len(Tail(q)) : Tail(q)[i] = q[i + 1]
      /\ DOMAIN q = 1 .. Len(q) /\ DOMAIN Tail(q) = 1 .. Len(Tail(q))
  OBVIOUS
<1>2. \A i \in 1 .. Len(Tail(q)) : i + 1 \in 1 .. Len(q) /\ Tail(q)[i] # Head(q)
  BY <1>1 DEF IsInjective
<1>3. IsInjective(Tail(q))
  BY <1>1, <1>2 DEF IsInjective
<1>4. Range(Tail(q)) = Range(q) \ {Head(q)}
  <2>1. ASSUME NEW x \in Range(q) \ {Head(q)} PROVE x \in Range(Tail(q))
    <3>1. PICK j \in 2 .. Len(q) : q[j] = x
      BY <1>1 DEF Range
    <3>2. j - 1 \in 1 .. Len(Tail(q)) /\ Tail(q)[j - 1] = x
      BY <1>1, <3>1
    <3> QED
      BY <1>1, <3>2, Zenon DEF Range
  <2>2. ASSUME NEW x \in Range(Tail(q)) PROVE x \in Range(q) \ {Head(q)}
    BY <1>1, <1>2 DEF Range
  <2> QED
    BY <2>1, <2>2, Zenon
<1>5. Head(q) \in Range(q)
  BY <1>1 DEF Range
<1> QED
  BY <1>1, <1>2, <1>3, <1>4, <1>5, Zenon

\* A process appends the request for a buffer it has, and sleeps.
LEMMA Enqueued ==
  ASSUME IInv, Counting, NEW p \in Proc, NEW b \in Buf, b \in Locked(p), pc[p] = "idle" \/ (pc[p] = "got" /\ cur[p] = b),
         buf' \in [Buf -> BufRecord], \A c \in Buf \ {b} : buf'[c] = buf[c],
         buf'[b].sector = buf[b].sector, buf'[b].busy = buf[b].busy, buf'[b].valid = buf[b].valid,
         buf'[b].valid <=> buf'[b].dirty, Iderw(p, b, buf'), UNCHANGED <<lru, disk, want, held>>
  PROVE  IInv'
<1>0. /\ TypeOK /\ OneUser /\ OneBufferPerSector /\ QueueServed /\ SleeperHasWaker /\ queue \in Seq(Buf)
      /\ \A q \in Proc : ProcInv(q) /\ held[q] \subseteq Buf /\ cur[q] \in Buf \cup {NoBuf}
      /\ \A c \in Buf : BufInv(c) /\ buf[c] \in BufRecord
  BY Parts, Zenon
<1>1. /\ queue' = Append(queue, b) /\ pc' = [pc EXCEPT ![p] = "iosleep"] /\ cur' = [cur EXCEPT ![p] = b]
      /\ drive' = IF Head(queue') = b THEN Start(b, buf') ELSE drive
  BY Zenon DEF Iderw
<1>2. /\ pc'[p] = "iosleep" /\ cur'[p] = b
      /\ \A q \in Proc \ {p} : pc'[q] = pc[q] /\ cur'[q] = cur[q]
  BY <1>0, <1>1, Zenon DEF TypeOK
<1>3. b \notin Range(queue)
  BY QueuedBusy, Zenon DEF InIderw
<1>4. /\ queue' \in Seq(Buf) /\ Len(queue') = Len(queue) + 1 /\ queue' # <<>>
      /\ \A i \in 1 .. Len(queue) : queue'[i] = queue[i]
      /\ queue'[Len(queue) + 1] = b /\ Head(queue') = (IF queue = <<>> THEN b ELSE Head(queue))
      /\ Range(queue') = Range(queue) \cup {b} /\ IsInjective(queue')
  BY <1>0, <1>1, <1>3, Appended DEF QueueServed
<1>5. \A i \in 1 .. Len(queue) : queue[i] \in Range(queue) /\ queue[i] \in Buf \ {b}
  BY <1>0, <1>3 DEF Range
<1>6. drive' = Start(Head(queue'), buf')
  <2>1. CASE queue = <<>>
    BY <1>1, <1>4, <2>1, Zenon
  <2>2. CASE queue # <<>>
    <3>1. Head(queue) = queue[1] /\ 1 \in 1 .. Len(queue)
      BY <1>0, <2>2
    <3>2. Head(queue') = Head(queue) /\ Head(queue) \in Buf \ {b}
      BY <1>4, <1>5, <2>2, <3>1
    <3>3. Start(Head(queue), buf') = Start(Head(queue), buf)
      BY <3>2, Zenon DEF Start
    <3> QED
      BY <1>0, <1>1, <2>2, <3>2, <3>3, Zenon DEF QueueServed
  <2> QED
    BY <2>1, <2>2, Zenon
<1>7. drive' \in Command
  <2>1. Head(queue') \in Buf /\ buf'[Head(queue')].sector \in Sector
    <3>1. CASE queue = <<>>
      BY <1>4, <3>1, LockedBusy
    <3>2. CASE queue # <<>>
      <4>1. Head(queue) = queue[1] /\ 1 \in 1 .. Len(queue)
        BY <1>0, <3>2
      <4>2. Head(queue) \in Buf \ {b} /\ buf[Head(queue)].busy
        BY <1>5, <4>1, QueuedBusy
      <4> QED
        BY <1>0, <1>4, <3>2, <4>2, Zenon DEF BufInv
    <3> QED
      BY <3>1, <3>2, Zenon
  <2>2. buf'[Head(queue')].data \in Data
    BY <2>1, BufFields, Zenon
  <2> QED
    BY <1>6, <2>1, <2>2, Zenon DEF Start, Command
<1>8. TypeOK'
  BY <1>0, <1>1, <1>4, <1>7, Zenon DEF TypeOK, PC
<1>9. Locked(p)' = Locked(p)
  BY <1>2 DEF Locked, InIderw
<1>10. \A q \in Proc : Locked(q)' = Locked(q)
  BY <1>2, <1>9, LockedKept
<1>11. OneUser'
  BY <1>0, <1>10, OneUserKept, Zenon
<1>12. ASSUME NEW i \in 1 .. Len(queue')
       PROVE  ~Synced(queue[i])' /\ \E q \in Proc : cur'[q] = queue'[i] /\ pc'[q] \in InIderw
  <2>1. CASE i = Len(queue) + 1
    BY <1>2, <1>4, <2>1, Zenon DEF InIderw, Synced
  <2>2. CASE i \in 1 .. Len(queue)
    <3>1. PICK q \in Proc : cur[q] = queue[i] /\ pc[q] \in InIderw
      BY <1>0, <2>2, Zenon DEF QueueServed
    <3>2. q # p
      BY <3>1, Zenon DEF InIderw
    <3>3. queue'[i] = queue[i] /\ buf'[queue[i]] = buf[queue[i]] /\ ~Synced(queue[i])
      BY <1>0, <1>4, <1>5, <2>2, Zenon DEF QueueServed
    <3> QED
      BY <1>2, <1>4, <2>2, <3>1, <3>2, <3>3 DEF Synced
  <2> QED
    BY <1>0, <1>4, <2>1, <2>2
<1>13. QueueServed'
  <2>1. drive' # NoCommand
    BY <1>6, Zenon DEF NoCommand, Start
  <2> QED
    BY <1>4, <1>6, <1>12, <2>1, Zenon DEF QueueServed
<1>14. SleeperHasWaker'
  BY <1>0, <1>2, <1>4, <1>10 DEF SleeperHasWaker
<1>15. ASSUME NEW q \in Proc \ {p} PROVE ProcInv(q)'
  <2>1. b \notin Locked(q)
    BY LockedBusy, Zenon
  <2>2. pc[q] = "iowake" => cur[q] \in Buf \ {b}
    BY <1>0, <2>1, Zenon DEF ProcInv, Locked, InIderw
  <2>3. \A c \in held[q] : buf'[c].sector = buf[c].sector
    BY <1>0, <2>1, Zenon DEF Locked
  <2> QED
    BY <1>0, <1>2, <1>4, <2>2, <2>3 DEF ProcInv, Synced
<1>16. ProcInv(p)'
  <2>1. want'[p] = NoSector => b \in held'[p]
    BY <1>0, BufCacheConstants, Zenon DEF ProcInv, Locked, InIderw
  <2>2. \A c \in held[p] : buf'[c].sector = buf[c].sector
    BY <1>0, Zenon
  <2>3. want'[p] # NoSector => /\ Cardinality(held'[p]) < MaxHold
                              /\ \A c \in held'[p] : buf'[c].sector # want'[p]
    BY <1>0, <2>2, Zenon DEF ProcInv
  <2>4. Cardinality(held'[p]) <= MaxHold
    BY <1>0, Zenon DEF ProcInv
  <2> QED
    BY <1>2, <2>1, <2>3, <2>4, Zenon DEF ProcInv, InIderw
<1>17. OneBufferPerSector'
  BY <1>0 DEF OneBufferPerSector
<1>18. \A c \in Buf : BufInv(c)'
  BY <1>0, Zenon DEF BufInv
<1>19. Cardinality(Pinned') <= LOGSIZE
  <2>1. Pinned' \subseteq Pinned /\ Pinned \subseteq Buf
    BY <1>4, Zenon DEF Pinned
  <2>2. Cardinality(Pinned) \in Nat /\ Cardinality(Pinned') \in Nat /\ Cardinality(Pinned') <= Cardinality(Pinned)
    BY <2>1, Zenon DEF Counting
  <2> QED
    BY <2>2, Parts, BufCacheConstants
<1> QED
  BY <1>8, <1>11, <1>13, <1>14, <1>15, <1>16, <1>17, <1>18, <1>19, Zenon DEF IInv

\* bread reads a buffer that is not B_VALID.
LEMMA BreadIoIInv ==
  ASSUME IInv, Counting, NEW p \in Proc, BreadIo(p)
  PROVE  IInv'
<1> DEFINE b == cur[p]
<1>1. pc[p] = "got" /\ ~buf[b].valid /\ Iderw(p, b, buf) /\ UNCHANGED <<buf, lru, disk, want, held>>
  BY Zenon DEF BreadIo
<1>2. b \in Buf /\ b \in Locked(p) /\ BufInv(b)
  BY <1>1, Parts, Zenon DEF ProcInv, Locked
<1>3. buf' \in [Buf -> BufRecord] /\ (buf'[b].valid <=> buf'[b].dirty)
  BY <1>1, <1>2, Parts, Zenon DEF TypeOK, BufInv
<1>4. Iderw(p, b, buf') /\ (pc[p] = "got" /\ cur[p] = b)
  BY <1>1, Zenon
<1> HIDE DEF b
<1> QED
  BY <1>1, <1>2, <1>3, <1>4, Enqueued, Zenon

\* bwrite of a buffer that bread has returned.
LEMMA BwriteIInv ==
  ASSUME IInv, Counting, NEW p \in Proc, NEW b \in Buf, NEW d \in Data, Bwrite(p, b, d)
  PROVE  IInv'
<1>1. pc[p] = "idle" /\ b \in held[p] /\ Iderw(p, b, buf') /\ UNCHANGED <<lru, disk, want, held>>
  BY Zenon DEF Bwrite
<1>2. buf' = [buf EXCEPT ![b].data = d, ![b].dirty = TRUE]
  BY Zenon DEF Bwrite, Update
<1>3. buf \in [Buf -> BufRecord] /\ BufInv(b)
  BY Parts, Zenon DEF TypeOK
<1>4. /\ buf' \in [Buf -> BufRecord] /\ \A c \in Buf \ {b} : buf'[c] = buf[c]
      /\ buf'[b].sector = buf[b].sector /\ buf'[b].busy = buf[b].busy /\ buf'[b].valid = buf[b].valid
      /\ buf'[b].dirty
  BY <1>2, <1>3, DataSet, Zenon
<1>5. buf'[b].valid /\ b \in Locked(p)
  BY <1>1, <1>3, <1>4, Zenon DEF BufInv, Locked
<1> QED
  BY <1>1, <1>4, <1>5, Enqueued, Zenon

-----------------------------------------------------------------------------
(* log_write and brelse.                                                    *)

\* log_write marks a held buffer B_DIRTY and counts it among the pinned.
LEMMA LogPinIInv ==
  ASSUME IInv, NEW p \in Proc, NEW b \in Buf, NEW d \in Data, LogPin(p, b, d)
  PROVE  IInv'
<1>0. /\ TypeOK /\ OneUser /\ OneBufferPerSector /\ QueueServed /\ SleeperHasWaker /\ queue \in Seq(Buf)
      /\ \A q \in Proc : ProcInv(q) /\ held[q] \subseteq Buf /\ cur[q] \in Buf \cup {NoBuf}
      /\ \A c \in Buf : BufInv(c)
  BY Parts, Zenon
<1>1. /\ pc[p] = "idle" /\ b \in held[p] /\ Cardinality(Pinned \cup {b}) <= LOGSIZE
      /\ UNCHANGED <<lru, queue, drive, disk, pc, want, cur, held>>
  BY Zenon DEF LogPin
<1>2. buf' = [buf EXCEPT ![b].data = d, ![b].dirty = TRUE] /\ buf \in [Buf -> BufRecord]
  BY <1>0, Zenon DEF LogPin, Update, TypeOK
<1>3. /\ buf' \in [Buf -> BufRecord] /\ \A c \in Buf \ {b} : buf'[c] = buf[c]
      /\ buf'[b].sector = buf[b].sector /\ buf'[b].busy = buf[b].busy /\ buf'[b].valid = buf[b].valid
      /\ buf'[b].dirty
  BY <1>2, DataSet, Zenon
<1>4. b \in Locked(p) /\ b \notin Range(queue)
  <2>1. b \in Locked(p)
    BY <1>1, Zenon DEF Locked
  <2> QED
    BY <1>1, <2>1, QueuedBusy, Zenon DEF InIderw
<1>5. TypeOK'
  BY <1>0, <1>1, <1>3, Zenon DEF TypeOK
<1>6. \A q \in Proc : Locked(q)' = Locked(q)
  BY <1>1, LockedKept, Zenon
<1>7. OneUser'
  BY <1>0, <1>3, <1>6, OneUserKept, Zenon
<1>8. \A i \in 1 .. Len(queue) : buf'[queue[i]] = buf[queue[i]]
  BY <1>0, <1>3, <1>4 DEF Range
<1>9. QueueServed'
  BY <1>0, <1>1, <1>8, QueueKept, Zenon
<1>10. SleeperHasWaker'
  BY <1>0, <1>1, <1>6, SleepersKept, Zenon
<1>11. ASSUME NEW q \in Proc PROVE ProcInv(q)'
  <2>1. pc[q] = "iowake" => cur[q] \in Buf \ {b}
    <3>1. SUFFICES ASSUME pc[q] = "iowake" PROVE cur[q] \in Buf /\ cur[q] # b
      BY Zenon
    <3>2. cur[q] \in Buf /\ cur[q] \in Locked(q) /\ q # p
      BY <1>0, <1>1, <3>1, Zenon DEF ProcInv, Locked, InIderw
    <3> QED
      BY <1>4, <3>2, LockedBusy, Zenon
  <2>2. \A c \in held[q] : buf'[c].sector = buf[c].sector
    BY <1>0, <1>3, Zenon
  <2> QED
    BY <1>0, <1>1, <1>3, <2>1, <2>2, BufCacheConstants, ProcKept, Zenon DEF Synced
<1>12. OneBufferPerSector' /\ \A c \in Buf : BufInv(c)'
  BY <1>0, <1>1, <1>3 DEF OneBufferPerSector, BufInv
<1>13. Cardinality(Pinned') <= LOGSIZE
  <2>1. Pinned' = Pinned \cup {b}
    BY <1>1, <1>3, <1>4, Zenon DEF Pinned
  <2> QED
    BY <1>1, <2>1, Zenon
<1> QED
  BY <1>5, <1>7, <1>9, <1>10, <1>11, <1>12, <1>13, Zenon DEF IInv

\* The list of buffers with one of them moved to its front.
LEMMA Fronted ==
  ASSUME NBUF \in Nat, lru \in Bijection(1 .. NBUF, Buf), NEW b \in Buf
  PROVE  MoveToFront(b) \in Bijection(1 .. NBUF, Buf)
<1> DEFINE at == CHOOSE k \in 1 .. NBUF : lru[k] = b
           f == MoveToFront(b)
<1>1. /\ NBUF \in Nat /\ lru \in [1 .. NBUF -> Buf]
      /\ \A j, k \in 1 .. NBUF : lru[j] = lru[k] => j = k
      /\ \A c \in Buf : \E k \in 1 .. NBUF : lru[k] = c
  BY Zenon DEF Bijection, Injection, Surjection, IsInjective
<1>2. at \in 1 .. NBUF /\ lru[at] = b
  BY <1>1, Zenon
<1>3. f = [k \in 1 .. NBUF |-> IF k = 1 THEN b ELSE IF k <= at THEN lru[k - 1] ELSE lru[k]]
  BY Zenon DEF MoveToFront
<1> HIDE DEF at, f
<1>4. \A k \in 1 .. NBUF : k # 1 /\ k <= at => k - 1 \in 1 .. NBUF
  BY <1>1, <1>2
<1>5. f \in [1 .. NBUF -> Buf]
  BY <1>1, <1>3, <1>4, Zenon
<1>6. ASSUME NEW j \in 1 .. NBUF, NEW k \in 1 .. NBUF, f[j] = f[k] PROVE j = k
  <2> DEFINE o(i) == IF i = 1 THEN at ELSE IF i <= at THEN i - 1 ELSE i
  <2>1. \A i \in 1 .. NBUF : o(i) \in 1 .. NBUF /\ f[i] = lru[o(i)]
    BY <1>1, <1>2, <1>3
  <2>2. o(j) = o(k)
    BY <1>1, <1>6, <2>1
  <2> QED
    BY <1>1, <1>2, <2>2
<1>7. ASSUME NEW c \in Buf PROVE \E i \in 1 .. NBUF : f[i] = c
  <2>1. PICK k \in 1 .. NBUF : lru[k] = c
    BY <1>1, Zenon
  <2>2. CASE k = at
    <3>1. 1 \in 1 .. NBUF /\ f[1] = c
      BY <1>1, <1>2, <1>3, <2>1, <2>2
    <3> QED
      BY <3>1, Zenon
  <2>3. CASE k < at
    <3>1. k + 1 \in 1 .. NBUF /\ f[k + 1] = c
      BY <1>1, <1>2, <1>3, <2>1, <2>3
    <3> QED
      BY <3>1, Zenon
  <2>4. CASE k > at
    <3>1. f[k] = c
      BY <1>1, <1>2, <1>3, <2>1, <2>4
    <3> QED
      BY <3>1, Zenon
  <2> QED
    BY <1>1, <1>2, <2>2, <2>3, <2>4
<1> QED
  BY <1>5, <1>6, <1>7, Zenon DEF f, Bijection, Injection, Surjection, IsInjective

\* wakeup(b): who wakes, and who does not.
LEMMA Woken ==
  ASSUME pc \in [Proc -> PC], NEW b, pc' = Wakeup(b)
  PROVE  /\ pc' \in [Proc -> PC]
         /\ \A q \in Proc : /\ pc'[q] # pc[q] => /\ cur[q] = b
                                                 /\ \/ pc[q] = "bgetsleep" /\ pc'[q] = "bget"
                                                    \/ pc[q] = "iosleep" /\ pc'[q] = "iowake"
                            /\ cur[q] = b => pc'[q] \notin {"bgetsleep", "iosleep"}
                            /\ pc'[q] \in InIderw <=> pc[q] \in InIderw
                            /\ pc'[q] \in InIderw \cup {"got"} <=> pc[q] \in InIderw \cup {"got"}
<1>1. ASSUME NEW q \in Proc
      PROVE  pc'[q] = IF cur[q] = b /\ pc[q] = "bgetsleep" THEN "bget"
                      ELSE IF cur[q] = b /\ pc[q] = "iosleep" THEN "iowake"
                      ELSE pc[q]
  BY Zenon DEF Wakeup
<1>2. pc' \in [Proc -> PC]
  BY Zenon DEF Wakeup, PC
<1> QED
  BY <1>1, <1>2, Zenon DEF InIderw

\* brelse: nobody but the sleepers in bget can have been waiting for the buffer.
LEMMA BrelseIInv ==
  ASSUME IInv, Counting, NEW p \in Proc, NEW b \in Buf, Brelse(p, b)
  PROVE  IInv'
<1>0. /\ TypeOK /\ OneUser /\ OneBufferPerSector /\ QueueServed /\ SleeperHasWaker /\ queue \in Seq(Buf)
      /\ \A q \in Proc : ProcInv(q) /\ held[q] \subseteq Buf /\ cur[q] \in Buf \cup {NoBuf}
      /\ \A c \in Buf : BufInv(c)
  BY Parts, Zenon
<1>1. /\ pc[p] = "idle" /\ b \in held[p] /\ lru' = MoveToFront(b) /\ pc' = Wakeup(b)
      /\ held' = [held EXCEPT ![p] = @ \ {b}] /\ UNCHANGED <<queue, drive, disk, want, cur>>
  BY Zenon DEF Brelse
<1>2. buf' = [buf EXCEPT ![b].busy = FALSE] /\ buf \in [Buf -> BufRecord] /\ FALSE \in BOOLEAN
  BY <1>0, Zenon DEF Brelse, TypeOK
<1>3. /\ buf' \in [Buf -> BufRecord] /\ \A c \in Buf \ {b} : buf'[c] = buf[c]
      /\ ~buf'[b].busy /\ buf'[b].sector = buf[b].sector /\ buf'[b].data = buf[b].data
      /\ buf'[b].valid = buf[b].valid /\ buf'[b].dirty = buf[b].dirty
  BY <1>2, BusySet, Zenon
<1>4. /\ held'[p] = held[p] \ {b} /\ \A q \in Proc \ {p} : held'[q] = held[q]
      /\ held' \in [Proc -> SUBSET Buf]
  BY <1>0, <1>1, Zenon DEF TypeOK
<1>5. /\ pc \in [Proc -> PC] /\ pc' \in [Proc -> PC]
      /\ \A q \in Proc : /\ pc'[q] # pc[q] => /\ cur[q] = b
                                              /\ \/ pc[q] = "bgetsleep" /\ pc'[q] = "bget"
                                                 \/ pc[q] = "iosleep" /\ pc'[q] = "iowake"
                         /\ cur[q] = b => pc'[q] \notin {"bgetsleep", "iosleep"}
                         /\ pc'[q] \in InIderw <=> pc[q] \in InIderw
                         /\ pc'[q] \in InIderw \cup {"got"} <=> pc[q] \in InIderw \cup {"got"}
  BY <1>0, <1>1, Woken, Zenon DEF TypeOK
<1>6. b \in Locked(p) /\ b \notin Range(queue)
  <2>1. b \in Locked(p)
    BY <1>1, Zenon DEF Locked
  <2> QED
    BY <1>1, <2>1, QueuedBusy, Zenon DEF InIderw
<1>7. \A q \in Proc \ {p} : b \notin Locked(q)
  BY <1>6, LockedBusy, Zenon
<1>8. \A q \in Proc : pc'[q] # pc[q] => pc[q] = "bgetsleep" /\ pc'[q] = "bget"
  BY <1>1, <1>5, <1>7, Zenon DEF Locked, InIderw
<1>9. TypeOK'
  BY <1>0, <1>1, <1>3, <1>4, <1>5, Fronted, Zenon DEF TypeOK, Counting
<1>10. \A q \in Proc \ {p} : Locked(q)' = Locked(q)
  BY <1>1, <1>4, <1>5, LockedKept, Zenon
<1>11. Locked(p)' = Locked(p) \ {b}
  BY <1>1, <1>4, <1>8, Zenon DEF Locked, InIderw
<1>12. OneUser'
  BY <1>0, <1>3, <1>6, <1>10, <1>11, OneUserLess, Zenon
<1>13. \A i \in 1 .. Len(queue) : buf'[queue[i]] = buf[queue[i]]
  BY <1>0, <1>3, <1>6 DEF Range
<1>14. QueueServed'
  BY <1>0, <1>1, <1>5, <1>13, QueueKept, Zenon
<1>15. SleeperHasWaker'
  <2>1. ASSUME NEW q \in Proc, pc'[q] = "bgetsleep" PROVE \E o \in Proc \ {q} : cur'[q] \in Locked(o)'
    <3>1. pc[q] = "bgetsleep" /\ cur[q] # b
      BY <1>5, <1>8, <2>1, Zenon
    <3>2. PICK o \in Proc \ {q} : cur[q] \in Locked(o)
      BY <1>0, <3>1, Zenon DEF SleeperHasWaker
    <3> QED
      BY <1>1, <1>10, <1>11, <3>1, <3>2, Zenon
  <2>2. ASSUME NEW q \in Proc, pc'[q] = "iosleep" PROVE cur'[q] \in Range(queue')
    BY <1>0, <1>1, <1>8, <2>2, Zenon DEF SleeperHasWaker
  <2> QED
    BY <2>1, <2>2, Zenon DEF SleeperHasWaker
<1>16. \A c \in Buf : buf'[c].sector = buf[c].sector /\ (Synced(c)' <=> Synced(c))
  BY <1>3, Zenon DEF Synced
<1>17. Cardinality(held'[p]) <= MaxHold
  <2>1. /\ Cardinality(held[p]) \in Nat /\ Cardinality(held'[p]) \in Nat
        /\ Cardinality(held'[p]) <= Cardinality(held[p]) /\ Cardinality(held[p]) <= MaxHold
    BY <1>0, <1>4, Zenon DEF ProcInv, Counting
  <2> QED
    BY <2>1, BufCacheConstants
<1>18. ProcInv(p)'
  <2>1. pc'[p] = "idle" /\ want'[p] = NoSector
    BY <1>0, <1>1, <1>8, Zenon DEF ProcInv
  <2> QED
    BY <1>17, <2>1, Zenon DEF ProcInv, InIderw
<1>19. ASSUME NEW q \in Proc \ {p} PROVE ProcInv(q)'
  <2>1. \A c \in held[q] : buf'[c].sector = buf[c].sector
    BY <1>0, <1>16, Zenon
  <2>2. CASE pc'[q] = pc[q]
    <3>1. pc[q] = "iowake" => cur[q] \in Buf
      BY <1>0, Zenon DEF ProcInv, InIderw
    <3>2. pc[q] = "iowake" => (Synced(cur[q]) => Synced(cur[q])')
      BY <1>1, <1>16, <3>1, Zenon DEF Synced
    <3> QED
      BY <1>0, <1>1, <1>4, <2>1, <2>2, <3>2, BufCacheConstants, ProcKept, Zenon
  <2>3. CASE pc'[q] # pc[q]
    <3>1. pc[q] = "bgetsleep" /\ pc'[q] = "bget"
      BY <1>8, <2>3, Zenon
    <3> QED
      BY <1>0, <1>1, <1>4, <2>1, <3>1, Zenon DEF ProcInv, InIderw
  <2> QED
    BY <2>2, <2>3, Zenon
<1>20. OneBufferPerSector' /\ Pinned' = Pinned
  BY <1>0, <1>1, <1>3 DEF OneBufferPerSector, Pinned
<1>21. \A c \in Buf : BufInv(c)'
  BY <1>0, <1>3, <1>4, Zenon DEF BufInv
<1> QED
  BY <1>9, <1>12, <1>14, <1>15, <1>18, <1>19, <1>20, <1>21, Parts, Zenon DEF IInv

\* What ideintr does, for the head b of the queue.
LEMMA Interrupted ==
  ASSUME IInv, NEW ok \in BOOLEAN, Ideintr(ok)
  PROVE  /\ queue # <<>> /\ Head(queue) \in Buf
         /\ drive \in Command /\ drive = Start(Head(queue), buf)
         /\ disk' = (IF drive.op = "write" /\ ok THEN [disk EXCEPT ![drive.sector] = drive.data] ELSE disk)
         /\ buf' \in [Buf -> BufRecord] /\ \A c \in Buf \ {Head(queue)} : buf'[c] = buf[c]
         /\ LET b == Head(queue)
            IN /\ buf'[b].sector = buf[b].sector /\ buf'[b].busy = buf[b].busy /\ buf'[b].valid /\ ~buf'[b].dirty
               /\ buf'[b].data = IF drive.op = "read" /\ ok THEN disk[drive.sector] ELSE buf[b].data
         /\ pc' = Wakeup(Head(queue)) /\ queue' = Tail(queue) /\ drive' = StartNext(queue', buf')
         /\ UNCHANGED <<lru, want, cur, held>>
<1> DEFINE b == Head(queue)
           v == IF drive.op = "read" /\ ok THEN disk[drive.sector] ELSE buf[b].data
<1>1. /\ drive # NoCommand /\ pc' = Wakeup(b) /\ queue' = Tail(queue) /\ drive' = StartNext(queue', buf')
      /\ UNCHANGED <<lru, want, cur, held>>
      /\ disk' = (IF drive.op = "write" /\ ok THEN [disk EXCEPT ![drive.sector] = drive.data] ELSE disk)
      /\ buf' = [buf EXCEPT ![b] = [@ EXCEPT !.valid = TRUE, !.dirty = FALSE, !.data = v]]
  BY Zenon DEF Ideintr
<1>2. queue # <<>> /\ drive = Start(b, buf)
  BY <1>1, Parts, Zenon DEF QueueServed
<1>3. b \in Buf
  BY <1>2, Parts
<1>4. drive \in Command /\ disk \in [Sector -> Data] /\ buf \in [Buf -> BufRecord]
  BY <1>1, Parts, Zenon DEF TypeOK
<1>5. v \in Data
  <2>1. drive.sector \in Sector
    BY <1>4, Zenon DEF Command
  <2>2. buf[b].data \in Data
    BY <1>3, <1>4, BufFields, Zenon
  <2> QED
    BY <1>4, <2>1, <2>2, Zenon
<1> HIDE DEF v
<1>6. /\ buf' \in [Buf -> BufRecord] /\ \A c \in Buf \ {b} : buf'[c] = buf[c]
      /\ buf'[b].sector = buf[b].sector /\ buf'[b].data = v
      /\ buf'[b].busy = buf[b].busy /\ buf'[b].valid /\ ~buf'[b].dirty
  BY <1>1, <1>3, <1>4, <1>5, IoDone, Zenon
<1> QED
  BY <1>1, <1>2, <1>3, <1>4, <1>6, Zenon DEF v

\* ideintr: the request at the head is done, whoever waits for its buffer wakes,
\* and the next request is started.
LEMMA IdeintrIInv ==
  ASSUME IInv, NEW ok \in BOOLEAN, Ideintr(ok)
  PROVE  IInv'
<1> DEFINE b == Head(queue)
<1>0. /\ TypeOK /\ OneUser /\ OneBufferPerSector /\ QueueServed /\ SleeperHasWaker /\ queue \in Seq(Buf)
      /\ \A q \in Proc : ProcInv(q) /\ held[q] \subseteq Buf /\ cur[q] \in Buf \cup {NoBuf}
      /\ \A c \in Buf : BufInv(c)
  BY Parts, Zenon
<1>1. /\ queue # <<>> /\ b \in Buf /\ drive \in Command
      /\ buf' \in [Buf -> BufRecord] /\ \A c \in Buf \ {b} : buf'[c] = buf[c]
      /\ buf'[b].sector = buf[b].sector /\ buf'[b].busy = buf[b].busy /\ buf'[b].valid /\ ~buf'[b].dirty
      /\ pc' = Wakeup(b) /\ queue' = Tail(queue) /\ drive' = StartNext(queue', buf')
      /\ UNCHANGED <<lru, want, cur, held>>
  BY Interrupted, Zenon
<1>2. disk' \in [Sector -> Data]
  <2>1. drive.sector \in Sector /\ drive.data \in Data
    BY <1>1, Zenon DEF Command
  <2>2. disk' = disk \/ disk' = [disk EXCEPT ![drive.sector] = drive.data]
    BY Interrupted, Zenon
  <2>3. disk \in [Sector -> Data]
    BY <1>0, Zenon DEF TypeOK
  <2> QED
    BY <2>1, <2>2, <2>3, Zenon
<1> HIDE DEF b
<1>3. /\ queue' \in Seq(Buf) /\ IsInjective(queue') /\ Range(queue') = Range(queue) \ {b}
      /\ \A i \in 1 .. Len(queue') : queue'[i] = queue[i + 1] /\ i + 1 \in 1 .. Len(queue) /\ queue'[i] # b
  BY <1>0, <1>1, Removed, Zenon DEF b, QueueServed
<1>4. /\ pc \in [Proc -> PC] /\ pc' \in [Proc -> PC]
      /\ \A q \in Proc : /\ pc'[q] # pc[q] => /\ cur[q] = b
                                              /\ \/ pc[q] = "bgetsleep" /\ pc'[q] = "bget"
                                                 \/ pc[q] = "iosleep" /\ pc'[q] = "iowake"
                         /\ cur[q] = b => pc'[q] \notin {"bgetsleep", "iosleep"}
                         /\ pc'[q] \in InIderw <=> pc[q] \in InIderw
                         /\ pc'[q] \in InIderw \cup {"got"} <=> pc[q] \in InIderw \cup {"got"}
  BY <1>0, <1>1, Woken, Zenon DEF TypeOK
<1>5. \A q \in Proc : Locked(q)' = Locked(q)
  BY <1>1, <1>4, LockedKept, Zenon
<1>6. OneUser'
  BY <1>0, <1>1, <1>5, OneUserKept, Zenon
<1>7. ASSUME NEW i \in 1 .. Len(queue')
      PROVE  /\ queue'[i] \in Buf /\ buf'[queue'[i]] = buf[queue'[i]] /\ buf[queue'[i]].busy
             /\ ~Synced(queue[i])' /\ \E q \in Proc : cur'[q] = queue'[i] /\ pc'[q] \in InIderw
  <2>1. queue'[i] = queue[i + 1] /\ i + 1 \in 1 .. Len(queue) /\ queue'[i] # b
    BY <1>3, Zenon
  <2>2. queue[i + 1] \in Range(queue)
    BY <1>0, <2>1 DEF Range
  <2>3. queue'[i] \in Buf /\ buf[queue'[i]].busy /\ ~Synced(queue'[i])
    BY <2>1, <2>2, QueuedBusy, Zenon
  <2>4. PICK q \in Proc : cur[q] = queue'[i] /\ pc[q] \in InIderw
    BY <1>0, <2>1, Zenon DEF QueueServed
  <2>5. buf'[queue'[i]] = buf[queue'[i]]
    BY <1>1, <2>1, <2>3, Zenon
  <2>6. ~Synced(queue[i])'
    BY <2>3, <2>5, Zenon DEF Synced
  <2> QED
    BY <1>1, <1>4, <2>3, <2>4, <2>5, <2>6
<1>8. queue' # <<>> => 1 \in 1 .. Len(queue') /\ Head(queue') = queue'[1]
  BY <1>3
<1>9. /\ queue' = <<>> => drive' = NoCommand
      /\ queue' # <<>> => drive' = Start(Head(queue'), buf')
  BY <1>1, Zenon DEF StartNext
<1>10. \A x : Start(x, buf') # NoCommand
  BY Zenon DEF Start, NoCommand
<1>11. QueueServed'
  BY <1>3, <1>7, <1>9, <1>10, Zenon DEF QueueServed
<1>12. drive' \in Command \cup {NoCommand}
  <2>1. CASE queue' = <<>>
    BY <1>9, <2>1, Zenon
  <2>2. CASE queue' # <<>>
    <3>1. Head(queue') \in Buf /\ buf'[Head(queue')].sector \in Sector
      BY <1>0, <1>7, <1>8, <2>2 DEF BufInv
    <3>2. buf'[Head(queue')].data \in Data
      BY <1>1, <3>1, BufFields, Zenon
    <3> QED
      BY <1>9, <2>2, <3>1, <3>2 DEF Start, Command
  <2> QED
    BY <2>1, <2>2, Zenon
<1>13. TypeOK'
  BY <1>0, <1>1, <1>2, <1>3, <1>4, <1>12, Zenon DEF TypeOK
<1>14. SleeperHasWaker'
  BY <1>0, <1>1, <1>3, <1>4, <1>5 DEF SleeperHasWaker
<1>15. \A c \in Buf : buf'[c].sector = buf[c].sector
  BY <1>1, Zenon
<1>16. ASSUME NEW q \in Proc PROVE ProcInv(q)'
  <2>1. \A c \in held[q] : buf'[c].sector = buf[c].sector
    BY <1>0, <1>15, Zenon
  <2>2. pc'[q] = "iowake" /\ ~Synced(cur[q])' => cur[q] \in Range(queue')
    <3>1. SUFFICES ASSUME pc'[q] = "iowake", ~Synced(cur[q])' PROVE cur[q] \in Range(queue')
      BY Zenon
    <3>2. cur[q] \in Buf /\ cur[q] # b
      BY <1>0, <1>1, <1>4, <3>1, Zenon DEF ProcInv, Synced, InIderw
    <3>3. pc[q] = "iowake" /\ ~Synced(cur[q])
      BY <1>1, <1>4, <3>1, <3>2, Zenon DEF Synced
    <3> QED
      BY <1>0, <1>3, <3>2, <3>3, Zenon DEF ProcInv
  <2> QED
    BY <1>0, <1>1, <1>4, <2>1, <2>2 DEF ProcInv, InIderw
<1>17. OneBufferPerSector'
  BY <1>0, <1>15, Zenon DEF OneBufferPerSector
<1>18. b \in Range(queue)
  BY <1>0, <1>1, Removed, Zenon DEF b, QueueServed
<1>19. \A c \in Buf : BufInv(c)'
  <2>1. buf[b].sector \in Sector
    BY <1>0, <1>1, <1>18, QueuedBusy, Zenon DEF BufInv
  <2> QED
    BY <1>0, <1>1, <2>1, Zenon DEF BufInv
<1>20. Pinned' = Pinned
  BY <1>1, <1>3, <1>18, Zenon DEF Pinned
<1> QED
  BY <1>6, <1>11, <1>13, <1>14, <1>16, <1>17, <1>19, <1>20, Parts, Zenon DEF IInv

-----------------------------------------------------------------------------
(* The invariant.                                                           *)

\* Every step of bio.c and ide.c preserves the invariant.
LEMMA NextIInv ==
  IInv /\ Counting /\ [Next]_vars => IInv'
<1> SUFFICES ASSUME IInv, Counting, [Next]_vars PROVE IInv'
  BY Zenon
<1>1. ASSUME NEW p \in Proc, InCache(p) PROVE IInv'
  BY <1>1, BgetHitIInv, BgetWaitIInv, BgetRecycleIInv, BgetPanicIInv, BreadReturnIInv, BreadIoIInv,
     IderwReturnIInv, IderwSleepIInv, Zenon DEF InCache
<1>2. ASSUME NEW p \in Proc, Kill(p) PROVE IInv'
  BY <1>2, KillIInv, Zenon
<1>3. ASSUME NEW p \in Proc, NEW s \in Sector, CallBread(p, s) PROVE IInv'
  BY <1>3, CallBreadIInv, Zenon
<1>4. ASSUME NEW p \in Proc, NEW b \in Buf, Brelse(p, b) PROVE IInv'
  BY <1>4, BrelseIInv, Zenon
<1>5. ASSUME NEW p \in Proc, NEW b \in Buf, NEW d \in Data, Bwrite(p, b, d) \/ LogPin(p, b, d) PROVE IInv'
  BY <1>5, BwriteIInv, LogPinIInv, Zenon
<1>6. ASSUME NEW ok \in BOOLEAN, Ideintr(ok) PROVE IInv'
  BY <1>6, IdeintrIInv, Zenon
<1>7. CASE UNCHANGED vars
  <2>1. UNCHANGED <<buf, lru, queue, drive, disk, pc, want, cur, held>>
    BY <1>7, Zenon DEF vars
  <2>2. Pinned' = Pinned /\ \A p \in Proc : Locked(p)' = Locked(p)
    BY <2>1, Zenon DEF Pinned, Locked
  <2>3. TypeOK' /\ OneBufferPerSector' /\ \A b \in Buf : BufInv(b)'
    BY <2>1, Parts, Zenon DEF TypeOK, OneBufferPerSector, BufInv
  <2>4. OneUser' /\ QueueServed' /\ SleeperHasWaker'
    BY <2>1, <2>2, Parts DEF OneUser, QueueServed, SleeperHasWaker, Synced
  <2>5. \A p \in Proc : ProcInv(p)'
    BY <2>1, Parts, Zenon DEF ProcInv, Synced
  <2> QED
    BY <2>2, <2>3, <2>4, <2>5, Parts, Zenon DEF IInv
<1> QED
  BY <1>1, <1>2, <1>3, <1>4, <1>5, <1>6, <1>7, Zenon DEF Next

-----------------------------------------------------------------------------
(* The theorems.                                                            *)

\* There are finitely many buffers.
LEMMA BuffersCounted ==
  Counting
<1> SUFFICES ASSUME NEW S \in SUBSET Buf
             PROVE  /\ NBUF \in Nat /\ Cardinality(S) \in Nat
                    /\ \A b \in Buf : Cardinality(S \cup {b}) <= Cardinality(S) + 1
                    /\ \A T \in SUBSET S : Cardinality(T) <= Cardinality(S)
  BY Zenon DEF Counting
<1>1. IsFiniteSet(S) /\ NBUF \in Nat
  BY BufCacheConstants, FS_Subset, FS_CardinalityType, Zenon DEF NBUF
<1>2. Cardinality(S) \in Nat
  BY <1>1, FS_CardinalityType, Zenon
<1>3. ASSUME NEW b \in Buf PROVE Cardinality(S \cup {b}) <= Cardinality(S) + 1
  <2>1. Cardinality(S \cup {b}) = IF b \in S THEN Cardinality(S) ELSE Cardinality(S) + 1
    BY <1>1, FS_AddElement, Zenon
  <2> QED
    BY <1>2, <2>1
<1>4. ASSUME NEW T \in SUBSET S PROVE Cardinality(T) <= Cardinality(S)
  BY <1>1, FS_Subset, Zenon
<1> QED
  BY <1>1, <1>2, <1>3, <1>4, Zenon

\* binit leaves every buffer empty and nobody in the cache.
LEMMA InitIInv ==
  Init => IInv
<1> SUFFICES ASSUME Init PROVE IInv
  OBVIOUS
<1>1. /\ disk \in [Sector -> Data] /\ queue = <<>> /\ drive = NoCommand
      /\ pc = [p \in Proc |-> "idle"] /\ want = [p \in Proc |-> NoSector]
      /\ cur = [p \in Proc |-> NoBuf] /\ held = [p \in Proc |-> {}]
  BY Zenon DEF Init
<1>2. PICK d \in Data : buf = [b \in Buf |-> [sector |-> NoSector, busy |-> FALSE,
                                              valid |-> FALSE, dirty |-> FALSE, data |-> d]]
  BY Zenon DEF Init
<1>3. \A b \in Buf : buf[b].sector = NoSector /\ ~buf[b].busy /\ ~buf[b].valid /\ ~buf[b].dirty
  BY <1>2, Zenon
<1>4. lru \in Bijection(1 .. NBUF, Buf)
  <2>1. \E n \in Nat : ExistsBijection(1 .. n, Buf)
    BY BufCacheConstants, FS_NatBijection, Zenon
  <2>2. ExistsBijection(1 .. NBUF, Buf)
    BY <2>1, FS_CountingElements, Zenon DEF NBUF
  <2> QED
    BY <2>2, Zenon DEF Init, ExistsBijection
<1>5. TypeOK
  <2>1. buf \in [Buf -> BufRecord]
    BY <1>2, Zenon DEF BufRecord
  <2> QED
    BY <1>1, <1>4, <2>1 DEF TypeOK, PC
<1>6. \A p \in Proc : Locked(p) = {}
  BY <1>1, BufCacheConstants, Zenon DEF Locked, InIderw
<1>7. OneUser /\ OneBufferPerSector
  BY <1>3, <1>6, Zenon DEF OneUser, OneBufferPerSector
<1>8. QueueServed /\ SleeperHasWaker
  BY <1>1 DEF QueueServed, SleeperHasWaker, IsInjective
<1>9. \A b \in Buf : BufInv(b)
  BY <1>1, <1>3, Zenon DEF BufInv
<1>10. Cardinality({}) = 0
  BY FS_EmptySet, Zenon
<1>11. \A p \in Proc : ProcInv(p)
  BY <1>1, <1>10, BufCacheConstants DEF ProcInv, InIderw
<1>12. Pinned = {}
  BY <1>3, Zenon DEF Pinned
<1> QED
  BY <1>5, <1>7, <1>8, <1>9, <1>10, <1>11, <1>12, BufCacheConstants DEF IInv

\* The state of the cache, of the driver's queue and of every process that uses
\* them stays consistent, whatever the drive reports.
THEOREM CacheInvariant ==
  Spec => []IInv
BY InitIInv, NextIInv, BuffersCounted, PTL DEF Spec

\* A sector has one buffer and a buffer one user: bget, brelse and the sleeps in
\* between never hand a buffer to two processes, or a sector two buffers.
THEOREM CacheExclusive ==
  Spec => []BuffersExclusive
<1>1. IInv => BuffersExclusive
  BY Zenon DEF IInv, BuffersExclusive
<1> QED
  BY <1>1, CacheInvariant, PTL

\* No wakeup is lost in bget or iderw: a sleeper's buffer is in use or queued.
THEOREM CacheSleepers ==
  Spec => []SleeperHasWaker
<1>1. IInv => SleeperHasWaker
  BY Zenon DEF IInv
<1> QED
  BY <1>1, CacheInvariant, PTL

\* ideintr always finds the request it completes at the head of idequeue, the
\* drive is never left idle with requests queued, and no buffer is queued twice.
THEOREM CacheQueue ==
  Spec => []QueueServed
<1>1. IInv => QueueServed
  BY Zenon DEF IInv
<1> QED
  BY <1>1, CacheInvariant, PTL

-----------------------------------------------------------------------------
(* The contents, when the drive does what it is told.                       *)

\* The newest contents of a sector, given that it has one buffer.
LEMMA NewestIs ==
  ASSUME OneBufferPerSector, NEW s \in Sector
  PROVE  /\ \A b \in Buf : buf[b].sector = s /\ buf[b].dirty => Newest(s) = buf[b].data
         /\ (\A b \in Buf : buf[b].sector = s => ~buf[b].dirty) => Newest(s) = disk[s]
<1>1. ASSUME NEW b \in Buf, buf[b].sector = s, buf[b].dirty PROVE Newest(s) = buf[b].data
  <2> DEFINE c == CHOOSE x \in Cached(s) : buf[x].dirty
  <2>1. b \in Cached(s)
    BY <1>1, Zenon DEF Cached
  <2>2. c \in Cached(s) /\ buf[c].dirty
    BY <1>1, <2>1, Zenon
  <2>3. c = b
    BY <1>1, <2>2, BufCacheConstants, Zenon DEF OneBufferPerSector, Cached
  <2>4. Newest(s) = buf[c].data
    BY <1>1, <2>1, Zenon DEF Newest
  <2> QED
    BY <2>3, <2>4, Zenon
<1>2. ASSUME \A b \in Buf : buf[b].sector = s => ~buf[b].dirty PROVE Newest(s) = disk[s]
  BY <1>2, Zenon DEF Newest, Cached
<1> QED
  BY <1>1, <1>2, Zenon

\* ideintr, when the drive does not fail: the head is written to its sector if it
\* was B_DIRTY and read from it otherwise.
LEMMA Transferred ==
  ASSUME IInv, ~DriveErrors, NEW ok \in BOOLEAN, Ideintr(ok)
  PROVE  LET b == Head(queue)
         IN /\ b \in Buf /\ buf[b].sector \in Sector /\ buf'[b].sector = buf[b].sector
            /\ buf'[b].valid /\ ~buf'[b].dirty /\ \A c \in Buf \ {b} : buf'[c] = buf[c]
            /\ disk'[buf[b].sector] = buf'[b].data
            /\ buf[b].dirty => buf'[b].data = buf[b].data
            /\ ~buf[b].dirty => buf'[b].data = disk[buf[b].sector]
            /\ \A s \in Sector \ {buf[b].sector} : disk'[s] = disk[s]
<1> DEFINE b == Head(queue)
<1>1. /\ b \in Buf /\ drive = Start(b, buf) /\ drive \in Command
      /\ disk' = (IF drive.op = "write" /\ ok THEN [disk EXCEPT ![drive.sector] = drive.data] ELSE disk)
      /\ buf'[b].sector = buf[b].sector /\ buf'[b].valid /\ ~buf'[b].dirty
      /\ buf'[b].data = (IF drive.op = "read" /\ ok THEN disk[drive.sector] ELSE buf[b].data)
      /\ \A c \in Buf \ {b} : buf'[c] = buf[c]
  BY Interrupted, Zenon
<1>2. ok
  BY Zenon DEF Ideintr
<1> HIDE DEF b
<1>3. drive.op = (IF buf[b].dirty THEN "write" ELSE "read") /\ drive.sector = buf[b].sector /\ drive.data = buf[b].data
  BY <1>1, Zenon DEF Start
<1>4. drive.sector \in Sector
  BY <1>1, Zenon DEF Command
<1>5. disk \in [Sector -> Data]
  BY Parts, Zenon DEF TypeOK
<1>6. CASE buf[b].dirty
  <2>1. disk' = [disk EXCEPT ![buf[b].sector] = buf[b].data] /\ buf'[b].data = buf[b].data
    BY <1>1, <1>2, <1>3, <1>6, Zenon
  <2>2. disk'[buf[b].sector] = buf[b].data /\ \A s \in Sector \ {buf[b].sector} : disk'[s] = disk[s]
    BY <1>3, <1>4, <1>5, <2>1, Zenon
  <2> QED
    BY <1>1, <1>3, <1>4, <1>6, <2>1, <2>2, Zenon DEF b
<1>7. CASE ~buf[b].dirty
  <2>1. disk' = disk /\ buf'[b].data = disk[buf[b].sector]
    BY <1>1, <1>2, <1>3, <1>7, Zenon
  <2> QED
    BY <1>1, <1>3, <1>4, <1>7, <2>1, Zenon DEF b
<1> QED
  BY <1>6, <1>7, Zenon

\* What a step other than the interrupt does to a buffer's contents: nothing, or
\* bget empties a clean buffer, or its holder writes to it.
Untouched(c) == /\ buf'[c].sector = buf[c].sector /\ buf'[c].data = buf[c].data
                /\ buf'[c].valid = buf[c].valid /\ buf'[c].dirty = buf[c].dirty
Emptied(c) == ~buf[c].dirty /\ ~buf'[c].valid /\ ~buf'[c].dirty
WrittenByHolder(c) == /\ buf'[c].sector = buf[c].sector /\ buf'[c].dirty
                      /\ \E p \in Proc : pc[p] = "idle" /\ c \in held[p]

\* Every step but the interrupt is of that kind for every buffer, and leaves the
\* disk alone.
LEMMA Steps ==
  ASSUME IInv, [Next]_vars
  PROVE  \/ \E ok \in BOOLEAN : Ideintr(ok)
         \/ disk' = disk /\ \A c \in Buf : Untouched(c) \/ Emptied(c) \/ WrittenByHolder(c)
<1>0. buf \in [Buf -> BufRecord]
  BY Parts, Zenon DEF TypeOK
<1>1. CASE UNCHANGED <<buf, disk>>
  BY <1>1, Zenon DEF Untouched
<1>2. ASSUME NEW p \in Proc, BgetHit(p) PROVE disk' = disk /\ \A c \in Buf : Untouched(c)
  <2>1. PICK b \in Buf : buf' = [buf EXCEPT ![b].busy = TRUE]
    BY <1>2, Zenon DEF BgetHit, Cached
  <2>2. disk' = disk
    BY <1>2, Zenon DEF BgetHit
  <2>3. Untouched(b) /\ \A c \in Buf \ {b} : buf'[c] = buf[c]
    BY <1>0, <2>1, BusySet, Zenon DEF Untouched
  <2> QED
    BY <2>2, <2>3, Zenon DEF Untouched
<1>3. ASSUME NEW p \in Proc, BgetRecycle(p)
      PROVE  disk' = disk /\ \A c \in Buf : Untouched(c) \/ Emptied(c)
  <2>1. PICK k \in 1 .. NBUF :
           Free(lru[k]) /\ buf' = [buf EXCEPT ![lru[k]] = [@ EXCEPT !.sector = want[p], !.busy = TRUE,
                                                                    !.valid = FALSE, !.dirty = FALSE]]
    BY <1>3, Zenon DEF BgetRecycle
  <2>2. disk' = disk /\ pc[p] = "bget"
    BY <1>3, Zenon DEF BgetRecycle
  <2>3. lru[k] \in Buf /\ ~buf[lru[k]].dirty
    BY <2>1, Parts, Zenon DEF TypeOK, Bijection, Injection, Free
  <2>4. want[p] \in Sector
    BY <2>2, Parts, Zenon DEF ProcInv
  <2>5. Emptied(lru[k]) /\ \A c \in Buf \ {lru[k]} : buf'[c] = buf[c]
    BY <1>0, <2>1, <2>3, <2>4, Recycled, Zenon DEF Emptied
  <2> QED
    BY <2>2, <2>5, Zenon DEF Untouched
<1>4. ASSUME NEW p \in Proc, NEW b \in Buf, Brelse(p, b) PROVE disk' = disk /\ \A c \in Buf : Untouched(c)
  <2>1. buf' = [buf EXCEPT ![b].busy = FALSE] /\ disk' = disk
    BY <1>4, Zenon DEF Brelse
  <2>2. Untouched(b) /\ \A c \in Buf \ {b} : buf'[c] = buf[c]
    BY <1>0, <2>1, BusySet, Zenon DEF Untouched
  <2> QED
    BY <2>1, <2>2, Zenon DEF Untouched
<1>5. ASSUME NEW p \in Proc, NEW b \in Buf, NEW d \in Data, Bwrite(p, b, d) \/ LogPin(p, b, d)
      PROVE  disk' = disk /\ \A c \in Buf : Untouched(c) \/ WrittenByHolder(c)
  <2>1. buf' = [buf EXCEPT ![b].data = d, ![b].dirty = TRUE] /\ disk' = disk /\ pc[p] = "idle" /\ b \in held[p]
    BY <1>5, Zenon DEF Bwrite, LogPin, Update
  <2>2. WrittenByHolder(b) /\ \A c \in Buf \ {b} : buf'[c] = buf[c]
    BY <1>0, <2>1, DataSet, Zenon DEF WrittenByHolder
  <2> QED
    BY <2>1, <2>2, Zenon DEF Untouched
<1>6. ASSUME NEW p \in Proc, InCache(p) \/ Kill(p) PROVE BgetHit(p) \/ BgetRecycle(p) \/ UNCHANGED <<buf, disk>>
  BY <1>6, Zenon DEF InCache, BgetWait, BgetPanic, BreadReturn, BreadIo, IderwReturn, IderwSleep, Kill
<1>7. ASSUME NEW p \in Proc, NEW s \in Sector, CallBread(p, s) PROVE UNCHANGED <<buf, disk>>
  BY <1>7, Zenon DEF CallBread
<1>8. UNCHANGED vars => UNCHANGED <<buf, disk>>
  BY Zenon DEF vars
<1> QED
  BY <1>1, <1>2, <1>3, <1>4, <1>5, <1>6, <1>7, <1>8, Zenon DEF Next

\* A valid buffer that nobody has changed since holds what is on disk: recycling,
\* queueing and the order of the interrupts never mix two sectors up.
THEOREM CacheContents ==
  ASSUME ~DriveErrors
  PROVE  Spec => []ValidMeansRead
<1>1. Init => ValidMeansRead
  <2> SUFFICES ASSUME Init, NEW b \in Buf PROVE ~buf[b].valid
    BY Zenon DEF ValidMeansRead
  <2>1. PICK d \in Data : buf = [c \in Buf |-> [sector |-> NoSector, busy |-> FALSE,
                                                valid |-> FALSE, dirty |-> FALSE, data |-> d]]
    BY Zenon DEF Init
  <2> QED
    BY <2>1, Zenon
<1>2. IInv /\ IInv' /\ ValidMeansRead /\ [Next]_vars => ValidMeansRead'
  <2> SUFFICES ASSUME IInv, IInv', ValidMeansRead, [Next]_vars, NEW c \in Buf, buf'[c].valid, ~buf'[c].dirty
               PROVE  buf'[c].data = disk'[buf'[c].sector]
    BY Zenon DEF ValidMeansRead
  <2>1. ASSUME NEW ok \in BOOLEAN, Ideintr(ok) PROVE buf'[c].data = disk'[buf'[c].sector]
    <3> DEFINE b == Head(queue)
    <3>1. /\ b \in Buf /\ buf[b].sector \in Sector /\ buf'[b].sector = buf[b].sector
          /\ \A x \in Buf \ {b} : buf'[x] = buf[x]
          /\ disk'[buf[b].sector] = buf'[b].data
          /\ \A s \in Sector \ {buf[b].sector} : disk'[s] = disk[s]
      BY <2>1, Transferred, Zenon
    <3> HIDE DEF b
    <3>2. CASE c = b
      BY <3>1, <3>2, Zenon
    <3>3. CASE c # b
      <4>1. buf'[c] = buf[c] /\ buf[c].valid /\ ~buf[c].dirty
        BY <3>1, <3>3, Zenon
      <4>2. buf[c].sector \in Sector
        BY <4>1, Parts, Zenon DEF BufInv
      <4>3. buf[c].sector # buf[b].sector
        BY <3>1, <3>3, <4>2, Parts, BufCacheConstants, Zenon DEF OneBufferPerSector
      <4> QED
        BY <3>1, <4>1, <4>2, <4>3 DEF ValidMeansRead
    <3> QED
      BY <3>2, <3>3, Zenon
  <2>2. CASE disk' = disk /\ \A x \in Buf : Untouched(x) \/ Emptied(x) \/ WrittenByHolder(x)
    BY <2>2 DEF Untouched, Emptied, WrittenByHolder, ValidMeansRead
  <2> QED
    BY <2>1, <2>2, Steps, Zenon
<1> QED
  BY <1>1, <1>2, CacheInvariant, PTL DEF Spec

\* bread returns the newest contents of the sector, from the buffer or the disk.
THEOREM CacheNewest ==
  ASSUME ~DriveErrors
  PROVE  Spec => []BreadReturnsNewest
<1>1. IInv /\ ValidMeansRead => BreadReturnsNewest
  <2> SUFFICES ASSUME IInv, ValidMeansRead, NEW p \in Proc, NEW b \in held[p]
               PROVE  buf[b].valid /\ buf[b].data = Newest(buf[b].sector)
    BY Zenon DEF BreadReturnsNewest
  <2>1. b \in Buf /\ buf[b].valid /\ buf[b].sector \in Sector
    BY Parts, Zenon DEF BufInv
  <2>2. CASE buf[b].dirty
    BY <2>1, <2>2, Parts, NewestIs, Zenon
  <2>3. CASE ~buf[b].dirty
    <3>1. \A c \in Buf : buf[c].sector = buf[b].sector => c = b
      BY <2>1, Parts, BufCacheConstants, Zenon DEF OneBufferPerSector
    <3>2. Newest(buf[b].sector) = disk[buf[b].sector]
      BY <2>1, <2>3, <3>1, Parts, NewestIs, Zenon
    <3> QED
      BY <2>1, <2>3, <3>2, Zenon DEF ValidMeansRead
  <2> QED
    BY <2>1, <2>2, <2>3, Zenon
<1> QED
  BY <1>1, CacheInvariant, CacheContents, PTL

\* The newest contents of a sector change only when a process that holds its
\* buffer changes them: recycling, queueing and the interrupt lose no write.
THEOREM CacheKeepsWrites ==
  ASSUME ~DriveErrors
  PROVE  Spec => NoLostWrite
<1> DEFINE Writer(s) == \E p \in Proc : \E b \in held[p] : buf[b].sector = s /\ pc[p] = "idle"
<1>1. IInv /\ IInv' /\ [Next]_vars => [\A s \in Sector : Newest(s)' # Newest(s) => Writer(s)]_vars
  <2> SUFFICES ASSUME IInv, IInv', [Next]_vars, NEW s \in Sector, ~Writer(s) PROVE Newest(s)' = Newest(s)
    BY Zenon
  <2>0. OneBufferPerSector /\ OneBufferPerSector'
    BY Zenon DEF IInv
  <2>a. /\ \A b \in Buf : buf[b].sector = s /\ buf[b].dirty => Newest(s) = buf[b].data
        /\ (\A b \in Buf : buf[b].sector = s => ~buf[b].dirty) => Newest(s) = disk[s]
    BY <2>0, NewestIs, Zenon
  <2>b. /\ \A b \in Buf : buf'[b].sector = s /\ buf'[b].dirty => Newest(s)' = buf'[b].data
        /\ (\A b \in Buf : buf'[b].sector = s => ~buf'[b].dirty) => Newest(s)' = disk'[s]
    <3>1. \A b \in Buf : buf'[b].sector = s /\ buf'[b].dirty => Newest(s)' = buf'[b].data
      <4> SUFFICES ASSUME NEW b \in Buf, buf'[b].sector = s, buf'[b].dirty PROVE Newest(s)' = buf'[b].data
        BY Zenon
      <4> DEFINE c == CHOOSE x \in {y \in Buf : buf'[y].sector = s} : buf'[x].dirty
      <4>1. c \in Buf /\ buf'[c].sector = s /\ buf'[c].dirty
        BY Zenon
      <4>2. c = b
        BY <2>0, <4>1, BufCacheConstants, Zenon DEF OneBufferPerSector
      <4>3. Newest(s)' = buf'[c].data
        BY Zenon DEF Newest, Cached
      <4> QED
        BY <4>2, <4>3, Zenon
    <3>2. (\A b \in Buf : buf'[b].sector = s => ~buf'[b].dirty) => Newest(s)' = disk'[s]
      BY Zenon DEF Newest, Cached
    <3> QED
      BY <3>1, <3>2, Zenon
  <2>1. ASSUME NEW ok \in BOOLEAN, Ideintr(ok) PROVE Newest(s)' = Newest(s)
    <3> DEFINE b == Head(queue)
    <3>1. /\ b \in Buf /\ buf[b].sector \in Sector /\ buf'[b].sector = buf[b].sector /\ ~buf'[b].dirty
          /\ \A x \in Buf \ {b} : buf'[x] = buf[x]
          /\ disk'[buf[b].sector] = buf'[b].data
          /\ buf[b].dirty => buf'[b].data = buf[b].data
          /\ ~buf[b].dirty => buf'[b].data = disk[buf[b].sector]
          /\ \A x \in Sector \ {buf[b].sector} : disk'[x] = disk[x]
      BY <2>1, Transferred, Zenon
    <3> HIDE DEF b
    <3>2. CASE buf[b].sector = s
      <4>1. \A c \in Buf : buf[c].sector = s => c = b
        BY <2>0, <3>1, <3>2, BufCacheConstants, Zenon DEF OneBufferPerSector
      <4>2. \A c \in Buf : buf'[c].sector = s => ~buf'[c].dirty
        BY <3>1, <4>1, Zenon
      <4>3. Newest(s)' = buf'[b].data
        BY <2>b, <3>1, <3>2, <4>2, Zenon
      <4>4. Newest(s) = buf'[b].data
        BY <2>a, <3>1, <3>2, <4>1, Zenon
      <4> QED
        BY <4>3, <4>4, Zenon
    <3>3. CASE buf[b].sector # s
      BY <2>a, <2>b, <3>1, <3>3
    <3> QED
      BY <3>2, <3>3, Zenon
  <2>2. ASSUME disk' = disk, \A c \in Buf : Untouched(c) \/ Emptied(c) \/ WrittenByHolder(c)
        PROVE  Newest(s)' = Newest(s)
    <3>1. ASSUME NEW c \in Buf
          PROVE  /\ buf'[c].sector = s /\ buf'[c].dirty <=> buf[c].sector = s /\ buf[c].dirty
                 /\ buf[c].sector = s /\ buf[c].dirty => buf'[c].data = buf[c].data
      <4>1. buf[c].sector = s => ~WrittenByHolder(c)
        BY Zenon DEF WrittenByHolder
      <4>2. Untouched(c) \/ Emptied(c) \/ WrittenByHolder(c)
        BY <2>2, Zenon
      <4> QED
        BY <4>1, <4>2, Zenon DEF Untouched, Emptied, WrittenByHolder
    <3>2. CASE \E c \in Buf : buf[c].sector = s /\ buf[c].dirty
      BY <2>a, <2>b, <3>1, <3>2
    <3>3. CASE \A c \in Buf : ~(buf[c].sector = s /\ buf[c].dirty)
      BY <2>2, <2>a, <2>b, <3>1, <3>3, Zenon
    <3> QED
      BY <3>2, <3>3, Zenon
  <2> QED
    BY <2>1, <2>2, Steps, Zenon
<1> QED
  BY <1>1, CacheInvariant, PTL DEF Spec, NoLostWrite

=============================================================================
