------------------------------ MODULE BufCache ------------------------------
(***************************************************************************)
(* The buffer cache (bio.c) on top of the IDE driver (ide.c), used by      *)
(* several processes at once.                                              *)
(*                                                                         *)
(* One action per critical section: bget and brelse run under bcache.lock, *)
(* iderw and ideintr under idelock, and sleep() gives its lock up and      *)
(* sleeps in one step.  kill() makes any sleeper runnable, so a process    *)
(* can come out of sleep() with nothing changed.                           *)
(***************************************************************************)
EXTENDS Sequences, FiniteSets, Functions

CONSTANTS Proc,        \* the processes that use the cache
          Buf,         \* the NBUF buffers
          Sector,      \* (dev, sector) pairs
          Data,        \* the contents of a sector
          NoSector,    \* b->dev = -1: the buffer holds no sector yet
          NoBuf,
          MaxHold,     \* buffers a process locks at the same time
          LOGSIZE,     \* buffers the log keeps B_DIRTY at the same time
          DriveErrors  \* whether the drive can fail a command

ASSUME BufCacheConstants == /\ NoSector \notin Sector
                            /\ NoBuf \notin Buf
                            /\ IsFiniteSet(Buf) /\ IsFiniteSet(Proc)
                            /\ MaxHold \in Nat
                            /\ LOGSIZE \in Nat
                            /\ DriveErrors \in BOOLEAN

VARIABLES buf,     \* struct buf: sector, the three flags, data
          lru,     \* bcache.head's list, most recently released first
          queue,   \* idequeue: the head is the active request
          drive,   \* the command in the drive's registers, if any
          disk,    \* the sectors on the platter
          pc,      \* where each process is
          want,    \* the sector a process has called bread for
          cur,     \* the buffer a process is waiting for or working on
          held     \* the buffers bread has returned to a process

NBUF == Cardinality(Buf)

vars == <<buf, lru, queue, drive, disk, pc, want, cur, held>>

NoCommand == [op |-> "none"]
Command == [op : {"read", "write"}, sector : Sector, data : Data]

\* "idle" outside bio.c; "bget" in bget's loop; "bgetsleep" asleep there;
\* "got" bget has returned; "iosleep" asleep in iderw; "iowake" awake there;
\* "panic" stopped by panic().
PC == {"idle", "bget", "bgetsleep", "got", "iosleep", "iowake", "panic"}

\* struct buf
BufRecord == [sector : Sector \cup {NoSector}, busy : BOOLEAN, valid : BOOLEAN,
              dirty : BOOLEAN, data : Data]

TypeOK ==
  /\ buf \in [Buf -> BufRecord]
  /\ lru \in Bijection(1 .. NBUF, Buf)
  /\ queue \in Seq(Buf)
  /\ drive \in Command \cup {NoCommand}
  /\ disk \in [Sector -> Data]
  /\ pc \in [Proc -> PC]
  /\ want \in [Proc -> Sector \cup {NoSector}]
  /\ cur \in [Proc -> Buf \cup {NoBuf}]
  /\ held \in [Proc -> SUBSET Buf]

-----------------------------------------------------------------------------
(* binit: every buffer empty, each pushed in front of the ones before.      *)

Init == /\ disk \in [Sector -> Data]
        /\ \E d \in Data : buf = [b \in Buf |-> [sector |-> NoSector, busy |-> FALSE,
                                    valid |-> FALSE, dirty |-> FALSE, data |-> d]]
        /\ lru = CHOOSE order \in Bijection(1 .. NBUF, Buf) : TRUE
        /\ queue = <<>>
        /\ drive = NoCommand
        /\ pc = [p \in Proc |-> "idle"]
        /\ want = [p \in Proc |-> NoSector]
        /\ cur = [p \in Proc |-> NoBuf]
        /\ held = [p \in Proc |-> {}]

-----------------------------------------------------------------------------
(* wakeup(b) on the program counters: every sleeper on b runs again.        *)

Wakeup(b) ==
  [p \in Proc |-> IF cur[p] = b /\ pc[p] = "bgetsleep" THEN "bget"
                  ELSE IF cur[p] = b /\ pc[p] = "iosleep" THEN "iowake"
                  ELSE pc[p]]

-----------------------------------------------------------------------------
(* bread(s), first part.  A caller may hold other buffers, in any order, but  *)
(* never asks for a sector whose buffer it has itself.                        *)

CallBread(p, s) ==
  /\ pc[p] = "idle"
  /\ Cardinality(held[p]) < MaxHold
  /\ \A b \in held[p] : buf[b].sector # s
  /\ pc' = [pc EXCEPT ![p] = "bget"]
  /\ want' = [want EXCEPT ![p] = s]
  /\ UNCHANGED <<buf, lru, queue, drive, disk, cur, held>>

(* bget *)

Cached(s) == {b \in Buf : buf[b].sector = s}

\* (BusyUnlessValid, and the definitions below named for what they get wrong,
\* are mutations.)
BusyUnlessValid(b) == buf[b].busy /\ ~buf[b].valid

Busy(b) == buf[b].busy

FreeEvenIfDirty(b) == ~buf[b].busy

Free(b) == ~buf[b].busy /\ ~buf[b].dirty

\* The buffer is cached and nobody uses it: take it.
BgetHit(p) ==
  /\ pc[p] = "bget"
  /\ \E b \in Cached(want[p]) :
        /\ ~Busy(b)
        /\ buf' = [buf EXCEPT ![b].busy = TRUE]
        /\ cur' = [cur EXCEPT ![p] = b]
  /\ pc' = [pc EXCEPT ![p] = "got"]
  /\ UNCHANGED <<lru, queue, drive, disk, want, held>>

\* Somebody uses it: sleep(b, &bcache.lock), then goto loop.
BgetWait(p) ==
  /\ pc[p] = "bget"
  /\ \E b \in Cached(want[p]) :
        /\ Busy(b)
        /\ cur' = [cur EXCEPT ![p] = b]
  /\ pc' = [pc EXCEPT ![p] = "bgetsleep"]
  /\ UNCHANGED <<buf, lru, queue, drive, disk, want, held>>

\* Not cached: recycle the least recently used buffer that is free.
BgetRecycle(p) ==
  /\ pc[p] = "bget"
  /\ Cached(want[p]) = {}
  /\ \E k \in 1 .. NBUF :
        /\ Free(lru[k])
        /\ \A j \in k + 1 .. NBUF : ~Free(lru[j])
        /\ buf' = [buf EXCEPT ![lru[k]] = [@ EXCEPT !.sector = want[p], !.busy = TRUE,
                                                    !.valid = FALSE, !.dirty = FALSE]]
        /\ cur' = [cur EXCEPT ![p] = lru[k]]
  /\ pc' = [pc EXCEPT ![p] = "got"]
  /\ UNCHANGED <<lru, queue, drive, disk, want, held>>

\* "bget: no buffers".
BgetPanic(p) ==
  /\ pc[p] = "bget"
  /\ Cached(want[p]) = {}
  /\ \A b \in Buf : ~Free(b)
  /\ pc' = [pc EXCEPT ![p] = "panic"]
  /\ UNCHANGED <<buf, lru, queue, drive, disk, want, cur, held>>

-----------------------------------------------------------------------------
(* iderw: append to idequeue, start the disk if it was idle, and sleep until *)
(* the interrupt has set B_VALID and cleared B_DIRTY.                        *)

\* idestart(b): a write hands its data to the drive here.
Start(b, bufs) == [op |-> IF bufs[b].dirty THEN "write" ELSE "read",
                   sector |-> bufs[b].sector, data |-> bufs[b].data]

Iderw(p, b, bufs) ==
  /\ queue' = Append(queue, b)
  /\ drive' = IF Head(queue') = b THEN Start(b, bufs) ELSE drive
  /\ pc' = [pc EXCEPT ![p] = "iosleep"]
  /\ cur' = [cur EXCEPT ![p] = b]

\* bread hands the buffer to its caller.
Return(p, b) ==
  /\ pc' = [pc EXCEPT ![p] = "idle"]
  /\ held' = [held EXCEPT ![p] = @ \cup {b}]
  /\ cur' = [cur EXCEPT ![p] = NoBuf]
  /\ want' = [want EXCEPT ![p] = NoSector]

\* bread, second part.
BreadReturn(p) ==
  /\ pc[p] = "got"
  /\ buf[cur[p]].valid
  /\ Return(p, cur[p])
  /\ UNCHANGED <<buf, lru, queue, drive, disk>>

BreadIo(p) ==
  /\ pc[p] = "got"
  /\ ~buf[cur[p]].valid
  /\ Iderw(p, cur[p], buf)
  /\ UNCHANGED <<buf, lru, disk, want, held>>

\* The while loop of iderw, after a wakeup.
AnyWakeupWillDo(b) == TRUE

Synced(b) == buf[b].valid /\ ~buf[b].dirty

IderwReturn(p) ==
  /\ pc[p] = "iowake"
  /\ Synced(cur[p])
  /\ Return(p, cur[p])
  /\ UNCHANGED <<buf, lru, queue, drive, disk>>

IderwSleep(p) ==
  /\ pc[p] = "iowake"
  /\ ~Synced(cur[p])
  /\ pc' = [pc EXCEPT ![p] = "iosleep"]
  /\ UNCHANGED <<buf, lru, queue, drive, disk, want, cur, held>>

-----------------------------------------------------------------------------
(* What a process does with a buffer bread gave it.                          *)

Update(p, b, d) == [buf EXCEPT ![b].data = d, ![b].dirty = TRUE]

\* bwrite, after new contents were put in the buffer.
Bwrite(p, b, d) ==
  /\ pc[p] = "idle"
  /\ b \in held[p]
  /\ buf' = Update(p, b, d)
  /\ Iderw(p, b, buf')
  /\ UNCHANGED <<lru, disk, want, held>>

\* log_write marks the buffer B_DIRTY and leaves the writing to
\* commit_trans; the log names at most LOGSIZE sectors.
Pinned == {b \in Buf : buf[b].dirty /\ b \notin Range(queue)}

LogPin(p, b, d) ==
  /\ pc[p] = "idle"
  /\ b \in held[p]
  /\ Cardinality(Pinned \cup {b}) <= LOGSIZE
  /\ buf' = Update(p, b, d)
  /\ UNCHANGED <<lru, queue, drive, disk, pc, want, cur, held>>

\* brelse: to the front of the list, not busy, wakeup(b).
MoveToFront(b) ==
  LET at == CHOOSE k \in 1 .. NBUF : lru[k] = b
  IN [k \in 1 .. NBUF |-> IF k = 1 THEN b ELSE IF k <= at THEN lru[k - 1] ELSE lru[k]]

Brelse(p, b) ==
  /\ pc[p] = "idle"
  /\ b \in held[p]
  /\ lru' = MoveToFront(b)
  /\ buf' = [buf EXCEPT ![b].busy = FALSE]
  /\ pc' = Wakeup(b)
  /\ held' = [held EXCEPT ![p] = @ \ {b}]
  /\ UNCHANGED <<queue, drive, disk, want, cur>>

-----------------------------------------------------------------------------
(* ideintr: the drive has finished the command of the queue's head.  When    *)
(* the drive reports an error the handler still marks the buffer B_VALID     *)
(* and clean.                                                                *)

StopAfterOne(q, bufs) == NoCommand

StartNext(q, bufs) == IF q = <<>> THEN NoCommand ELSE Start(Head(q), bufs)

Ideintr(ok) ==
  /\ drive # NoCommand
  /\ ok \/ DriveErrors
  /\ LET b == Head(queue)
         data == IF drive.op = "read" /\ ok THEN disk[drive.sector] ELSE buf[b].data
     IN /\ disk' = IF drive.op = "write" /\ ok
                   THEN [disk EXCEPT ![drive.sector] = drive.data] ELSE disk
        /\ buf' = [buf EXCEPT ![b] = [@ EXCEPT !.valid = TRUE, !.dirty = FALSE, !.data = data]]
        /\ pc' = Wakeup(b)
  /\ queue' = Tail(queue)
  /\ drive' = StartNext(queue', buf')
  /\ UNCHANGED <<lru, want, cur, held>>

\* kill() of a sleeper: it leaves sleep() though nothing it waits for came.
Kill(p) ==
  /\ pc[p] \in {"bgetsleep", "iosleep"}
  /\ pc' = [pc EXCEPT ![p] = IF @ = "bgetsleep" THEN "bget" ELSE "iowake"]
  /\ UNCHANGED <<buf, lru, queue, drive, disk, want, cur, held>>

-----------------------------------------------------------------------------
InCache(p) == \/ BgetHit(p) \/ BgetWait(p) \/ BgetRecycle(p) \/ BgetPanic(p)
              \/ BreadReturn(p) \/ BreadIo(p)
              \/ IderwReturn(p) \/ IderwSleep(p)

Next == \/ \E p \in Proc : InCache(p) \/ Kill(p)
        \/ \E p \in Proc, s \in Sector : CallBread(p, s)
        \/ \E p \in Proc, b \in Buf : Brelse(p, b)
        \/ \E p \in Proc, b \in Buf, d \in Data : Bwrite(p, b, d) \/ LogPin(p, b, d)
        \/ \E ok \in BOOLEAN : Ideintr(ok)

Spec == Init /\ [][Next]_vars

\* The scheduler runs every runnable process again, the drive interrupts for
\* every command, and the callers of bread release what they hold.
Fairness == /\ \A p \in Proc : WF_vars(InCache(p))
            /\ \A p \in Proc : WF_vars(\E b \in Buf : Brelse(p, b))
            /\ WF_vars(\E ok \in BOOLEAN : Ideintr(ok))

FairSpec == Spec /\ Fairness

-----------------------------------------------------------------------------
(* The properties.                                                          *)

InIderw == {"iosleep", "iowake"}

\* The buffers process p has locked: bread has returned them or is about to.
Locked(p) == held[p] \cup {b \in Buf : cur[p] = b /\ pc[p] \in InIderw \cup {"got"}}

\* "Only one process at a time can use a buffer" (bio.c): B_BUSY is set
\* exactly while one process has the buffer, through every hit, recycling,
\* sleep and release.
OneUser ==
  /\ \A p, q \in Proc : p # q => Locked(p) \cap Locked(q) = {}
  /\ \A b \in Buf : buf[b].busy <=> \E p \in Proc : b \in Locked(p)

\* Two processes that miss on the same sector never give it two buffers.
OneBufferPerSector ==
  \A b, c \in Buf : buf[b].sector = buf[c].sector /\ buf[b].sector # NoSector => b = c

\* Together: a sector has one buffer and a buffer one user.
BuffersExclusive == TypeOK /\ OneUser /\ OneBufferPerSector

\* The newest contents of a sector: in a B_DIRTY buffer if there is one.
Newest(s) == IF \E b \in Cached(s) : buf[b].dirty
             THEN buf[CHOOSE b \in Cached(s) : buf[b].dirty].data
             ELSE disk[s]

\* bread returns the newest contents: what the last holder of the sector's
\* buffer left in it, though it may have been recycled and read again.
BreadReturnsNewest ==
  \A p \in Proc : \A b \in held[p] : buf[b].valid /\ buf[b].data = Newest(buf[b].sector)

\* Nothing but a process that holds the sector's buffer changes its newest
\* contents: no write is lost to recycling, queueing or the interrupt.
NoLostWrite ==
  [][\A s \in Sector : Newest(s)' # Newest(s) =>
        \E p \in Proc : \E b \in held[p] : buf[b].sector = s /\ pc[p] = "idle"]_vars

\* "B_VALID: buffer has been read from disk" (buf.h): a valid buffer that
\* nobody has changed since holds what is on disk.
ValidMeansRead ==
  \A b \in Buf : buf[b].valid /\ ~buf[b].dirty => buf[b].data = disk[buf[b].sector]

\* The drive works exactly while requests are queued, on the head's request,
\* and the queued buffers are distinct, busy and not in sync: ideintr never
\* completes a request for a buffer nobody waits for.
QueueServed ==
  /\ drive = NoCommand <=> queue = <<>>
  /\ queue # <<>> => drive = Start(Head(queue), buf)
  /\ IsInjective(queue)
  /\ \A i \in 1 .. Len(queue) :
        /\ ~Synced(queue[i])
        /\ \E p \in Proc : cur[p] = queue[i] /\ pc[p] \in InIderw

\* Whoever sleeps on a buffer will be woken: in bget by the process that has
\* it, in iderw by the interrupt for a request that is queued.
SleeperHasWaker ==
  \A p \in Proc :
     /\ pc[p] = "bgetsleep" => \E q \in Proc \ {p} : cur[p] \in Locked(q)
     /\ pc[p] = "iosleep" => cur[p] \in Range(queue)

\* Whoever sleeps in iderw leaves it with the request done, and whoever sleeps
\* for a buffer looks again, however often kill wakes them too early.
WaitersWake ==
  \A p \in Proc : pc[p] \in {"iosleep", "bgetsleep"} ~> pc[p] \in {"idle", "bget"}

-----------------------------------------------------------------------------
(* An inductive invariant, from which the safety properties above follow.   *)

\* What B_BUSY, B_VALID and B_DIRTY say of the sector in the buffer.
BufInv(b) ==
  /\ buf[b].busy \/ buf[b].valid => buf[b].sector \in Sector
  /\ buf[b].dirty => buf[b].valid
  /\ \A p \in Proc : b \in held[p] => buf[b].valid

\* What a process has reached: it wants a sector that it does not hold, or
\* works on a buffer that it holds.
ProcInv(p) ==
  /\ pc[p] \in {"bget", "bgetsleep", "got", "panic"} => want[p] \in Sector
  /\ pc[p] \in {"bgetsleep", "got"} \cup InIderw => cur[p] \in Buf
  /\ pc[p] = "idle" => want[p] = NoSector
  /\ pc[p] \in InIderw /\ want[p] = NoSector => cur[p] \in held[p]
  /\ pc[p] = "iowake" /\ ~Synced(cur[p]) => cur[p] \in Range(queue)
  /\ want[p] # NoSector => /\ Cardinality(held[p]) < MaxHold
                           /\ \A b \in held[p] : buf[b].sector # want[p]
  /\ Cardinality(held[p]) <= MaxHold

\* Together: what every step of bio.c and ide.c preserves.
IInv == /\ TypeOK /\ OneUser /\ OneBufferPerSector /\ QueueServed /\ SleeperHasWaker
        /\ \A b \in Buf : BufInv(b)
        /\ \A p \in Proc : ProcInv(p)
        /\ Cardinality(Pinned) <= LOGSIZE
=============================================================================
