-------------------------------- MODULE Log ---------------------------------
(***************************************************************************)
(* The redo log (log.c) over the buffer cache (bio.c) and a disk that      *)
(* writes one sector at a time and can lose power between any two writes.  *)
(*                                                                         *)
(* The disk is three areas: the home sectors, the log's data blocks        *)
(* (log.start + 1 + i holds slot i) and the header block (log.start).      *)
(* Every bwrite is one step, so a crash can fall between any two of them.  *)
(* Memory is the cached home sectors, the set of B_DIRTY buffers, and      *)
(* struct log.  Log blocks are always written through, so what bread       *)
(* returns for them is what is on disk (BufCache checks that).             *)
(*                                                                         *)
(* Recovery runs in the first process (forkret), before there is another.  *)
(***************************************************************************)
EXTENDS Naturals

CONSTANTS Proc,      \* the processes that make file system calls
          InitProc,  \* the first process, the one that runs initlog()
          Sector,    \* home sectors the file system writes
          Data,      \* the contents a sector can have
          Zero,      \* the contents mkfs gives the log's blocks
          LOGSIZE,   \* param.h: data blocks the header can name
          NLOG,      \* sb.nlog: blocks set aside for the log, header included
          NoBuf,     \* the sector is not in the buffer cache
          NoProc     \* nobody is in a transaction

ASSUME LogConstants == /\ InitProc \in Proc
                       /\ NoProc \notin Proc
                       /\ Sector # {}
                       /\ Zero \in Data
                       /\ NoBuf \notin Data
                       /\ LOGSIZE \in Nat \ {0}
                       /\ NLOG \in Nat \ {0}

VARIABLES home,      \* disk: the home sectors
          logblk,    \* disk: the log's data blocks
          head,      \* disk: the header block
          cache,     \* memory: cached contents of each home sector
          dirty,     \* memory: the sectors whose buffer is B_DIRTY
          lh,        \* memory: log.lh
          busy,      \* memory: log.busy
          pc,        \* where each process is
          tail       \* install_trans's loop variable, per activation

vars == <<home, logblk, head, cache, dirty, lh, busy, pc, tail>>
disk == <<home, logblk, head>>

Slot == 0 .. LOGSIZE - 1

\* struct logheader: n blocks; entries from n on keep whatever they held.
Header == [n : 0 .. LOGSIZE, sector : [Slot -> Sector]]

\* The program counter: "user" outside log.c, "sleep" asleep on &log,
\* "begin" awakened inside begin_trans, "trans" between begin_trans and
\* commit_trans, "install" and "release" inside commit_trans, "recover"
\* inside recover_from_log, "panic" stopped by panic(), "initlog" about to
\* recover, "none" not created yet.
PC == {"none", "initlog", "recover", "user", "begin", "sleep", "trans",
       "install", "release", "panic"}

TypeOK == /\ home \in [Sector -> Data]
          /\ logblk \in [Slot -> Data]
          /\ head \in Header
          /\ cache \in [Sector -> Data \cup {NoBuf}]
          /\ dirty \in SUBSET Sector
          /\ lh \in Header
          /\ busy \in BOOLEAN
          /\ pc \in [Proc -> PC]
          /\ tail \in [Proc -> 0 .. LOGSIZE]

-----------------------------------------------------------------------------
(* Power-on memory: BSS is zero, nothing is cached, one process exists.     *)

BootPC == [p \in Proc |-> IF p = InitProc THEN "initlog" ELSE "none"]

ZeroHeader == [n |-> 0, sector |-> [i \in Slot |-> CHOOSE s \in Sector : TRUE]]

\* A fresh disk image: any file system, an empty log.
Init == /\ home \in [Sector -> Data]
        /\ logblk = [i \in Slot |-> Zero]
        /\ head = ZeroHeader
        /\ cache = [s \in Sector |-> NoBuf]
        /\ dirty = {}
        /\ lh = ZeroHeader
        /\ busy = FALSE
        /\ pc = BootPC
        /\ tail = [p \in Proc |-> 0]

Crash == /\ cache' = [s \in Sector |-> NoBuf]
         /\ dirty' = {}
         /\ lh' = ZeroHeader
         /\ busy' = FALSE
         /\ pc' = BootPC
         /\ tail' = [p \in Proc |-> 0]
         /\ UNCHANGED disk

-----------------------------------------------------------------------------
(* The buffer cache as the log sees it.                                     *)

\* bread of a home sector that is not cached, by a process that is not
\* inside log.c: it may be in a transaction or only reading.
Read(p, s) == /\ pc[p] \in {"user", "trans"}
              /\ cache[s] = NoBuf
              /\ cache' = [cache EXCEPT ![s] = home[s]]
              /\ UNCHANGED <<disk, dirty, lh, busy, pc, tail>>

\* bget recycles only a buffer that is not B_DIRTY.
MayRecycle(s) == cache[s] # NoBuf /\ s \notin dirty

Recycle(s) == /\ MayRecycle(s)
              /\ cache' = [cache EXCEPT ![s] = NoBuf]
              /\ dirty' = dirty \ {s}
              /\ UNCHANGED <<disk, lh, busy, pc, tail>>

-----------------------------------------------------------------------------
(* write_head and read_head copy the first n entries and leave the rest.    *)

CopyHeader(from, to) ==
  [n |-> from.n,
   sector |-> [i \in Slot |-> IF i < from.n THEN from.sector[i] ELSE to.sector[i]]]

-----------------------------------------------------------------------------
(* begin_trans                                                              *)

BeginTrans(p) ==
  /\ pc[p] \in {"user", "begin"}
  /\ IF busy
     THEN /\ pc' = [pc EXCEPT ![p] = "sleep"]
          /\ UNCHANGED busy
     ELSE /\ pc' = [pc EXCEPT ![p] = "trans"]
          /\ busy' = TRUE
  /\ UNCHANGED <<disk, cache, dirty, lh, tail>>

-----------------------------------------------------------------------------
(* log_write: the caller has read sector s, made its contents d, and still  *)
(* holds the buffer.  After a panic the buffer stays B_BUSY in the hands of *)
(* a process that never runs again, so nobody sees what was put in it.      *)

LogFull == lh.n >= LOGSIZE \/ lh.n >= NLOG - 1

\* Log absorption: the slot already given to the sector, or the next one.
SlotOf(s) == IF \E i \in 0 .. lh.n - 1 : lh.sector[i] = s
             THEN CHOOSE i \in 0 .. lh.n - 1 : lh.sector[i] = s
             ELSE lh.n

LogWrite(p, s, d) ==
  /\ pc[p] = "trans"
  /\ IF LogFull \/ ~busy
     THEN /\ pc' = [pc EXCEPT ![p] = "panic"]
          /\ UNCHANGED <<logblk, lh, cache, dirty>>
     ELSE LET i == SlotOf(s)
          IN /\ lh' = [n |-> IF i = lh.n THEN lh.n + 1 ELSE lh.n,
                       sector |-> [lh.sector EXCEPT ![i] = s]]
             /\ logblk' = [logblk EXCEPT ![i] = d]
             /\ cache' = [cache EXCEPT ![s] = d]
             /\ dirty' = dirty \cup {s}
             /\ UNCHANGED pc
  /\ UNCHANGED <<home, head, busy, tail>>

-----------------------------------------------------------------------------
(* install_trans and commit_trans, called by a process that ends its        *)
(* transaction ("install") or by initlog ("recover").                       *)

\* write_head: the header block a commit writes.
CommittedHeader == CopyHeader(lh, head)

\* With n > 0 write_head is the point at which the transaction commits.
CommitTrans(p) ==
  /\ pc[p] = "trans"
  /\ IF lh.n > 0
     THEN /\ head' = CommittedHeader
          /\ pc' = [pc EXCEPT ![p] = "install"]
          /\ tail' = [tail EXCEPT ![p] = 0]
     ELSE /\ pc' = [pc EXCEPT ![p] = "release"]
          /\ UNCHANGED <<head, tail>>
  /\ UNCHANGED <<home, logblk, cache, dirty, lh, busy>>

\* One round of the loop: copy log block tail to its home sector.
InstallBlock(p) ==
  /\ pc[p] \in {"install", "recover"}
  /\ tail[p] < lh.n
  /\ LET s == lh.sector[tail[p]]
         d == logblk[tail[p]]
     IN /\ home' = [home EXCEPT ![s] = d]
        /\ cache' = [cache EXCEPT ![s] = d]
        /\ dirty' = dirty \ {s}
  /\ tail' = [tail EXCEPT ![p] = @ + 1]
  /\ UNCHANGED <<logblk, head, lh, busy, pc>>

InstalledAllButOne(p) == tail[p] + 1 >= lh.n
InstalledTooMany(p) == tail[p] > lh.n

Installed(p) == tail[p] >= lh.n

\* The loop is over: lh.n = 0 and write_head erases the transaction.
\* After recovery the first process goes on and creates the others.
AfterErase(p) == IF pc[p] = "recover" THEN [q \in Proc |-> "user"]
                                      ELSE [pc EXCEPT ![p] = "release"]

EraseLog(p) ==
  /\ pc[p] \in {"install", "recover"}
  /\ Installed(p)
  /\ lh' = [lh EXCEPT !.n = 0]
  /\ head' = CopyHeader(lh', head)
  /\ pc' = AfterErase(p)
  /\ UNCHANGED <<home, logblk, cache, dirty, busy, tail>>

\* What wakeup(&log) makes of a process.
NotAwakened(q) == pc[q]

Awakened(q) == IF pc[q] = "sleep" THEN "begin" ELSE pc[q]

\* log.busy = 0; wakeup(&log).
Release(p) ==
  /\ pc[p] = "release"
  /\ busy' = FALSE
  /\ pc' = [q \in Proc |-> IF q = p THEN "user" ELSE Awakened(q)]
  /\ UNCHANGED <<disk, cache, dirty, lh, tail>>

\* kill makes a process that sleeps in begin_trans runnable before its turn.
Kill(p) == /\ pc[p] = "sleep"
           /\ pc' = [pc EXCEPT ![p] = "begin"]
           /\ UNCHANGED <<disk, cache, dirty, lh, busy, tail>>

-----------------------------------------------------------------------------
(* initlog and recover_from_log: read the header, install what it names.    *)

ReadHead(p) ==
  /\ pc[p] = "initlog"
  /\ lh' = CopyHeader(head, lh)
  /\ pc' = [pc EXCEPT ![p] = "recover"]
  /\ tail' = [tail EXCEPT ![p] = 0]
  /\ UNCHANGED <<disk, cache, dirty, busy>>

-----------------------------------------------------------------------------
Step(p) == \/ CommitTrans(p)
           \/ InstallBlock(p)
           \/ EraseLog(p)
           \/ Release(p)
           \/ ReadHead(p)

Next == \/ \E p \in Proc : Step(p) \/ BeginTrans(p) \/ Kill(p)
        \/ \E p \in Proc, s \in Sector, d \in Data : LogWrite(p, s, d)
        \/ \E p \in Proc, s \in Sector : Read(p, s)
        \/ \E s \in Sector : Recycle(s)
        \/ Crash

Spec == Init /\ [][Next]_vars

\* A process inside commit_trans or initlog is scheduled again and again, and
\* its disk writes complete.  Nothing makes a process begin a transaction or
\* end one it is in.
Fairness == \A p \in Proc : WF_vars(InstallBlock(p) \/ EraseLog(p)
                                     \/ Release(p) \/ ReadHead(p))

FairSpec == Spec /\ Fairness

-----------------------------------------------------------------------------
(* The inductive invariant, part by part.                                   *)

InTrans == {"trans", "install", "release", "panic"}
Booting == {"none", "initlog", "recover"}

Named(h) == {h.sector[i] : i \in 0 .. h.n - 1}

\* No header names a sector twice.
Absorbed(h) == \A i, j \in 0 .. h.n - 1 : h.sector[i] = h.sector[j] => i = j

\* log.busy is set exactly while one process is between begin_trans and the
\* end of commit_trans.
BusyMeansOwner ==
  /\ busy <=> \E p \in Proc : pc[p] \in InTrans
  /\ \A p, q \in Proc : pc[p] \in InTrans /\ pc[q] \in InTrans => p = q

\* Recovery runs alone.
BootAlone ==
  /\ \A p \in Proc : pc[p] \in {"initlog", "recover"} => p = InitProc
  /\ pc[InitProc] \in Booting <=> \E p \in Proc : pc[p] \in Booting
  /\ pc[InitProc] \in Booting => \A p \in Proc : pc[p] \in Booting
  /\ pc[InitProc] # "none"

\* A buffer that is not B_DIRTY agrees with its home sector, and B_DIRTY
\* buffers are cached.
CacheCoherent ==
  /\ \A s \in Sector : s \notin dirty => cache[s] \in {home[s], NoBuf}
  /\ \A s \in dirty : cache[s] # NoBuf

\* Before the commit point the header on disk is empty, and each logged
\* sector has its newest contents in its log block and its B_DIRTY buffer.
BuildingLog ==
  \A p \in Proc : pc[p] \in {"trans", "panic"} =>
     /\ head.n = 0
     /\ dirty = Named(lh)
     /\ \A i \in 0 .. lh.n - 1 : cache[lh.sector[i]] = logblk[i]

\* While blocks are copied home, header and memory name the same blocks, the
\* first tail of them are home, and only the others may be B_DIRTY.
Installing ==
  \A p \in Proc : pc[p] \in {"install", "recover"} =>
     /\ head.n = lh.n
     /\ \A i \in 0 .. lh.n - 1 : head.sector[i] = lh.sector[i]
     /\ tail[p] <= lh.n
     /\ \A i \in 0 .. lh.n - 1 :
           i < tail[p] => home[lh.sector[i]] = logblk[i]
     /\ pc[p] = "recover" => dirty = {}
     /\ pc[p] = "install" =>
           /\ dirty = {lh.sector[i] : i \in tail[p] .. lh.n - 1}
           /\ \A i \in tail[p] .. lh.n - 1 : cache[lh.sector[i]] = logblk[i]

\* Otherwise there is no transaction anywhere; just after a crash there may
\* be one on disk.
Quiet ==
  (\A p \in Proc : pc[p] \notin {"trans", "panic", "install", "recover"}) =>
     /\ lh.n = 0
     /\ dirty = {}
     /\ pc[InitProc] # "initlog" => head.n = 0

IInv == /\ TypeOK
        /\ Absorbed(lh) /\ Absorbed(head)
        /\ BusyMeansOwner /\ BootAlone
        /\ CacheCoherent /\ BuildingLog /\ Installing /\ Quiet

-----------------------------------------------------------------------------
(* The properties.                                                          *)

\* The sectors a recovery that reads header h would leave, and so what would
\* be on disk after a crash now and the recovery that follows it.
Redo(h, blocks, base) ==
  [s \in Sector |-> IF \E i \in 0 .. h.n - 1 : h.sector[i] = s
                    THEN blocks[CHOOSE i \in 0 .. h.n - 1 : h.sector[i] = s]
                    ELSE base[s]]

Stable == Redo(head, logblk, home)

\* What bread returns for each sector, once the system is up.
View == IF pc[InitProc] \in Booting THEN Stable
        ELSE [s \in Sector |-> IF cache[s] = NoBuf THEN home[s] ELSE cache[s]]

InTransaction(at) == IF \E p \in Proc : at[p] \in InTrans
                     THEN CHOOSE p \in Proc : at[p] \in InTrans
                     ELSE NoProc

Owner == InTransaction(pc)

Abstract == INSTANCE AtomicDisk
              WITH stable <- Stable, view <- View, owner <- Owner

\* Whatever the interleaving and wherever power is lost, during recovery
\* too, begin_trans .. log_write .. commit_trans act on the disk like one
\* atomic step of AtomicDisk: all or none of a transaction survives, all of
\* it once commit_trans returns, and a reader never gets a stale block.
RefinesAtomicDisk == Abstract!Spec

\* No lost wakeup in begin_trans: a process sleeps on &log only while some
\* other process is inside a transaction whose commit_trans will wake it.
SleeperHasWaker ==
  \A p \in Proc : pc[p] = "sleep" =>
     \E q \in Proc : pc[q] \in InTrans

\* Write-ahead: a home sector changes only to what a log block holds for it
\* while the header on disk names that block.
WriteAhead ==
  [][\A s \in Sector : home'[s] # home[s] =>
        \E i \in 0 .. head.n - 1 : head.sector[i] = s /\ home'[s] = logblk[i]]_vars

\* Unless power is lost for ever, recovery finishes and so does every
\* commit_trans that has begun: the copying is never stuck and never redone
\* without end.
CommitAndRecoveryEnd ==
  \/ []<><<Crash>>_vars
  \/ \A p \in Proc :
        pc[p] \in {"initlog", "recover", "install", "release"} ~> pc[p] = "user"
=============================================================================
