------------------------------ MODULE MCWaiting -----------------------------
(* Where processes sleep for data: in a pipe, in the console, and for a     *)
(* buffer of the cache.  A behaviour is about one of them; the others stay  *)
(* in their initial states.                                                 *)
EXTENDS Pipe, TLC

CONSTANTS INPUT_BUF, Plain, MaxKeys,   \* of Console
          Sector,                      \* of BufCache
          Programs                     \* which of the three

VARIABLES program,   \* "pipe", "console" or "cache"
          con_buf, con_r, con_w, con_e, con_lock, con_pc, con_n, con_target, con_got,
          con_killed, con_keys,
          bc_buf, bc_lru, bc_queue, bc_drive, bc_disk, bc_pc, bc_want, bc_cur, bc_held

Con == INSTANCE Console WITH buf <- con_buf, r <- con_r, w <- con_w, e <- con_e,
  lock <- con_lock, pc <- con_pc, n <- con_n, target <- con_target, got <- con_got,
  killed <- con_killed, keys <- con_keys

ASSUME ConsoleSizes == Con!Sizes

\* A buffer for each process, and one that the log pins.
Buf == {"b1", "b2", "b3"}
Cache == INSTANCE BufCache WITH Data <- {"d"}, NoSector <- 0, NoBuf <- "none", MaxHold <- 1,
  LOGSIZE <- 1, DriveErrors <- TRUE, buf <- bc_buf, lru <- bc_lru, queue <- bc_queue,
  drive <- bc_drive, disk <- bc_disk, pc <- bc_pc, want <- bc_want, cur <- bc_cur, held <- bc_held

bc_vars == <<bc_buf, bc_lru, bc_queue, bc_drive, bc_disk, bc_pc, bc_want, bc_cur, bc_held>>
con_vars == <<con_buf, con_r, con_w, con_e, con_lock, con_pc, con_n, con_target, con_got,
              con_killed, con_keys>>
mcvars == <<program, vars, con_vars, bc_vars>>

MCInit ==
  /\ program \in Programs
  /\ program # "console" => con_r = 0
  /\ Con!Init
  /\ program # "pipe" => fd = [p \in Proc |-> End] /\ out = CHOOSE d \in Data : TRUE
  /\ Init
  /\ Cache!Init

OfPipe(A) == program = "pipe" /\ A /\ UNCHANGED <<program, con_vars, bc_vars>>
OfConsole(A) == program = "console" /\ A /\ UNCHANGED <<program, vars, bc_vars>>
OfCache(A) == program = "cache" /\ A /\ UNCHANGED <<program, vars, con_vars>>

MCNext == OfPipe(Next) \/ OfConsole(Con!Next) \/ OfCache(Cache!Next)

MCSpec == MCInit /\ [][MCNext]_mcvars

\* The fairness of Pipe, Console and BufCache.  program never changes, so that
\* a disjunction says the same as a conjunct for each of them.
MCFairSpec ==
  /\ MCSpec
  /\ \A p \in Proc : /\ SF_mcvars(OfPipe(Step(p)) \/ OfConsole(Con!Acquire(p)))
                     /\ WF_mcvars(OfConsole(Con!Step(p)) \/ OfCache(Cache!InCache(p)))
                     /\ WF_mcvars(OfCache(\E b \in Buf : Cache!Brelse(p, b)))
  /\ WF_mcvars(OfCache(\E ok \in BOOLEAN : Cache!Ideintr(ok)))

Symm == Permutations(Proc) \cup Permutations(Data)

-----------------------------------------------------------------------------
(* The properties of Console and BufCache, in the behaviours about them.    *)

\* The ring buffer and its wrapping indices implement the queues of Tty.
IsTty == Con!IsTty

\* No reader sleeps over input, a full ring has been handed over, a read ends
\* early only for the end of a line or of the file, and a ^D is used up by a read
\* that returns nothing (console.c:216-219, 236-260).
ReadsRight == Con!ReadsRight

\* A reader with input returns, or another one takes the input.
InputIsRead == program = "console" => Con!InputIsRead

\* Whoever sleeps for a buffer or for the disk gets on, though the drive fails
\* commands and kill wakes sleepers too early.
WaitersWake == program = "cache" => Cache!WaitersWake
=============================================================================
