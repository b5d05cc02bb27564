------------------------------- MODULE MCPools ------------------------------
(* What is handed out from a pool of fixed size: buffers, the blocks of     *)
(* files, pages of memory, the user's heap; and the string functions.  A    *)
(* behaviour is about one of them; the others stay in initial states.       *)
(*                                                                          *)
(* Cache: two processes, more sectors than buffers, and a log that pins at  *)
(* most LOGSIZE buffers; processes and contents are interchangeable.        *)
(* Blocks: two files on a small disk that mkfs left empty or with files of  *)
(* five blocks and of one.  The first may fill its doubly indirect block,   *)
(* both together the disk, the log included.                                *)
(*                                                                          *)
(* Memory: two processes, fewer pages than they ask for, page tables of two *)
(* entries.  Heap: requests that fit, that need sbrk, and one that is too   *)
(* big.                                                                     *)
EXTENDS BufCache, SequencesExt

CONSTANTS File, NDIRECT, NUM_INDIRECT, PTRS_PER_BLOCK, BSIZE, NRES, NDATA, NLOG, BPB,
          LogBlocks,   \* BlockMap's LOGSIZE
          WriteSizes, MaxCalls, BigFilesRemoved

VARIABLES program,     \* the pool this behaviour is about
          bm_bitmap, bm_blk, bm_alive, bm_addrs, bm_size, bm_off, bm_left, bm_logged,
          bm_panicked, bm_calls,
          vm_free, vm_mem, vm_pt, vm_sz, vm_alive, vm_c, vm_panicked, vm_calls, vm_held, vm_lost,
          vm_ranOut,
          ma_ptr, ma_size, ma_freep, ma_brk, ma_used, ma_others,
          te_call, te_result

Blocks == INSTANCE BlockMap WITH LOGSIZE <- LogBlocks, Made <- {<<0, 0>>, <<5, 1>>}, Behind <- {},
  bitmap <- bm_bitmap, blk <- bm_blk, alive <- bm_alive, addrs <- bm_addrs, size <- bm_size,
  off <- bm_off, left <- bm_left, logged <- bm_logged, panicked <- bm_panicked, calls <- bm_calls

Memory == INSTANCE Vm WITH Proc <- {"p1", "p2"}, Init1 <- "p1", NPAGE <- 14, Held <- {3}, Stored <-
  {1}, PGSIZE <- 2, NPTENTRIES <- 2, NUPD <- 2, NKPD <- 1, SegSizes <- {1}, GrowSizes <- {2, 4, -1},
  MaxCalls <- 4, free <- vm_free, mem <- vm_mem, pt <- vm_pt, sz <- vm_sz, alive <- vm_alive, c <-
  vm_c, panicked <- vm_panicked, calls <- vm_calls, held <- vm_held, lost <- vm_lost, ranOut <-
  vm_ranOut

Heap == INSTANCE Malloc WITH HEAP <- 11, MINCORE <- 4, Units <- {2, 3, 5, 12}, ptr <- ma_ptr, size
  <- ma_size, freep <- ma_freep, brk <- ma_brk, used <- ma_used, others <- ma_others

Strings == INSTANCE Text WITH Addr <- 0 .. 7, Strings <- SeqOf({1, 2}, 3), W <- 8, Ints <- {-128,
  -127, -10, -1, 0, 9, 10, 15, 16, 99, 100, 127}, Formats <- SeqOf({"a", "%", "d", "x", "p", "s", "c"}, 4),
  Args <- <<171, 0>>,
  Patterns <- SeqOf({"a", ".", "*", "^", "$"}, 3), Lines <- SeqOf({"a", "b"}, 2), call <- te_call,
  result <- te_result

vm_vars == <<vm_free, vm_mem, vm_pt, vm_sz, vm_alive, vm_c, vm_panicked, vm_calls, vm_held, vm_lost,
  vm_ranOut>>
ma_vars == <<ma_ptr, ma_size, ma_freep, ma_brk, ma_used, ma_others>>
te_vars == <<te_call, te_result>>
bm_vars == <<bm_bitmap, bm_blk, bm_alive, bm_addrs, bm_size, bm_off, bm_left, bm_logged,
             bm_panicked, bm_calls>>
mcvars == <<program, vars, bm_vars, vm_vars, ma_vars, te_vars>>

Blank == CHOOSE d \in Data : TRUE

MCInit ==
  /\ program \in {"cache", "blocks", "memory", "heap", "strings"}
  /\ Init
  /\ program # "cache" => \A s \in Sector, b \in Buf : disk[s] = Blank /\ buf[b].data = Blank
  /\ program # "blocks" => bm_size = [f \in File |-> 0]
  /\ Blocks!Init
  /\ Memory!Init
  /\ Heap!Init
  /\ IF program = "strings" THEN Strings!Init ELSE te_call = "none" /\ te_result = << >>

MCNext ==
  \/ program = "cache" /\ Next /\ UNCHANGED <<program, bm_vars, vm_vars, ma_vars, te_vars>>
  \/ program = "blocks" /\ Blocks!Next /\ UNCHANGED <<program, vars, vm_vars, ma_vars, te_vars>>
  \/ program = "memory" /\ Memory!Next /\ UNCHANGED <<program, vars, bm_vars, ma_vars, te_vars>>
  \/ program = "heap" /\ Heap!Next /\ UNCHANGED <<program, vars, bm_vars, vm_vars, te_vars>>
  \/ program = "strings" /\ Strings!Next /\ UNCHANGED <<program, vars, bm_vars, vm_vars, ma_vars>>

MCSpec == MCInit /\ [][MCNext]_mcvars

Symm == Permutations(Proc) \cup Permutations(Data)

-----------------------------------------------------------------------------
(* The properties of the instances, in the behaviours about them.           *)

\* As long as no block of the log has been handed out, every block of the disk is
\* in one place: the bitmap marks exactly the reserved blocks and those of the
\* files, and bmap and balloc give none to two files or twice to one (fs.c:52-105,
\* 360-450, mkfs.c:155).
BlocksAccounted ==
  program = "blocks" => /\ Blocks!TypeOK
                        /\ Blocks!BitmapExact
                        /\ Blocks!NoBlockShared

\* As long as no block of the log has been handed out, readi finds every written
\* block of a file through all levels of pointers.
ReadsBack == program = "blocks" => Blocks!ReadsBack

\* A chunk of filewrite overflows the log only if it allocates blocks under two
\* bitmap blocks (file.c:126-132, log.c:164).
OverflowExplained == program = "blocks" => Blocks!OverflowExplained

\* Every page of memory is in one place: free, lost to a failed call, held by
\* another part of the kernel, or in one address space, where it was zeroed,
\* loaded or copied before user code sees it (kalloc.c, vm.c:239, 327).  Unless
\* kalloc has failed once none is lost, the pages mapped are those below
\* proc->sz, as copyuvm insists, and vm.c's panics are not reached; and none is
\* ever mapped above it (vm.c:82, 206, 232-241, 245-292, 303, 320-323).
MemoryAccounted ==
  program = "memory" => /\ Memory!TypeOK
                        /\ Memory!OneUse
                        /\ Memory!NoJunkMapped
                        /\ Memory!NoLeak
                        /\ Memory!SizeIsMapped
                        /\ Memory!NothingAboveSize
                        /\ Memory!PanicsNeedOom

\* What one process does changes no other process's memory; a new process has
\* the memory of its parent, and its guard page stays closed (exec.c,
\* vm.c:307-337).
ImagesPrivate == Memory!ImagesPrivate /\ Memory!ForkCopies

\* Every unit of the heap is in one block, handed out or on the free list, which
\* is in address order with no two blocks that touch: malloc and free neither lose
\* memory nor hand it out twice, and free joins both neighbours (umalloc.c:24-90).
HeapTiled == program = "heap" => Heap!HeapTiled /\ Heap!FreeListOrdered

\* The pure functions compute what they should: memmove the bytes as they were
\* before, overlapping either way (string.c:31-49); strncpy and safestrcpy within
\* n bytes, strncmp and strcmp the first difference (string.c:58-94, ulib.c:18-24);
\* printint the number, the least one included, that atoi reads back, and cprintf
\* and printf the same but for %c and the case of hexadecimal digits (console.c:26-104, printf.c:11-85,
\* ulib.c:84-93); grep a match exactly when the line can be cut into one piece for
\* each item of the pattern (grep.c:71-105).
FunctionsCompute ==
  program = "strings" => /\ Strings!MovesBytes
                         /\ Strings!CopiesStrings
                         /\ Strings!Compares
                         /\ Strings!PrintsNumber
                         /\ Strings!PrintersAgree
                         /\ Strings!GrepFinds
=============================================================================
