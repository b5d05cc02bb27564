------------------------------ MODULE BlockMap ------------------------------
(***************************************************************************)
(* The blocks of files (fs.c: balloc, bfree, bmap, itrunc, readi, writei;  *)
(* file.c: filewrite) on a disk that mkfs.c has made.  One step is one     *)
(* transaction: the chunks of several filewrites interleave, what is       *)
(* inside one does not (module Log).  The log is on the same disk, and     *)
(* nothing but the block numbers keeps the two apart.                      *)
(***************************************************************************)
EXTENDS Integers, FiniteSets, FiniteSetsExt, Sequences, SequencesExt

CONSTANTS File,
          NDIRECT, NUM_INDIRECT, PTRS_PER_BLOCK,
          BSIZE,       \* units in a block; half a block is the smallest write
          NRES,        \* superblock, inodes and bitmap, the first of the disk
          NDATA, NLOG, \* data blocks, and the log blocks that follow them
          BPB,         \* blocks for which one bitmap block has room
          LOGSIZE,
          WriteSizes,  \* the numbers of units that programs write
          MaxCalls,    \* bound on the creations, writes and removals
          Made,        \* the numbers of blocks that mkfs may give the files
          BigFilesRemoved,  \* whether files with indirect blocks are removed
          Behind       \* what the words of memory behind a buffer may be

NINDIRECT == NUM_INDIRECT * PTRS_PER_BLOCK
NDOUBLE == PTRS_PER_BLOCK * PTRS_PER_BLOCK
MAXFILE == NDIRECT + NINDIRECT + NDOUBLE

Block == 1 .. NRES + NDATA + NLOG   \* 0 is no block
Reserved == 1 .. NRES
LogStart == NRES + NDATA + 1        \* log.start = sb.size - sb.nlog
LogBlock == LogStart .. LogStart + NLOG - 1
Slot == 0 .. NDIRECT + NUM_INDIRECT \* of addrs
Index == 0 .. PTRS_PER_BLOCK - 1

\* Words that name no sector of the disk: the drive fails, and the buffer keeps
\* what it held, with the bit of the block set or not.
FarMarked == -1
FarFree == -2

\* Inode and bitmap blocks, by names of their own: their words are not modelled.
InodeBlock == -1
BBLOCK(b) == IF b \in Block THEN -2 - (b \div BPB) ELSE -2 - NRES - NDATA - NLOG

VARIABLES bitmap,   \* the blocks marked in use
          blk,      \* the words of each block, pointers or data
          alive, addrs, size,   \* the inodes: type # 0, pointers, size in units
          off, left,     \* filewrite in progress: f->off, n - i
          logged,   \* log.lh.sector of the transaction that stopped the machine
          panicked,
          calls     \* made so far

vars == <<bitmap, blk, alive, addrs, size, off, left, logged, panicked, calls>>

Called == calls < MaxCalls /\ panicked = "no" /\ calls' = calls + 1

Zeroes == [i \in Index |-> 0]

\* The data of block bn of file f, no block number; an inode or bitmap block,
\* and the log's header, in a log block.
Tag(f, bn) == [i \in Index |-> 1000 * f + bn]
Meta == [i \in Index |-> 9000]

\* What a transaction in progress has done: the disk as the buffers have it,
\* log.lh.sector, the last block that balloc or bmap returned.
Now == [bitmap |-> bitmap, blk |-> blk, addrs |-> addrs, logged |-> <<>>, panic |-> "no", addr |-> 0]

Stop(s, why) == [s EXCEPT !.panic = IF @ = "no" THEN why ELSE @]

\* log_write: a full log is a panic even for a block it already holds.  The
\* block is copied to its place in the log at once.
LogFull(n) == n >= LOGSIZE \/ n >= NLOG - 1

log_write(s, b) ==
  IF s.panic # "no" THEN s
  ELSE IF LogFull(Len(s.logged)) THEN Stop(s, "too big a transaction")
  ELSE LET at == {i \in DOMAIN s.logged : s.logged[i] = b}
           i == IF at = {} THEN Len(s.logged) + 1 ELSE Min(at) IN
       [s EXCEPT !.logged = IF at = {} THEN Append(@, b) ELSE @,
                 !.blk[LogStart + i] = IF b \in Block THEN s.blk[b] ELSE Meta]

\* commit_trans: write_head, install_trans in the order of the log, write_head.
\* The end of the model: a file's data are installed over inodes or bitmap.
Install(s, i) ==
  IF s.logged[i] \in Block THEN [s EXCEPT !.blk[s.logged[i]] = s.blk[LogStart + i]]
  ELSE IF s.blk[LogStart + i] = Meta THEN s ELSE Stop(s, "inodes or bitmap lost")

commit_trans(s) ==
  LET head == [s EXCEPT !.blk[LogStart] = Meta]
      done == FoldLeft(Install, head, [i \in DOMAIN s.logged |-> i]) IN
  [done EXCEPT !.blk[LogStart] = Meta]

\* balloc marks the first free block, of the log if need be, and zeroes it.  The
\* end of the model: one that itrunc has freed though it was no file's.
FirstFree(s) == Min(Block \ s.bitmap)

bzero(s, b) == log_write([s EXCEPT !.blk[b] = Zeroes, !.addr = b], b)

balloc(s) == IF Block \subseteq s.bitmap THEN Stop([s EXCEPT !.addr = Max(Block)], "out of blocks")
             ELSE LET b == FirstFree(s) IN
                  IF b \in Reserved THEN Stop(s, "reserved block handed out")
                  ELSE bzero(log_write([s EXCEPT !.bitmap = @ \cup {b}], BBLOCK(b)), b)

bfree(s, b) == IF b \notin s.bitmap \cup {FarMarked} THEN Stop(s, "freeing free block")
               ELSE log_write([s EXCEPT !.bitmap = @ \ {b}], BBLOCK(b))

\* The pointer in slot k of the inode, or in word k of index block b,
\* allocated if it is 0.
InodePtr(s, f, k) ==
  IF s.addrs[f][k] # 0 THEN [s EXCEPT !.addr = s.addrs[f][k]]
  ELSE LET t == balloc(s) IN [t EXCEPT !.addrs[f][k] = t.addr]

BlockPtrForgets(s, b, k) ==
  IF s.panic # "no" THEN s
  ELSE IF s.blk[b][k] # 0 THEN [s EXCEPT !.addr = s.blk[b][k]] ELSE balloc(s)

BlockPtr(s, b, k) ==
  IF s.panic # "no" THEN s
  ELSE IF b \notin Block THEN Stop(s, "no such block")
  ELSE IF s.blk[b][k] # 0 THEN [s EXCEPT !.addr = s.blk[b][k]]
  ELSE LET t == balloc(s) IN log_write([t EXCEPT !.blk[b][k] = t.addr], b)

\* Which indirect slot and which pointer in its block.
WholeRange(n) == n \div NINDIRECT

SOffset(n) == n \div PTRS_PER_BLOCK

\* bmap: direct, one of NUM_INDIRECT indirect blocks, or doubly indirect.
bmap(s, f, bn) ==
  IF bn < NDIRECT THEN InodePtr(s, f, bn)
  ELSE IF bn - NDIRECT < NINDIRECT
  THEN LET n == bn - NDIRECT
           t == InodePtr(s, f, NDIRECT + SOffset(n)) IN
       BlockPtr(t, t.addr, n % PTRS_PER_BLOCK)
  ELSE LET n == (bn - NDIRECT - NINDIRECT) % NDOUBLE
           t == InodePtr(s, f, NDIRECT + NUM_INDIRECT)
           u == BlockPtr(t, t.addr, n \div PTRS_PER_BLOCK) IN
       BlockPtr(u, u.addr, n % PTRS_PER_BLOCK)

\* writei for the units o .. o + n - 1: bmap, the data, log_write for each
\* block; then the size and iupdate.
WriteBlock(s, f, bn) ==
  LET t == bmap(s, f, bn) IN
  IF t.panic # "no" THEN t
  ELSE IF t.addr \notin Block THEN Stop(t, "no such block")
  ELSE log_write([t EXCEPT !.blk[t.addr] = Tag(f, bn)], t.addr)

Blocks(o, n) == [i \in 1 .. (o + n - 1) \div BSIZE - o \div BSIZE + 1 |-> o \div BSIZE + i - 1]

writei(s, f, o, n) ==
  LET t == FoldLeft(LAMBDA u, bn : WriteBlock(u, f, bn), s, Blocks(o, n)) IN
  IF o + n > size[f] THEN log_write(t, InodeBlock) ELSE t

\* itrunc.  The loop over the indirect block has NINDIRECT rounds for
\* PTRS_PER_BLOCK pointers: the others come from the memory behind the
\* buffer, which is the next struct buf: its flags and dev, small numbers that
\* name reserved blocks, its sector, its list pointers, and its data (wild).
FreeAll(s, bs) == FoldLeft(bfree, s, bs)
NonZero(p, ks) == SelectSeq([i \in 1 .. Cardinality(ks) |-> p[Min(ks) + i - 1]], LAMBDA b : b # 0)

itrunc(s, f, wild) ==
  LET direct == FreeAll(s, NonZero(addrs[f], 0 .. NDIRECT - 1))
      ind == addrs[f][NDIRECT]
      t == IF ind = 0 THEN direct
           ELSE bfree(FreeAll(direct, SelectSeq([i \in 1 .. PTRS_PER_BLOCK |-> blk[ind][i - 1]] \o wild,
                                           LAMBDA b : b # 0)), ind) IN
  log_write([t EXCEPT !.addrs[f] = [k \in Slot |-> IF k <= NDIRECT THEN 0 ELSE addrs[f][k]]], InodeBlock)

\* readi reads the block that bmap finds, which would allocate a missing one.
readi(f, bn) == bmap(Now, f, bn)

-----------------------------------------------------------------------------
(* mkfs: iappend takes the blocks in order and keeps all indirect pointers  *)
(* in one block, so a file must fit into the first indirect block.          *)

NextFree(m) == [m EXCEPT !.free = @ + 1]

iappend(m, f, bn) ==
  IF bn < NDIRECT
  THEN [NextFree(m) EXCEPT !.addrs[f][bn] = m.free, !.blk[m.free] = Tag(f, bn)]
  ELSE LET t == IF m.addrs[f][NDIRECT] # 0 THEN m
                ELSE [NextFree(m) EXCEPT !.addrs[f][NDIRECT] = m.free]
           ind == t.addrs[f][NDIRECT] IN
       [NextFree(t) EXCEPT !.blk[ind][bn - NDIRECT] = t.free, !.blk[t.free] = Tag(f, bn)]

mkfs(n) ==
  FoldLeft(LAMBDA m, x : iappend(m, x[1], x[2]),
           [free |-> NRES + 1, blk |-> [b \in Block |-> Zeroes], addrs |-> [f \in File |-> [k \in Slot |-> 0]]],
           FoldLeft(LAMBDA q, f : q \o [i \in 1 .. n[f] |-> <<f, i - 1>>], <<>>, SetToSortSeq(File, <)))

Init ==
  \E n \in Made :
    /\ LET m == mkfs(n) IN bitmap = 1 .. m.free - 1 /\ blk = m.blk /\ addrs = m.addrs
    /\ alive = [f \in File |-> n[f] > 0]
    /\ size = [f \in File |-> n[f] * BSIZE]
    /\ off = [f \in File |-> 0] /\ left = [f \in File |-> 0]
    /\ logged = <<>> /\ panicked = "no" /\ calls = 0

\* The transaction s commits, together with what more the handler changes,
\* unless it has stopped the machine.  What is in log blocks that no file has,
\* nobody reads any more.
Committed(s) == IF s.panic = "no" THEN commit_trans(s) ELSE s

Commit(s) ==
  LET c == Committed(s) IN
  /\ c.panic = "no" /\ UNCHANGED <<logged, panicked>>
  /\ bitmap' = c.bitmap /\ addrs' = c.addrs
  /\ blk' = [b \in Block |-> IF b \in LogBlock \ c.bitmap THEN Zeroes ELSE c.blk[b]]

Crash(s) == /\ Committed(s).panic # "no" /\ panicked' = Committed(s).panic /\ logged' = s.logged
            /\ UNCHANGED <<bitmap, blk, alive, addrs, size, off, left>>

\* ialloc clears the inode.
Create(f) ==
  /\ Called /\ ~alive[f]
  /\ alive' = [alive EXCEPT ![f] = TRUE]
  /\ addrs' = [addrs EXCEPT ![f] = [k \in Slot |-> 0]]
  /\ size' = [size EXCEPT ![f] = 0]
  /\ UNCHANGED <<bitmap, blk, off, left, logged, panicked>>

\* The last iput.
LastIput(f) ==
  /\ Called /\ alive[f] /\ left[f] = 0
  /\ BigFilesRemoved \/ addrs[f][NDIRECT] = 0
  /\ \E wild \in IF addrs[f][NDIRECT] = 0 THEN {<<>>} ELSE Behind :
       \/ /\ Commit(itrunc(Now, f, wild))
          /\ alive' = [alive EXCEPT ![f] = FALSE]
          /\ size' = [size EXCEPT ![f] = 0]
          /\ UNCHANGED <<off, left>>
       \/ Crash(itrunc(Now, f, wild))

\* A call of filewrite, at the start or at the end of the file.
FileWrite(f, n) ==
  /\ Called /\ alive[f] /\ left[f] = 0
  /\ \E o \in {0, size[f]} : off' = [off EXCEPT ![f] = o]
  /\ left' = [left EXCEPT ![f] = n]
  /\ UNCHANGED <<bitmap, blk, alive, addrs, size, logged, panicked>>

\* One round of its loop: as much as the log is sure to have room for.  A
\* file that would get too big ends it.
MaxChunkLoose == (LOGSIZE - 1 - 1) * BSIZE

MaxChunk == ((LOGSIZE - 1 - 1 - 2) \div 2) * BSIZE

TooBig(end) == end > MAXFILE * BSIZE

Chunk(f) ==
  /\ panicked = "no" /\ left[f] > 0 /\ UNCHANGED calls
  /\ LET n1 == Min({left[f], MaxChunk})
         end == off[f] + n1 IN
     \/ /\ TooBig(end)
        /\ left' = [left EXCEPT ![f] = 0] /\ off' = [off EXCEPT ![f] = 0]
        /\ UNCHANGED <<bitmap, blk, alive, addrs, size, logged, panicked>>
     \/ /\ ~TooBig(end)
        /\ Commit(writei(Now, f, off[f], n1))
        /\ size' = [size EXCEPT ![f] = Max({@, end})]
        /\ left' = [left EXCEPT ![f] = @ - n1]
        /\ off' = [off EXCEPT ![f] = IF left[f] = n1 THEN 0 ELSE end]
        /\ UNCHANGED alive
     \/ ~TooBig(end) /\ Crash(writei(Now, f, off[f], n1))

Next == \E f \in File : \/ Create(f) \/ LastIput(f) \/ Chunk(f)
                        \/ \E n \in WriteSizes : FileWrite(f, n)

Spec == Init /\ [][Next]_vars

-----------------------------------------------------------------------------
(* Correctness.                                                             *)

\* The values of the variables: bmap and balloc stay within the disk and
\* writei within MAXFILE.
TypeOK == /\ bitmap \subseteq Block
          /\ blk \in [Block -> [Index -> Nat]]
          /\ alive \in [File -> BOOLEAN] /\ addrs \in [File -> [Slot -> Block \cup {0}]]
          /\ size \in [File -> 0 .. MAXFILE * BSIZE] /\ off \in [File -> 0 .. MAXFILE * BSIZE]
          /\ left \in [File -> Nat]
          /\ ToSet(logged) \subseteq Int /\ Len(logged) < NLOG /\ panicked \in STRING

InBlock(b) == IF b \notin Block THEN <<>> ELSE NonZero(blk[b], Index)
Flat(bs) == FoldLeft(LAMBDA q, b : q \o InBlock(b), <<>>, bs)

\* All blocks of a file, its index blocks included.
Tree(f) ==
  LET double == InBlock(addrs[f][NDIRECT + NUM_INDIRECT]) IN
  NonZero(addrs[f], Slot) \o Flat([i \in 1 .. NUM_INDIRECT |-> addrs[f][NDIRECT + i - 1]])
    \o double \o Flat(double)

AllTrees == FoldLeft(LAMBDA q, f : q \o Tree(f), <<>>, SetToSeq({f \in File : alive[f]}))

\* No log block has been handed out.  mkfs marks what it has used and nothing
\* else (mkfs.c:155, 233-247), and balloc looks at all blocks below sb.size.
\* "Then sb.nblocks data blocks. Then sb.nlog log blocks" (fs.h:8-9).
LogApart == bitmap \cap LogBlock = {}

\* The bitmap marks exactly the reserved blocks and those of the files: none is
\* lost, and none is free, to be handed out a second time, while it is in use.
BitmapExact == LogApart => bitmap = Reserved \cup ToSet(AllTrees)

\* Half of it: removing a file gives all its blocks back (fs.c:464 "Truncate
\* inode (discard contents)", fs.c:315-316).
ContentFreed == bitmap \subseteq Reserved \cup ToSet(AllTrees)

\* A block has one place in one file.
NoBlockShared == LogApart => IsInjective(AllTrees)

\* Reading below the end of a file finds the block that was written there,
\* by way of bmap, and allocates nothing: readi is not in a transaction
\* (fs.c:530).  Also for what mkfs wrote; until a file has a block of the log.
ReadsBack ==
  LogApart =>
  \A f \in File : alive[f] => \A bn \in 0 .. (size[f] + BSIZE - 1) \div BSIZE - 1 :
     LET s == readi(f, bn) IN s.logged = <<>> /\ s.panic = "no" /\ blk[s.addr] = Tag(f, bn)

\* No transaction of filewrite is too big for the log, indirect, doubly
\* indirect and bitmap blocks included (file.c:126-132).
WritesFitLog == panicked # "too big a transaction"

\* Where one is, it allocates under two bitmap blocks: filewrite's limit has room
\* for one, besides the inode, the index blocks and a block of slop.
OverflowExplained ==
  panicked = "too big a transaction" =>
     Cardinality({b \in ToSet(logged) : b < InodeBlock}) > 1
=============================================================================
