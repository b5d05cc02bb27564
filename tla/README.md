# A verification of the xv6 kernel of cs450-spring2016

TLA+ models of the system under `src/`, checked by TLC on small instances, with
the main safety results proved by TLAPS for every value of the constants.
`PROJECT.json` lists the parts of the system, the runs, the source lines each
definition stands for, the hazards and the theorems.

## The system

A small Unix for x86 multiprocessors (xv6), with the additions of a course:
threads that share an address space, kernel mutexes, CPU burst statistics, files
with two indirect blocks and a doubly indirect one, and three synchronisation
exercises in Python.

The file system calls go through the log, the log and the inode layer use the
buffer cache, which sleeps on the disk; everything that waits uses `sleep` and
`wakeup`, which rest on the spin locks and the scheduler. `kill` reaches into all
of them by making a sleeper runnable before what it waits for has come. Programs
see open files, processes, memory and the console; the shell ties them together.

## Modules

| module | models | what makes it hard |
|---|---|---|
| `Log` | `log.c`, with the part of the cache it depends on; refines `AtomicDisk` | power loss between any two disk writes, also during recovery; waiting for the one transaction |
| `BufCache` | `bio.c`, `ide.c` | a buffer changes identity while a process waits for it; early wakeups; drive errors; running out |
| `BlockMap` | blocks of files in `fs.c`, the chunks of `filewrite`, the layout of `mkfs.c` | which pointer a block number means, blocks lost or shared, log space, log blocks taken for data |
| `FileSys` | inodes, directories and paths of `fs.c`, the calls of `sysfile.c` on them | references against locks against transactions; a different list of things to undo on each error path |
| `FileTable` | `file.c`, descriptors of `sysfile.c`, `pipealloc`, `pipeclose` | an entry is free before what it stood for is closed; failures half way |
| `Pipe` | `pipewrite`, `piperead`, `pipeclose`; refines `Fifo` | counters that wrap, both sides asleep, closing and killing |
| `Console` | `consoleintr`, `consoleread`; refines `Tty` | full ring, ^D, editing against reading |
| `SleepWakeup` | `spinlock.c`; scheduler, `sched`, `yield`, `sleep`, `wakeup`, `kill`; timer; `sys_sleep` | interrupts inside critical sections; lost wakeups; two CPUs on one stack |
| `ProcTable` | the rest of `proc.c`, the end of `exec` | orphans, exit racing wait, shared page tables, failed forks |
| `Vm` | `kalloc.c`, `vm.c`, `exec.c`, `growproc`, the memory part of `fork` and `wait` | memory runs out anywhere |
| `Malloc` | `umalloc.c` | neighbours in any order, `sbrk` in between |
| `Text` | `string.c`, `ulib.c`, the printers of `console.c` and `printf.c`, the matcher of `grep.c` | overlaps, limits, the most negative number |
| `Threads` | the tests `testmp2_*.c` on `mtx_*` of `sysproc.c`, `thread_create`, `thread_join` | shared memory, frames and arguments on stacks cut from the heap |
| `Shell` | `sh.c`: parser and `runcmd` | ends of pipes in many processes |
| `Bursts` | the burst statistics of `sysproc.c` and `syscall.c`; the words of `struct proc` around them are one array | an index one past the end, stores over the fields behind it |
| `Philosophers`, `DiscGolf` | `mp3/3_philosophers.py`, `mp3/1_disc_golf_range.py` | deadlock, unlocked counters |
| `LogProofs`, `BufCacheProofs`, `PipeProofs`, `ConsoleProofs`, `ProcTableProofs`, `SleepWakeupLocking` and `SleepWakeupProofs` | theorems about the module they are named after | |
| `Remainders` | lemmas about `%` and sequences, for the two ring buffers | |

`MCx.tla` and `MCx*.cfg` hold the instances for TLC. An operator named for what
it gets wrong (`FreeEvenIfDirty`, `FreeEarly`, ...) is the mutated form of the
definition after it: put in its place, it makes the property named with it in
`PROJECT.json` fail. No specification uses these operators.

**Grain of atomicity.** `SleepWakeup` takes one step per lock operation and shows
that `sleep` and `wakeup` lose nothing. The other modules rely on that: a section
of code under one spin lock is one step, and `sleep(chan, lk)` gives the lock up
and sleeps in one step. In `Pipe` and `Console` the lock itself stays visible,
because `kill` does not take it. Steps that the code does without a lock (the
filling of an EMBRYO slot by `fork`, each disk write of a commit, each access of a
thread to shared memory) are steps of their own. Layers are cut where one promises
what the next needs: `Log` shows that a transaction happens entirely or not at all,
so `BlockMap` and `FileSys` do not crash; `FileSys` leaves contents to `BlockMap`.

**Log.** Each `bwrite` of `commit_trans`, `install_trans` and recovery is a step,
and `Crash` may come between any two: memory goes, the disk stays. A sector is
written entirely or not at all, as the code assumes. `Read` and `Recycle` are
what the cache does to buffers in between; a buffer that is B_DIRTY stays. A
transaction too big for the log (a panic) is a guard here; which ones are is a
question to `BlockMap`. `AtomicDisk` has just the committed disk and the
contents the open transaction sees; a crash drops the transaction, a commit
installs it whole.

**BufCache.** A process asks for sectors in any order, up to `MaxHold` at a time, but
not for one whose buffer it already holds: no caller in the code does, and it would
wait for itself. `LogPin` is `log_write`'s effect on a buffer. `Kill` lets a sleeper
go on with nothing changed. When all buffers are busy or pinned the machine stops
(`BgetPanic`).

**BlockMap.** A step is a transaction. The state of one under way is a record
(bitmap, blocks, inode pointers, blocks logged, why it panicked) that `balloc`,
`bfree`, `bmap`, `writei` and `itrunc` pass on. Data are tags that say which block
of which file they are. The disk is laid out as by `mkfs.c`: `NRES` reserved blocks,
`NDATA` data blocks, `NLOG` log blocks. `mkfs` does not mark the log blocks in the
bitmap, so `balloc` hands them out when the data blocks are gone, and each commit
then writes over them (`Install`); `ReadsBack` and `BlocksAccounted` speak of the
time before that. `log_write` takes `LOGSIZE` blocks or one less than the log has,
whichever is reached first. `Behind` holds what `itrunc` may read behind the buffer,
in the next `struct buf`: its loop has NINDIRECT = 256 rounds for 128 pointers. A
word that names no sector makes the drive fail, and the buffer keeps what it held.

**FileSys.** A process carries a list `todo` of what is left of its call; the
operations of `sysfile.c` are written as such lists. The inode cache has as many
entries as are needed at once. `adrift` is a history variable, the inodes that
were linked into a directory already removed: their link counts may be off, and
`LinksCounted` speaks of the others. The freeing of an inode (`IfreeStep`,
`fs.c:326-330`) is one step, since the inode is busy all the while. The initial
states are small trees with processes anywhere in them, all of which `mkdir`, `open`
and `chdir` can make.

**FileTable.** Each piece of `pipealloc`, `fileclose`, `open`, `fork` that takes a
lock is an item of a list. Pages for pipes and entries of the table run out.

**SleepWakeup.** A CPU is in an interrupt handler, or in a process, or in its
scheduler loop. `left` is the number of ticks that `sys_sleep` still has to wait
for, in place of the two counters it subtracts. `KillElsewhere` is a kill by a
process on a CPU outside the instance, which only shows when the lock is free.

**ProcTable.** Page tables are model values with the set `mem` of those handed
out. `kill` may also hit a slot that holds no process any more. `Joins` says that
programs join their threads before they exit, exec or wait, as the test programs
`testmp2_*.c` do. Nothing can keep them from being killed before (a fault sets
`killed` as well), and a killed process exits with its threads unjoined: the history
variable `abandoned` records that this has happened, and `PgdirAccounted` speaks of
the time before. From then on, and without `Joins`, the code frees page tables that
are in use (below).

**Vm.** One step per `kalloc`: only there, and where pages are freed, does one
process meet another. Which free page `kalloc` returns makes no difference, so it
is the smallest. `held` are pages taken by the rest of the kernel, `lost` those
that no one can free any more, `ranOut` records that `kalloc` has failed. Once it
has, the code may lose pages: `setupkvm` that fails does not free what it has;
`allocuvm` ignores a failing `mappages`, and `copyuvm` then panics on the hole or
drops a page of its own. `NoLeak`, `SizeIsMapped` and `PanicsNeedOom` state exactly
what is left.

**Pipe, Console.** `UINT` stands for 2^32. One byte per step under the lock. A
process inside `fileclose` counts as holding the end until `pipeclose` is done.

**Threads.** The memory of the test programs is an array of words: the globals, and
the heap with the two blocks that `main` gets from `malloc`, each behind its header.
`thread_stack_init` writes downwards from the address it is given, which is the
lowest word of the block: its words and the frames of the thread lie over the header
and below the block, in the next block or in free memory. `FramesKept` shows that
nothing else touches the frames as long as they are at least two words shorter than a
block (`DEPTH`, `STACK`). In `testmp2_shrd_stck.c` the copy of the argument is the
first cell of the buffer that both threads use, and the second `thread_create` puts
-1 over the value the producer left there: `NothingLost` says that this value is lost
and no other. `free` then finds its size in a header that has been written over,
which `freed` records and no property rules out.

**Text.** The kernel's printer and the user's are two operators each (`cprintf`,
`cons_printint`; `printf`, `printint`), written from `console.c` and `printf.c`, a
`switch` on the next character in one and a state machine in the other. Each is
compared with what the digits should be, and `PrintersAgree` says where the two
print the same: on every format without `%c`, up to the case of hex digits.

**Shell, Malloc and the exercises.** Lines are sequences of tokens,
the programs a line runs are external (one reads to the end, one writes until
nobody reads). The kernel's calls are taken by their effect, which the modules
above check. In `Text`, too, a call is chosen and then made, so that TLC compares the
function with its reference on every input of the instance.

## What is checked

Several parts share a run where each is small by itself: a variable `program`
chooses one of them at the start, the others stay in their initial states, and
each property speaks of its own part. The parts are independent instances of
their modules, not a composition.

| run | question | instance |
|---|---|---|
| `log` | crash atomicity, no lost wakeup of `begin_trans`; commits and recoveries end | 2 processes, 2 sectors, 2 log blocks; 50,272 states |
| `files` | reference and link counts, cache against disk, nothing in use freed, only the panics explained below, every call returns | 2 processes with 2 calls between them, 3 inodes, names a and b; 114,850 states |
| `pools` | the buffer cache; blocks, bitmap and log space of files; pages and page tables; the heap; strings, numbers and patterns | 2 processes, 2 buffers, 3 sectors; 2 files of up to 25 blocks on 36, then a log of 10; 2 address spaces; formats of up to 4 characters; 296,658 states |
| `waiting` | a pipe is a bounded queue, the console a line editor, no sleeper forgotten, a read ends where it should and an end of file is seen | pipe of 2 with counters modulo 4 and writes of 3; ring of 2; 197,892 states |
| `waiting_live` | the last close ends the calls at the other end; a finished line is read; everyone asleep for a buffer gets on, with drive errors | 2 processes; 37,509 states |
| `sleep_wakeup` | one CPU per process, interrupts off around locks and back on, `sched` does not panic, no tick missed | 2 CPUs, 2 processes; 375,217 states |
| `sleep_live` | `sys_sleep` returns; killed processes exit, also when `kill` falls between test and sleep | 2 CPUs, 1 process, kills from a third CPU; 15,032 states |
| `proc_table` | parents, wakeups, page tables, with kills and joined threads | 4 slots, 4 pids, 2 CPUs, 3 page tables; 322,282 states |
| `proc_live` | orphans are reaped, killed processes exit | 3 slots, 1 CPU; 22,176 states |
| `user` | open files and pipe ends counted, tests of threads end with nothing lost, the shell's parser and processes, the exercises, burst statistics | see `MCUser.tla`; 32,526 states |

Two runs show the code doing otherwise than its comments say:

| run | what happens |
|---|---|
| `itrunc` | a removed file leaves its second indirect block and its doubly indirect one, with all data, marked in use (`fs.c:483`), and the loop over the first reads 128 pointers too many. `fs.c:464`: "Truncate inode (discard contents)." `BigFilesRemoved = FALSE` keeps such removals out of `pools`. |
| `log_space` | a chunk of `filewrite` that goes from the second indirect block into the doubly indirect one, and allocates under two bitmap blocks, changes ten blocks, and the log takes nine: `log_write` panics (`file.c:132`, `log.c:163`). `file.c:126-129`: "write a few blocks at a time to avoid exceeding the maximum log transaction size, including i-node, indirect block, allocation blocks, and 2 blocks of slop for non-aligned writes." |

Further configurations, for the same kind of disagreement:

* `MCBufCacheErrors.cfg` (module `MCBufCache`): `ideintr` marks a buffer B_VALID
  though the read failed (`ide.c:106-110`); `buf.h:11` says "buffer has been read
  from disk".
* `MCProcTableKill.cfg` (module `MCProcTable`): `kill` marks unused slots too, and
  `allocproc` does not reset `killed`, so a process can be born killed
  (`proc.c:508`). `proc.c:498`: "Kill the process with the given pid."
* `MCProcTableShared.cfg` (module `MCProcTable`): a program that waits, exits or execs
  with threads unjoined has the page table they run on freed (`proc.c:245`,
  `exec.c:92`); the shortest way is an `exec` after a `thread_create`. The headers
  and comments of the repository say nothing of what should happen then.
* `MCBlockMapLog.cfg` (module `MCBlockMap`): a full disk hands out the blocks of the
  log (`mkfs.c:155`, `fs.c:61`). `fs.h:8-9`: "Then sb.nblocks data blocks. Then
  sb.nlog log blocks."
* `MCProcTable.cfg` with `MaxPid = 5` passes too, with 2,111,476 states.
* `WritesInTransaction` in place of the invariants of `MCFileSys.cfg`: `exit` and
  `chdir` drop the working directory outside a transaction (`proc.c:201`,
  `sysfile.c:372`). `log.c:8-9`: "Each system call that might write the file system
  should be surrounded with begin_trans() and commit_trans() calls".

Also visible in the code and outside what the runs cover: `cgaputc` reads and
writes the cursor position unserialised (`console.c:129-158`); a `kill` between
`consoleread`'s test and its sleep is seen at the next line only
(`console.c:238-243`); `nextLockId++` is not atomic (`sysproc.c:173`); a process
killed in `mtx_lock` keeps waiting; `growproc` does not tell the other threads of
the new size (`proc.c:129`).

### What some results mean

* *Log space.* `OverflowExplained`, in `pools`: a transaction too big for the log
  changes two bitmap blocks or more. As long as what a chunk allocates lies under
  one, `filewrite`'s limit is enough, doubly indirect blocks included. The disk that
  `mkfs.c` makes has seven bitmap blocks, so `log_space` above can happen there.
* *Panics of the file system.* `PanicsExplained`: only "ialloc: no inodes"; a
  removed file freed outside a transaction, by `exit` or `chdir`; and following
  `..` of a removed directory to a parent that is gone too. The property lists the
  panics by name: that nobody else is left with an inode that is freed is
  `FreesOnlyUnused`.
* *Shrinking to nothing.* `sbrk(-sz)` frees everything and returns -1
  (`proc.c:134`); `Vm` has it, and `SizeIsMapped` leaves it out.
* *Bursts.* `burst_idx` reaches 100, one past the end of `burstarr`
  (`sysproc.c:97-99`): that burst is stored over `burst_idx` itself. `IndexComesBack`
  (a part of `BurstsAddUp`) shows that the next `start_burst` brings it back into range; that nothing but `burst_idx` is hit comes from the
  layout of `struct proc`, which the model has.
* *Pipes.* `NoLostWakeup` makes one exception: a writer killed on a full pipe returns
  without waking the readers of what it has written (`pipe.c:85-87`). It is made as
  soon as any process has been killed, since the state does not tell what that one did.
* *Buffers.* `WaitersWake` is checked of processes that hold one buffer at a time. In
  the code a process that holds one may ask for another, and no circle arises because
  only the owner of the transaction holds a block while it asks for a bitmap or log
  block, and blocks of pointers are taken from the root down; the cache by itself does
  not see to that. Nor does it see to there being enough buffers: `NBUF` and `LOGSIZE`
  are both 10, and a transaction may pin as many as there are.
* *Disc golf.* `BucketsKeepComing` says that somebody takes a bucket again and again,
  not that everybody does.

### Bounds

Two processes (two CPUs) are enough for every race of two; a third adds races
only where a process waits on one and is woken by another, so there are three or
four in `ProcTable`, `Shell` and `Philosophers`, and the proofs are for any
number. Sizes are the least at which both sides of each comparison happen: a pipe
of 2 with writes of 3 fills and wraps, and its counters modulo 4 overflow; a log of
2 blocks absorbs a second write of a sector and is full; 2 buffers for 3 sectors
are recycled, and run out when both are held; NDIRECT = 1 and indirect blocks of 4
pointers reach all four kinds of block, and a bitmap block for 20 of the blocks
puts them under three; the log has as many blocks as in `mkfs.c`. `MaxCalls`, `MaxKeys`, `MaxSleep`, `MaxPid`
bound histories that would otherwise go on for ever. Where a behaviour may end
because they are used up, or because the programs are done (`files`, `pools`,
`waiting`, `waiting_live`, `user`, `itrunc`, `log_space`), the configuration says
`CHECK_DEADLOCK FALSE`, and that nobody is left waiting is stated by the liveness
properties and by `NoLostWakeup`; the other runs check for deadlock as well. Four
slots in `proc_table` let an orphaned zombie pass to an `init` that sleeps; the
liveness run has three and does not reach that.

### Fairness

* Timer interrupts come again and again, and a CPU goes on with what it does: weak
  fairness of every step of a handler and of a process on a CPU (`SleepWakeup`,
  `Log`, `FileTable`, `DiscGolf`, ...). `FileSys` has it only for the kernel as a
  whole: some process that can go on does.
* `xchg` in `acquire` succeeds some time for a CPU that spins while the lock is free
  again and again: strong fairness of taking a spin lock (`Pipe`, `Console`,
  `SleepWakeup`) or a test-and-set mutex (`Threads`). The hardware arbitrates so;
  nothing in the code does.
* The scheduler goes round the table (`proc.c:281-314`): strong fairness of
  running a RUNNABLE process (`ProcTable`), in `SleepWakeup` only of the CPU loops,
  from which it follows.
* The drive answers: weak fairness of `ideintr`. Users, keys, kills, crashes and new
  calls have no fairness; that a holder of a buffer or lock gives it back has.

## What is proved

The proofs are for all values of the constants. The assumptions on these are
named in the modules: special values that are no others, sets that are not empty,
for `BufCache` finitely many processes and buffers, for the rings a size that is
less than the range of an index and divides it. Each argument rests on an inductive
invariant, since the properties say too little to be preserved by themselves; TLC
finds each of these invariants to hold on the instances of the runs.

* **`LogProofs`**: `LogInvariant`, `LogTypes`, `LogWriteAhead`, `LogNoLostWakeup`
  and `LogRefinesAtomicDisk`. The refinement needs to know, at each place of a
  commit or recovery, which of the header in memory, the header on disk, log
  blocks, home sectors and buffers agree; none of that is visible in the
  properties themselves, so `IInv` says it place by place.
* **`BufCacheProofs`**: `CacheInvariant`, `CacheExclusive`, `CacheSleepers`,
  `CacheQueue`, `CacheContents`, `CacheNewest`, `CacheKeepsWrites`. The invariant
  says for each place in `bget` and `iderw` what the process knows of its buffer, and
  that the drive works on the head of the queue. The three results about contents assume that the drive
  reports no errors (`~DriveErrors`). With errors TLC finds all three violated
  (`MCBufCacheErrors.cfg` for the first).
* **`PipeProofs`**: `PipeInvariant`, `PipeNoLostWakeup`, `PipeIsFifo`. A sleeper is
  justified by the state it saw; that this still holds needs the lock, the counts
  of open ends and the order of the two wakeups. `PipeIsFifo` is the refinement of
  `Fifo`: `nwrite - nread`, as uints, is the length of the queue and never exceeds
  `PIPESIZE` (`RingInv`), indices less than `PIPESIZE` apart are different cells, and
  since `PIPESIZE` divides 2^32 a counter that wraps goes on with the next cell.
* **`ConsoleProofs`**: `ConsoleIsTty`, `ConsoleInvariant`, `ConsoleReads`. The same for
  the console's ring with three indices: the parts from `r` to `w` and from `w` to `e`
  are the two queues of `Tty`. `RingInv` has the order of the indices and that a full
  buffer has been handed over; ^U is an erasure because its loop cannot pass `w`.
  `ReadInv` adds who holds `input.lock`, and that whoever is about to sleep has seen
  an empty buffer; from it follow `ReadsRight`, that no reader sleeps over input, that
  a full ring has been handed over, that a read ends early only at the end of a line or
  of the file, and that a ^D is used up only by a read that returns nothing, and
  `IsTty`, that the console implements `Tty`; the run `waiting` checks both.
* **`ProcTableProofs`**: `ProcInvariant`, `ProcParentAlive`, `ProcNoLostWakeup`,
  `ProcPageTables`. `IInv` adds that each EMBRYO belongs to one living process that is
  in `fork` or `thread_create`, that a sleeper sleeps on its own slot in `wait` or
  `thread_join`, and that `init` lives. `ProcPageTables`: page tables are neither lost
  nor freed in use in any program without threads, and in one that joins its threads
  until a process is killed that has some (`PgdirAccounted`); without joining it is
  false, see `MCProcTableShared.cfg`. It needs `PgdirInv`: of the users of a page table
  all but one are threads of their parents, pids grow from parent to child, so that
  this cannot go in a circle, and a process in `wait` has no thread.
* **`SleepWakeupLocking`, `SleepWakeupProofs`**: `SleepInvariant`, `OneCpu`, `SchedSafe`,
  `InterruptsOn`, `LocksOff`, `InterruptsSafe`, `NoWakeupLost`. `CpuInv` gives for each
  place a CPU can be at (in a process, a handler, the scheduler) the locks it holds,
  `ncli`, `FL_IF` and `intena`; `ProcInv` says that a process is on a CPU or waits in
  `sched`; `SleepInv` that on the way into `sleep` a tick that has passed still owes a
  wakeup. Whether `release` turns interrupts on depends on `intena`, which another
  process may have left.

Only model-checked: all liveness (fairness and ENABLED are out of the prover's
reach), and the modules without a proof module. `Text` and `Shell` are written with
recursive operators, `Malloc` and `Vm` (for what `deallocuvm` visits) with recursive
functions, `BlockMap` with folds over lists; what these return for every input would
need induction over data. The properties of `FileSys` and `FileTable` count over
lists of what is left to do, those of `DiscGolf` and `Bursts` sum over sets.
`Threads` and `Philosophers` just have no proof yet.

## Not modelled

* Boot (`bootmain.c`, `main.c`, `entry.S`, `mp.c`), APICs, `uart.c`, `kbd.c`: device
  registers, no state the properties are about. `swtch.S`, `trapasm.S` are the
  steps that `SleepWakeup` takes at `swtch` and at a trap.
* Fetching of system call arguments (`syscall.c`): plain bounds checks.
* `mp3/2_dance_mixer.py`: its semaphores keep tokens of a dance that is over and its
  queues may be popped empty, which makes it depend on timing; the two other
  exercises are modelled.
* The remaining user programs (`ls`, `wc`, `usertests`, ...): sequences of calls
  without state of their own. `grep`'s matcher is in `Text`.
* Memory contents beyond tags, the instruction set, caches and memory order:
  `xchg` is taken as the barrier it is on x86.

`PROJECT.json` gives the status of each part.
