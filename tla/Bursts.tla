------------------------------- MODULE Bursts -------------------------------
(* The CPU burst statistics of one slot of the process table (sysproc.c,    *)
(* syscall.c): every system call ends a burst and its return starts the     *)
(* next one, and programs may call start_burst, end_burst and print_bursts  *)
(* themselves.  The timer ticks at any time in between.                     *)
(*                                                                          *)
(* burstarr and the fields after it are the words of one array, in the      *)
(* order of struct proc, so that a store behind burstarr hits what is there. *)
EXTENDS Integers, Sequences, FiniteSetsExt

CONSTANTS MAX_NUM_BURSTS,
          Calls,      \* the system calls programs make
          MaxTicks    \* bound: ticks of the timer

VARIABLES ticks,
          word,       \* burstarr, burst_idx, sburst, initial_burst, turnaround
          pc,         \* "user", the system call under way, or "return"
          stray       \* a store has gone behind the words modelled

vars == <<ticks, word, pc, stray>>

BURST_IDX == MAX_NUM_BURSTS
SBURST == MAX_NUM_BURSTS + 1
INITIAL_BURST == MAX_NUM_BURSTS + 2
TURNAROUND == MAX_NUM_BURSTS + 3
Word == 0 .. TURNAROUND

Burst == 0 .. MAX_NUM_BURSTS - 1
burst_idx == word[BURST_IDX]

FreshForgets(now, w) == [w EXCEPT ![BURST_IDX] = 0, ![SBURST] = now, ![INITIAL_BURST] = now]
Fresh(now, w) ==
  [i \in Word |-> IF i \in {SBURST, INITIAL_BURST} THEN now
                  ELSE IF i = TURNAROUND THEN w[i] ELSE 0]

Init ==
  /\ ticks = 0
  /\ word = Fresh(0, [i \in Word |-> 0])
  /\ pc = "user"
  /\ stray = FALSE

Tick == ticks < MaxTicks /\ ticks' = ticks + 1 /\ UNCHANGED <<word, pc, stray>>

\* The index after one more burst.
NextIdx(i) == IF i + 1 > MAX_NUM_BURSTS THEN 0 ELSE i + 1

Started(w) == [w EXCEPT ![SBURST] = ticks, ![BURST_IDX] = NextIdx(w[BURST_IDX])]

sys_start_burst == word' = Started(word) /\ UNCHANGED stray

sys_end_burst ==
  LET burst == ticks - word[SBURST] IN
  IF burst_idx \in Word THEN word' = [word EXCEPT ![burst_idx] = burst] /\ UNCHANGED stray
  ELSE stray' = TRUE /\ UNCHANGED word

sys_print_bursts ==
  word' = [word EXCEPT ![TURNAROUND] = ticks - word[INITIAL_BURST]] /\ UNCHANGED stray

\* syscall() ends the burst, calls the handler, and starts the next one.
SyscallEnter == /\ pc = "user"
                /\ pc' \in Calls
                /\ sys_end_burst /\ UNCHANGED ticks

SyscallHandler == /\ \/ pc = "start_burst" /\ sys_start_burst
                     \/ pc = "end_burst" /\ sys_end_burst
                     \/ pc = "print_bursts" /\ sys_print_bursts
                     \/ pc = "other" /\ UNCHANGED <<word, stray>>
                  /\ pc' = "return" /\ UNCHANGED ticks

SyscallReturn == /\ pc = "return" /\ pc' = "user"
                 /\ sys_start_burst /\ UNCHANGED ticks

\* The process exits and is reaped; fork or thread_create uses the slot again.
\* wait, thread_join and allocproc all clear the statistics.
Reuse == /\ pc = "other" /\ pc' = "user"
         /\ word' = Fresh(ticks, word) /\ UNCHANGED <<ticks, stray>>

Next == Tick \/ SyscallEnter \/ SyscallHandler \/ SyscallReturn \/ Reuse

Spec == Init /\ [][Next]_vars

-----------------------------------------------------------------------------
(* The properties.                                                          *)

\* Back in user space the index is at most one too large, whatever end_burst
\* stored over it before: the burst at index MAX_NUM_BURSTS misses burstarr and
\* hits burst_idx, which start_burst then brings back into range.
IndexComesBack == pc = "user" => burst_idx \in 0 .. MAX_NUM_BURSTS

\* If programs leave end_burst to the kernel, the bursts of a process are
\* disjoint parts of its life: together they never take longer, also when the
\* array has wrapped around or the slot was used by another process before.
BurstsWithinLife ==
  "end_burst" \notin Calls =>
    /\ ~stray
    /\ MapThenSumSet(LAMBDA i : word[i], Burst) <= ticks - word[INITIAL_BURST]
=============================================================================
