------------------------------ MODULE Threads -------------------------------
(***************************************************************************)
(* The thread tests testmp2_PC.c, testmp2_sep_stck_glob.c and              *)
(* testmp2_shrd_stck.c on thread_create, thread_join (proc.c) and the      *)
(* mutexes of sysproc.c: main makes a mutex, starts a producer and a       *)
(* consumer on stacks it has allocated, joins them and frees the stacks.   *)
(* The threads share one memory, word by word: the globals, the heap as    *)
(* malloc fills it, and in it the frames of the threads.  Every access to  *)
(* the buffer is a step.  The tests start few threads, so allocproc does   *)
(* not fail.                                                               *)
(***************************************************************************)
EXTENDS Integers, Sequences

CONSTANTS Program,    \* which of PC, glob and shrd are run
          SIZE,       \* BUFFER_SIZE, NUM_ELEMENTS
          MAX_COUNT,  \* rounds of a thread
          STACK,      \* words asked of malloc for a stack
          DEPTH       \* words of frames below a thread's first stack pointer

Thread == {"producer", "consumer"}

\* malloc cuts a block off the end of the free one: the next block lies below
\* the last, with a header of two words, ptr and size, before each.
Lower == SIZE + DEPTH + 5
Upper == Lower + STACK + 2
Addr == 1 .. Upper + STACK
Words == STACK + 2        \* what the header of a stack says

Word0 == -3               \* the word at address 0, where arg is NULL

VARIABLES program, main,      \* the test, and how far main is
          locked, nextLockId, mutex,    \* thread_locks[].locked; the lock in use
          mem,                \* globals at 1 .. SIZE, then the heap
          pc, round, j,       \* of each thread
          counter,
          stack,              \* thread_stack_top of each thread
          freed,              \* stacks given back, with the sizes in their headers
          made, got           \* what was put in and taken out, in order

vars == <<program, main, locked, nextLockId, mutex, mem, pc, round, j, counter, stack, freed, made, got>>
kvars == <<locked, nextLockId, mutex>>
data == <<counter, made, got>>
mvars == <<program, main, stack, freed>>

\* The test with one boolean has a buffer of one.
Slots == IF program = "glob" THEN 1 ELSE SIZE

\* shrd has one stack, below the buffer that it asks malloc for.
Stack1 == IF program = "shrd" THEN Lower ELSE Upper
Stack2 == Lower

Empty == IF program = "shrd" THEN -1 ELSE 0

\* The two blocks have their headers; shrd has set its buffer to -1.
Init == /\ program \in Program /\ main = "start"
        /\ locked = [l \in 0 .. 1 |-> 0] /\ nextLockId = 1 /\ mutex = 0
        /\ mem = [a \in Addr |-> CASE a \in {Lower - 1, Upper - 1} -> Words
                                   [] program = "shrd" /\ a >= Upper -> -1 [] OTHER -> 0]
        /\ pc = [t \in Thread |-> "none"] /\ round = [t \in Thread |-> 0] /\ j = [t \in Thread |-> 0]
        /\ counter = 1
        /\ stack = [t \in Thread |-> 0] /\ freed = {} /\ made = << >> /\ got = << >>

-----------------------------------------------------------------------------
(* The system calls.                                                        *)

mtx_create(state) == /\ mutex' = nextLockId /\ nextLockId' = nextLockId + 1
                     /\ locked' = [locked EXCEPT ![nextLockId] = state]

ReadThenSet(t) == locked' = [locked EXCEPT ![mutex] = 1]

\* One xchg of the loop; it goes on spinning unless the lock was free.
mtx_lock(t) == locked[mutex] = 0 /\ locked' = [locked EXCEPT ![mutex] = 1]

mtx_unlock(t) == locked' = [locked EXCEPT ![mutex] = 0]

\* From s down: a copy of the word at arg, 0, the address of that copy, which
\* is what the thread is called with, and a return address.  The first two are
\* the header of the block.
thread_stack_init(s, arg) ==
  mem' = [mem EXCEPT ![s - 1] = IF arg = 0 THEN Word0 ELSE mem[arg], ![s - 2] = 0, ![s - 3] = s - 1, ![s - 4] = -1]

thread_create(t, s, arg) ==
  /\ thread_stack_init(s, arg)
  /\ pc' = [pc EXCEPT ![t] = "start"] /\ stack' = [stack EXCEPT ![t] = s]

\* A child that has exited is reaped.
thread_join == \E t \in Thread : pc[t] = "zombie" /\ pc' = [pc EXCEPT ![t] = "joined"]

-----------------------------------------------------------------------------
(* main.                                                                    *)

MainGoes(here, there) == main = here /\ main' = there /\ UNCHANGED <<program, round, j, data>>

MainStart == MainGoes("start", "producer") /\ mtx_create(0) /\ UNCHANGED <<mem, pc, stack, freed>>

\* shrd hands its threads the buffer and starts them one after the other, on
\* one stack; the others have no argument.
Argument == IF program = "shrd" THEN Upper ELSE 0

StartProducer == /\ MainGoes("producer", IF program = "shrd" THEN "join1" ELSE "consumer")
                 /\ thread_create("producer", Stack1, Argument) /\ UNCHANGED <<kvars, freed>>

StartConsumer == /\ MainGoes("consumer", IF program = "shrd" THEN "join2" ELSE "join1")
                 /\ thread_create("consumer", Stack2, Argument) /\ UNCHANGED <<kvars, freed>>

Join1 == /\ MainGoes("join1", IF program = "shrd" THEN "consumer" ELSE "join2")
         /\ thread_join /\ UNCHANGED <<kvars, mem, stack, freed>>

Join2 == MainGoes("join2", "free") /\ thread_join /\ UNCHANGED <<kvars, mem, stack, freed>>

\* free goes by the size that it finds in the header.
MainEnd == /\ MainGoes("free", "done") /\ freed' = {<<stack[t], mem[stack[t] - 1]>> : t \in Thread}
           /\ UNCHANGED <<kvars, mem, pc, stack>>

MainStep == MainStart \/ StartProducer \/ StartConsumer \/ Join1 \/ Join2 \/ MainEnd

-----------------------------------------------------------------------------
(* The threads.  In PC and glob a round looks at every slot; in shrd the    *)
(* producer fills one slot a round and the consumer has a single round.     *)

Rounds(t) == CASE program # "shrd" -> MAX_COUNT [] t = "producer" -> SIZE [] OTHER -> 1

FirstSlot(t) == IF program = "shrd" /\ t = "producer" THEN round[t] ELSE 0
LastSlot(t) == IF program = "shrd" /\ t = "producer" THEN round[t] ELSE Slots - 1

\* The buffer is a global, or where the argument of the thread points.
Buffer(t) == IF program = "shrd" THEN mem[stack[t] - 3] ELSE 1
Cell(t) == Buffer(t) + j[t]

\* From the first instruction on the frames of a thread are below its stack
\* pointer.
Frame(t) == stack[t] - 4 - DEPTH .. stack[t] - 5
Mark(t) == IF t = "producer" THEN -11 ELSE -12

Enter(t) == /\ pc[t] = "start" /\ pc' = [pc EXCEPT ![t] = "lock"]
            /\ mem' = [a \in Addr |-> IF a \in Frame(t) THEN Mark(t) ELSE mem[a]]
            /\ UNCHANGED <<kvars, round, j, data, mvars>>

Lock(t) == /\ pc[t] = "lock" /\ mtx_lock(t)
           /\ pc' = [pc EXCEPT ![t] = "test"] /\ j' = [j EXCEPT ![t] = FirstSlot(t)]
           /\ UNCHANGED <<nextLockId, mutex, mem, round, data, mvars>>

\* On to the next slot; the counter of PC counts them all.
NextSlot(t) == /\ j' = [j EXCEPT ![t] = @ + 1]
               /\ pc' = [pc EXCEPT ![t] = IF j[t] = LastSlot(t) THEN "unlock" ELSE "test"]
               /\ counter' = IF t = "producer" THEN counter + 1 ELSE counter

\* In glob the test is that of a loop.
Done(t) == IF program = "glob" THEN pc' = [pc EXCEPT ![t] = "test"] /\ UNCHANGED <<j, counter>>
           ELSE NextSlot(t)

\* The producer of shrd does not look.
Wanted(t) == IF t = "producer" THEN program = "shrd" \/ mem[Cell(t)] = Empty ELSE mem[Cell(t)] # Empty

Test(t) == /\ pc[t] = "test"
           /\ IF Wanted(t) THEN pc' = [pc EXCEPT ![t] = "use"] /\ UNCHANGED <<j, counter>> ELSE NextSlot(t)
           /\ UNCHANGED <<kvars, mem, round, made, got, mvars>>

Value == CASE program = "PC" -> counter [] program = "glob" -> 1 [] OTHER -> 5 * round["producer"]

Produce == /\ pc["producer"] = "use" /\ Done("producer")
           /\ mem' = [mem EXCEPT ![Cell("producer")] = Value] /\ made' = Append(made, Value)
           /\ UNCHANGED <<kvars, round, got, mvars>>

\* It prints what it finds, then clears the slot.
Consume == /\ pc["consumer"] = "use" /\ pc' = [pc EXCEPT !["consumer"] = "clear"]
           /\ got' = Append(got, mem[Cell("consumer")])
           /\ UNCHANGED <<kvars, mem, round, j, counter, made, mvars>>

Clear == /\ pc["consumer"] = "clear" /\ Done("consumer")
         /\ mem' = [mem EXCEPT ![Cell("consumer")] = Empty]
         /\ UNCHANGED <<kvars, round, made, got, mvars>>

\* Unlock and go round again, or exit.
Unlock(t) == /\ pc[t] = "unlock" /\ mtx_unlock(t) /\ round' = [round EXCEPT ![t] = @ + 1]
             /\ pc' = [pc EXCEPT ![t] = IF round[t] + 1 = Rounds(t) THEN "zombie" ELSE "lock"]
             /\ UNCHANGED <<nextLockId, mutex, mem, j, data, mvars>>

ThreadStep(t) == \/ Enter(t) \/ Lock(t) \/ Test(t) \/ Unlock(t)
                 \/ t = "producer" /\ Produce
                 \/ t = "consumer" /\ (Consume \/ Clear)

Next == MainStep \/ \E t \in Thread : ThreadStep(t)

Spec == Init /\ [][Next]_vars

\* Both threads and main run.  A thread that spins gets the mutex in the end:
\* the holder sleeps for a tick after it unlocks (testmp2_PC.c:31 and 49).
FairSpec == Spec /\ WF_vars(MainStep) /\ \A t \in Thread : WF_vars(ThreadStep(t)) /\ SF_vars(Lock(t))

-----------------------------------------------------------------------------
Inside(t) == pc[t] \in {"test", "use", "clear", "unlock"}
Running(t) == Inside(t) \/ pc[t] = "lock"

\* What is in the slots of the buffer, in shrd in those that were filled.
Shared == IF program = "shrd" THEN Stack1 - 1 ELSE 1
Filled == IF program = "shrd" THEN Len(made) ELSE Slots
Left == SelectSeq([k \in 1 .. Filled |-> mem[Shared + k - 1]], LAMBDA v : v # Empty)

\* While nobody is at the buffer, what the consumer has got and then what is in
\* the buffer is what the producer has put in, each value once and in order.  In
\* shrd slot 0 is where thread_create copies *arg to, and the second thread_create
\* puts -1 over the first value (proc.c:596, testmp2_shrd_stck.c:53-57).
NothingLost ==
  \/ \E t \in Thread : Inside(t)
  \/ got \o Left = IF program = "shrd" /\ pc["consumer"] # "none" THEN Tail(made) ELSE made

\* "LOCKED Producer cannot interfere" (testmp2_PC.c:40): one thread at a time
\* is between mtx_lock and mtx_unlock, and the lock is held exactly then.
OneInside == /\ ~ \A t \in Thread : Inside(t)
             /\ locked[mutex] = 1 <=> \E t \in Thread : Inside(t)

\* What a thread has in its frames stays there while it runs, and main has not
\* freed its stack: neither the other thread, nor the buffer, nor a second
\* thread_create gets at it, though the frames lie below the block that malloc
\* returned, in the next one or in free memory (proc.c:595-601).
FramesKept == \A t \in Thread : Running(t) => /\ \A a \in Frame(t) : mem[a] = Mark(t)
                                               /\ \A x \in freed : x[1] # stack[t]

\* main joins both threads and ends.
MainEnds == <>(main = "done")
=============================================================================
