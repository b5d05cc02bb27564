----------------------------- MODULE ProcTable ------------------------------
(***************************************************************************)
(* The life of processes and threads (proc.c): allocproc, fork, exit,      *)
(* wait, kill, thread_create, thread_join, and exec's change of page table.*)
(*                                                                         *)
(* What proc.c does in one ptable.lock section is one action.  fork,       *)
(* thread_create and the failure path of allocproc write to the new slot   *)
(* without the lock, in steps of their own.  freevm returns a page table   *)
(* to the allocator, which may hand it out again.                          *)
(***************************************************************************)
EXTENDS Integers, FiniteSets

CONSTANTS NPROC,            \* slots of the process table
          MaxPid,           \* bound on nextpid
          NCPU,             \* processes that run at the same time
          Pgdir, NoPgdir,   \* the page tables memory has room for
          Kills,            \* the pids kill is called with
          Threads,          \* whether programs create threads
          Joins             \* whether they join their threads before they
                            \* exit, exec or wait, as testmp2_*.c do

ASSUME ProcConstants == /\ {NPROC, MaxPid, NCPU} \subseteq Nat \ {0}
                        /\ Pgdir # {} /\ NoPgdir \notin Pgdir
                        /\ Kills \subseteq 0 .. MaxPid
                        /\ {Threads, Joins} \subseteq BOOLEAN

Slot == 1 .. NPROC
None == 0
initproc == 1          \* the slot of the first process

VARIABLES state, pid, parent, killed, pgdir,   \* fields of struct proc
          chan,      \* p->chan: wait and thread_join sleep on their own slot
          call,      \* the system call a process is in
          kid,       \* fork and thread_create: the slot they are filling
          nextpid,
          mem,       \* the page tables kalloc has given out
          abandoned  \* history: kill has hit a process that has threads, or is
                     \* making one, and will not join them any more

vars == <<state, pid, parent, killed, pgdir, chan, call, kid, nextpid, mem, abandoned>>

TypeOK ==
  /\ state \in [Slot -> {"UNUSED", "EMBRYO", "SLEEPING", "RUNNABLE", "RUNNING",
                         "ZOMBIE"}]
  /\ pid \in [Slot -> 0 .. MaxPid]
  /\ parent \in [Slot -> Slot \cup {None}]
  /\ killed \in [Slot -> BOOLEAN]
  /\ pgdir \in [Slot -> Pgdir \cup {NoPgdir}]
  /\ chan \in [Slot -> Slot \cup {None}]
  /\ call \in [Slot -> {"user", "fork", "thread_create", "wait", "thread_join"}]
  /\ kid \in [Slot -> Slot \cup {None}]
  /\ nextpid \in 1 .. MaxPid + 1
  /\ mem \in SUBSET Pgdir
  /\ abandoned \in BOOLEAN

\* userinit: the first process is ready to run, every other slot is unused.
Init == /\ state = [s \in Slot |-> IF s = initproc THEN "RUNNABLE" ELSE "UNUSED"]
        /\ pid = [s \in Slot |-> IF s = initproc THEN 1 ELSE 0]
        /\ parent = [s \in Slot |-> None]
        /\ killed = [s \in Slot |-> FALSE]
        /\ \E pg \in Pgdir :
              /\ pgdir = [s \in Slot |-> IF s = initproc THEN pg ELSE NoPgdir]
              /\ mem = {pg}
        /\ chan = [s \in Slot |-> None]
        /\ call = [s \in Slot |-> "user"]
        /\ kid = [s \in Slot |-> None]
        /\ nextpid = 2
        /\ abandoned = FALSE

\* Slots that hold a process, and those among them that still run.
Started == {t \in Slot : state[t] \notin {"UNUSED", "EMBRYO"}}
Alive == Started \ {t \in Slot : state[t] = "ZOMBIE"}

-----------------------------------------------------------------------------
(* The scheduler, as far as the table sees it.  A process that slept clears *)
(* its chan before it gives up ptable.lock.                                 *)

Run(s) == /\ state[s] = "RUNNABLE"
          /\ Cardinality({t \in Slot : state[t] = "RUNNING"}) < NCPU
          /\ state' = [state EXCEPT ![s] = "RUNNING"]
          /\ chan' = [chan EXCEPT ![s] = None]
          /\ UNCHANGED <<pid, parent, killed, pgdir, call, kid, nextpid, mem, abandoned>>

Yield(s) == /\ state[s] = "RUNNING"
            /\ state' = [state EXCEPT ![s] = "RUNNABLE"]
            /\ UNCHANGED <<pid, parent, killed, pgdir, chan, call, kid, nextpid, mem, abandoned>>

In(s, c) == state[s] = "RUNNING" /\ call[s] = c

\* trap lets a process start a system call only when it is not killed.
Enters(s) == In(s, "user") /\ ~killed[s]

Back(s) == call' = [call EXCEPT ![s] = "user"]

\* The states st after wakeup1(c).
Wakeup1(st, c) == [t \in Slot |-> IF st[t] = "SLEEPING" /\ chan[t] = c
                                  THEN "RUNNABLE" ELSE st[t]]

-----------------------------------------------------------------------------
(* allocproc, fork and thread_create.                                       *)

FirstIn(S) == {t \in S : \A u \in S : t <= u}

\* The slots allocproc may take.
UnusedSlots == {t \in Slot : state[t] = "UNUSED"}

\* allocproc takes the first unused slot, when there is one.
Alloc(s, c) ==
  /\ Enters(s)
  /\ nextpid <= MaxPid
  /\ \E t \in FirstIn(UnusedSlots) :
        /\ state' = [state EXCEPT ![t] = "EMBRYO"]
        /\ pid' = [pid EXCEPT ![t] = nextpid]
        /\ kid' = [kid EXCEPT ![s] = t]
  /\ nextpid' = nextpid + 1
  /\ call' = [call EXCEPT ![s] = c]
  /\ UNCHANGED <<parent, killed, pgdir, chan, mem, abandoned>>

Fork(s) == Alloc(s, "fork")
ThreadCreate(s) == Threads /\ Alloc(s, "thread_create")

\* kalloc fails in allocproc, or copyuvm in fork.  The slot is unused again
\* and keeps the pid it was given.
AllocFails(s) ==
  /\ In(s, "fork") \/ In(s, "thread_create")
  /\ state' = [state EXCEPT ![kid[s]] = "UNUSED"]
  /\ kid' = [kid EXCEPT ![s] = None]
  /\ Back(s)
  /\ UNCHANGED <<pid, parent, killed, pgdir, chan, nextpid, mem, abandoned>>

\* The rest of fork and thread_create, up to np->state = RUNNABLE.  The parent is
\* set a little earlier; only wait, thread_join and exit of s would notice.
Start(s, pg) ==
  /\ pgdir' = [pgdir EXCEPT ![kid[s]] = pg]
  /\ parent' = [parent EXCEPT ![kid[s]] = s]
  /\ state' = [state EXCEPT ![kid[s]] = "RUNNABLE"]
  /\ kid' = [kid EXCEPT ![s] = None]
  /\ Back(s)
  /\ UNCHANGED <<pid, killed, chan, nextpid, abandoned>>

\* fork copies the page table; a thread uses its creator's.
ForkDone(s) == /\ In(s, "fork")
               /\ \E pg \in Pgdir \ mem : /\ Start(s, pg)
                                          /\ mem' = mem \cup {pg}

ThreadDone(s) == /\ In(s, "thread_create")
                 /\ Start(s, pgdir[s])
                 /\ UNCHANGED mem

-----------------------------------------------------------------------------
(* exec, exit, wait, thread_join and kill.                                  *)

Children(s) == {t \in Slot : parent[t] = s}

ThreadsOf(s) == {t \in Children(s) : pgdir[t] = pgdir[s]}

\* What a program that joins its threads sees to before exit, exec and wait;
\* its threads do not call exec themselves.
Joined(s) == Joins => ThreadsOf(s) = {}
Alone(s) == Joins => \A t \in Started \ {s} : pgdir[t] # pgdir[s]

\* The end of exec: the new page table is in place and the old one is freed.
Exec(s) == /\ Enters(s)
           /\ Alone(s)
           /\ \E pg \in Pgdir \ mem :
                 /\ pgdir' = [pgdir EXCEPT ![s] = pg]
                 /\ mem' = (mem \cup {pg}) \ {pgdir[s]}
           /\ UNCHANGED <<state, pid, parent, killed, chan, call, kid, nextpid, abandoned>>

\* The parents once s has passed its children to init.
OrphansKept(s) == parent

Reparented(s) == [t \in Slot |-> IF parent[t] = s THEN initproc ELSE parent[t]]

WakeParentOnly(s) == Wakeup1(state, parent[s])

\* exit wakes its parent, and init when it leaves init a zombie.
ExitWakes(s) ==
  IF \E t \in Children(s) : state[t] = "ZOMBIE"
  THEN Wakeup1(Wakeup1(state, parent[s]), initproc)
  ELSE Wakeup1(state, parent[s])

\* exit: by its own call, or because it was killed (or faulted) and returns
\* to user space.  init must not exit (a panic).
Exit(s) == /\ s # initproc
           /\ In(s, "user")
           /\ killed[s] \/ Joined(s)
           /\ state' = [ExitWakes(s) EXCEPT ![s] = "ZOMBIE"]
           /\ parent' = Reparented(s)
           /\ UNCHANGED <<pid, killed, pgdir, chan, call, kid, nextpid, mem, abandoned>>

Wait(s) == /\ Enters(s)
           /\ Joined(s)
           /\ call' = [call EXCEPT ![s] = "wait"]
           /\ UNCHANGED <<state, pid, parent, killed, pgdir, chan, kid, nextpid, mem, abandoned>>

ThreadJoin(s) == /\ Enters(s)
                 /\ Threads
                 /\ call' = [call EXCEPT ![s] = "thread_join"]
                 /\ UNCHANGED <<state, pid, parent, killed, pgdir, chan, kid, nextpid, mem, abandoned>>

\* The children the two calls look for.
Awaited(s) == IF call[s] = "thread_join" THEN ThreadsOf(s) ELSE Children(s)

Waits(s) == In(s, "wait") \/ In(s, "thread_join")

\* Only wait frees the page table.
FreedAlways(s, t) == mem \ {pgdir[t]}

Freed(s, t) == IF call[s] = "wait" THEN mem \ {pgdir[t]} ELSE mem

\* The first zombie is reaped.  (p->pgdir keeps its value in the code, where
\* nothing reads it before it is set again.)
Reap(s) ==
  /\ Waits(s)
  /\ \E t \in FirstIn({u \in Awaited(s) : state[u] = "ZOMBIE"}) :
        /\ mem' = Freed(s, t)
        /\ state' = [state EXCEPT ![t] = "UNUSED"]
        /\ pid' = [pid EXCEPT ![t] = 0]
        /\ parent' = [parent EXCEPT ![t] = None]
        /\ killed' = [killed EXCEPT ![t] = FALSE]
        /\ pgdir' = [pgdir EXCEPT ![t] = NoPgdir]
  /\ Back(s)
  /\ UNCHANGED <<chan, kid, nextpid, abandoned>>

NoZombie(s) == Waits(s) /\ \A t \in Awaited(s) : state[t] # "ZOMBIE"

\* No point waiting without children.
WaitGivesUp(s) ==
  /\ NoZombie(s)
  /\ Awaited(s) = {} \/ killed[s]
  /\ Back(s)
  /\ UNCHANGED <<state, pid, parent, killed, pgdir, chan, kid, nextpid, mem, abandoned>>

SleepsEvenIfKilled(s) ==
  /\ NoZombie(s)
  /\ Awaited(s) # {}
  /\ state' = [state EXCEPT ![s] = "SLEEPING"]
  /\ chan' = [chan EXCEPT ![s] = s]
  /\ UNCHANGED <<pid, parent, killed, pgdir, call, kid, nextpid, mem, abandoned>>

WaitSleeps(s) ==
  /\ NoZombie(s)
  /\ Awaited(s) # {} /\ ~killed[s]
  /\ state' = [state EXCEPT ![s] = "SLEEPING"]
  /\ chan' = [chan EXCEPT ![s] = s]
  /\ UNCHANGED <<pid, parent, killed, pgdir, call, kid, nextpid, mem, abandoned>>

\* kill marks the first slot that has the pid, whatever its state.  A killed
\* process exits without joining its threads.
Kill(n) ==
  /\ \E t \in FirstIn({u \in Slot : pid[u] = n}) :
        /\ abandoned' = (abandoned \/ ThreadsOf(t) # {} \/ call[t] = "thread_create")
        /\ killed' = [killed EXCEPT ![t] = TRUE]
        /\ state' = IF state[t] = "SLEEPING" THEN [state EXCEPT ![t] = "RUNNABLE"]
                    ELSE state
  /\ UNCHANGED <<pid, parent, pgdir, chan, call, kid, nextpid, mem>>

-----------------------------------------------------------------------------
Process(s) == \/ Fork(s) \/ ThreadCreate(s) \/ AllocFails(s) \/ ForkDone(s)
              \/ ThreadDone(s) \/ Exec(s) \/ Exit(s) \/ Wait(s)
              \/ ThreadJoin(s) \/ Reap(s) \/ WaitGivesUp(s) \/ WaitSleeps(s)

Next == \/ \E s \in Slot : Run(s) \/ Yield(s) \/ Process(s)
        \/ \E n \in Kills : Kill(n)

Spec == Init /\ [][Next]_vars

(* The scheduler runs every process again and again and the timer makes it  *)
(* yield; a process completes its system calls and, once killed, exits;     *)
(* init.c calls wait in its loop.                                           *)
Finish(s) == \/ AllocFails(s) \/ ForkDone(s) \/ ThreadDone(s) \/ Reap(s)
             \/ WaitGivesUp(s) \/ WaitSleeps(s) \/ (killed[s] /\ Exit(s))

Fairness == /\ \A s \in Slot : SF_vars(Run(s)) /\ WF_vars(Yield(s)) /\ SF_vars(Finish(s))
            /\ SF_vars(Wait(initproc))

FairSpec == Spec /\ Fairness

-----------------------------------------------------------------------------
(* What the table keeps true.                                               *)

\* Every process except the first has a parent that can still wait for it:
\* exit (proc.c:209) leaves no child behind, whatever exits in which order,
\* and no unused or half-built slot is anybody's child.
ParentAlive == /\ \A t \in Started \ {initproc} : parent[t] \in Alive \ {t}
               /\ \A t \in Slot \ (Started \ {initproc}) : parent[t] = None

\* No lost wakeup: a process that sleeps in wait or thread_join has not been
\* killed and none of the children it waits for is a zombie (proc.c:206, 216,
\* 262, 511).
WaiterHasReason ==
  \A s \in Slot : state[s] = "SLEEPING" =>
     /\ ~killed[s]
     /\ \A t \in Awaited(s) : state[t] # "ZOMBIE"
     /\ call[s] = "wait" => Awaited(s) # {}

\* A slot is handed to one fork at a time: the slots being filled are the
\* EMBRYOs, each of one living process (proc.c:51-61, 159).
EmbryoOwned ==
  /\ \A s \in Slot : kid[s] # None <=> s \in Alive /\ call[s] \in {"fork", "thread_create"}
  /\ \A s \in Slot : kid[s] # None => state[kid[s]] = "EMBRYO"
  /\ \A t \in Slot : state[t] = "EMBRYO" => \E s \in Slot : kid[s] = t
  /\ \A s, t \in Slot : kid[s] # None /\ kid[s] = kid[t] => s = t

\* A sleeper is in wait or thread_join and sleeps on its own slot; a slot that
\* is not running a process is in no system call.
SleepersWait ==
  \A s \in Slot :
     /\ state[s] = "SLEEPING" => chan[s] = s /\ call[s] \in {"wait", "thread_join"}
     /\ s \notin Alive => call[s] = "user"

\* The inductive invariant behind ParentAlive and WaiterHasReason: what exit
\* may wake, and what fork may fill, is never anything else.
IInv == /\ TypeOK
        /\ ParentAlive
        /\ WaiterHasReason
        /\ EmbryoOwned
        /\ SleepersWait
        /\ initproc \in Alive

PgdirExact == mem = {pgdir[t] : t \in Started}

\* Memory is accounted for: the page tables in use are those of the processes
\* in the table, so none is freed under a process that still runs on it, freed
\* twice, or lost (proc.c:156, 245, 617; exec.c:92), until kill takes from a
\* process the chance to join its threads (proc.c:498-519 has no regard to them).
PgdirAccounted == abandoned \/ PgdirExact

\* A thread of its parent: it runs on the parent's page table.
IsThread(t) == t # initproc /\ pgdir[parent[t]] = pgdir[t]

\* Of the processes on one page table all but one are threads of their parents.
OneFamily == \A t, u \in Started :
                t # u /\ pgdir[t] = pgdir[u] => IsThread(t) \/ IsThread(u)

\* nextpid++ in allocproc (proc.c:60): a process is older than its children,
\* also after exit has passed them to init.
PidsGrow ==
  /\ \A t \in Slot : pid[t] < nextpid
  /\ \A s \in Slot : kid[s] # None => pid[s] < pid[kid[s]]
  /\ \A t \in Started \ {initproc} : pid[parent[t]] < pid[t] /\ pid[initproc] < pid[t]

\* A process in wait has no thread; nor has a killed one, which is not making one
\* either, as long as kill has hit nobody else.
ThreadsJoined ==
  \A s \in Slot : /\ call[s] = "wait" \/ killed[s] => ThreadsOf(s) = {}
                  /\ killed[s] => call[s] # "thread_create"

\* Without threads every process has a page table of its own.
NoSharing == /\ \A s \in Slot : call[s] # "thread_create"
             /\ \A t, u \in Started : pgdir[t] = pgdir[u] => t = u

\* The inductive invariant behind PgdirAccounted, for programs that join their
\* threads or have none; abandoned \/ PgdirInv is what every step keeps.
PgdirInv == /\ PgdirExact
            /\ OneFamily
            /\ PidsGrow
            /\ ThreadsJoined
            /\ ~Threads => NoSharing

\* A process starts life unkilled.  kill's comment (proc.c:498) has it "Kill
\* the process with the given pid", so a mark set by kill belongs to a process
\* that had the pid, not to a later one in the same slot.
BornUnkilled ==
  [][\A t \in Slot : state[t] = "UNUSED" /\ state'[t] = "EMBRYO" => ~killed'[t]]_vars

\* Orphans are reaped: a zombie passed to init, or left by init's own child,
\* is freed in the end (proc.c:209-216, 240; init.c's wait loop).
OrphansReaped ==
  \A t \in Slot : (state[t] = "ZOMBIE" /\ parent[t] = initproc) ~> state[t] = "UNUSED"

\* A killed process exits, also out of fork, wait and thread_join (proc.c:499,
\* "Process won't exit until it returns to user space").
KilledExits ==
  \A s \in Slot \ {initproc} : (s \in Alive /\ killed[s]) ~> s \notin Alive

\* Together: whoever is killed dies, and whoever has died is reaped, by init if
\* by nobody else.
ProcessesEnd == KilledExits /\ OrphansReaped
=============================================================================
