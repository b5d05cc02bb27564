-------------------------- MODULE ProcTableProofs ---------------------------
(***************************************************************************)
(* Proofs about the process table: for any number of slots, processors,    *)
(* page tables and pids, whether or not programs use threads, join them or *)
(* are killed, no process loses its parent and no waiter misses an exit.   *)
(***************************************************************************)
EXTENDS ProcTable, TLAPS, WellFoundedInduction

\* FirstIn picks an element of its argument.
LEMMA FirstInSubset == \A S : FirstIn(S) \subseteq S
BY DEF FirstIn

\* The table is never empty, so that init has a slot.
LEMMA SlotFacts == /\ Slot \subseteq Nat \ {0} /\ None \notin Slot
                   /\ initproc \in Slot
BY ProcConstants DEF Slot, None, initproc

\* The machine starts in the invariant (userinit).
LEMMA InitIInv == Init => IInv
<1> SUFFICES ASSUME Init PROVE IInv
  OBVIOUS
<1>1. TypeOK
  <2>1. abandoned \in BOOLEAN
    BY Zenon DEF Init
  <2>2. nextpid \in 1 .. MaxPid + 1 /\ pid \in [Slot -> 0 .. MaxPid]
    BY ProcConstants, SlotFacts DEF Init
  <2> QED
    BY Zenon, <2>1, <2>2, SlotFacts DEF Init, TypeOK
<1>2. ParentAlive /\ WaiterHasReason /\ EmbryoOwned /\ SleepersWait /\ initproc \in Alive
  BY SlotFacts DEF Init, ParentAlive, WaiterHasReason, EmbryoOwned, SleepersWait,
     Started, Alive
<1> QED
  BY <1>1, <1>2 DEF IInv

\* The scheduler gives a process a processor.
LEMMA RunIInv ==
  ASSUME IInv, NEW s \in Slot, Run(s)
  PROVE  IInv'
<1> USE SlotFacts
<1>1. TypeOK'
  BY DEF IInv, TypeOK, Run
<1>2. ParentAlive' /\ (initproc \in Alive)'
  BY DEF IInv, TypeOK, Run, ParentAlive, Started, Alive
<1>3. WaiterHasReason'
  BY DEF IInv, TypeOK, Run, ParentAlive, WaiterHasReason, SleepersWait, Awaited,
     Children, ThreadsOf, Started, Alive
<1>4. EmbryoOwned' /\ SleepersWait'
  BY DEF IInv, TypeOK, Run, EmbryoOwned, SleepersWait, Started, Alive
<1> QED
  BY <1>1, <1>2, <1>3, <1>4 DEF IInv

\* A process gives its processor up.
LEMMA YieldIInv ==
  ASSUME IInv, NEW s \in Slot, Yield(s)
  PROVE  IInv'
<1> USE SlotFacts
<1>1. TypeOK'
  BY DEF IInv, TypeOK, Yield
<1>2. ParentAlive' /\ (initproc \in Alive)'
  BY DEF IInv, TypeOK, Yield, ParentAlive, Started, Alive
<1>3. WaiterHasReason'
  BY DEF IInv, TypeOK, Yield, ParentAlive, WaiterHasReason, SleepersWait, Awaited,
     Children, ThreadsOf, Started, Alive
<1>4. EmbryoOwned' /\ SleepersWait'
  BY DEF IInv, TypeOK, Yield, EmbryoOwned, SleepersWait, Started, Alive
<1> QED
  BY <1>1, <1>2, <1>3, <1>4 DEF IInv

\* allocproc takes an unused slot, which is nobody's child.
LEMMA AllocIInv ==
  ASSUME IInv, NEW s \in Slot, NEW c \in {"fork", "thread_create"}, Alloc(s, c)
  PROVE  IInv'
<1> USE SlotFacts, FirstInSubset
<1>1. TypeOK'
  BY ProcConstants DEF IInv, TypeOK, Alloc, Enters, In, UnusedSlots
<1>2. ParentAlive' /\ (initproc \in Alive)'
  BY DEF IInv, TypeOK, Alloc, Enters, In, UnusedSlots, ParentAlive, Started, Alive
<1>3. WaiterHasReason'
  BY DEF IInv, TypeOK, Alloc, Enters, In, UnusedSlots, ParentAlive, WaiterHasReason, SleepersWait, Awaited,
     Children, ThreadsOf, Started, Alive
<1>4. EmbryoOwned' /\ SleepersWait'
  BY DEF IInv, TypeOK, Alloc, Enters, In, UnusedSlots, EmbryoOwned, SleepersWait, Started, Alive
<1> QED
  BY <1>1, <1>2, <1>3, <1>4 DEF IInv

\* allocproc or copyuvm fails and gives the slot back.
LEMMA AllocFailsIInv ==
  ASSUME IInv, NEW s \in Slot, AllocFails(s)
  PROVE  IInv'
<1> USE SlotFacts
<1>0. /\ kid[s] \in Slot /\ state[kid[s]] = "EMBRYO"
      /\ kid[s] # s /\ kid[s] # initproc /\ state[s] = "RUNNING"
      /\ \A t \in Slot : kid[t] = kid[s] => t = s
  BY DEF IInv, TypeOK, EmbryoOwned, Alive, Started, In, AllocFails
<1>1. TypeOK'
  BY <1>0 DEF IInv, TypeOK, AllocFails, In, Back
<1>2. ParentAlive' /\ (initproc \in Alive)'
  BY <1>0 DEF IInv, TypeOK, AllocFails, In, Back, ParentAlive, Started, Alive
<1>3. WaiterHasReason'
  BY <1>0 DEF IInv, TypeOK, AllocFails, In, Back, ParentAlive, WaiterHasReason, SleepersWait, Awaited,
     Children, ThreadsOf, Started, Alive
<1>4. EmbryoOwned' /\ SleepersWait'
  BY <1>0 DEF IInv, TypeOK, AllocFails, In, Back, EmbryoOwned, SleepersWait, Started, Alive
<1> QED
  BY <1>1, <1>2, <1>3, <1>4 DEF IInv

\* fork and thread_create make the new slot a child of their caller.
LEMMA StartIInv ==
  ASSUME IInv, NEW s \in Slot, In(s, "fork") \/ In(s, "thread_create"), NEW pg \in Pgdir \cup {NoPgdir}, mem' \in SUBSET Pgdir, Start(s, pg)
  PROVE  IInv'
<1> USE SlotFacts
<1>0. /\ kid[s] \in Slot /\ state[kid[s]] = "EMBRYO"
      /\ kid[s] # s /\ kid[s] # initproc /\ state[s] = "RUNNING"
      /\ \A t \in Slot : kid[t] = kid[s] => t = s
  BY DEF IInv, TypeOK, EmbryoOwned, Alive, Started, In
<1>1. TypeOK'
  BY <1>0 DEF IInv, TypeOK, Start, In, Back
<1>2. ParentAlive' /\ (initproc \in Alive)'
  BY <1>0 DEF IInv, TypeOK, Start, In, Back, ParentAlive, Started, Alive
<1>3. WaiterHasReason'
  <2> SUFFICES ASSUME NEW u \in Slot, state'[u] = "SLEEPING"
               PROVE  /\ ~killed'[u]
                      /\ \A t \in Awaited(u)' : state'[t] # "ZOMBIE"
                      /\ call'[u] = "wait" => Awaited(u)' # {}
    BY DEF WaiterHasReason
  <2>1. u # s /\ u # kid[s] /\ state[u] = "SLEEPING"
    BY <1>0 DEF IInv, TypeOK, Start
  <2>2. parent[kid[s]] = None
    BY ZenonT(30), <1>0 DEF IInv, ParentAlive, Started
  <2>3. Awaited(u)' = Awaited(u) /\ kid[s] \notin Awaited(u)
    BY ZenonT(30), <1>0, <2>1, <2>2 DEF IInv, TypeOK, Start, Back, Awaited, Children, ThreadsOf
  <2> QED
    BY <1>0, <2>1, <2>3 DEF IInv, TypeOK, Start, Back, WaiterHasReason, Awaited,
       Children, ThreadsOf
<1>4. EmbryoOwned' /\ SleepersWait'
  BY <1>0 DEF IInv, TypeOK, Start, In, Back, EmbryoOwned, SleepersWait, Started, Alive
<1> QED
  BY <1>1, <1>2, <1>3, <1>4 DEF IInv

\* exec changes page tables only.
LEMMA ExecIInv ==
  ASSUME IInv, NEW s \in Slot, Exec(s)
  PROVE  IInv'
<1> USE SlotFacts
<1>1. TypeOK'
  BY DEF IInv, TypeOK, Exec, Enters, In
<1>2. ParentAlive' /\ (initproc \in Alive)'
  BY DEF IInv, TypeOK, Exec, Enters, In, ParentAlive, Started, Alive
<1>3. WaiterHasReason'
  BY DEF IInv, TypeOK, Exec, Enters, In, ParentAlive, WaiterHasReason, SleepersWait, Awaited,
     Children, ThreadsOf, Started, Alive
<1>4. EmbryoOwned' /\ SleepersWait'
  BY DEF IInv, TypeOK, Exec, Enters, In, EmbryoOwned, SleepersWait, Started, Alive
<1> QED
  BY <1>1, <1>2, <1>3, <1>4 DEF IInv

\* exit turns its caller into a zombie: it wakes the parent, and init if it
\* hands init a zombie.
LEMMA ExitIInv ==
  ASSUME IInv, NEW s \in Slot, Exit(s)
  PROVE  IInv'
<1> USE SlotFacts
<1>0. /\ state' \in [Slot -> {"UNUSED", "EMBRYO", "SLEEPING", "RUNNABLE", "RUNNING",
                          "ZOMBIE"}]
      /\ state'[s] = "ZOMBIE" /\ state[s] = "RUNNING"
      /\ \A t \in Slot \ {s} :
            state'[t] = IF /\ state[t] = "SLEEPING"
                           /\ \/ chan[t] = parent[s]
                              \/ /\ chan[t] = initproc
                                 /\ \E u \in Children(s) : state[u] = "ZOMBIE"
                        THEN "RUNNABLE" ELSE state[t]
  BY DEF IInv, TypeOK, Exit, In, ExitWakes, Wakeup1
<1>1. TypeOK'
  BY <1>0 DEF IInv, TypeOK, Exit, In, Reparented
<1>2. Started' = Started /\ Alive' = Alive \ {s} /\ s \in Alive
  BY ZenonT(30), <1>0 DEF Started, Alive
<1>3. ParentAlive' /\ (initproc \in Alive)'
  <2>1. \A t \in Slot : parent'[t] = IF parent[t] = s THEN initproc ELSE parent[t]
    BY DEF Exit, Reparented
  <2>2. initproc \in Alive' /\ s # initproc
    BY <1>2 DEF IInv, Exit
  <2> QED
    BY <1>2, <2>1, <2>2 DEF IInv, ParentAlive, Started
<1>4. WaiterHasReason'
  <2> SUFFICES ASSUME NEW u \in Slot, state'[u] = "SLEEPING"
               PROVE  /\ ~killed'[u]
                      /\ \A t \in Awaited(u)' : state'[t] # "ZOMBIE"
                      /\ call'[u] = "wait" => Awaited(u)' # {}
    BY DEF WaiterHasReason
  <2>1. u # s /\ state[u] = "SLEEPING" /\ chan[u] = u /\ u # parent[s]
    BY <1>0 DEF IInv, SleepersWait
  <2>2. u = initproc => \A t \in Children(s) : state[t] # "ZOMBIE"
    BY <1>0, <2>1
  <2>3. Children(u)' = IF u = initproc THEN Children(u) \cup Children(s) ELSE Children(u)
    BY <2>1 DEF IInv, TypeOK, Exit, Reparented, Children
  <2>4. parent[s] # s
    BY <1>2 DEF IInv, ParentAlive, Alive, Exit
  <2>5. s \notin Children(u)' /\ Children(u) \subseteq Slot /\ Children(s) \subseteq Slot
    BY <2>1, <2>3, <2>4 DEF Children
  <2>6. ThreadsOf(u)' = {t \in Children(u)' : pgdir[t] = pgdir[u]}
    BY DEF ThreadsOf, Exit
  <2> QED
    <3>1. /\ ~killed'[u] /\ pgdir' = pgdir /\ call' = call
      BY <2>1 DEF IInv, WaiterHasReason, Exit
    <3>2. \A t \in Awaited(u)' : state[t] # "ZOMBIE" /\ t # s /\ t \in Slot
      BY <2>1, <2>2, <2>3, <2>5, <2>6, <3>1 DEF IInv, WaiterHasReason, Awaited, ThreadsOf
    <3>3. call'[u] = "wait" => Awaited(u)' # {}
      BY <2>1, <2>3, <2>6, <3>1 DEF IInv, WaiterHasReason, Awaited
    <3> QED
      BY ZenonT(30), <1>0, <3>1, <3>2, <3>3
<1>5. EmbryoOwned'
  <2>1. kid' = kid /\ call' = call /\ call[s] = "user"
    BY DEF Exit, In
  <2>2. \A t \in Slot : state'[t] = "EMBRYO" <=> state[t] = "EMBRYO"
    BY <1>0
  <2>3. \A t \in Slot : kid[t] \in Slot \cup {None}
    BY DEF IInv, TypeOK
  <2> QED
    BY ZenonT(30), <1>2, <2>1, <2>2, <2>3 DEF IInv, EmbryoOwned
<1>6. SleepersWait'
  BY <1>0, <1>2 DEF IInv, TypeOK, Exit, In, SleepersWait
<1> QED
  BY <1>1, <1>3, <1>4, <1>5, <1>6 DEF IInv

\* wait and thread_join are called.
LEMMA CallIInv ==
  ASSUME IInv, NEW s \in Slot, Wait(s) \/ ThreadJoin(s)
  PROVE  IInv'
<1> USE SlotFacts
<1>1. TypeOK'
  BY DEF IInv, TypeOK, Wait, ThreadJoin, Enters, In
<1>2. ParentAlive' /\ (initproc \in Alive)'
  BY DEF IInv, TypeOK, Wait, ThreadJoin, Enters, In, ParentAlive, Started, Alive
<1>3. WaiterHasReason'
  BY DEF IInv, TypeOK, Wait, ThreadJoin, Enters, In, ParentAlive, WaiterHasReason, SleepersWait, Awaited,
     Children, ThreadsOf, Started, Alive
<1>4. EmbryoOwned' /\ SleepersWait'
  BY DEF IInv, TypeOK, Wait, ThreadJoin, Enters, In, EmbryoOwned, SleepersWait, Started, Alive
<1> QED
  BY <1>1, <1>2, <1>3, <1>4 DEF IInv

\* A zombie is reaped; nobody has it as parent.
LEMMA ReapIInv ==
  ASSUME IInv, NEW s \in Slot, Reap(s)
  PROVE  IInv'
<1> USE SlotFacts, FirstInSubset
<1>0. mem' \in SUBSET Pgdir
  BY DEF IInv, TypeOK, Reap, Freed
<1>1. TypeOK'
  <2>1. 0 \in 0 .. MaxPid /\ None \in Slot \cup {None} /\ NoPgdir \in Pgdir \cup {NoPgdir}
    BY ProcConstants
  <2>2. PICK t : /\ state' = [state EXCEPT ![t] = "UNUSED"]
                 /\ pid' = [pid EXCEPT ![t] = 0]
                 /\ parent' = [parent EXCEPT ![t] = None]
                 /\ killed' = [killed EXCEPT ![t] = FALSE]
                 /\ pgdir' = [pgdir EXCEPT ![t] = NoPgdir]
    BY ZenonT(30) DEF Reap
  <2>3. /\ UNCHANGED <<chan, kid, nextpid, abandoned>>
        /\ call' = [call EXCEPT ![s] = "user"]
    BY DEF Reap, Back
  <2> QED
    BY ZenonT(30), <1>0, <2>1, <2>2, <2>3 DEF IInv, TypeOK
<1>2. ParentAlive' /\ (initproc \in Alive)'
  BY DEF IInv, TypeOK, Reap, Waits, In, Back, Freed, ParentAlive, Started, Alive
<1>3. WaiterHasReason'
  BY DEF IInv, TypeOK, Reap, Waits, In, Back, Freed, ParentAlive, WaiterHasReason, SleepersWait, Awaited,
     Children, ThreadsOf, Started, Alive
<1>4. EmbryoOwned' /\ SleepersWait'
  BY DEF IInv, TypeOK, Reap, Waits, In, Back, Freed, EmbryoOwned, SleepersWait, Started, Alive
<1> QED
  BY <1>1, <1>2, <1>3, <1>4 DEF IInv

\* wait and thread_join return without a child.
LEMMA WaitGivesUpIInv ==
  ASSUME IInv, NEW s \in Slot, WaitGivesUp(s)
  PROVE  IInv'
<1> USE SlotFacts
<1>1. TypeOK'
  BY DEF IInv, TypeOK, WaitGivesUp, NoZombie, Waits, In, Back
<1>2. ParentAlive' /\ (initproc \in Alive)'
  BY DEF IInv, TypeOK, WaitGivesUp, NoZombie, Waits, In, Back, ParentAlive, Started, Alive
<1>3. WaiterHasReason'
  BY DEF IInv, TypeOK, WaitGivesUp, NoZombie, Waits, In, Back, ParentAlive, WaiterHasReason, SleepersWait, Awaited,
     Children, ThreadsOf, Started, Alive
<1>4. EmbryoOwned' /\ SleepersWait'
  BY DEF IInv, TypeOK, WaitGivesUp, NoZombie, Waits, In, Back, EmbryoOwned, SleepersWait, Started, Alive
<1> QED
  BY <1>1, <1>2, <1>3, <1>4 DEF IInv

\* wait and thread_join go to sleep, having found no zombie.
LEMMA WaitSleepsIInv ==
  ASSUME IInv, NEW s \in Slot, WaitSleeps(s)
  PROVE  IInv'
<1> USE SlotFacts
<1>1. TypeOK'
  BY DEF IInv, TypeOK, WaitSleeps, NoZombie, Waits, In
<1>2. ParentAlive' /\ (initproc \in Alive)'
  BY DEF IInv, TypeOK, WaitSleeps, NoZombie, Waits, In, ParentAlive, Started, Alive
<1>3. WaiterHasReason'
  BY DEF IInv, TypeOK, WaitSleeps, NoZombie, Waits, In, ParentAlive, WaiterHasReason, SleepersWait, Awaited,
     Children, ThreadsOf, Started, Alive
<1>4. EmbryoOwned' /\ SleepersWait'
  BY DEF IInv, TypeOK, WaitSleeps, NoZombie, Waits, In, EmbryoOwned, SleepersWait, Started, Alive
<1> QED
  BY <1>1, <1>2, <1>3, <1>4 DEF IInv

\* kill marks a slot and makes a sleeper runnable.
LEMMA KillIInv ==
  ASSUME IInv, NEW n, Kill(n)
  PROVE  IInv'
<1> USE SlotFacts, FirstInSubset
<1>1. TypeOK'
  BY DEF IInv, TypeOK, Kill
<1>2. ParentAlive' /\ (initproc \in Alive)'
  BY DEF IInv, TypeOK, Kill, ParentAlive, Started, Alive
<1>3. WaiterHasReason'
  BY DEF IInv, TypeOK, Kill, ParentAlive, WaiterHasReason, SleepersWait, Awaited,
     Children, ThreadsOf, Started, Alive
<1>4. EmbryoOwned' /\ SleepersWait'
  BY DEF IInv, TypeOK, Kill, EmbryoOwned, SleepersWait, Started, Alive
<1> QED
  BY <1>1, <1>2, <1>3, <1>4 DEF IInv

\* Every step of the system keeps the invariant.
LEMMA NextIInv == IInv /\ [Next]_vars => IInv'
<1> SUFFICES ASSUME IInv, [Next]_vars PROVE IInv'
  OBVIOUS
<1>1. CASE UNCHANGED vars
  BY <1>1 DEF IInv, TypeOK, ParentAlive, WaiterHasReason, EmbryoOwned, SleepersWait,
     Awaited, Children, ThreadsOf, Started, Alive, vars
<1>2. ASSUME NEW s \in Slot, Run(s) \/ Yield(s) PROVE IInv'
  BY <1>2, RunIInv, YieldIInv
<1>3. ASSUME NEW s \in Slot, Process(s) PROVE IInv'
  <2>1. CASE Fork(s) \/ ThreadCreate(s)
    BY <2>1, AllocIInv DEF Fork, ThreadCreate
  <2>2. CASE ForkDone(s)
    <3>1. PICK pg \in Pgdir \ mem : Start(s, pg) /\ mem' = mem \cup {pg}
      BY <2>2 DEF ForkDone
    <3>2. mem' \in SUBSET Pgdir /\ In(s, "fork")
      BY <2>2, <3>1 DEF ForkDone, IInv, TypeOK
    <3> QED
      BY <3>1, <3>2, StartIInv
  <2>3. CASE ThreadDone(s)
    <3>1. pgdir[s] \in Pgdir \cup {NoPgdir} /\ mem' \in SUBSET Pgdir
      BY <2>3 DEF ThreadDone, IInv, TypeOK
    <3> QED
      BY <2>3, <3>1, StartIInv DEF ThreadDone
  <2> QED
    BY <1>3, <2>1, <2>2, <2>3, AllocFailsIInv, ExecIInv, ExitIInv, CallIInv,
       ReapIInv, WaitGivesUpIInv, WaitSleepsIInv DEF Process
<1>4. ASSUME NEW n, Kill(n) PROVE IInv'
  BY <1>4, KillIInv
<1> QED
  BY <1>1, <1>2, <1>3, <1>4 DEF Next

\* The invariant of the process table holds of every behaviour.
THEOREM ProcInvariant == Spec => []IInv
BY InitIInv, NextIInv, PTL DEF Spec

\* No process is ever left without a living parent (exit, proc.c:209).
THEOREM ProcParentAlive == Spec => []ParentAlive
<1>1. IInv => ParentAlive
  BY DEF IInv
<1> QED
  BY <1>1, ProcInvariant, PTL

\* No process sleeps in wait or thread_join on a child that has exited, or
\* after it was killed (sleep, wakeup1 and kill under ptable.lock).
THEOREM ProcNoLostWakeup == Spec => []WaiterHasReason
<1>1. IInv => WaiterHasReason
  BY DEF IInv
<1> QED
  BY <1>1, ProcInvariant, PTL
-----------------------------------------------------------------------------
(* Page tables.  Programs join their threads or have none.                  *)

\* Of some slots one has the smallest pid.
LEMMA Oldest ==
  ASSUME TypeOK, NEW S \in SUBSET Slot, S # {}
  PROVE  \E t \in S : \A u \in S : ~ (pid[u] < pid[t])
<1> DEFINE T == {pid[t] : t \in S}
<1>1. T \subseteq Nat /\ T # {}
  BY ProcConstants DEF TypeOK
<1>2. PICK n \in T : \A m \in T : <<m, n>> \notin OpToRel(<, Nat)
  <2> HIDE DEF T
  <2> QED
    BY Zenon, <1>1, NatLessThanWellFounded, WFMin
<1>3. \A m \in T : ~ (m < n)
  BY Zenon, <1>1, <1>2 DEF OpToRel
<1> QED
  BY <1>3

\* Where programs create no threads, there are none.
LEMMA NoSharers ==
  ASSUME IInv, PgdirInv, ~Threads, NEW s \in Slot
  PROVE  ThreadsOf(s) = {}
<1> SUFFICES ASSUME NEW t \in ThreadsOf(s) PROVE FALSE
  OBVIOUS
<1>1. t \in Slot /\ parent[t] = s /\ pgdir[t] = pgdir[s]
  BY DEF ThreadsOf, Children
<1>2. t \in Started /\ s \in Started /\ s # t
  BY <1>1, SlotFacts DEF IInv, ParentAlive, Alive
<1> QED
  BY <1>1, <1>2 DEF PgdirInv, NoSharing

\* Who calls exit or wait with its threads joined has none.
LEMMA NoThreads ==
  ASSUME IInv, PgdirInv, Joins \/ ~Threads, NEW s \in Slot, Joined(s)
  PROVE  ThreadsOf(s) = {}
BY NoSharers DEF Joined

\* A root is the only one on its page table once it has no children.
LEMMA LastOfFamily ==
  ASSUME IInv, PgdirInv, NEW t \in Started, ~IsThread(t), Children(t) = {},
         NEW v \in Started, pgdir[v] = pgdir[t]
  PROVE  v = t
<1> DEFINE G == {u \in Started \ {t} : pgdir[u] = pgdir[t]}
<1> SUFFICES ASSUME G # {} PROVE FALSE
  OBVIOUS
<1>1. \A u \in G : parent[u] \in G /\ pid[parent[u]] < pid[u]
  <2> SUFFICES ASSUME NEW u \in G PROVE parent[u] \in G /\ pid[parent[u]] < pid[u]
    OBVIOUS
  <2>1. u \in Started /\ u # t /\ pgdir[u] = pgdir[t] /\ u \in Slot
    BY DEF Started
  <2>2. IsThread(u)
    BY <2>1 DEF PgdirInv, OneFamily
  <2>3. parent[u] \in Started /\ pgdir[parent[u]] = pgdir[t] /\ pid[parent[u]] < pid[u]
    BY <2>1, <2>2 DEF IsThread, IInv, ParentAlive, PgdirInv, PidsGrow, Alive
  <2>4. parent[u] # t
    BY <2>1 DEF Children
  <2> QED
    BY <2>3, <2>4
<1>2. G \in SUBSET Slot
  BY DEF Started
<1>3. TypeOK
  BY DEF IInv
<1> HIDE DEF G
<1>4. PICK u \in G : \A w \in G : ~ (pid[w] < pid[u])
  BY <1>2, <1>3, Oldest
<1> QED
  BY <1>1, <1>4

\* The machine starts with one process on one page table.
LEMMA InitPgdir == Init => PgdirInv
<1> SUFFICES ASSUME Init PROVE PgdirInv
  OBVIOUS
<1> USE SlotFacts
<1>1. Started = {initproc}
  BY DEF Init, Started
<1>2. PgdirExact
  BY <1>1 DEF Init, PgdirExact
<1>3. OneFamily /\ NoSharing
  BY <1>1 DEF Init, OneFamily, NoSharing
<1>4. PidsGrow
  BY <1>1 DEF Init, PidsGrow
<1>5. ThreadsJoined
  BY DEF Init, ThreadsJoined, ThreadsOf, Children
<1> QED
  BY <1>2, <1>3, <1>4, <1>5 DEF PgdirInv

\* Steps that start, end and kill no process, and change no page table.
LEMMA QuietPgdir ==
  ASSUME IInv, PgdirInv, UNCHANGED <<parent, pgdir, pid, kid, nextpid, mem, killed>>,
         Started' = Started,
         \A s \in Slot : \/ call'[s] = call[s]
                         \/ call'[s] \in {"user", "thread_join"}
                         \/ call'[s] = "wait" /\ ThreadsOf(s) = {}
  PROVE  PgdirInv'
<1>1. PgdirExact' /\ OneFamily'
  BY DEF PgdirInv, PgdirExact, OneFamily, IsThread
<1>2. PidsGrow'
  BY DEF PgdirInv, PidsGrow
<1>3. ThreadsJoined'
  BY DEF PgdirInv, ThreadsJoined, ThreadsOf, Children
<1>4. (~Threads => NoSharing)'
  BY DEF PgdirInv, NoSharing
<1> QED
  BY <1>1, <1>2, <1>3, <1>4 DEF PgdirInv

\* kill marks a process without threads, or it sets abandoned; where there are
\* no threads it never does.
LEMMA KillPgdir ==
  ASSUME IInv, PgdirInv, NEW n, Kill(n)
  PROVE  /\ abandoned' \/ PgdirInv'
         /\ ~Threads /\ ~abandoned => ~abandoned'
<1> USE SlotFacts
<1>0. PICK t \in Slot : /\ abandoned' = (abandoned \/ ThreadsOf(t) # {} \/ call[t] = "thread_create")
                        /\ killed' = [killed EXCEPT ![t] = TRUE]
                        /\ state' = IF state[t] = "SLEEPING"
                                    THEN [state EXCEPT ![t] = "RUNNABLE"] ELSE state
  BY Zenon, FirstInSubset DEF Kill
<1>1. UNCHANGED <<parent, pgdir, pid, kid, nextpid, mem, call>>
  BY DEF Kill
<1>2. Started' = Started
  BY <1>0 DEF IInv, TypeOK, Started
<1>3. ~Threads /\ ~abandoned => ~abandoned'
  <2>1. ~Threads => ThreadsOf(t) = {} /\ call[t] # "thread_create"
    BY NoSharers DEF PgdirInv, NoSharing
  <2> QED
    BY Zenon, <1>0, <2>1
<1> SUFFICES ASSUME ~abandoned' PROVE PgdirInv'
  BY <1>3
<1>8. ThreadsOf(t) = {} /\ call[t] # "thread_create"
  BY Zenon, <1>0
<1>4. PgdirExact' /\ OneFamily'
  BY <1>1, <1>2 DEF PgdirInv, PgdirExact, OneFamily, IsThread
<1>5. PidsGrow'
  BY <1>1, <1>2 DEF PgdirInv, PidsGrow
<1>6. ThreadsJoined'
  BY <1>0, <1>1, <1>8 DEF IInv, TypeOK, PgdirInv, ThreadsJoined, ThreadsOf, Children
<1>7. (~Threads => NoSharing)'
  BY <1>1, <1>2 DEF PgdirInv, NoSharing
<1> QED
  BY <1>4, <1>5, <1>6, <1>7 DEF PgdirInv

\* allocproc gives a slot the next pid; the slot holds no process yet.
LEMMA AllocPgdir ==
  ASSUME IInv, PgdirInv, NEW s \in Slot, NEW c \in {"fork", "thread_create"},
         Alloc(s, c), c = "thread_create" => Threads
  PROVE  PgdirInv'
<1> USE SlotFacts
<1>0. PICK t \in Slot : /\ state[t] = "UNUSED"
                        /\ state' = [state EXCEPT ![t] = "EMBRYO"]
                        /\ pid' = [pid EXCEPT ![t] = nextpid]
                        /\ kid' = [kid EXCEPT ![s] = t]
  BY Zenon, FirstInSubset DEF Alloc, UnusedSlots
<1>1. /\ UNCHANGED <<parent, killed, pgdir, mem>>
      /\ nextpid' = nextpid + 1 /\ call' = [call EXCEPT ![s] = c]
      /\ ~killed[s] /\ state[s] = "RUNNING"
  BY DEF Alloc, Enters, In
<1>2. Started' = Started /\ t \notin Started /\ s # t
  BY <1>0, <1>1 DEF IInv, TypeOK, Started
<1>3. PgdirExact' /\ OneFamily'
  BY <1>1, <1>2 DEF PgdirInv, PgdirExact, OneFamily, IsThread
<1>4. PidsGrow'
  <2>1. \A u \in Slot : pid[u] \in Nat /\ nextpid \in Nat /\ pid[u] < nextpid
    BY ProcConstants DEF IInv, TypeOK, PgdirInv, PidsGrow
  <2>2. \A u \in Slot : pid'[u] = IF u = t THEN nextpid ELSE pid[u]
    BY <1>0 DEF IInv, TypeOK
  <2>3. \A u \in Slot : kid'[u] = IF u = s THEN t ELSE kid[u]
    BY <1>0 DEF IInv, TypeOK
  <2>4. \A u \in Slot : kid[u] # None => kid[u] \in Slot /\ kid[u] # t /\ u # t
    BY <1>0 DEF IInv, TypeOK, EmbryoOwned, Alive, Started
  <2>5. \A u \in Started \ {initproc} : parent[u] \in Slot /\ parent[u] # t
    BY <1>2 DEF IInv, ParentAlive, Alive, Started
  <2>6. \A u \in Slot : pid'[u] < nextpid'
    BY <1>1, <2>1, <2>2
  <2>7. \A u \in Slot : kid'[u] # None => pid'[u] < pid'[kid'[u]]
    BY Zenon, <1>2, <2>1, <2>2, <2>3, <2>4 DEF PgdirInv, PidsGrow
  <2>8. \A u \in Started \ {initproc} : pid'[parent[u]] < pid'[u] /\ pid'[initproc] < pid'[u]
    <3>1. initproc # t /\ Started \subseteq Slot
      BY <1>2 DEF IInv, Alive, Started
    <3> QED
      BY Zenon, <1>2, <2>2, <2>5, <3>1 DEF PgdirInv, PidsGrow
  <2> QED
    BY <1>1, <1>2, <2>6, <2>7, <2>8 DEF PidsGrow
<1>5. ThreadsJoined'
  BY <1>1 DEF IInv, TypeOK, PgdirInv, ThreadsJoined, ThreadsOf, Children
<1>6. (~Threads => NoSharing)'
  BY <1>1, <1>2 DEF IInv, TypeOK, PgdirInv, NoSharing
<1> QED
  BY <1>3, <1>4, <1>5, <1>6 DEF PgdirInv

\* A failed fork or thread_create leaves only a used pid behind.
LEMMA AllocFailsPgdir ==
  ASSUME IInv, PgdirInv, NEW s \in Slot, AllocFails(s)
  PROVE  PgdirInv'
<1> USE SlotFacts
<1>1. /\ UNCHANGED <<pid, parent, killed, pgdir, nextpid, mem>>
      /\ kid' = [kid EXCEPT ![s] = None] /\ call' = [call EXCEPT ![s] = "user"]
  BY DEF AllocFails, Back
<1>2. Started' = Started
  <2>1. kid[s] \in Slot /\ state[kid[s]] = "EMBRYO"
    BY DEF IInv, TypeOK, EmbryoOwned, Alive, Started, In, AllocFails
  <2> QED
    BY <2>1 DEF IInv, TypeOK, AllocFails, Started
<1>3. PgdirExact' /\ OneFamily'
  BY <1>1, <1>2 DEF PgdirInv, PgdirExact, OneFamily, IsThread
<1>4. PidsGrow'
  BY <1>1, <1>2 DEF IInv, TypeOK, PgdirInv, PidsGrow
<1>5. ThreadsJoined'
  BY <1>1 DEF IInv, TypeOK, PgdirInv, ThreadsJoined, ThreadsOf, Children
<1>6. (~Threads => NoSharing)'
  BY <1>1, <1>2 DEF IInv, TypeOK, PgdirInv, NoSharing
<1> QED
  BY <1>3, <1>4, <1>5, <1>6 DEF PgdirInv

\* The new slot runs on a page table of its own (fork), or on its creator's,
\* who is then its parent (thread_create).
LEMMA StartPgdir ==
  ASSUME IInv, PgdirInv, NEW s \in Slot, ForkDone(s) \/ ThreadDone(s)
  PROVE  PgdirInv'
<1> USE SlotFacts
<1>0. PICK t \in Slot : /\ t = kid[s] /\ state[t] = "EMBRYO" /\ t # initproc
                        /\ state[s] = "RUNNING" /\ s # t
                        /\ s \in Started /\ t \notin Started
  <2>1. /\ kid[s] \in Slot /\ state[kid[s]] = "EMBRYO" /\ kid[s] # initproc
        /\ state[s] = "RUNNING" /\ s # kid[s]
        /\ s \in Started /\ kid[s] \notin Started
    BY DEF IInv, TypeOK, EmbryoOwned, Alive, Started, In, ForkDone, ThreadDone
  <2> QED
    BY Zenon, <2>1
<1>1. PICK pg : /\ Start(s, pg)
                /\ \/ pg \in Pgdir \ mem /\ mem' = mem \cup {pg} /\ call[s] = "fork"
                   \/ pg = pgdir[s] /\ mem' = mem /\ call[s] = "thread_create"
  BY Zenon DEF ForkDone, ThreadDone, In
<1>2. /\ pgdir' = [pgdir EXCEPT ![t] = pg] /\ parent' = [parent EXCEPT ![t] = s]
      /\ state' = [state EXCEPT ![t] = "RUNNABLE"] /\ kid' = [kid EXCEPT ![s] = None]
      /\ call' = [call EXCEPT ![s] = "user"] /\ UNCHANGED <<pid, killed, nextpid>>
  BY <1>0, <1>1 DEF Start, Back
<1>3. Started' = Started \cup {t}
  BY <1>0, <1>2 DEF IInv, TypeOK, Started
<1>4. /\ pgdir'[t] = pg /\ parent'[t] = s
      /\ \A u \in Slot \ {t} : pgdir'[u] = pgdir[u] /\ parent'[u] = parent[u]
  BY <1>0, <1>2 DEF IInv, TypeOK
<1>5. /\ Started \subseteq Slot /\ t \notin Started
      /\ \A u \in Started \ {initproc} : parent[u] \in Slot \ {t}
  BY <1>0 DEF IInv, ParentAlive, Alive, Started
<1>6. \A u \in Started : pgdir[u] \in mem
  BY DEF PgdirInv, PgdirExact
<1>7. PgdirExact'
  BY <1>0, <1>1, <1>3, <1>4, <1>5 DEF PgdirInv, PgdirExact
<1>8. OneFamily'
  <2>1. \A u \in Started : IsThread(u)' <=> IsThread(u)
    BY Zenon, <1>4, <1>5 DEF IsThread
  <2>2. pg = pgdir[s] => IsThread(t)'
    BY <1>0, <1>4 DEF IsThread
  <2>3. pg \notin mem => \A u \in Started : pgdir[u] # pg
    BY <1>6
  <2> SUFFICES ASSUME NEW u \in Started \cup {t}, NEW w \in Started \cup {t},
                      u # w, pgdir'[u] = pgdir'[w]
               PROVE  IsThread(u)' \/ IsThread(w)'
    BY <1>3 DEF OneFamily
  <2>4. CASE u \in Started /\ w \in Started
    BY Zenon, <1>4, <1>5, <2>1, <2>4 DEF PgdirInv, OneFamily
  <2>5. CASE u = t \/ w = t
    BY Zenon, <1>1, <1>4, <1>5, <2>2, <2>3, <2>5
  <2> QED
    BY <2>4, <2>5
<1>9. PidsGrow'
  <2>1. pid[s] < pid[t]
    BY <1>0, SlotFacts DEF PgdirInv, PidsGrow
  <2>2. pid[initproc] < pid[t]
    BY <1>0, <2>1, ProcConstants DEF IInv, TypeOK, PgdirInv, PidsGrow
  <2>3. \A u \in Slot : kid'[u] # None => kid'[u] = kid[u]
    BY <1>2 DEF IInv, TypeOK
  <2> QED
    BY <1>2, <1>3, <1>4, <1>5, <2>1, <2>2, <2>3 DEF PgdirInv, PidsGrow
<1>10. ThreadsJoined'
  <2> SUFFICES ASSUME NEW u \in Slot
               PROVE  /\ call'[u] = "wait" \/ killed'[u] => ThreadsOf(u)' = {}
                      /\ killed'[u] => call'[u] # "thread_create"
    BY DEF ThreadsJoined
  <2>1. call'[u] = IF u = s THEN "user" ELSE call[u]
    BY <1>2 DEF IInv, TypeOK
  <2>2. CASE u = t
    <3>1. Children(t)' = {}
      <4>1. \A w \in Slot : parent[w] # t
        BY <1>0, <1>5 DEF IInv, ParentAlive
      <4> QED
        BY Zenon, <1>0, <1>4, <4>1 DEF Children
    <3>2. call[t] = "user"
      BY <1>0 DEF IInv, SleepersWait, Alive, Started
    <3> QED
      BY <2>1, <2>2, <3>1, <3>2 DEF ThreadsOf
  <2>3. CASE u # t
    <3>1. CASE t \notin ThreadsOf(u)'
      <4>1. ThreadsOf(u)' \subseteq ThreadsOf(u)
        BY Zenon, <1>4, <2>3, <3>1 DEF ThreadsOf, Children
      <4> QED
        BY <1>2, <2>1, <4>1 DEF PgdirInv, ThreadsJoined
    <3>2. CASE t \in ThreadsOf(u)'
      <4>1. u = s /\ pg = pgdir[s]
        BY <1>4, <2>3, <3>2 DEF ThreadsOf, Children
      <4>2. call[s] = "thread_create"
        BY <1>0, <1>1, <1>6, <4>1
      <4> QED
        BY <1>2, <2>1, <4>1, <4>2 DEF PgdirInv, ThreadsJoined
    <3> QED
      BY <3>1, <3>2
  <2> QED
    BY <2>2, <2>3
<1>11. (~Threads => NoSharing)'
  <2> SUFFICES ASSUME ~Threads PROVE NoSharing'
    OBVIOUS
  <2>1. NoSharing
    BY DEF PgdirInv
  <2>2. pg \notin mem
    BY <1>1, <2>1 DEF NoSharing
  <2>3. \A u \in Slot : call'[u] # "thread_create"
    BY <1>2, <2>1 DEF IInv, TypeOK, NoSharing
  <2>4. ASSUME NEW u \in Started \cup {t}, NEW w \in Started \cup {t},
               pgdir'[u] = pgdir'[w]
        PROVE  u = w
    <3>1. CASE u \in Started /\ w \in Started
      BY Zenon, <1>4, <1>5, <2>1, <2>4, <3>1 DEF NoSharing
    <3>2. CASE u = t \/ w = t
      BY Zenon, <1>4, <1>5, <1>6, <2>2, <2>4, <3>2
    <3> QED
      BY <3>1, <3>2
  <2> QED
    BY <1>3, <2>3, <2>4 DEF NoSharing
<1> QED
  BY <1>7, <1>8, <1>9, <1>10, <1>11 DEF PgdirInv

\* exec frees a page table nobody else runs on.
LEMMA ExecPgdir ==
  ASSUME IInv, PgdirInv, Joins \/ ~Threads, NEW s \in Slot, Exec(s)
  PROVE  PgdirInv'
<1> USE SlotFacts
<1>0. PICK pg \in Pgdir \ mem : /\ pgdir' = [pgdir EXCEPT ![s] = pg]
                                /\ mem' = (mem \cup {pg}) \ {pgdir[s]}
  BY Zenon DEF Exec
<1>1. /\ UNCHANGED <<state, pid, parent, killed, call, kid, nextpid>>
      /\ s \in Started /\ ~killed[s] /\ call[s] = "user"
  BY DEF Exec, Enters, In, Started
<1>2. Started' = Started /\ Started \subseteq Slot
  BY <1>1 DEF Started
<1>3. \A u \in Started \ {s} : pgdir[u] # pgdir[s]
  BY <1>1 DEF Exec, Alone, PgdirInv, NoSharing
<1>4. pgdir'[s] = pg /\ \A u \in Slot \ {s} : pgdir'[u] = pgdir[u]
  BY <1>0 DEF IInv, TypeOK
<1>5. mem = {pgdir[u] : u \in Started} /\ pg # pgdir[s]
  BY <1>1 DEF PgdirInv, PgdirExact
<1>6. \A u \in Started \ {initproc} : parent[u] \in Started
  BY DEF IInv, ParentAlive, Alive
<1>7. PgdirExact'
  BY <1>0, <1>1, <1>2, <1>3, <1>4, <1>5 DEF PgdirExact
<1>8. \A u \in Started \ {s} : pgdir'[u] # pg /\ (IsThread(u) => IsThread(u)')
  BY Zenon, <1>1, <1>2, <1>3, <1>4, <1>5, <1>6 DEF IsThread
<1>9. OneFamily'
  <2> SUFFICES ASSUME NEW u \in Started, NEW w \in Started, u # w, pgdir'[u] = pgdir'[w]
               PROVE  IsThread(u)' \/ IsThread(w)'
    BY <1>2 DEF OneFamily
  <2>1. u # s /\ w # s
    BY Zenon, <1>4, <1>8
  <2>2. IsThread(u) \/ IsThread(w)
    BY <1>2, <1>4, <2>1 DEF PgdirInv, OneFamily
  <2> QED
    BY Zenon, <1>8, <2>1, <2>2
<1>10. PidsGrow'
  BY <1>1, <1>2 DEF PgdirInv, PidsGrow
<1>11. ThreadsJoined'
  <2> SUFFICES ASSUME NEW u \in Slot, call[u] = "wait" \/ killed[u]
               PROVE  ThreadsOf(u)' = {}
    BY <1>1 DEF PgdirInv, ThreadsJoined
  <2>1. u # s
    BY <1>1
  <2>2. \A t \in Children(u) : t # s => pgdir'[t] = pgdir[t]
    BY <1>4 DEF Children
  <2>3. s \in Children(u) => pgdir[u] # pg
    <3>1. s \in Children(u) => u \in Started
      BY <1>1, <1>6 DEF Children, IInv, ParentAlive
    <3> QED
      BY Zenon, <1>4, <1>8, <2>1, <3>1
  <2>4. ThreadsOf(u) = {} /\ Children(u)' = Children(u) /\ pgdir'[u] = pgdir[u]
    BY <1>1, <1>4, <2>1 DEF PgdirInv, ThreadsJoined, Children
  <2> QED
    BY <1>4, <2>2, <2>3, <2>4 DEF ThreadsOf
<1>12. (~Threads => NoSharing)'
  BY <1>1, <1>2, <1>4, <1>8 DEF PgdirInv, NoSharing
<1> QED
  BY <1>7, <1>9, <1>10, <1>11, <1>12 DEF PgdirInv

\* exit passes to init no process that runs on init's page table.
LEMMA ExitPgdir ==
  ASSUME IInv, PgdirInv, Joins \/ ~Threads, NEW s \in Slot, Exit(s)
  PROVE  PgdirInv'
<1> USE SlotFacts
<1>1. /\ UNCHANGED <<pid, killed, pgdir, call, kid, nextpid, mem>>
      /\ \A t \in Slot : parent'[t] = IF parent[t] = s THEN initproc ELSE parent[t]
      /\ s # initproc
  BY DEF Exit, Reparented
<1>2. Started' = Started /\ s \in Started /\ Started \subseteq Slot
  BY Zenon DEF IInv, TypeOK, Exit, In, ExitWakes, Wakeup1, Started
<1>3. ThreadsOf(s) = {}
  <2>1. killed[s] => ThreadsOf(s) = {}
    BY DEF PgdirInv, ThreadsJoined
  <2> QED
    BY <2>1, NoThreads DEF Exit
<1>4. \A t \in Children(s) : t \in Started \ {initproc} /\ ~IsThread(t)
  BY <1>3 DEF IInv, ParentAlive, Children, ThreadsOf, IsThread
<1>5. \A t \in Started : IsThread(t) => IsThread(t)'
  BY <1>1, <1>2, <1>4 DEF IsThread, Children
<1>6. \A t \in Children(s) : pgdir[t] # pgdir[initproc]
  <2>1. initproc \in Started /\ ~IsThread(initproc)
    BY DEF IInv, Alive, IsThread
  <2> QED
    BY Zenon, <1>4, <2>1 DEF PgdirInv, OneFamily
<1>7. PgdirExact' /\ OneFamily'
  BY <1>1, <1>2, <1>5 DEF PgdirInv, PgdirExact, OneFamily
<1>8. PidsGrow'
  BY <1>1, <1>2 DEF PgdirInv, PidsGrow
<1>9. ThreadsJoined'
  <2>1. \A u \in Slot : ThreadsOf(u)' \subseteq ThreadsOf(u)
    BY Zenon, <1>1, <1>6 DEF ThreadsOf, Children
  <2> QED
    BY <1>1, <2>1 DEF PgdirInv, ThreadsJoined
<1>10. (~Threads => NoSharing)'
  BY <1>1, <1>2 DEF PgdirInv, NoSharing
<1> QED
  BY <1>7, <1>8, <1>9, <1>10 DEF PgdirInv

\* wait frees the page table of a process that was alone on it; thread_join
\* frees none, and its caller still runs on the thread's.
LEMMA ReapPgdir ==
  ASSUME IInv, PgdirInv, NEW s \in Slot, Reap(s)
  PROVE  PgdirInv'
<1> USE SlotFacts
<1>0. PICK t \in Awaited(s) : /\ state[t] = "ZOMBIE"
                              /\ mem' = Freed(s, t)
                              /\ state' = [state EXCEPT ![t] = "UNUSED"]
                              /\ pid' = [pid EXCEPT ![t] = 0]
                              /\ parent' = [parent EXCEPT ![t] = None]
                              /\ killed' = [killed EXCEPT ![t] = FALSE]
                              /\ pgdir' = [pgdir EXCEPT ![t] = NoPgdir]
  BY Zenon, FirstInSubset DEF Reap
<1>1. /\ kid' = kid /\ nextpid' = nextpid /\ call' = [call EXCEPT ![s] = "user"]
      /\ Waits(s)
  BY DEF Reap, Back
<1>2. t \in Children(s) /\ t \in Slot /\ parent[t] = s
  BY <1>0 DEF Awaited, ThreadsOf, Children
<1>3. t \in Started /\ t # initproc /\ s \in Started /\ s # t /\ Started \subseteq Slot
  BY <1>0, <1>2 DEF IInv, ParentAlive, Started, Alive
<1>4. Started' = Started \ {t}
  BY <1>0, <1>2 DEF IInv, TypeOK, Started
<1>5. Children(t) = {}
  <2>1. \A u \in Slot : parent[u] # t
    BY <1>0, <1>2 DEF IInv, ParentAlive, Alive
  <2> QED
    BY Zenon, <2>1 DEF Children
<1>6. \A u \in Slot \ {t} : /\ pgdir'[u] = pgdir[u] /\ parent'[u] = parent[u]
                            /\ pid'[u] = pid[u] /\ killed'[u] = killed[u]
                            /\ parent[u] # t
  BY <1>0, <1>2, <1>5 DEF IInv, TypeOK, Children
<1>7. /\ parent'[t] = None /\ pid'[t] = 0 /\ ~killed'[t]
  BY <1>0, <1>2 DEF IInv, TypeOK
<1>8. PgdirExact'
  <2>1. CASE call[s] = "wait"
    <3>1. ~IsThread(t)
      BY <1>2, <2>1 DEF IsThread, PgdirInv, ThreadsJoined, ThreadsOf
    <3>2. \A u \in Started \ {t} : pgdir[u] # pgdir[t]
      BY <1>3, <1>5, <3>1, LastOfFamily
    <3>3. mem' = mem \ {pgdir[t]}
      BY <1>0, <2>1 DEF Freed
    <3> QED
      BY <1>3, <1>4, <1>6, <3>2, <3>3 DEF PgdirInv, PgdirExact
  <2>2. CASE call[s] = "thread_join"
    <3>1. pgdir[t] = pgdir[s] /\ mem' = mem
      BY <1>0, <2>2 DEF Awaited, ThreadsOf, Freed
    <3> QED
      BY <1>3, <1>4, <1>6, <3>1 DEF PgdirInv, PgdirExact
  <2> QED
    BY <1>1, <2>1, <2>2 DEF Waits, In
<1>9. OneFamily'
  <2>1. \A u \in Started \ {t} : IsThread(u) => IsThread(u)'
    <3>1. \A u \in Started \ {initproc} : parent[u] \in Slot
      BY DEF IInv, ParentAlive, Alive, Started
    <3> QED
      BY Zenon, <1>3, <1>6, <3>1 DEF IsThread
  <2> QED
    BY <1>3, <1>4, <1>6, <2>1 DEF PgdirInv, OneFamily
<1>10. PidsGrow'
  <2>1. 0 < nextpid
    BY DEF IInv, TypeOK
  <2>2. \A u \in Slot : kid[u] # None => kid[u] \in Slot \ {t} /\ u # t
    BY <1>0, <1>2 DEF IInv, TypeOK, EmbryoOwned, Alive, Started
  <2>3. \A u \in Slot : kid[u] # None => pid'[u] < pid'[kid[u]]
    BY Zenon, <1>6, <2>2 DEF PgdirInv, PidsGrow
  <2>4. \A u \in Slot : pid'[u] < nextpid
    BY <1>6, <1>7, <2>1 DEF PgdirInv, PidsGrow
  <2>5. \A u \in Started \ {initproc, t} : parent[u] \in Slot \ {t}
    BY Zenon, <1>3, <1>6 DEF IInv, ParentAlive, Alive, Started
  <2>6. \A u \in Started \ {initproc, t} :
           /\ pid'[parent'[u]] < pid'[u] /\ pid'[initproc] < pid'[u]
    BY Zenon, <1>3, <1>6, <2>5 DEF PgdirInv, PidsGrow
  <2> QED
    BY Zenon, <1>1, <1>4, <2>3, <2>4, <2>6 DEF PidsGrow
<1>11. ThreadsJoined'
  <2> SUFFICES ASSUME NEW u \in Slot
               PROVE  /\ call'[u] = "wait" \/ killed'[u] => ThreadsOf(u)' = {}
                      /\ killed'[u] => call'[u] # "thread_create"
    BY DEF ThreadsJoined
  <2>1. call'[u] = IF u = s THEN "user" ELSE call[u]
    BY <1>1 DEF IInv, TypeOK
  <2>2. CASE u = t
    <3>1. call[t] = "user"
      BY <1>0, <1>2 DEF IInv, SleepersWait, Alive
    <3> QED
      BY <1>7, <2>1, <2>2, <3>1
  <2>3. CASE u # t
    <3>1. ThreadsOf(u)' \subseteq ThreadsOf(u)
      BY Zenon, <1>6, <1>7, <2>3 DEF ThreadsOf, Children
    <3> QED
      BY Zenon, <1>6, <2>1, <2>3, <3>1 DEF PgdirInv, ThreadsJoined
  <2> QED
    BY <2>2, <2>3
<1>12. (~Threads => NoSharing)'
  BY <1>1, <1>3, <1>4, <1>6 DEF IInv, TypeOK, PgdirInv, NoSharing
<1> QED
  BY <1>8, <1>9, <1>10, <1>11, <1>12 DEF PgdirInv

\* Every step of the system keeps page tables accounted for.
LEMMA NextPgdir ==
  ASSUME Joins \/ ~Threads
  PROVE  IInv /\ PgdirInv /\ [Next]_vars => \/ abandoned' = abandoned /\ PgdirInv'
                                            \/ \E n \in Kills : Kill(n)
<1> SUFFICES ASSUME IInv, PgdirInv, [Next]_vars, ~ \E n \in Kills : Kill(n)
             PROVE  abandoned' = abandoned /\ PgdirInv'
  OBVIOUS
<1>0. abandoned' = abandoned
  BY Zenon DEF Next, vars, Process, Run, Yield, Fork, ThreadCreate, Alloc, AllocFails, ForkDone, ThreadDone,
     Start, Exec, Exit, Wait, ThreadJoin, Reap, WaitGivesUp, WaitSleeps
<1>1. CASE UNCHANGED vars
  BY Zenon, <1>1, QuietPgdir DEF vars, Started
<1>2. ASSUME NEW s \in Slot, Run(s) \/ Yield(s) \/ WaitSleeps(s) PROVE PgdirInv'
  <2>1. /\ UNCHANGED <<parent, pgdir, pid, kid, nextpid, mem, killed, call>>
        /\ state[s] \in {"RUNNABLE", "RUNNING"}
        /\ \E st \in {"RUNNING", "RUNNABLE", "SLEEPING"} : state' = [state EXCEPT ![s] = st]
    BY Zenon, <1>2 DEF Run, Yield, WaitSleeps, NoZombie, Waits, In
  <2>2. Started' = Started
    BY <2>1 DEF IInv, TypeOK, Started
  <2> QED
    BY Zenon, <2>1, <2>2, QuietPgdir
<1>3. ASSUME NEW s \in Slot, Wait(s) \/ ThreadJoin(s) \/ WaitGivesUp(s) PROVE PgdirInv'
  <2>1. /\ UNCHANGED <<state, parent, pgdir, pid, kid, nextpid, mem, killed>>
        /\ \/ call' = [call EXCEPT ![s] = "wait"] /\ Joined(s)
           \/ \E c \in {"user", "thread_join"} : call' = [call EXCEPT ![s] = c]
    BY <1>3 DEF Wait, ThreadJoin, WaitGivesUp, Back
  <2>2. Started' = Started
    BY <2>1 DEF Started
  <2>3. \A u \in Slot : \/ call'[u] = call[u]
                        \/ call'[u] \in {"user", "thread_join"}
                        \/ call'[u] = "wait" /\ ThreadsOf(u) = {}
    BY <2>1, NoThreads DEF IInv, TypeOK
  <2> QED
    BY <2>1, <2>2, <2>3, QuietPgdir
<1>4. ASSUME NEW s \in Slot, Process(s) PROVE PgdirInv'
  <2>1. CASE Fork(s) \/ ThreadCreate(s)
    BY <2>1, AllocPgdir DEF Fork, ThreadCreate
  <2> QED
    BY <1>2, <1>3, <1>4, <2>1, AllocFailsPgdir, StartPgdir, ExecPgdir, ExitPgdir,
       ReapPgdir DEF Process
<1> QED
  BY <1>0, <1>1, <1>2, <1>4 DEF Next

\* abandoned is never taken back.
LEMMA StaysAbandoned == abandoned /\ [Next]_vars => abandoned'
BY Zenon DEF Next, vars, Process, Run, Yield, Fork, ThreadCreate, Alloc, AllocFails, ForkDone, ThreadDone,
   Start, Exec, Exit, Wait, ThreadJoin, Reap, WaitGivesUp, WaitSleeps, Kill

\* While programs join their threads before they exit, exec or wait, or use
\* none, no page table is freed under a process that runs on it, freed twice
\* or lost, in whatever order parents, children and threads exit, until kill
\* hits a process that has threads or is making one; without threads, whoever
\* is killed (wait and thread_join, proc.c:245, 617; exec.c:92; kill,
\* proc.c:498-519).
THEOREM ProcPageTables ==
  ASSUME Joins \/ ~Threads
  PROVE  /\ Spec => []PgdirAccounted
         /\ ~Threads => (Spec => []PgdirExact)
<1> DEFINE Kept == /\ abandoned \/ PgdirInv
                   /\ Threads \/ ~abandoned
<1>1. Init => Kept
  BY InitPgdir DEF Init
<1>2. IInv /\ Kept /\ [Next]_vars => Kept'
  BY NextPgdir, KillPgdir, StaysAbandoned
<1>3. Kept => PgdirAccounted
  BY DEF PgdirInv, PgdirAccounted
<1>4. ASSUME ~Threads PROVE Kept => PgdirExact
  BY <1>4 DEF PgdirInv
<1> HIDE DEF Kept
<1>5. Spec => []Kept
  BY <1>1, <1>2, ProcInvariant, PTL DEF Spec
<1>6. Spec => []PgdirAccounted
  BY <1>3, <1>5, PTL
<1>7. ASSUME ~Threads PROVE Spec => []PgdirExact
  <2>1. Kept => PgdirExact
    BY <1>4, <1>7
  <2> QED
    BY <1>5, <2>1, PTL
<1> QED
  BY <1>6, <1>7
=============================================================================
