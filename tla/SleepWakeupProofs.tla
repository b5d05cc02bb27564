------------------------- MODULE SleepWakeupProofs --------------------------
(***************************************************************************)
(* The theorems about sleep, wakeup and the spin locks under them: for any *)
(* number of CPUs and of processes, and any length of sleep, no process    *)
(* runs on two CPUs, the interrupt flags and ncli follow the locks, sched  *)
(* never panics and no wakeup is lost.                                     *)
(***************************************************************************)
EXTENDS SleepWakeupLocking, FiniteSetTheorems

-----------------------------------------------------------------------------
(* kill, swtch and the steps of the scheduler preserve the invariant.       *)

\* executing: the CPU is in no handler.
LEMMA OnCpu ==
  ASSUME IInv, NEW d \in Cpu, NEW q \in Proc, cpu[d].proc = q,
         pc[q] \notin KernelAt
  PROVE  Runs(d, q)
<1>1. cpu[d].h # "off" => At(d) \in KernelAt \cup {"sti", "push"}
  BY Zenon DEF IInv, CpuInv
<1>2. At(d) = pc[q] /\ pc[q] \in PC
  BY DEF IInv, TypeOK, At, NoProc, Proc
<1> QED
  BY <1>1, <1>2, Zenon DEF PC, Runs

\* While nobody holds ptable.lock, a sleeper is on no CPU, and nobody is
\* between the release of tickslock and sched (sleep()).
LEMMA SleeperOff ==
  ASSUME IInv, lock["ptable"] = Free, NEW q \in Proc
  PROVE  /\ state[q] = "SLEEPING" => \A d \in Cpu : cpu[d].proc # q
         /\ pc[q] # "sl_set"
<1>1. ASSUME NEW d \in Cpu, cpu[d].proc = q, pc[q] \in {"sl_swtch", "sl_set"} PROVE FALSE
  BY <1>1, OnCpu, WhereRunning DEF PtableAt, KernelAt
<1>2. ASSUME state[q] = "SLEEPING", NEW d \in Cpu, cpu[d].proc = q PROVE FALSE
  BY <1>1, <1>2, Zenon DEF IInv, ProcInv, StateAt
<1>3. ASSUME pc[q] = "sl_set" PROVE FALSE
  BY <1>1, <1>3, Zenon DEF IInv, ProcInv
<1> QED
  BY <1>2, <1>3, Zenon

\* kill marks any process, and wakes it if it sleeps.
LEMMA KillTakeIInv ==
  ASSUME IInv, NEW c \in Cpu, NEW p \in Proc, NEW q \in Proc, KillTake(c, p, q)
  PROVE  IInv'
<1>0. TypeOK /\ ProcInv(p)
  BY Zenon DEF IInv
<1>1. /\ Runs(c, p) /\ pc[p] = "k_spin" /\ Take(c, "ptable") /\ cpu' = cpu /\ pc' = [pc EXCEPT ![p] = "k_rel"]
      /\ killed' = [killed EXCEPT ![q] = TRUE]
      /\ state' = [state EXCEPT ![q] = IF @ = "SLEEPING" THEN "RUNNABLE" ELSE @]
      /\ UNCHANGED <<ret, intena, left>>
  BY Zenon DEF KillTake, Killed, Taken, Goto
<1>2. OwnLocks(c) /\ lock'["ptable"] = c /\ lock'["ticks"] = lock["ticks"] /\ lock["ptable"] = Free
  BY <1>0, <1>1, LockSteps, Zenon DEF Take
<1>3. Fits(c, p, cpu[c], "k_rel")
  BY <1>1, <1>2, WhereRunning, FitsSame DEF PtableAt, TicksAt, SpinAt, OnAt, SavedAt, Count
<1>4. state[p] = "RUNNING"
  BY <1>1, WhereRunning, Zenon DEF StateAt
<1>5. \A x \in Proc \ {p} : state'[x] = state[x] \/ Woken(x)
  BY <1>0, <1>1, <1>2, SleeperOff, Zenon DEF TypeOK, Woken
<1>6. state'[p] = "RUNNING" /\ state' \in [Proc -> {"SLEEPING", "RUNNABLE", "RUNNING", "ZOMBIE"}]
      /\ killed' \in [Proc -> BOOLEAN]
  BY <1>0, <1>1, <1>4, Zenon DEF TypeOK
<1>7. Moves(p, "k_rel")
  BY <1>0, <1>1, <1>5, <1>6, Zenon DEF TypeOK, ProcInv, Moves, StateAt, PC
<1> QED
  BY <1>1, <1>2, <1>3, <1>7, MoveIInv, Zenon

\* The same from elsewhere.
LEMMA KillElsewhereIInv ==
  ASSUME IInv, NEW q \in Proc, KillElsewhere(q)
  PROVE  IInv'
<1>1. /\ lock["ptable"] = Free /\ killed' = [killed EXCEPT ![q] = TRUE]
      /\ state' = [state EXCEPT ![q] = IF @ = "SLEEPING" THEN "RUNNABLE" ELSE @]
      /\ UNCHANGED <<cpu, lock, pc, ret, intena, left>>
  BY Zenon DEF KillElsewhere, Killed
<1>2. TypeOK'
  BY <1>1, Zenon DEF IInv, TypeOK
<1>3. \A x \in Proc : state'[x] = state[x] \/ Woken(x)
  BY <1>1, SleeperOff, Zenon DEF IInv, TypeOK, Woken
<1>4. OneCpuPerProcess' /\ \A c \in Cpu : CpuInv(c)'
  BY <1>1 DEF IInv, OneCpuPerProcess, CpuInv, HasPtable, HasTicks, Spins, At
<1>5. ASSUME NEW x \in Proc PROVE ProcInv(x)' /\ SleepInv(x)'
  <2>1. ProcInv(x) /\ SleepInv(x)
    BY Zenon DEF IInv
  <2> QED
    BY <1>1, <1>3, <2>1 DEF ProcInv, SleepInv, Woken
<1> QED
  BY <1>2, <1>4, <1>5, Zenon DEF IInv

\* Where swtch is called from, and where the process will be resumed.
LEMMA BackAtIs ==
  ASSUME NEW l \in DOMAIN BackAt
  PROVE  \/ l = "sl_swtch" /\ BackAt[l] = "sl_back" /\ StateAt(l) = "SLEEPING"
         \/ l = "y_swtch" /\ BackAt[l] = "y_back" /\ StateAt(l) = "RUNNABLE"
         \/ l = "e_swtch" /\ BackAt[l] = "gone" /\ StateAt(l) = "ZOMBIE"
BY DEF BackAt, StateAt

\* swtch to the scheduler: the CPU keeps ptable.lock and has no process, the
\* process has no CPU and remembers its intena.
LEMMA SwtchIInv ==
  ASSUME IInv, NEW c \in Cpu, NEW p \in Proc, Swtch(c, p)
  PROVE  IInv'
<1> DEFINE r == [cpu[c] EXCEPT !.proc = NoProc, !.idx = @ + 1]
           to == BackAt[pc[p]]
<1>0. /\ TypeOK /\ ProcInv(p) /\ SleepInv(p) /\ Runs(c, p) /\ pc[p] \in DOMAIN BackAt
      /\ intena' = [intena EXCEPT ![p] = cpu[c].intena] /\ cpu' = [cpu EXCEPT ![c] = r]
      /\ pc' = [pc EXCEPT ![p] = to] /\ UNCHANGED <<lock, state, killed, ret, left>>
  BY Zenon DEF IInv, TypeOK, Swtch, Goto
<1>1. /\ cpu[c] \in CpuRecord /\ cpu[c].ncli = 1 /\ ~cpu[c].if /\ cpu[c].h = "off" /\ cpu[c].s = "scan"
      /\ cpu[c].idx = p /\ cpu[c].proc = p /\ p # NoProc
      /\ lock["ptable"] = c /\ lock["ticks"] # c
  BY <1>0, WhereRunning, BackAtIs DEF PtableAt, TicksAt, SpinAt, Count
<1>2. /\ r.ncli = 1 /\ r.h = "off" /\ r.s = "scan" /\ r.idx = p + 1 /\ r.proc = NoProc /\ ~r.if
  BY <1>1, Zenon DEF CpuRecord
<1>3. r \in CpuRecord
  <2>1. p + 1 \in 1 .. NPROC + 1
    BY SleepConstants DEF Proc
  <2>2. r = [cpu[c] EXCEPT !.proc = NoProc, !.idx = p + 1]
    BY <1>1, Zenon
  <2> QED
    BY <1>1, <2>1, <2>2, CpuPlaces, ZenonT(30)
<1>4. to \in PC /\ cpu[c].intena \in BOOLEAN
  BY <1>0, <1>1, BackAtIs, CpuFields, Zenon DEF PC
<1>5. pc[p] = "sl_swtch" => cpu[c].intena
  BY <1>0, WhereRunning, Zenon DEF SavedAt
<1> HIDE DEF r, to
<1>6. TypeOK'
  BY <1>0, <1>3, <1>4, Zenon DEF TypeOK
<1>7. cpu'[c] = r /\ pc'[p] = to /\ \A d \in Cpu \ {c} : cpu'[d] = cpu[d]
  BY <1>0, Zenon DEF TypeOK
<1>8. OneCpuPerProcess'
  BY <1>2, <1>7 DEF IInv, OneCpuPerProcess
<1>9. CpuInv(c)'
  <2>1. At(c)' = "scan"
    BY <1>2, <1>7, Zenon DEF At
  <2> QED
    BY <1>0, <1>1, <1>2, <1>7, <2>1 DEF CpuInv, HasPtable, HasTicks, Spins, Count, PtableAt, TicksAt, SpinAt, OnAt, SavedAt
<1>10. ASSUME NEW d \in Cpu, d # c PROVE CpuInv(d)'
  BY <1>0, <1>1, <1>3, <1>10, OthersKept, Zenon DEF TypeOK
<1>11. ProcInv(p)' /\ SleepInv(p)'
  <2>1. \A d \in Cpu : cpu'[d].proc # p
    BY <1>1, <1>2, <1>7 DEF IInv, OneCpuPerProcess
  <2>2. state[p] = StateAt(pc[p])
    BY <1>0, WhereRunning, Zenon
  <2>3. intena'[p] = cpu[c].intena
    BY <1>0, Zenon DEF TypeOK
  <2>4. ProcInv(p)'
    BY <1>0, <1>5, <1>7, <2>1, <2>2, <2>3, BackAtIs, Zenon DEF ProcInv, to
  <2>5. cpu'[Cpu0].h = cpu[Cpu0].h
    BY <1>1, <1>2, <1>7, SleepConstants, Zenon
  <2>6. SleepInv(p)'
    BY <1>0, <1>7, <2>5, BackAtIs, Zenon DEF SleepInv, to
  <2> QED
    BY <2>4, <2>6, Zenon
<1>12. ASSUME NEW q \in Proc, q # p PROVE ProcInv(q)' /\ SleepInv(q)'
  <2>1. ProcInv(q) /\ SleepInv(q)
    BY Zenon DEF IInv
  <2>2. \A d \in Cpu : cpu'[d].proc = q <=> cpu[d].proc = q
    BY <1>1, <1>2, <1>7, <1>12 DEF NoProc, Proc
  <2>3. pc'[q] = pc[q] /\ intena'[q] = intena[q]
    BY <1>0, <1>12, Zenon DEF TypeOK
  <2>4. cpu'[Cpu0].h = cpu[Cpu0].h
    BY <1>1, <1>2, <1>7, SleepConstants, Zenon
  <2> QED
    BY <1>0, <2>1, <2>2, <2>3, <2>4, Zenon DEF ProcInv, SleepInv
<1> QED
  BY <1>6, <1>8, <1>9, <1>10, <1>11, <1>12, Zenon DEF IInv

-----------------------------------------------------------------------------
(* The scheduler and the timer interrupt.                                   *)

\* A step of CPU c that moves no process: it may count down and wake sleepers.
LEMMA CpuStep ==
  ASSUME IInv, NEW c \in Cpu, NEW r \in CpuRecord, cpu' = [cpu EXCEPT ![c] = r], r.proc = cpu[c].proc,
         OwnLocks(c), UNCHANGED <<killed, pc, ret, intena>>,
         state' \in [Proc -> {"SLEEPING", "RUNNABLE", "RUNNING", "ZOMBIE"}], left' \in [Proc -> 0 .. MaxSleep],
         \A q \in Proc : state'[q] = state[q] \/ Woken(q),
         \A q \in Proc : SleepInv(q)',
         CpuInv(c)'
  PROVE  IInv'
<1>1. TypeOK'
  BY Zenon DEF IInv, TypeOK, OwnLocks
<1>2. \A d \in Cpu : cpu'[d].proc = cpu[d].proc
  BY Zenon DEF IInv, TypeOK
<1>3. OneCpuPerProcess'
  BY <1>2 DEF IInv, OneCpuPerProcess
<1>4. ASSUME NEW d \in Cpu PROVE CpuInv(d)'
  <2>1. CASE d = c
    BY <2>1, Zenon
  <2>2. CASE d # c
    BY <2>2, OthersKept, Zenon DEF OwnLocks
  <2> QED
    BY <2>1, <2>2, Zenon
<1>5. ASSUME NEW q \in Proc PROVE ProcInv(q)'
  <2>1. ProcInv(q)
    BY Zenon DEF IInv
  <2> QED
    BY <1>2, <2>1 DEF ProcInv, Woken
<1> QED
  BY <1>1, <1>3, <1>4, <1>5, Zenon DEF IInv

\* The same, when it does not even that: most steps of the scheduler and of
\* the handler.
LEMMA QuietStep ==
  ASSUME IInv, NEW c \in Cpu, NEW r \in CpuRecord, cpu' = [cpu EXCEPT ![c] = r], r.proc = cpu[c].proc,
         cpu[c].h # "wspin", OwnLocks(c), UNCHANGED <<state, killed, pc, ret, intena, left>>, CpuInv(c)'
  PROVE  IInv'
<1>1. cpu[Cpu0].h = "wspin" => cpu'[Cpu0].h = "wspin"
  BY SleepConstants, Zenon DEF IInv, TypeOK
<1>2. ASSUME NEW q \in Proc PROVE SleepInv(q)'
  <2>1. SleepInv(q)
    BY Zenon DEF IInv
  <2> QED
    BY <1>1, <2>1, Zenon DEF SleepInv
<1> QED
  BY <1>2, CpuStep, Zenon DEF IInv, TypeOK

\* What the invariant says of a CPU in its scheduler.
LEMMA WhereIdle ==
  ASSUME IInv, NEW c \in Cpu, Idle(c)
  PROVE  /\ cpu[c] \in CpuRecord /\ cpu[c].proc = NoProc /\ cpu[c].h = "off"
         /\ lock["ptable"] = c <=> cpu[c].s = "scan"
         /\ lock["ticks"] # c
         /\ cpu[c].ncli = IF cpu[c].s \in {"scan", "spin"} THEN 1 ELSE 0
         /\ cpu[c].ncli > 0 => ~cpu[c].if
<1>1. cpu[c] \in CpuRecord /\ cpu[c].proc = NoProc /\ cpu[c].h = "off" /\ CpuInv(c)
  BY Zenon DEF IInv, TypeOK, Idle
<1>2. cpu[c].s \in {"sti", "push", "spin", "scan"}
  BY <1>1, CpuFields, Zenon
<1>3. At(c) = cpu[c].s
  BY <1>1, Zenon DEF At
<1> QED
  BY <1>1, <1>2, <1>3 DEF CpuInv, HasPtable, HasTicks, Spins, Count, PtableAt, TicksAt, SpinAt

\* And what it asks of such a CPU after a step.
LEMMA RightIdle ==
  ASSUME NEW c \in Cpu, NEW r \in CpuRecord, cpu'[c] = r, r.proc = NoProc, r.h = "off",
         lock'["ptable"] = c <=> r.s = "scan",
         lock'["ticks"] # c,
         r.ncli = IF r.s \in {"scan", "spin"} THEN 1 ELSE 0,
         r.ncli > 0 => ~r.if
  PROVE  CpuInv(c)'
<1>1. r.s \in {"sti", "push", "spin", "scan"}
  BY CpuFields, Zenon
<1>2. At(c)' = r.s
  BY Zenon DEF At
<1> QED
  BY <1>1, <1>2 DEF CpuInv, HasPtable, HasTicks, Spins, Count, PtableAt, TicksAt, SpinAt, OnAt, SavedAt

\* What the invariant says of a CPU in its interrupt handler.
LEMMA WhereHandling ==
  ASSUME IInv, NEW c \in Cpu, cpu[c].h # "off"
  PROVE  /\ cpu[c] \in CpuRecord
         /\ lock["ptable"] = c <=> cpu[c].h = "wrel"
         /\ lock["ticks"] = c <=> cpu[c].h \in {"tick", "wspin", "wrel", "rel"}
         /\ cpu[c].ncli = Count(cpu[c].h = "wrel") + Count(cpu[c].h \in {"tick", "wspin", "wrel", "rel"})
                            + Count(cpu[c].h \in {"spin", "wspin"})
         /\ ~cpu[c].if
         /\ At(c) \in KernelAt \cup {"sti", "push"}
         /\ cpu[c].h # "eoi" => c = Cpu0
         /\ cpu[c].h \notin {"push", "eoi"} => ~cpu[c].intena
         /\ cpu[c].proc # NoProc => cpu[c].s = "scan" /\ cpu[c].idx = cpu[c].proc
<1>1. cpu[c] \in CpuRecord /\ CpuInv(c)
  BY Zenon DEF IInv, TypeOK
<1> QED
  BY <1>1 DEF CpuInv, HasPtable, HasTicks, Spins

\* And what it asks of such a CPU after a step.
LEMMA RightHandling ==
  ASSUME NEW c \in Cpu, NEW r \in CpuRecord, cpu'[c] = r, r.h # "off",
         r.proc = cpu[c].proc, r.s = cpu[c].s, r.idx = cpu[c].idx, pc' = pc,
         lock'["ptable"] = c <=> r.h = "wrel",
         lock'["ticks"] = c <=> r.h \in {"tick", "wspin", "wrel", "rel"},
         r.ncli = Count(r.h = "wrel") + Count(r.h \in {"tick", "wspin", "wrel", "rel"})
                    + Count(r.h \in {"spin", "wspin"}),
         ~r.if,
         At(c) \in KernelAt \cup {"sti", "push"},
         r.h # "eoi" => c = Cpu0,
         r.h \notin {"push", "eoi"} => ~r.intena,
         r.proc # NoProc => r.s = "scan" /\ r.idx = r.proc
  PROVE  CpuInv(c)'
<1>1. At(c)' = At(c)
  BY Zenon DEF At
<1> QED
  BY <1>1 DEF CpuInv, HasPtable, HasTicks, Spins

\* The scheduler turns interrupts on, and acquires ptable.lock.
LEMMA SchedTakeIInv ==
  ASSUME IInv, NEW c \in Cpu, SchedSti(c) \/ SchedPush(c) \/ SchedTake(c)
  PROVE  IInv'
<1>0. TypeOK /\ Idle(c)
  BY Zenon DEF IInv, SchedSti, SchedPush, SchedTake
<1>1. cpu[c] \in CpuRecord /\ cpu[c].proc = NoProc /\ cpu[c].h = "off"
  BY <1>0, WhereIdle, Zenon
<1>2. CASE SchedSti(c)
  <2> DEFINE r == [cpu[c] EXCEPT !.if = TRUE, !.s = "push"]
  <2>1. cpu' = [cpu EXCEPT ![c] = r] /\ cpu[c].s = "sti" /\ UNCHANGED <<lock, state, killed, pc, ret, intena, left>>
    BY <1>0, <1>2, Zenon DEF SchedSti, TypeOK
  <2>2. r \in CpuRecord
    BY <1>1, CpuPlaces, CpuFields, SleepConstants, ZenonT(30) DEF Proc
  <2>3. r.proc = NoProc /\ r.h = "off" /\ r.s = "push" /\ r.ncli = cpu[c].ncli
    BY <1>1, Zenon DEF CpuRecord
  <2> HIDE DEF r
  <2>4. CpuInv(c)'
    BY <1>0, <1>1, <2>1, <2>2, <2>3, WhereIdle, RightIdle DEF TypeOK
  <2> QED
    BY <1>0, <1>1, <2>1, <2>2, <2>3, <2>4, LockSteps, QuietStep, Zenon
<1>3. CASE SchedPush(c)
  <2> DEFINE q == Pushcli(cpu[c])
             r == [q EXCEPT !.s = "spin"]
  <2>1. cpu' = [cpu EXCEPT ![c] = r] /\ cpu[c].s = "push" /\ UNCHANGED <<lock, state, killed, pc, ret, intena, left>>
    BY <1>3, Zenon DEF SchedPush
  <2>2. cpu[c].ncli = 0 /\ cpu[c].ncli < 2
    BY <1>0, <2>1, WhereIdle
  <2>3. q \in CpuRecord /\ q.proc = cpu[c].proc /\ q.h = cpu[c].h /\ q.ncli = cpu[c].ncli + 1 /\ ~q.if
    BY <1>1, <2>2, PushcliDoes, Zenon
  <2> HIDE DEF q
  <2>4. r \in CpuRecord
    BY <2>3, CpuPlaces, CpuFields, SleepConstants, Zenon DEF Proc
  <2>5. r.proc = NoProc /\ r.h = "off" /\ r.s = "spin" /\ r.ncli = 1 /\ ~r.if
    BY <1>1, <2>2, <2>3 DEF CpuRecord
  <2> HIDE DEF r
  <2>6. CpuInv(c)'
    BY <1>0, <1>1, <2>1, <2>4, <2>5, WhereIdle, RightIdle DEF TypeOK
  <2> QED
    BY <1>0, <1>1, <2>1, <2>4, <2>5, <2>6, LockSteps, QuietStep, Zenon
<1>4. CASE SchedTake(c)
  <2> DEFINE r == [cpu[c] EXCEPT !.s = "scan", !.idx = 1]
  <2>0. 1 \in 1 .. NPROC + 1
    BY SleepConstants
  <2>1. /\ cpu' = [cpu EXCEPT ![c] = r] /\ cpu[c].s = "spin" /\ Take(c, "ptable")
        /\ UNCHANGED <<state, killed, pc, ret, intena, left>>
    BY <1>0, <1>4, Zenon DEF SchedTake, TypeOK
  <2>2. r \in CpuRecord
    BY <1>1, <2>0, CpuPlaces, CpuFields, ZenonT(30)
  <2>3. r.proc = NoProc /\ r.h = "off" /\ r.s = "scan" /\ r.ncli = cpu[c].ncli /\ r.if = cpu[c].if
    BY <1>1, Zenon DEF CpuRecord
  <2> HIDE DEF r
  <2>4. OwnLocks(c) /\ lock'["ptable"] = c /\ lock'["ticks"] = lock["ticks"]
    BY <1>0, <2>1, LockSteps, Zenon
  <2>5. r.ncli = 1 /\ ~r.if /\ lock'["ticks"] # c
    BY <1>0, <2>1, <2>3, <2>4, WhereIdle
  <2>6. CpuInv(c)'
    BY <1>0, <2>1, <2>2, <2>3, <2>4, <2>5, RightIdle, Zenon DEF TypeOK
  <2> QED
    BY <1>0, <1>1, <2>1, <2>2, <2>3, <2>4, <2>6, QuietStep, Zenon
<1> QED
  BY <1>2, <1>3, <1>4, Zenon

\* A process that the scheduler finds RUNNABLE is on no CPU: the one CPU that
\* could still be in its sched would hold ptable.lock.
LEMMA RunnableOff ==
  ASSUME IInv, NEW c \in Cpu, Idle(c), cpu[c].s = "scan", NEW p \in Proc, state[p] = "RUNNABLE"
  PROVE  /\ \A d \in Cpu : cpu[d].proc # p
         /\ pc[p] \in {"f_ret", "y_back", "sl_back"}
<1>1. ASSUME NEW d \in Cpu, cpu[d].proc = p PROVE FALSE
  <2>1. pc[p] = "y_swtch"
    BY <1>1, Zenon DEF IInv, ProcInv, StateAt
  <2>2. Runs(d, p)
    BY <1>1, <2>1, OnCpu, Zenon DEF KernelAt
  <2>3. lock["ptable"] = d
    BY <2>1, <2>2, WhereRunning DEF PtableAt
  <2>4. lock["ptable"] = c /\ cpu[c].proc = NoProc
    BY WhereIdle, Zenon
  <2> QED
    BY <1>1, <2>3, <2>4 DEF NoProc, Proc
<1>2. ProcInv(p)
  BY Zenon DEF IInv
<1> QED
  BY <1>1, <1>2, Zenon DEF ProcInv

\* The scan switches to a RUNNABLE process, goes on, or ends.
LEMMA SchedScanIInv ==
  ASSUME IInv, NEW c \in Cpu, SchedScan(c)
  PROVE  IInv'
<1>0. TypeOK /\ Idle(c) /\ cpu[c].s = "scan" /\ UNCHANGED <<killed, pc, ret, intena, left>>
  BY Zenon DEF IInv, SchedScan
<1>1. /\ cpu[c] \in CpuRecord /\ cpu[c].proc = NoProc /\ cpu[c].h = "off" /\ lock["ptable"] = c /\ lock["ticks"] # c
      /\ cpu[c].ncli = 1 /\ ~cpu[c].if /\ cpu[c].idx \in 1 .. NPROC + 1
  BY <1>0, WhereIdle, CpuFields
<1>p. PICK p \in 1 .. NPROC + 1 : cpu[c].idx = p
  BY <1>1, Zenon
<1>2. CASE p \in Proc /\ state[p] = "RUNNABLE"
  <2> DEFINE r == [cpu[c] EXCEPT !.proc = p]
  <2>1. cpu' = [cpu EXCEPT ![c] = r] /\ state' = [state EXCEPT ![p] = "RUNNING"] /\ lock' = lock
    BY <1>0, <1>p, <1>2, Zenon DEF SchedScan, TypeOK
  <2>2. r \in CpuRecord
    BY <1>1, <1>2, CpuPlaces, CpuFields, Zenon
  <2>3. r.proc = p /\ r.h = "off" /\ r.s = "scan" /\ r.idx = p /\ r.ncli = 1 /\ ~r.if
    BY <1>0, <1>1, <1>p, Zenon DEF CpuRecord
  <2>4. (\A d \in Cpu : cpu[d].proc # p) /\ pc[p] \in {"f_ret", "y_back", "sl_back"}
    BY <1>0, <1>2, RunnableOff, Zenon
  <2>5. p \in Proc /\ p # NoProc
    BY <1>2 DEF Proc, NoProc
  <2> HIDE DEF r
  <2>6. TypeOK'
    BY <1>0, <2>1, <2>2, Zenon DEF TypeOK
  <2>7. cpu'[c] = r /\ (\A d \in Cpu \ {c} : cpu'[d] = cpu[d]) /\ state'[p] = "RUNNING"
        /\ \A q \in Proc \ {p} : state'[q] = state[q]
    BY <1>0, <2>1, <2>5, Zenon DEF TypeOK
  <2>8. OneCpuPerProcess'
    BY <2>3, <2>4, <2>7 DEF IInv, OneCpuPerProcess
  <2>9. CpuInv(c)'
    <3>1. /\ pc[p] \in PtableAt /\ pc[p] \notin TicksAt /\ pc[p] \notin SpinAt /\ pc[p] \notin OnAt
          /\ pc[p] \notin SavedAt /\ pc[p] # "y_push"
      BY <2>4, Zenon DEF PtableAt, TicksAt, SpinAt, OnAt, SavedAt
    <3>2. pc'[p] = pc[p] /\ lock'["ptable"] = c /\ lock'["ticks"] # c
      BY <1>0, <1>1, <2>1, Zenon
    <3> QED
      BY <2>3, <2>5, <2>7, <3>1, <3>2, RightThere DEF Count
  <2>10. ASSUME NEW d \in Cpu, d # c PROVE CpuInv(d)'
    BY <1>0, <2>1, <2>2, <2>10, OthersKept, Zenon
  <2>11. cpu'[Cpu0].h = cpu[Cpu0].h
    BY <1>1, <2>3, <2>7, SleepConstants, Zenon
  <2>12. ProcInv(p)' /\ SleepInv(p)'
    <3>1. ProcInv(p) /\ SleepInv(p)
      BY <2>5, Zenon DEF IInv
    <3>2. StateAt(pc[p]) = "RUNNING"
      BY <2>4, Zenon DEF StateAt
    <3> QED
      BY <1>0, <2>3, <2>4, <2>7, <2>11, <3>1, <3>2, Zenon DEF ProcInv, SleepInv
  <2>13. ASSUME NEW q \in Proc, q # p PROVE ProcInv(q)' /\ SleepInv(q)'
    <3>1. ProcInv(q) /\ SleepInv(q)
      BY Zenon DEF IInv
    <3>2. \A d \in Cpu : cpu'[d].proc = q <=> cpu[d].proc = q
      BY <1>1, <2>3, <2>7, <2>13 DEF NoProc, Proc
    <3> QED
      BY <1>0, <2>7, <2>11, <2>13, <3>1, <3>2, Zenon DEF ProcInv, SleepInv
  <2> QED
    BY <2>6, <2>8, <2>9, <2>10, <2>12, <2>13, Zenon DEF IInv
<1>3. CASE p \in Proc /\ state[p] # "RUNNABLE"
  <2> DEFINE r == [cpu[c] EXCEPT !.idx = p + 1]
  <2>1. cpu' = [cpu EXCEPT ![c] = r] /\ UNCHANGED <<lock, state>>
    BY <1>0, <1>p, <1>3, Zenon DEF SchedScan, TypeOK
  <2>2. p + 1 \in 1 .. NPROC + 1
    BY <1>3, SleepConstants DEF Proc
  <2>3. r.proc = NoProc /\ r.h = "off" /\ r.s = "scan" /\ r.ncli = 1 /\ ~r.if
    BY <1>0, <1>1, <1>p, Zenon DEF CpuRecord
  <2>4. r \in CpuRecord
    BY <1>1, <2>2, CpuPlaces, CpuFields, ZenonT(30)
  <2> HIDE DEF r
  <2>5. CpuInv(c)'
    BY <1>0, <1>1, <2>1, <2>3, <2>4, RightIdle, Zenon DEF TypeOK
  <2> QED
    BY <1>0, <1>1, <2>1, <2>3, <2>4, <2>5, LockSteps, QuietStep, Zenon
<1>4. CASE p \notin Proc
  <2> DEFINE q == Popcli(cpu[c])
             r == [q EXCEPT !.s = "sti"]
  <2>1. cpu' = [cpu EXCEPT ![c] = r] /\ Drop("ptable") /\ state' = state
    BY <1>p, <1>4, Zenon DEF SchedScan
  <2>2. cpu[c].ncli > 0
    BY <1>1
  <2>3. q \in CpuRecord /\ q.proc = cpu[c].proc /\ q.h = cpu[c].h /\ q.ncli = cpu[c].ncli - 1
    BY <1>1, <2>2, PopcliDoes, Zenon
  <2> HIDE DEF q
  <2>4. r \in CpuRecord
    BY <2>3, CpuPlaces, CpuFields, Zenon
  <2>5. r.proc = NoProc /\ r.h = "off" /\ r.s = "sti" /\ r.ncli = 0
    BY <1>1, <2>3 DEF CpuRecord
  <2> HIDE DEF r
  <2>6. OwnLocks(c) /\ lock'["ptable"] # c /\ lock'["ticks"] = lock["ticks"]
    BY <1>0, <1>1, <2>1, LockSteps
  <2>7. CpuInv(c)'
    BY <1>0, <1>1, <2>1, <2>4, <2>5, <2>6, RightIdle DEF TypeOK
  <2> QED
    BY <1>0, <1>1, <2>1, <2>4, <2>5, <2>6, <2>7, QuietStep, Zenon
<1> QED
  BY <1>2, <1>3, <1>4, Zenon

-----------------------------------------------------------------------------
(* The timer interrupt.                                                     *)

\* The timer interrupts a CPU that has interrupts on, hence no lock.
LEMMA TimerIInv ==
  ASSUME IInv, NEW c \in Cpu, Timer(c)
  PROVE  IInv'
<1> DEFINE r == [cpu[c] EXCEPT !.if = FALSE, !.h = IF c = Cpu0 THEN "push" ELSE "eoi"]
<1>0. /\ TypeOK /\ CpuInv(c) /\ cpu[c].h = "off" /\ cpu[c].if /\ cpu[c] \in CpuRecord
      /\ cpu' = [cpu EXCEPT ![c] = r] /\ UNCHANGED <<lock, state, killed, pc, ret, intena, left>>
  BY Zenon DEF IInv, TypeOK, Timer
<1>1. /\ r.h = (IF c = Cpu0 THEN "push" ELSE "eoi") /\ ~r.if /\ r.proc = cpu[c].proc /\ r.s = cpu[c].s
      /\ r.idx = cpu[c].idx /\ r.ncli = cpu[c].ncli
  BY <1>0, Zenon DEF CpuRecord
<1>2. r \in CpuRecord
  BY <1>0, CpuPlaces, CpuFields, ZenonT(30)
<1> HIDE DEF r
<1>3. cpu[c].ncli = 0
  BY <1>0, CpuFields DEF CpuInv
<1>4. At(c) \notin PtableAt /\ At(c) \notin TicksAt /\ At(c) \notin SpinAt /\ At(c) # "y_push" /\ lock["ptable"] # c /\ lock["ticks"] # c
  BY <1>0, <1>3 DEF CpuInv, HasPtable, HasTicks, Spins, Count
<1>5. At(c) \in KernelAt \cup {"sti", "push"}
  <2>1. CASE cpu[c].proc = NoProc
    <3>1. At(c) \in {"sti", "push", "spin", "scan"}
      BY <1>0, <2>1, CpuFields, Zenon DEF At
    <3> QED
      BY <1>4, <3>1, Zenon DEF PtableAt, SpinAt
  <2>2. CASE cpu[c].proc # NoProc
    <3>1. PICK p \in Proc : cpu[c].proc = p
      BY <1>0, <2>2, CpuFields, Zenon
    <3>2. At(c) = pc[p] /\ pc[p] \in PC /\ pc[p] # "gone"
      BY <1>0, <2>2, <3>1 DEF At, TypeOK, IInv, ProcInv, StateAt
    <3> QED
      BY <1>4, <3>2, Zenon DEF PC, PtableAt, TicksAt, SpinAt, KernelAt
  <2> QED
    BY <2>1, <2>2, Zenon
<1>6. r.proc # NoProc => r.s = "scan" /\ r.idx = r.proc
  BY <1>0, <1>1, Zenon DEF CpuInv
<1>7. CpuInv(c)'
  <2>1. cpu'[c] = r
    BY <1>0, Zenon DEF TypeOK
  <2>2. /\ r.h \in {"push", "eoi"} /\ (r.h # "eoi" => c = Cpu0)
    BY <1>1, Zenon
  <2> QED
    BY <1>0, <1>1, <1>2, <1>3, <1>4, <1>5, <1>6, <2>1, <2>2, RightHandling DEF Count
<1> QED
  BY <1>0, <1>1, <1>2, <1>7, LockSteps, QuietStep, Zenon

\* The handler acquires tickslock.
LEMMA IntrTakeIInv ==
  ASSUME IInv, NEW c \in Cpu, IntrPush(c) \/ IntrTake(c)
  PROVE  IInv'
<1>0. TypeOK /\ cpu[c].h \in {"push", "spin"} /\ UNCHANGED <<state, killed, pc, ret, intena, left>>
  BY Zenon DEF IInv, IntrPush, IntrTake
<1>1. /\ cpu[c] \in CpuRecord /\ ~cpu[c].if /\ At(c) \in KernelAt \cup {"sti", "push"} /\ c = Cpu0
      /\ (cpu[c].proc # NoProc => cpu[c].s = "scan" /\ cpu[c].idx = cpu[c].proc)
      /\ (cpu[c].h = "spin" => ~cpu[c].intena)
      /\ lock["ptable"] # c /\ lock["ticks"] # c /\ cpu[c].ncli = Count(cpu[c].h = "spin")
  BY <1>0, WhereHandling DEF Count
<1>2. CASE IntrPush(c)
  <2> DEFINE q == Pushcli(cpu[c])
             r == [q EXCEPT !.h = "spin"]
  <2>1. cpu' = [cpu EXCEPT ![c] = r] /\ lock' = lock /\ cpu[c].ncli < 2 /\ cpu[c].ncli = 0
    BY <1>1, <1>2 DEF IntrPush, Count
  <2>2. /\ q \in CpuRecord /\ q.proc = cpu[c].proc /\ q.ncli = cpu[c].ncli + 1 /\ ~q.if /\ q.s = cpu[c].s
        /\ q.idx = cpu[c].idx
    BY <1>1, <2>1, PushcliDoes, Zenon
  <2>a. q.intena = cpu[c].if
    BY Zenon, <1>1, <2>1, PushcliDoes
  <2> HIDE DEF q
  <2>3. r \in CpuRecord
    BY <2>2, CpuPlaces, CpuFields, Zenon
  <2>4. r.proc = cpu[c].proc /\ r.h = "spin" /\ r.s = cpu[c].s /\ r.idx = cpu[c].idx /\ r.ncli = 1 /\ ~r.if
    BY <2>1, <2>2 DEF CpuRecord
  <2>b. r.intena = q.intena
    BY <2>2, Zenon DEF CpuRecord
  <2>c. ~r.intena
    BY Zenon, <1>1, <2>a, <2>b
  <2> HIDE DEF r
  <2>5. CpuInv(c)'
    BY <1>0, <1>1, <2>1, <2>3, <2>4, <2>c, RightHandling DEF TypeOK, Count
  <2> QED
    BY <1>0, <2>1, <2>3, <2>4, <2>5, LockSteps, QuietStep, Zenon
<1>3. CASE IntrTake(c)
  <2> DEFINE r == [cpu[c] EXCEPT !.h = "tick"]
  <2>1. cpu' = [cpu EXCEPT ![c] = r] /\ Take(c, "ticks") /\ cpu[c].h = "spin" /\ cpu[c].ncli = 1
    BY <1>0, <1>1, <1>3, Zenon DEF IntrTake, TypeOK, Count
  <2>2. r \in CpuRecord
    BY <1>1, CpuPlaces, CpuFields, Zenon
  <2>3. r.proc = cpu[c].proc /\ r.h = "tick" /\ r.s = cpu[c].s /\ r.idx = cpu[c].idx /\ r.ncli = 1 /\ ~r.if
        /\ ~r.intena
    BY <1>1, <2>1, Zenon DEF CpuRecord
  <2> HIDE DEF r
  <2>4. OwnLocks(c) /\ lock'["ticks"] = c /\ lock'["ptable"] = lock["ptable"]
    BY <1>0, <2>1, LockSteps, Zenon
  <2>5. CpuInv(c)'
    BY <1>0, <1>1, <2>1, <2>2, <2>3, <2>4, RightHandling DEF TypeOK, Count
  <2> QED
    BY <1>0, <2>1, <2>2, <2>3, <2>4, <2>5, QuietStep, Zenon
<1> QED
  BY <1>2, <1>3, Zenon

\* A tick: whoever is on the way into sleep has released tickslock, so that the
\* handler now owes it a wakeup.
LEMMA IntrTickIInv ==
  ASSUME IInv, NEW c \in Cpu, IntrTick(c)
  PROVE  IInv'
<1> DEFINE q == Pushcli(cpu[c])
           r == [q EXCEPT !.h = "wspin"]
<1>0. /\ TypeOK /\ cpu[c].h = "tick" /\ UNCHANGED <<lock, state, killed, pc, ret, intena>>
      /\ left' = [p \in Proc |-> IF left[p] = 0 THEN 0 ELSE left[p] - 1] /\ cpu' = [cpu EXCEPT ![c] = r]
  BY Zenon DEF IInv, IntrTick
<1>1. /\ cpu[c] \in CpuRecord /\ ~cpu[c].if /\ At(c) \in KernelAt \cup {"sti", "push"} /\ c = Cpu0
      /\ (cpu[c].proc # NoProc => cpu[c].s = "scan" /\ cpu[c].idx = cpu[c].proc)
      /\ lock["ptable"] # c /\ lock["ticks"] = c /\ cpu[c].ncli = 1 /\ cpu[c].ncli < 2 /\ cpu[c].ncli # 0
      /\ ~cpu[c].intena
  BY <1>0, WhereHandling DEF Count
<1>2. /\ q \in CpuRecord /\ q.proc = cpu[c].proc /\ q.ncli = cpu[c].ncli + 1 /\ ~q.if /\ q.s = cpu[c].s
      /\ q.idx = cpu[c].idx
  BY <1>1, PushcliDoes, Zenon
<1>a. q.intena = cpu[c].intena
  BY Zenon, <1>1, PushcliDoes
<1> HIDE DEF q
<1>3. r \in CpuRecord
  BY <1>2, CpuPlaces, CpuFields, Zenon
<1>4. r.proc = cpu[c].proc /\ r.h = "wspin" /\ r.s = cpu[c].s /\ r.idx = cpu[c].idx /\ r.ncli = 2 /\ ~r.if
  BY <1>1, <1>2 DEF CpuRecord
<1>b. r.intena = q.intena
  BY <1>2, Zenon DEF CpuRecord
<1>c. ~r.intena
  BY Zenon, <1>1, <1>a, <1>b
<1> HIDE DEF r
<1>5. CpuInv(c)'
  BY <1>0, <1>1, <1>3, <1>4, <1>c, RightHandling DEF TypeOK, Count
<1>6. left' \in [Proc -> 0 .. MaxSleep] /\ state \in [Proc -> {"SLEEPING", "RUNNABLE", "RUNNING", "ZOMBIE"}]
  BY <1>0, SleepConstants DEF TypeOK
<1>7. ASSUME NEW p \in Proc PROVE SleepInv(p)'
  <2>1. pc[p] \notin {"sl_spin", "sl_rel"}
    <3>1. SUFFICES ASSUME pc[p] \in {"sl_spin", "sl_rel"} PROVE FALSE
      BY Zenon
    <3>2. PICK d \in Cpu : cpu[d].proc = p
      BY <3>1, Zenon DEF IInv, ProcInv
    <3>3. Runs(d, p)
      BY <3>1, <3>2, OnCpu, Zenon DEF KernelAt
    <3>4. lock["ticks"] = d
      BY <3>1, <3>3, WhereRunning DEF TicksAt
    <3> QED
      BY <1>0, <1>1, <3>3, <3>4, Zenon DEF Runs
  <2>2. cpu'[Cpu0].h = "wspin"
    BY <1>0, <1>1, <1>4, Zenon DEF TypeOK
  <2> QED
    BY <1>0, <2>1, <2>2, Zenon DEF SleepInv
<1> QED
  BY <1>0, <1>3, <1>4, <1>5, <1>6, <1>7, LockSteps, CpuStep, Zenon

\* wakeup: nobody is still on the way into sleep, and all sleepers are woken.
LEMMA IntrWakeupIInv ==
  ASSUME IInv, NEW c \in Cpu, IntrWakeup(c)
  PROVE  IInv'
<1> DEFINE r == [cpu[c] EXCEPT !.h = "wrel"]
<1>0. /\ TypeOK /\ cpu[c].h = "wspin" /\ Take(c, "ptable") /\ lock["ptable"] = Free
      /\ UNCHANGED <<killed, pc, ret, intena, left>> /\ cpu' = [cpu EXCEPT ![c] = r]
      /\ state' = [p \in Proc |-> IF state[p] = "SLEEPING" THEN "RUNNABLE" ELSE state[p]]
  BY Zenon DEF IInv, TypeOK, IntrWakeup, Wakeup1, Take
<1>1. /\ cpu[c] \in CpuRecord /\ ~cpu[c].if /\ At(c) \in KernelAt \cup {"sti", "push"} /\ c = Cpu0
      /\ (cpu[c].proc # NoProc => cpu[c].s = "scan" /\ cpu[c].idx = cpu[c].proc)
      /\ lock["ticks"] = c /\ cpu[c].ncli = 2 /\ ~cpu[c].intena
  BY <1>0, WhereHandling DEF Count
<1>2. r \in CpuRecord
  BY <1>1, CpuPlaces, CpuFields, ZenonT(30)
<1>3. r.proc = cpu[c].proc /\ r.h = "wrel" /\ r.s = cpu[c].s /\ r.idx = cpu[c].idx /\ r.ncli = 2 /\ ~r.if /\ ~r.intena
  BY <1>1, Zenon DEF CpuRecord
<1> HIDE DEF r
<1>4. OwnLocks(c) /\ lock'["ptable"] = c /\ lock'["ticks"] = lock["ticks"]
  BY <1>0, LockSteps, Zenon
<1>5. CpuInv(c)'
  BY <1>0, <1>1, <1>2, <1>3, <1>4, RightHandling DEF TypeOK, Count
<1>6. ASSUME NEW p \in Proc
      PROVE  /\ state'[p] \in {"SLEEPING", "RUNNABLE", "RUNNING", "ZOMBIE"}
             /\ state'[p] = state[p] \/ Woken(p)
             /\ SleepInv(p)'
  <2>1. state'[p] = IF state[p] = "SLEEPING" THEN "RUNNABLE" ELSE state[p]
    BY <1>0, Zenon
  <2>2. SleepInv(p)
    BY Zenon DEF IInv
  <2> QED
    BY <1>0, <2>1, <2>2, SleeperOff, Zenon DEF TypeOK, SleepInv, Woken
<1>7. state' \in [Proc -> {"SLEEPING", "RUNNABLE", "RUNNING", "ZOMBIE"}]
  BY <1>0, <1>6, Zenon
<1>8. left' \in [Proc -> 0 .. MaxSleep]
  BY <1>0, Zenon DEF TypeOK
<1> QED
  BY <1>0, <1>2, <1>3, <1>4, <1>5, <1>6, <1>7, <1>8, CpuStep, Zenon

\* The handler releases ptable.lock and then tickslock.
LEMMA IntrReleaseIInv ==
  ASSUME IInv, NEW c \in Cpu, IntrRelease(c)
  PROVE  IInv'
<1> DEFINE q == Popcli(cpu[c])
<1>0. TypeOK /\ cpu[c].h \in {"wrel", "rel"} /\ UNCHANGED <<state, killed, pc, ret, intena, left>>
  BY Zenon DEF IInv, IntrRelease
<1>1. /\ cpu[c] \in CpuRecord /\ ~cpu[c].if /\ At(c) \in KernelAt \cup {"sti", "push"} /\ c = Cpu0
      /\ (cpu[c].proc # NoProc => cpu[c].s = "scan" /\ cpu[c].idx = cpu[c].proc)
      /\ lock["ptable"] = c <=> cpu[c].h = "wrel"
      /\ lock["ticks"] = c /\ cpu[c].ncli = (IF cpu[c].h = "wrel" THEN 2 ELSE 1) /\ cpu[c].ncli > 0
      /\ ~cpu[c].intena
  BY <1>0, WhereHandling DEF Count
<1>2. /\ q \in CpuRecord /\ q.proc = cpu[c].proc /\ q.ncli = cpu[c].ncli - 1 /\ q.s = cpu[c].s
      /\ q.idx = cpu[c].idx
  BY <1>1, PopcliDoes, Zenon
<1>3. q.if = (cpu[c].if \/ (cpu[c].ncli = 1 /\ cpu[c].intena)) /\ q.intena = cpu[c].intena
  BY Zenon, <1>1, PopcliDoes
<1>a. ~q.if /\ ~q.intena
  BY Zenon, <1>1, <1>3
<1> HIDE DEF q
<1>4. CASE cpu[c].h = "wrel"
  <2> DEFINE r == [q EXCEPT !.h = "rel"]
  <2>1. cpu' = [cpu EXCEPT ![c] = r] /\ Drop("ptable")
    BY <1>4, Zenon DEF IntrRelease, q
  <2>2. r \in CpuRecord
    BY <1>2, CpuPlaces, CpuFields, Zenon
  <2>5. r.proc = cpu[c].proc /\ r.h = "rel" /\ r.s = cpu[c].s /\ r.idx = cpu[c].idx /\ r.ncli = 1 /\ ~r.if
        /\ ~r.intena
    BY <1>1, <1>2, <1>4, <1>a DEF CpuRecord
  <2> HIDE DEF r
  <2>6. OwnLocks(c) /\ lock'["ptable"] # c /\ lock'["ticks"] = lock["ticks"]
    BY <1>0, <1>1, <1>4, <2>1, LockSteps
  <2>7. CpuInv(c)'
    BY <1>0, <1>1, <2>1, <2>2, <2>5, <2>6, RightHandling DEF TypeOK, Count
  <2> QED
    BY <1>0, <1>4, <2>1, <2>2, <2>5, <2>6, <2>7, QuietStep, Zenon
<1>5. CASE cpu[c].h = "rel"
  <2> DEFINE r == [q EXCEPT !.h = "eoi"]
  <2>1. cpu' = [cpu EXCEPT ![c] = r] /\ Drop("ticks")
    BY <1>5, Zenon DEF IntrRelease, q
  <2>2. r \in CpuRecord
    BY <1>2, CpuPlaces, CpuFields, Zenon
  <2>3. r.proc = cpu[c].proc /\ r.h = "eoi" /\ r.s = cpu[c].s /\ r.idx = cpu[c].idx /\ r.ncli = 0
    BY <1>1, <1>2, <1>5 DEF CpuRecord
  <2>5. ~r.if
    BY <1>2, <1>a, Zenon DEF CpuRecord
  <2> HIDE DEF r
  <2>6. OwnLocks(c) /\ lock'["ticks"] # c /\ lock'["ptable"] = lock["ptable"]
    BY <1>0, <1>1, <2>1, LockSteps
  <2>7. CpuInv(c)'
    BY <1>0, <1>1, <1>5, <2>1, <2>2, <2>3, <2>5, <2>6, RightHandling DEF TypeOK, Count
  <2> QED
    BY <1>0, <1>5, <2>1, <2>2, <2>3, <2>6, <2>7, QuietStep, Zenon
<1> QED
  BY <1>0, <1>4, <1>5, Zenon

\* The interrupt returns, or the process it interrupted yields or exits.
LEMMA IntrEndIInv ==
  ASSUME IInv, NEW c \in Cpu, IntrEnd(c)
  PROVE  IInv'
<1>0. TypeOK /\ cpu[c].h = "eoi" /\ UNCHANGED <<lock, state, killed, intena, left>>
  BY Zenon DEF IInv, IntrEnd
<1>1. /\ cpu[c] \in CpuRecord /\ ~cpu[c].if /\ At(c) \in KernelAt \cup {"sti", "push"}
      /\ (cpu[c].proc # NoProc => cpu[c].s = "scan" /\ cpu[c].idx = cpu[c].proc)
      /\ lock["ptable"] # c /\ lock["ticks"] # c /\ cpu[c].ncli = 0
  BY <1>0, WhereHandling DEF Count
<1>2. CASE cpu[c].proc = NoProc
  <2> DEFINE r == [cpu[c] EXCEPT !.h = "off", !.if = TRUE]
  <2>1. cpu' = [cpu EXCEPT ![c] = r] /\ UNCHANGED <<pc, ret>>
    BY <1>0, <1>2, Zenon DEF IntrEnd, TypeOK
  <2>2. r \in CpuRecord
    BY <1>1, CpuPlaces, CpuFields, Zenon
  <2>3. r.proc = NoProc /\ r.h = "off" /\ r.s = cpu[c].s /\ r.ncli = 0
    BY <1>1, <1>2, Zenon DEF CpuRecord
  <2>4. cpu[c].s \in {"sti", "push"}
    BY <1>1, <1>2, CpuFields, Zenon DEF At, KernelAt
  <2> HIDE DEF r
  <2>5. CpuInv(c)'
    BY <1>0, <1>1, <2>1, <2>2, <2>3, <2>4, RightIdle DEF TypeOK
  <2> QED
    BY <1>0, <1>2, <2>1, <2>2, <2>3, <2>5, LockSteps, QuietStep, Zenon
<1>3. CASE cpu[c].proc # NoProc
  <2> DEFINE r == [cpu[c] EXCEPT !.h = "off"]
  <2>1. PICK p \in Proc : cpu[c].proc = p
    BY <1>1, <1>3, CpuFields, Zenon
  <2>2. pc[p] \in KernelAt
    BY <1>0, <1>1, <1>3, <2>1, Zenon DEF At, TypeOK, PC
  <2>3. PICK to \in {"e_push", "y_push"}, x \in KernelAt :
          cpu' = [cpu EXCEPT ![c] = r] /\ pc' = [pc EXCEPT ![p] = to] /\ ret' = [ret EXCEPT ![p] = x]
    <3>1. cpu' = [cpu EXCEPT ![c] = r]
      BY <1>0, <1>3, Zenon DEF IntrEnd, TypeOK
    <3>2. CASE killed[p] /\ pc[p] = "user"
      <4>1. pc' = [pc EXCEPT ![p] = "e_push"] /\ ret' = ret
        BY <1>3, <2>1, <3>2, Zenon DEF IntrEnd, Goto
      <4>2. ret = [ret EXCEPT ![p] = ret[p]] /\ ret[p] \in KernelAt
        BY <1>0, Zenon DEF TypeOK, IInv, ProcInv
      <4> QED
        BY <3>1, <4>1, <4>2, Zenon
    <3>3. CASE ~(killed[p] /\ pc[p] = "user")
      <4>1. pc' = [pc EXCEPT ![p] = "y_push"] /\ ret' = [ret EXCEPT ![p] = pc[p]]
        BY <1>3, <2>1, <3>3, Zenon DEF IntrEnd, Goto
      <4> QED
        BY <2>2, <3>1, <4>1, Zenon
    <3> QED
      BY <3>2, <3>3, Zenon
  <2>4. r \in CpuRecord
    BY <1>1, CpuPlaces, CpuFields, ZenonT(30)
  <2>5. r.proc = p /\ r.h = "off" /\ r.s = "scan" /\ r.idx = p /\ r.ncli = 0 /\ ~r.if /\ p # NoProc
    BY <1>1, <1>3, <2>1, Zenon DEF CpuRecord
  <2> HIDE DEF r
  <2>6. cpu'[c] = r /\ pc'[p] = to /\ ret'[p] = x /\ \A q \in Proc \ {p} : pc'[q] = pc[q] /\ ret'[q] = ret[q]
    BY <1>0, <2>3, Zenon DEF TypeOK
  <2>7. TypeOK'
    BY <1>0, <2>3, <2>4, Zenon DEF TypeOK, PC, KernelAt
  <2>8. CpuInv(c)'
    BY <1>0, <1>1, <2>5, <2>6, RightThere DEF Count, PtableAt, TicksAt, SpinAt, OnAt, SavedAt
  <2>9. state[p] = "RUNNING" /\ StateAt(to) = "RUNNING"
    BY <2>1, <2>2, Zenon DEF IInv, ProcInv, StateAt, KernelAt
  <2>10. SleepInv(p)'
    BY <1>0, <2>6, <2>9, Zenon DEF SleepInv
  <2>11. \A l \in {"ptable", "ticks"} : lock'[l] = lock[l]
    BY <1>0, Zenon
  <2>12. state'[p] = StateAt(pc'[p]) /\ ret'[p] \in KernelAt /\ pc'[p] \notin {"sl_back", "gone"}
    BY <1>0, <2>6, <2>9, Zenon
  <2> QED
    BY <1>0, <2>1, <2>3, <2>4, <2>5, <2>6, <2>7, <2>8, <2>10, <2>11, <2>12, InPlace, Zenon
<1> QED
  BY <1>2, <1>3, Zenon

-----------------------------------------------------------------------------
(* The invariant and the theorems.                                          *)

\* CPUs about to enter the scheduler and processes just forked.
LEMMA InitIInv == Init => IInv
<1> SUFFICES ASSUME Init PROVE IInv
  BY Zenon
<1> USE SleepConstants
<1>1. TypeOK
  <2>1. [if |-> FALSE, ncli |-> 0, intena |-> FALSE, proc |-> NoProc, h |-> "off", s |-> "sti", idx |-> 1] \in CpuRecord
    BY DEF CpuRecord
  <2> QED
    BY <2>1 DEF Init, TypeOK, PC
<1>2. \A c \in Cpu : cpu[c].proc = NoProc /\ cpu[c].h = "off" /\ cpu[c].s = "sti" /\ cpu[c].ncli = 0 /\ At(c) = "sti"
  BY Zenon DEF Init, At
<1>3. OneCpuPerProcess
  BY <1>2, Zenon DEF OneCpuPerProcess
<1>4. \A c \in Cpu : CpuInv(c)
  BY <1>2 DEF Init, CpuInv, HasPtable, HasTicks, Spins, Count, PtableAt, TicksAt, SpinAt, OnAt, SavedAt
<1>5. \A p \in Proc : ProcInv(p) /\ SleepInv(p)
  BY <1>2 DEF Init, ProcInv, SleepInv, KernelAt, NoProc, Proc
<1> QED
  BY <1>1, <1>3, <1>4, <1>5, Zenon DEF IInv

\* Every step of spinlock.c, the scheduler, sleep, wakeup, kill, exit and the
\* timer interrupt preserves the invariant.
LEMMA NextIInv == IInv /\ [Next]_vars => IInv'
<1> SUFFICES ASSUME IInv, [Next]_vars PROVE IInv'
  BY Zenon
<1>1. ASSUME NEW c \in Cpu, Timer(c) \/ Handler(c) \/ Scheduler(c) PROVE IInv'
  BY <1>1, TimerIInv, IntrTakeIInv, IntrTickIInv, IntrWakeupIInv, IntrReleaseIInv, IntrEndIInv,
     SchedTakeIInv, SchedScanIInv, Zenon DEF Handler, Scheduler
<1>2. ASSUME NEW c \in Cpu, NEW p \in Proc, Process(c, p) PROVE IInv'
  BY <1>2, PushIInv, ReleaseIInv, SysSleepTestIInv, TakenIInv, PlainIInv, BackIInv, SwtchIInv, KillTakeIInv
     DEF Process
<1>3. ASSUME NEW c \in Cpu, NEW p \in Proc, NEW to \in PC, Syscall(c, p, to) PROVE IInv'
  BY <1>3, PlainIInv
<1>4. CASE UNCHANGED vars
  <2>1. TypeOK'
    BY <1>4, Zenon DEF vars, IInv, TypeOK
  <2>2. OneCpuPerProcess'
    BY <1>4, Zenon DEF vars, IInv, OneCpuPerProcess
  <2>3. ASSUME NEW c \in Cpu PROVE CpuInv(c)'
    <3>1. CpuInv(c)
      BY Zenon DEF IInv
    <3> QED
      BY <1>4, <3>1, Zenon DEF vars, CpuInv, HasPtable, HasTicks, Spins, At
  <2>4. ASSUME NEW p \in Proc PROVE (ProcInv(p) /\ SleepInv(p))'
    <3>1. ProcInv(p) /\ SleepInv(p)
      BY Zenon DEF IInv
    <3> QED
      BY <1>4, <3>1, Zenon DEF vars, ProcInv, SleepInv
  <2> QED
    BY <2>1, <2>2, <2>3, <2>4, Zenon DEF IInv
<1> QED
  BY <1>1, <1>2, <1>3, <1>4, KillElsewhereIInv, Zenon DEF Next

\* The invariant holds always, for any number of CPUs and processes.
THEOREM SleepInvariant == Spec => []IInv
BY InitIInv, NextIInv, PTL DEF Spec

\* No process is ever executed by two CPUs (scheduler, sched, proc.c).
THEOREM OneCpu == Spec => []OneCpuPerProcess
<1>1. IInv => OneCpuPerProcess
  BY Zenon DEF IInv
<1> QED
  BY <1>1, SleepInvariant, PTL

\* Whoever calls sched holds ptable.lock and nothing else, is not RUNNING and
\* has interrupts off: none of the panics of sched can happen.
THEOREM SchedSafe == Spec => []SchedNeverPanics
<1>1. IInv => SchedNeverPanics
  <2> SUFFICES ASSUME IInv, NEW c \in Cpu, NEW p \in Proc, Runs(c, p), pc[p] \in DOMAIN BackAt
               PROVE  Held(c) = {"ptable"} /\ cpu[c].ncli = 1 /\ state[p] # "RUNNING" /\ ~cpu[c].if
    BY Zenon DEF SchedNeverPanics
  <2>1. lock["ptable"] = c /\ lock["ticks"] # c /\ cpu[c].ncli = 1 /\ ~cpu[c].if
    BY WhereRunning, BackAtIs DEF PtableAt, TicksAt, SpinAt, Count
  <2>2. state[p] # "RUNNING"
    BY WhereRunning, BackAtIs
  <2>3. DOMAIN lock = {"ptable", "ticks"}
    BY Zenon DEF IInv, TypeOK
  <2> QED
    BY <2>1, <2>2, <2>3, Zenon DEF Held
<1> QED
  BY <1>1, SleepInvariant, PTL

\* A process in user space, or about to take its first lock in a system call,
\* has interrupts on (pushcli, popcli, sched).
THEOREM InterruptsOn == Spec => []InterruptsComeBack
<1>1. IInv => InterruptsComeBack
  BY WhereRunning, Zenon DEF InterruptsComeBack, OnAt
<1> QED
  BY <1>1, SleepInvariant, PTL

\* sleep() misses no wakeup: a process sleeps past its time only while the tick
\* that ended it is on its way to wake it.
THEOREM NoWakeupLost == Spec => []NoLostWakeup
<1>1. IInv => NoLostWakeup
  BY Zenon DEF IInv, SleepInv, NoLostWakeup
<1> QED
  BY <1>1, SleepInvariant, PTL

\* ncli counts the locks that a CPU holds or waits for, and while there are
\* any, interrupts are off (acquire, release).
THEOREM LocksOff == Spec => []LocksKeepInterruptsOff
<1>1. ASSUME IInv, NEW c \in Cpu
      PROVE  /\ cpu[c].ncli = Cardinality(Held(c)) + (IF Spinning(c) THEN 1 ELSE 0)
             /\ cpu[c].ncli > 0 => ~cpu[c].if
  <2>1. CpuInv(c) /\ cpu[c] \in CpuRecord /\ DOMAIN lock = {"ptable", "ticks"}
    BY <1>1, Zenon DEF IInv, TypeOK
  <2>2. Spinning(c) <=> Spins(c)
    <3>1. CASE cpu[c].h # "off"
      BY <3>1, Zenon DEF Spinning, Spins, Idle, Runs
    <3>2. CASE cpu[c].h = "off" /\ cpu[c].proc = NoProc
      <4>1. At(c) = cpu[c].s /\ cpu[c].s \in {"sti", "push", "spin", "scan"}
        BY <2>1, <3>2, CpuFields, Zenon DEF At
      <4> QED
        BY <3>2, <4>1 DEF Spinning, Spins, Idle, Runs, SpinAt, NoProc, Proc
    <3>3. CASE cpu[c].h = "off" /\ cpu[c].proc # NoProc
      <4>1. PICK p \in Proc : cpu[c].proc = p
        BY <2>1, <3>3, CpuFields, Zenon
      <4>2. At(c) = pc[p] /\ pc[p] \in PC
        BY <1>1, <3>3, <4>1, Zenon DEF At, IInv, TypeOK
      <4> QED
        BY <3>3, <4>1, <4>2 DEF Spinning, Spins, Idle, Runs, SpinAt, PC
    <3> QED
      BY <3>1, <3>2, <3>3, Zenon
  <2>3. Cardinality(Held(c)) = Count(HasPtable(c)) + Count(HasTicks(c))
    <3>1. (lock["ptable"] = c <=> HasPtable(c)) /\ (lock["ticks"] = c <=> HasTicks(c))
      BY <2>1 DEF CpuInv
    <3>a. IsFiniteSet({"ptable"}) /\ Cardinality({"ptable"}) = 1 /\ Cardinality({"ticks"}) = 1
      BY Zenon, FS_Singleton
    <3>2. CASE HasPtable(c) /\ HasTicks(c)
      <4>1. Held(c) = {"ptable"} \cup {"ticks"}
        BY <2>1, <3>1, <3>2, Zenon DEF Held
      <4>2. Cardinality({"ptable"} \cup {"ticks"}) = 2
        BY <3>a, FS_AddElement
      <4> QED
        BY <3>2, <4>1, <4>2 DEF Count
    <3>3. CASE HasPtable(c) /\ ~HasTicks(c)
      <4>1. Held(c) = {"ptable"}
        BY <2>1, <3>1, <3>3, Zenon DEF Held
      <4> QED
        BY <3>3, <3>a, <4>1 DEF Count
    <3>4. CASE ~HasPtable(c) /\ HasTicks(c)
      <4>1. Held(c) = {"ticks"}
        BY <2>1, <3>1, <3>4, Zenon DEF Held
      <4> QED
        BY <3>4, <3>a, <4>1 DEF Count
    <3>5. CASE ~HasPtable(c) /\ ~HasTicks(c)
      <4>1. Held(c) = {}
        BY <2>1, <3>1, <3>5, Zenon DEF Held
      <4> QED
        BY <3>5, <4>1, FS_EmptySet DEF Count
    <3> QED
      BY <3>2, <3>3, <3>4, <3>5
  <2>4. cpu[c].ncli = Count(HasPtable(c)) + Count(HasTicks(c)) + Count(Spins(c)) /\ (cpu[c].ncli > 0 => ~cpu[c].if)
    BY <2>1, Zenon DEF CpuInv
  <2> QED
    BY <2>2, <2>3, <2>4, Zenon DEF Count
<1>2. IInv => LocksKeepInterruptsOff
  BY <1>1, Zenon DEF LocksKeepInterruptsOff
<1> QED
  BY <1>2, SleepInvariant, PTL

\* Together: pushcli and popcli keep count of the locks of each CPU, a CPU with a
\* lock takes no interrupt, sched finds what it checks for, and the interrupts
\* come back with the last lock, through every switch between CPUs.
THEOREM InterruptsSafe ==
  Spec => []InterruptsFollowLocks
<1>1. LocksKeepInterruptsOff /\ SchedNeverPanics /\ InterruptsComeBack <=> InterruptsFollowLocks
  BY Zenon DEF InterruptsFollowLocks
<1> QED
  BY <1>1, LocksOff, SchedSafe, InterruptsOn, PTL
=============================================================================
