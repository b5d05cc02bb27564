------------------------- MODULE SleepWakeupLocking -------------------------
(***************************************************************************)
(* The steps of processes that take or release a lock preserve the         *)
(* invariant of SleepWakeup: in sys_sleep, sleep, yield, kill and exit.    *)
(* First what these proofs and the ones about the other steps rest on:     *)
(* pushcli and popcli on the record of a CPU, what the invariant says of a *)
(* CPU by the place it is at, and when a step of a process preserves it.   *)
(***************************************************************************)
EXTENDS SleepWakeup, TLAPS

\* The fields of struct cpu, one by one.
LEMMA CpuFields ==
  ASSUME NEW r \in CpuRecord
  PROVE  /\ r.if \in BOOLEAN /\ r.ncli \in 0 .. 2 /\ r.intena \in BOOLEAN
         /\ r.proc \in Proc \cup {NoProc}
         /\ r.h \in {"off", "push", "spin", "tick", "wspin", "wrel", "rel", "eoi"}
         /\ r.s \in {"sti", "push", "spin", "scan"} /\ r.idx \in 1 .. NPROC + 1
BY Zenon DEF CpuRecord

\* Flags and counts of the right types can be stored in a struct cpu.
LEMMA CpuExcept ==
  ASSUME NEW r \in CpuRecord, NEW a \in BOOLEAN, NEW n \in 0 .. 2, NEW b \in BOOLEAN
  PROVE  /\ [r EXCEPT !.if = a, !.ncli = n, !.intena = b] \in CpuRecord
         /\ [r EXCEPT !.ncli = n, !.if = a] \in CpuRecord
BY Zenon DEF CpuRecord

\* So can the places of the handler and of the scheduler, and the process.
LEMMA CpuPlaces ==
  ASSUME NEW r \in CpuRecord, NEW a \in BOOLEAN, NEW p \in Proc \cup {NoProc}, NEW i \in 1 .. NPROC + 1,
         NEW h \in {"off", "push", "spin", "tick", "wspin", "wrel", "rel", "eoi"},
         NEW s \in {"sti", "push", "spin", "scan"}
  PROVE  /\ [r EXCEPT !.proc = p, !.idx = i] \in CpuRecord
         /\ [r EXCEPT !.proc = p] \in CpuRecord
         /\ [r EXCEPT !.idx = i] \in CpuRecord
         /\ [r EXCEPT !.s = s, !.idx = i] \in CpuRecord
         /\ [r EXCEPT !.s = s] \in CpuRecord
         /\ [r EXCEPT !.if = a, !.s = s] \in CpuRecord
         /\ [r EXCEPT !.h = h] \in CpuRecord
         /\ [r EXCEPT !.if = a, !.h = h] \in CpuRecord
         /\ [r EXCEPT !.h = h, !.if = a] \in CpuRecord
<1> USE DEF CpuRecord
<1>1. [r EXCEPT !.proc = p, !.idx = i] \in CpuRecord /\ [r EXCEPT !.proc = p] \in CpuRecord
  BY Zenon
<1>2. [r EXCEPT !.idx = i] \in CpuRecord /\ [r EXCEPT !.s = s, !.idx = i] \in CpuRecord
  BY Zenon
<1>3. [r EXCEPT !.s = s] \in CpuRecord /\ [r EXCEPT !.if = a, !.s = s] \in CpuRecord
  BY Zenon
<1>4. [r EXCEPT !.h = h] \in CpuRecord /\ [r EXCEPT !.if = a, !.h = h] \in CpuRecord
  BY Zenon
<1>5. [r EXCEPT !.h = h, !.if = a] \in CpuRecord
  BY Zenon
<1> QED
  BY <1>1, <1>2, <1>3, <1>4, <1>5, Zenon

\* What pushcli does to a CPU that can still count one more.
LEMMA PushcliDoes ==
  ASSUME NEW r \in CpuRecord, r.ncli < 2
  PROVE  /\ Pushcli(r) \in CpuRecord
         /\ Pushcli(r).if = FALSE
         /\ Pushcli(r).ncli = r.ncli + 1
         /\ Pushcli(r).intena = IF r.ncli = 0 THEN r.if ELSE r.intena
         /\ Pushcli(r).proc = r.proc /\ Pushcli(r).h = r.h
         /\ Pushcli(r).s = r.s /\ Pushcli(r).idx = r.idx
<1>1. Pushcli(r).proc = r.proc /\ Pushcli(r).h = r.h /\ Pushcli(r).s = r.s /\ Pushcli(r).idx = r.idx
  BY Zenon DEF CpuRecord, Pushcli
<1>2. Pushcli(r).if = FALSE /\ Pushcli(r).ncli = r.ncli + 1
  BY Zenon DEF CpuRecord, Pushcli
<1>3. Pushcli(r).intena = IF r.ncli = 0 THEN r.if ELSE r.intena
  BY Zenon DEF CpuRecord, Pushcli
<1>4. Pushcli(r) \in CpuRecord
  <2>1. r.ncli + 1 \in 0 .. 2
    BY CpuFields
  <2>2. (IF r.ncli = 0 THEN r.if ELSE r.intena) \in BOOLEAN
    BY Zenon, CpuFields
  <2> QED
    BY Zenon, <2>1, <2>2, CpuExcept DEF Pushcli
<1> QED
  BY <1>1, <1>2, <1>3, <1>4, Zenon

\* What popcli does to a CPU that has counted at least one.
LEMMA PopcliDoes ==
  ASSUME NEW r \in CpuRecord, r.ncli > 0
  PROVE  /\ Popcli(r) \in CpuRecord
         /\ Popcli(r).if = (r.if \/ (r.ncli = 1 /\ r.intena))
         /\ Popcli(r).ncli = r.ncli - 1
         /\ Popcli(r).intena = r.intena
         /\ Popcli(r).proc = r.proc /\ Popcli(r).h = r.h
         /\ Popcli(r).s = r.s /\ Popcli(r).idx = r.idx
<1>1. Popcli(r).proc = r.proc /\ Popcli(r).h = r.h /\ Popcli(r).s = r.s /\ Popcli(r).idx = r.idx
  BY Zenon DEF CpuRecord, Popcli
<1>2. Popcli(r).ncli = r.ncli - 1 /\ Popcli(r).intena = r.intena
  BY Zenon DEF CpuRecord, Popcli
<1>3. Popcli(r).if = (r.if \/ (r.ncli = 1 /\ r.intena))
  BY Zenon DEF CpuRecord, Popcli
<1>4. Popcli(r) \in CpuRecord
  <2>1. r.ncli - 1 \in 0 .. 2
    BY CpuFields
  <2>2. (r.if \/ (r.ncli = 1 /\ r.intena)) \in BOOLEAN
    BY Zenon, CpuFields
  <2> QED
    BY Zenon, <2>1, <2>2, CpuExcept DEF Popcli
<1> QED
  BY <1>1, <1>2, <1>3, <1>4, Zenon

\* A step of CPU c that moves only the process it runs, and only its own locks,
\* leaves every other CPU as it was.
LEMMA OthersKept ==
  ASSUME IInv, NEW c \in Cpu, NEW r \in CpuRecord, cpu' = [cpu EXCEPT ![c] = r],
         \A p \in Proc : pc'[p] = pc[p] \/ cpu[c].proc = p,
         \A l \in {"ptable", "ticks"} : lock'[l] = lock[l] \/ (lock[l] \in {c, Free} /\ lock'[l] \in {c, Free}),
         NEW d \in Cpu, d # c
  PROVE  CpuInv(d)'
<1>1. cpu'[d] = cpu[d] /\ cpu[d] \in CpuRecord /\ d # Free
  BY SleepConstants, Zenon DEF IInv, TypeOK
<1>2. cpu[d].proc \in Proc => cpu[c].proc # cpu[d].proc
  BY DEF IInv, OneCpuPerProcess, NoProc, Proc
<1>3. At(d)' = At(d)
  BY <1>1, <1>2, CpuFields DEF At
<1>4. HasPtable(d)' = HasPtable(d) /\ HasTicks(d)' = HasTicks(d) /\ Spins(d)' = Spins(d)
  BY <1>1, <1>3, Zenon DEF HasPtable, HasTicks, Spins
<1>5. (lock'["ptable"] = d <=> lock["ptable"] = d) /\ (lock'["ticks"] = d <=> lock["ticks"] = d)
  BY <1>1, Zenon
<1>6. CpuInv(d)
  BY Zenon DEF IInv
<1> QED
  BY <1>1, <1>3, <1>4, <1>5, <1>6 DEF CpuInv

\* A CPU in no handler that runs a process is where the process is.
LEMMA WhereRunning ==
  ASSUME IInv, NEW c \in Cpu, NEW p \in Proc, Runs(c, p)
  PROVE  /\ At(c) = pc[p] /\ p # NoProc /\ c # Free
         /\ cpu[c] \in CpuRecord /\ cpu[c].s = "scan" /\ cpu[c].idx = p /\ cpu[c].proc = p /\ cpu[c].h = "off"
         /\ lock["ptable"] = c <=> pc[p] \in PtableAt
         /\ lock["ticks"] = c <=> pc[p] \in TicksAt
         /\ cpu[c].ncli = Count(pc[p] \in PtableAt) + Count(pc[p] \in TicksAt) + Count(pc[p] \in SpinAt)
         /\ cpu[c].ncli > 0 => ~cpu[c].if
         /\ pc[p] \in OnAt => cpu[c].if
         /\ pc[p] \in SavedAt => cpu[c].intena
         /\ pc[p] = "y_push" => ~cpu[c].if
         /\ state[p] = StateAt(pc[p])
<1>1. p # NoProc /\ c # Free /\ cpu[c] \in CpuRecord /\ cpu[c].proc = p /\ cpu[c].h = "off"
  BY SleepConstants DEF IInv, TypeOK, Runs, Proc, NoProc
<1>2. At(c) = pc[p]
  BY <1>1, Zenon DEF At
<1>3. CpuInv(c) /\ ProcInv(p)
  BY Zenon DEF IInv
<1>4. state[p] = StateAt(pc[p])
  BY <1>1, <1>3, Zenon DEF ProcInv
<1> QED
  BY <1>1, <1>2, <1>3, <1>4 DEF CpuInv, HasPtable, HasTicks, Spins

\* The same after a step: its locks and flags are right if they are right for
\* the place it is at then.
LEMMA RightThere ==
  ASSUME NEW c \in Cpu, NEW p \in Proc, p # NoProc, NEW r, NEW to, cpu'[c] = r, pc'[p] = to,
         r.proc = p, r.h = "off", r.s = "scan", r.idx = p,
         lock'["ptable"] = c <=> to \in PtableAt,
         lock'["ticks"] = c <=> to \in TicksAt,
         r.ncli = Count(to \in PtableAt) + Count(to \in TicksAt) + Count(to \in SpinAt),
         r.ncli > 0 => ~r.if,
         to \in OnAt => r.if,
         to \in SavedAt => r.intena,
         to = "y_push" => ~r.if
  PROVE  CpuInv(c)'
<1>1. At(c)' = to
  BY Zenon DEF At
<1> QED
  BY <1>1 DEF CpuInv, HasPtable, HasTicks, Spins

\* q was asleep, on no CPU, and the step has woken it.
Woken(q) == /\ state[q] = "SLEEPING" /\ state'[q] = "RUNNABLE"
            /\ \A d \in Cpu : cpu[d].proc # q

\* Most steps: CPU c executes the process p, moving it and nobody else.
LEMMA InPlace ==
  ASSUME IInv, TypeOK', NEW c \in Cpu, NEW p \in Proc, cpu[c].proc = p, cpu[c].h # "wspin",
         NEW r \in CpuRecord, cpu' = [cpu EXCEPT ![c] = r], r.h # "wspin", r.proc = p,
         \A l \in {"ptable", "ticks"} : lock'[l] = lock[l] \/ (lock[l] \in {c, Free} /\ lock'[l] \in {c, Free}),
         \A q \in Proc \ {p} : /\ pc'[q] = pc[q] /\ (state'[q] = state[q] \/ Woken(q)) /\ ret'[q] = ret[q]
                               /\ intena'[q] = intena[q] /\ left'[q] = left[q],
         pc'[p] \notin {"sl_back", "gone"}, state'[p] = StateAt(pc'[p]), ret'[p] \in KernelAt,
         CpuInv(c)', SleepInv(p)'
  PROVE  IInv'
<1>1. \A d \in Cpu : cpu'[d].proc = cpu[d].proc /\ (cpu'[d].h = "wspin" <=> cpu[d].h = "wspin")
  BY Zenon DEF IInv, TypeOK
<1>2. OneCpuPerProcess'
  BY <1>1 DEF IInv, OneCpuPerProcess
<1>3. ASSUME NEW d \in Cpu PROVE CpuInv(d)'
  <2>1. CASE d = c
    BY <2>1, Zenon
  <2>2. CASE d # c
    BY <2>2, OthersKept, Zenon
  <2> QED
    BY <2>1, <2>2, Zenon
<1>4. ASSUME NEW q \in Proc PROVE ProcInv(q)' /\ SleepInv(q)'
  <2>1. CASE q = p
    BY <1>1, <2>1, Zenon DEF ProcInv
  <2>2. CASE q # p
    <3>1. ProcInv(q) /\ SleepInv(q)
      BY Zenon DEF IInv
    <3> QED
      BY <1>1, <2>2, <3>1, SleepConstants DEF ProcInv, SleepInv, Woken
  <2> QED
    BY <2>1, <2>2, Zenon
<1> QED
  BY <1>2, <1>3, <1>4, Zenon DEF IInv

-----------------------------------------------------------------------------
(* A step of a process, in three parts: its locks, its CPU, its own fields.  *)

\* The step takes or drops no lock but CPU c's own.
OwnLocks(c) ==
  /\ lock' \in [{"ptable", "ticks"} -> Cpu \cup {Free}]
  /\ \A l \in {"ptable", "ticks"} : lock'[l] = lock[l] \/ (lock[l] \in {c, Free} /\ lock'[l] \in {c, Free})

\* The step leaves CPU c with the record r, fit for its process p to be at to.
Fits(c, p, r, to) ==
  /\ cpu' = [cpu EXCEPT ![c] = r] /\ r \in CpuRecord
  /\ r.proc = p /\ r.h = "off" /\ r.s = "scan" /\ r.idx = p
  /\ lock'["ptable"] = c <=> to \in PtableAt
  /\ lock'["ticks"] = c <=> to \in TicksAt
  /\ r.ncli = Count(to \in PtableAt) + Count(to \in TicksAt) + Count(to \in SpinAt)
  /\ r.ncli > 0 => ~r.if
  /\ to \in OnAt => r.if
  /\ to \in SavedAt => r.intena
  /\ to = "y_push" => ~r.if

\* The step moves the process p to the place to, and no other process.
Moves(p, to) ==
  /\ to \in PC \ {"sl_back", "gone"} /\ pc' = [pc EXCEPT ![p] = to]
  /\ state' \in [Proc -> {"SLEEPING", "RUNNABLE", "RUNNING", "ZOMBIE"}] /\ killed' \in [Proc -> BOOLEAN]
  /\ ret' \in [Proc -> PC] /\ intena' \in [Proc -> BOOLEAN] /\ left' \in [Proc -> 0 .. MaxSleep]
  /\ \A q \in Proc \ {p} : /\ (state'[q] = state[q] \/ Woken(q)) /\ ret'[q] = ret[q]
                           /\ intena'[q] = intena[q] /\ left'[q] = left[q]
  /\ state'[p] = StateAt(to) /\ ret'[p] \in KernelAt
  /\ to \in {"sl_spin", "sl_rel"} => left'[p] > 0
  /\ to \in {"sl_set", "sl_swtch"} /\ left'[p] = 0 => cpu[Cpu0].h = "wspin"

\* Such a step preserves the invariant.
LEMMA MoveIInv ==
  ASSUME IInv, NEW c \in Cpu, NEW p \in Proc, Runs(c, p), NEW r, NEW to,
         OwnLocks(c), Fits(c, p, r, to), Moves(p, to)
  PROVE  IInv'
<1>0. TypeOK /\ p # NoProc /\ cpu'[c] = r /\ pc'[p] = to
  BY WhereRunning DEF IInv, TypeOK, Fits, Moves
<1>1. TypeOK'
  BY <1>0, Zenon DEF TypeOK, OwnLocks, Fits, Moves
<1>2. CpuInv(c)'
  BY <1>0, RightThere DEF Fits
<1>3. \A q \in Proc \ {p} : pc'[q] = pc[q]
  BY <1>0, Zenon DEF TypeOK, Moves
<1>4. cpu'[Cpu0].h = "wspin" <=> cpu[Cpu0].h = "wspin"
  BY <1>0, SleepConstants, WhereRunning DEF TypeOK, Fits
<1>5. SleepInv(p)'
  <2>1. state'[p] = "SLEEPING" => to = "sl_swtch"
    BY Zenon DEF Moves, StateAt
  <2> QED
    BY <1>0, <1>4, <2>1, Zenon DEF Moves, SleepInv
<1>6. state'[p] = StateAt(pc'[p]) /\ pc'[p] \notin {"sl_back", "gone"} /\ ret'[p] \in KernelAt
  BY <1>0, Zenon DEF Moves
<1>7. \A q \in Proc \ {p} : /\ pc'[q] = pc[q] /\ (state'[q] = state[q] \/ Woken(q)) /\ ret'[q] = ret[q]
                            /\ intena'[q] = intena[q] /\ left'[q] = left[q]
  BY <1>3, Zenon DEF Moves
<1>8. r \in CpuRecord /\ cpu' = [cpu EXCEPT ![c] = r] /\ r.h = "off" /\ r.proc = p
  BY Zenon DEF Fits
<1>9. cpu[c].proc = p /\ cpu[c].h = "off"
  BY Zenon DEF Runs
<1>10. \A l \in {"ptable", "ticks"} : lock'[l] = lock[l] \/ (lock[l] \in {c, Free} /\ lock'[l] \in {c, Free})
  BY Zenon DEF OwnLocks
<1> QED
  BY <1>1, <1>2, <1>5, <1>6, <1>7, <1>8, <1>9, <1>10, InPlace, Zenon

\* Taking, dropping and keeping a lock.
LEMMA LockSteps ==
  ASSUME TypeOK, NEW c \in Cpu, NEW l \in {"ptable", "ticks"}, NEW m \in {"ptable", "ticks"} \ {l}
  PROVE  /\ Take(c, l) => OwnLocks(c) /\ lock'[l] = c /\ lock'[m] = lock[m]
         /\ Drop(l) /\ lock[l] = c => OwnLocks(c) /\ lock'[l] # c /\ lock'[m] = lock[m]
         /\ lock' = lock => OwnLocks(c)
BY SleepConstants DEF TypeOK, Take, Drop, OwnLocks

-----------------------------------------------------------------------------
(* Taking and releasing the locks.                                          *)

\* Where pushcli is called, and where it leads.
LEMMA PushOfIs ==
  ASSUME NEW l \in DOMAIN PushOf
  PROVE  \/ l = "s_push" /\ PushOf[l] = "s_spin"
         \/ l = "r_push" /\ PushOf[l] = "r_spin"
         \/ l = "y_push" /\ PushOf[l] = "y_spin"
         \/ l = "k_push" /\ PushOf[l] = "k_spin"
         \/ l = "e_push" /\ PushOf[l] = "e_spin"
BY DEF PushOf

\* The first half of an acquire: interrupts go off, and are remembered.
LEMMA PushIInv ==
  ASSUME IInv, NEW c \in Cpu, NEW p \in Proc, pc[p] \in DOMAIN PushOf, Push(c, p, pc[p], PushOf[pc[p]])
  PROVE  IInv'
<1> DEFINE r == Pushcli(cpu[c])
           to == PushOf[pc[p]]
<1>0. Runs(c, p) /\ TypeOK
  BY Zenon DEF Push, IInv
<1>1. cpu[c] \in CpuRecord /\ cpu[c].ncli = 0 /\ cpu[c].ncli < 2
  BY <1>0, WhereRunning, PushOfIs DEF PtableAt, TicksAt, SpinAt, Count
<1>2. cpu' = [cpu EXCEPT ![c] = r] /\ pc' = [pc EXCEPT ![p] = to] /\ UNCHANGED <<lock, state, killed, ret, intena, left>>
  BY Zenon DEF Push, Goto
<1>3. /\ r \in CpuRecord /\ r.proc = cpu[c].proc /\ r.h = cpu[c].h /\ r.s = cpu[c].s /\ r.idx = cpu[c].idx
      /\ r.ncli = cpu[c].ncli + 1 /\ r.if = FALSE /\ r.intena = cpu[c].if
  BY Zenon, <1>1, PushcliDoes
<1> HIDE DEF r
<1>4. Fits(c, p, r, to)
  <2>1. /\ r.proc = p /\ r.h = "off" /\ r.s = "scan" /\ r.idx = p /\ r.ncli = 1
    BY <1>0, <1>1, <1>3, WhereRunning
  <2>2. lock'["ptable"] # c /\ lock'["ticks"] # c
    BY <1>0, <1>2, WhereRunning, PushOfIs DEF PtableAt, TicksAt
  <2>3. to \in SavedAt => r.intena
    BY <1>0, <1>3, WhereRunning, PushOfIs DEF OnAt, SavedAt
  <2>4. to \in SpinAt /\ to \notin PtableAt /\ to \notin TicksAt /\ to \notin OnAt /\ to # "y_push"
    BY PushOfIs, Zenon DEF SpinAt, PtableAt, TicksAt, OnAt
  <2> QED
    BY <1>2, <1>3, <2>1, <2>2, <2>3, <2>4 DEF Fits, Count
<1>5. Moves(p, to)
  BY <1>0, <1>2, WhereRunning, PushOfIs DEF IInv, TypeOK, ProcInv, Moves, StateAt, PC
<1> QED
  BY <1>0, <1>2, <1>4, <1>5, LockSteps, MoveIInv, Zenon

\* A step that leaves struct cpu alone fits, if the place it leads to asks for
\* as much as the one it leaves and for the lock that is taken.
LEMMA FitsSame ==
  ASSUME IInv, NEW c \in Cpu, NEW p \in Proc, Runs(c, p), cpu' = cpu, NEW to,
         lock'["ptable"] = c <=> to \in PtableAt,
         lock'["ticks"] = c <=> to \in TicksAt,
         Count(pc[p] \in PtableAt) + Count(pc[p] \in TicksAt) + Count(pc[p] \in SpinAt)
           = Count(to \in PtableAt) + Count(to \in TicksAt) + Count(to \in SpinAt),
         to \in OnAt => pc[p] \in OnAt, to \in SavedAt => pc[p] \in SavedAt, to # "y_push"
  PROVE  Fits(c, p, cpu[c], to)
<1>1. cpu' = [cpu EXCEPT ![c] = cpu[c]]
  BY Zenon DEF IInv, TypeOK
<1> QED
  BY <1>1, WhereRunning, ZenonT(30) DEF Fits

\* The loop of an acquire ends in a system call, in sleep, yield or exit.
LEMMA TakenIInv ==
  ASSUME IInv, NEW c \in Cpu, NEW p \in Proc,
         \/ \E n \in 0 .. MaxSleep : SysSleepTake(c, p, n)
         \/ SleepTake(c, p) \/ SleepRetake(c, p) \/ YieldTake(c, p) \/ ExitTake(c, p)
  PROVE  IInv'
<1>0. TypeOK /\ ProcInv(p) /\ SleepInv(p)
  BY Zenon DEF IInv
<1>1. ASSUME NEW n \in 0 .. MaxSleep, SysSleepTake(c, p, n) PROVE IInv'
  <2>1. /\ Runs(c, p) /\ pc[p] = "s_spin" /\ Take(c, "ticks") /\ cpu' = cpu /\ pc' = [pc EXCEPT ![p] = "s_test"]
        /\ left' = [left EXCEPT ![p] = n] /\ UNCHANGED <<state, killed, ret, intena>>
    BY <1>1, Zenon DEF SysSleepTake, Taken, Goto
  <2>2. OwnLocks(c) /\ lock'["ticks"] = c /\ lock'["ptable"] = lock["ptable"]
    BY <1>0, <2>1, LockSteps, Zenon
  <2>3. Fits(c, p, cpu[c], "s_test")
    BY <2>1, <2>2, WhereRunning, FitsSame DEF PtableAt, TicksAt, SpinAt, OnAt, SavedAt, Count
  <2>4. Moves(p, "s_test")
    BY <1>0, <2>1, WhereRunning DEF TypeOK, ProcInv, Moves, StateAt, PC
  <2> QED
    BY <2>1, <2>2, <2>3, <2>4, MoveIInv, Zenon
<1>2. CASE SleepTake(c, p)
  <2>1. /\ Runs(c, p) /\ pc[p] = "sl_spin" /\ Take(c, "ptable") /\ cpu' = cpu /\ pc' = [pc EXCEPT ![p] = "sl_rel"]
        /\ UNCHANGED <<state, killed, ret, intena, left>>
    BY <1>2, Zenon DEF SleepTake, Taken, Goto
  <2>2. OwnLocks(c) /\ lock'["ptable"] = c /\ lock'["ticks"] = lock["ticks"]
    BY <1>0, <2>1, LockSteps, Zenon
  <2>3. Fits(c, p, cpu[c], "sl_rel")
    BY <2>1, <2>2, WhereRunning, FitsSame DEF PtableAt, TicksAt, SpinAt, OnAt, SavedAt, Count
  <2>4. Moves(p, "sl_rel")
    BY <1>0, <2>1, WhereRunning, Zenon DEF TypeOK, ProcInv, SleepInv, Moves, StateAt, PC
  <2> QED
    BY <2>1, <2>2, <2>3, <2>4, MoveIInv, Zenon
<1>3. CASE SleepRetake(c, p)
  <2>1. /\ Runs(c, p) /\ pc[p] = "r_spin" /\ Take(c, "ticks") /\ cpu' = cpu /\ pc' = [pc EXCEPT ![p] = "s_test"]
        /\ UNCHANGED <<state, killed, ret, intena, left>>
    BY <1>3, Zenon DEF SleepRetake, Taken, Goto
  <2>2. OwnLocks(c) /\ lock'["ticks"] = c /\ lock'["ptable"] = lock["ptable"]
    BY <1>0, <2>1, LockSteps, Zenon
  <2>3. Fits(c, p, cpu[c], "s_test")
    BY <2>1, <2>2, WhereRunning, FitsSame DEF PtableAt, TicksAt, SpinAt, OnAt, SavedAt, Count
  <2>4. Moves(p, "s_test")
    BY <1>0, <2>1, WhereRunning, Zenon DEF TypeOK, ProcInv, Moves, StateAt, PC
  <2> QED
    BY <2>1, <2>2, <2>3, <2>4, MoveIInv, Zenon
<1>4. CASE YieldTake(c, p)
  <2>1. /\ Runs(c, p) /\ pc[p] = "y_spin" /\ Take(c, "ptable") /\ cpu' = cpu /\ pc' = [pc EXCEPT ![p] = "y_swtch"]
        /\ state' = [state EXCEPT ![p] = "RUNNABLE"] /\ UNCHANGED <<killed, ret, intena, left>>
    BY <1>4, Zenon DEF YieldTake, Taken, Goto
  <2>2. OwnLocks(c) /\ lock'["ptable"] = c /\ lock'["ticks"] = lock["ticks"]
    BY <1>0, <2>1, LockSteps, Zenon
  <2>3. Fits(c, p, cpu[c], "y_swtch")
    BY <2>1, <2>2, WhereRunning, FitsSame DEF PtableAt, TicksAt, SpinAt, OnAt, SavedAt, Count
  <2>4. Moves(p, "y_swtch")
    BY <1>0, <2>1, WhereRunning DEF TypeOK, ProcInv, Moves, StateAt, PC
  <2> QED
    BY <2>1, <2>2, <2>3, <2>4, MoveIInv, Zenon
<1>5. CASE ExitTake(c, p)
  <2>1. /\ Runs(c, p) /\ pc[p] = "e_spin" /\ Take(c, "ptable") /\ cpu' = cpu /\ pc' = [pc EXCEPT ![p] = "e_swtch"]
        /\ state' = [state EXCEPT ![p] = "ZOMBIE"] /\ UNCHANGED <<killed, ret, intena, left>>
    BY <1>5, Zenon DEF ExitTake, Taken, Goto
  <2>2. OwnLocks(c) /\ lock'["ptable"] = c /\ lock'["ticks"] = lock["ticks"]
    BY <1>0, <2>1, LockSteps, Zenon
  <2>3. Fits(c, p, cpu[c], "e_swtch")
    BY <2>1, <2>2, WhereRunning, FitsSame DEF PtableAt, TicksAt, SpinAt, OnAt, SavedAt, Count
  <2>4. Moves(p, "e_swtch")
    BY <1>0, <2>1, WhereRunning DEF TypeOK, ProcInv, Moves, StateAt, PC
  <2> QED
    BY <2>1, <2>2, <2>3, <2>4, MoveIInv, Zenon
<1> QED
  BY <1>1, <1>2, <1>3, <1>4, <1>5, Zenon

\* A system call is made, and sleep() marks its process asleep.
LEMMA PlainIInv ==
  ASSUME IInv, NEW c \in Cpu, NEW p \in Proc, (\E to \in PC : Syscall(c, p, to)) \/ SleepSet(c, p)
  PROVE  IInv'
<1>0. TypeOK /\ ProcInv(p) /\ SleepInv(p)
  BY Zenon DEF IInv
<1>1. ASSUME NEW to \in PC, Syscall(c, p, to) PROVE IInv'
  <2>1. /\ Runs(c, p) /\ pc[p] = "user" /\ to \in {"s_push", "k_push", "e_push"} /\ cpu' = cpu
        /\ pc' = [pc EXCEPT ![p] = to] /\ UNCHANGED <<lock, state, killed, ret, intena, left>>
    BY <1>1, Zenon DEF Syscall, Goto
  <2>2. Fits(c, p, cpu[c], to)
    BY <2>1, WhereRunning, FitsSame, Zenon DEF PtableAt, TicksAt, SpinAt, OnAt, SavedAt, Count
  <2>3. Moves(p, to)
    BY <1>0, <2>1, WhereRunning DEF TypeOK, ProcInv, Moves, StateAt, PC
  <2> QED
    BY <1>0, <2>1, <2>2, <2>3, LockSteps, MoveIInv, Zenon
<1>2. CASE SleepSet(c, p)
  <2>1. /\ Runs(c, p) /\ pc[p] = "sl_set" /\ cpu' = cpu /\ pc' = [pc EXCEPT ![p] = "sl_swtch"]
        /\ state' = [state EXCEPT ![p] = "SLEEPING"] /\ UNCHANGED <<lock, killed, ret, intena, left>>
    BY <1>2, Zenon DEF SleepSet, Goto
  <2>2. Fits(c, p, cpu[c], "sl_swtch")
    BY <2>1, WhereRunning, FitsSame DEF PtableAt, TicksAt, SpinAt, OnAt, SavedAt, Count
  <2>3. Moves(p, "sl_swtch")
    BY <1>0, <2>1, WhereRunning DEF TypeOK, ProcInv, SleepInv, Moves, StateAt, PC
  <2> QED
    BY <1>0, <2>1, <2>2, <2>3, LockSteps, MoveIInv, Zenon
<1> QED
  BY <1>1, <1>2, Zenon

\* release on a CPU that holds a lock: popcli, with the intena in i.
LEMMA PopRunning ==
  ASSUME IInv, NEW c \in Cpu, NEW p \in Proc, Runs(c, p), pc[p] \in PtableAt \cup TicksAt,
         NEW i \in BOOLEAN, NEW r, r = Popcli([cpu[c] EXCEPT !.intena = i])
  PROVE  /\ r \in CpuRecord /\ r.proc = p /\ r.h = "off" /\ r.s = "scan" /\ r.idx = p
         /\ r.ncli = cpu[c].ncli - 1 /\ r.intena = i
         /\ r.if <=> cpu[c].ncli = 1 /\ i
<1> DEFINE q == [cpu[c] EXCEPT !.intena = i]
<1>1. /\ cpu[c] \in CpuRecord /\ cpu[c].ncli > 0 /\ ~cpu[c].if /\ cpu[c].proc = p /\ cpu[c].h = "off"
      /\ cpu[c].s = "scan" /\ cpu[c].idx = p
  BY WhereRunning DEF Count, PtableAt, TicksAt
<1>2. /\ q \in CpuRecord /\ q.ncli = cpu[c].ncli /\ q.proc = p /\ q.h = "off"
      /\ q.s = "scan" /\ q.idx = p
  BY <1>1, Zenon DEF CpuRecord
<1>3. q.if = cpu[c].if /\ q.intena = i
  BY <1>1, Zenon DEF CpuRecord
<1> HIDE DEF q
<1>4. q.ncli > 0
  BY <1>1, <1>2, Zenon
<1>5. r = Popcli(q)
  BY Zenon DEF q
<1>6. /\ r \in CpuRecord /\ r.proc = q.proc /\ r.h = q.h /\ r.s = q.s /\ r.idx = q.idx
      /\ r.ncli = q.ncli - 1 /\ r.intena = q.intena
  BY Zenon, <1>2, <1>4, <1>5, PopcliDoes
<1>7. r.if = (q.if \/ (q.ncli = 1 /\ q.intena))
  BY Zenon, <1>2, <1>4, <1>5, PopcliDoes
<1> QED
  BY <1>1, <1>2, <1>3, <1>6, <1>7, Zenon

\* release, without a detour through sched.
LEMMA PopHere ==
  ASSUME IInv, NEW c \in Cpu, NEW p \in Proc, Runs(c, p), pc[p] \in PtableAt \cup TicksAt,
         NEW r, r = Popcli(cpu[c])
  PROVE  /\ r \in CpuRecord /\ r.proc = p /\ r.h = "off" /\ r.s = "scan" /\ r.idx = p
         /\ r.ncli = cpu[c].ncli - 1 /\ r.intena = cpu[c].intena
         /\ r.if <=> cpu[c].ncli = 1 /\ cpu[c].intena
<1> DEFINE i == cpu[c].intena
<1>1. cpu[c] \in CpuRecord
  BY Zenon DEF IInv, TypeOK
<1>2. i \in BOOLEAN
  BY Zenon, <1>1, CpuFields
<1>3. cpu[c] = [cpu[c] EXCEPT !.intena = i]
  BY <1>1, Zenon DEF CpuRecord
<1>4. r = Popcli([cpu[c] EXCEPT !.intena = i])
  BY Zenon, <1>3
<1> HIDE DEF i
<1>5. /\ r \in CpuRecord /\ r.proc = p /\ r.h = "off" /\ r.s = "scan" /\ r.idx = p
      /\ r.ncli = cpu[c].ncli - 1 /\ r.intena = i
      /\ r.if <=> cpu[c].ncli = 1 /\ i
  BY <1>2, <1>4, PopRunning
<1> QED
  BY Zenon, <1>5 DEF i

\* sti, or the return from an interrupt.
LEMMA IfOn ==
  ASSUME NEW r \in CpuRecord
  PROVE  /\ [r EXCEPT !.if = TRUE] \in CpuRecord
         /\ [r EXCEPT !.if = TRUE].if
         /\ [r EXCEPT !.if = TRUE].ncli = r.ncli /\ [r EXCEPT !.if = TRUE].intena = r.intena
         /\ [r EXCEPT !.if = TRUE].proc = r.proc /\ [r EXCEPT !.if = TRUE].h = r.h
         /\ [r EXCEPT !.if = TRUE].s = r.s /\ [r EXCEPT !.if = TRUE].idx = r.idx
BY Zenon DEF CpuRecord

\* A release that stays in the kernel or returns to user space: of ptable.lock
\* by forkret and kill, of tickslock by sleep.
LEMMA ReleaseIInv ==
  ASSUME IInv, NEW c \in Cpu, NEW p \in Proc, ForkRet(c, p) \/ KillRelease(c, p) \/ SleepRelease(c, p)
  PROVE  IInv'
<1> DEFINE r == Popcli(cpu[c])
<1>0. TypeOK /\ ProcInv(p) /\ SleepInv(p)
  BY Zenon DEF IInv
<1>1. CASE KillRelease(c, p)
  <2>1. /\ Runs(c, p) /\ pc[p] = "k_rel" /\ Drop("ptable") /\ cpu' = [cpu EXCEPT ![c] = r]
        /\ pc' = [pc EXCEPT ![p] = ToUser(p)] /\ UNCHANGED <<state, killed, ret, intena, left>>
    BY <1>1, Zenon DEF KillRelease, Goto
  <2>2. /\ r \in CpuRecord /\ r.proc = p /\ r.h = "off" /\ r.s = "scan" /\ r.idx = p
        /\ r.ncli = cpu[c].ncli - 1 /\ (r.if <=> cpu[c].ncli = 1 /\ cpu[c].intena)
    <3>1. pc[p] \in PtableAt \cup TicksAt
      BY <2>1, Zenon DEF PtableAt
    <3> QED
      BY <2>1, <3>1, PopHere
  <2> HIDE DEF r
  <2>3. OwnLocks(c) /\ lock'["ptable"] # c /\ lock'["ticks"] = lock["ticks"]
    BY <1>0, <2>1, WhereRunning, LockSteps DEF PtableAt
  <2>4. ToUser(p) \in {"user", "e_push"}
    BY Zenon DEF ToUser
  <2>5. Fits(c, p, r, ToUser(p))
    BY <2>1, <2>2, <2>3, <2>4, WhereRunning DEF Fits, PtableAt, TicksAt, SpinAt, OnAt, SavedAt, Count
  <2>6. Moves(p, ToUser(p))
    BY <1>0, <2>1, <2>4, WhereRunning, Zenon DEF TypeOK, ProcInv, Moves, StateAt, PC
  <2> QED
    BY <2>1, <2>3, <2>5, <2>6, MoveIInv, Zenon
<1>2. CASE SleepRelease(c, p)
  <2>1. /\ Runs(c, p) /\ pc[p] = "sl_rel" /\ Drop("ticks") /\ cpu' = [cpu EXCEPT ![c] = r]
        /\ pc' = [pc EXCEPT ![p] = "sl_set"] /\ UNCHANGED <<state, killed, ret, intena, left>>
    BY <1>2, Zenon DEF SleepRelease, Goto
  <2>2. /\ r \in CpuRecord /\ r.proc = p /\ r.h = "off" /\ r.s = "scan" /\ r.idx = p /\ r.intena = cpu[c].intena
        /\ r.ncli = cpu[c].ncli - 1 /\ (r.if <=> cpu[c].ncli = 1 /\ cpu[c].intena)
    <3>1. pc[p] \in PtableAt \cup TicksAt
      BY <2>1, Zenon DEF PtableAt
    <3> QED
      BY <2>1, <3>1, PopHere
  <2> HIDE DEF r
  <2>3. OwnLocks(c) /\ lock'["ticks"] # c /\ lock'["ptable"] = lock["ptable"]
    BY <1>0, <2>1, WhereRunning, LockSteps DEF TicksAt
  <2>4. Fits(c, p, r, "sl_set")
    BY <2>1, <2>2, <2>3, WhereRunning DEF Fits, PtableAt, TicksAt, SpinAt, OnAt, SavedAt, Count
  <2>5. Moves(p, "sl_set")
    BY <1>0, <2>1, WhereRunning DEF TypeOK, ProcInv, SleepInv, Moves, StateAt, PC
  <2> QED
    BY <2>1, <2>3, <2>4, <2>5, MoveIInv, Zenon
<1>3. CASE ForkRet(c, p)
  <2> DEFINE on == [r EXCEPT !.if = TRUE]
  <2>1. /\ Runs(c, p) /\ pc[p] = "f_ret" /\ Drop("ptable") /\ cpu' = [cpu EXCEPT ![c] = on]
        /\ pc' = [pc EXCEPT ![p] = "user"] /\ UNCHANGED <<state, killed, ret, intena, left>>
    BY <1>3, Zenon DEF ForkRet, Goto
  <2>2. /\ r \in CpuRecord /\ r.proc = p /\ r.h = "off" /\ r.s = "scan" /\ r.idx = p /\ r.ncli = cpu[c].ncli - 1
    <3>1. pc[p] \in PtableAt \cup TicksAt
      BY <2>1, Zenon DEF PtableAt
    <3> QED
      BY <2>1, <3>1, PopHere
  <2>3. on \in CpuRecord /\ on.proc = p /\ on.h = "off" /\ on.s = "scan" /\ on.idx = p /\ on.ncli = cpu[c].ncli - 1 /\ on.if
    BY <2>2, IfOn, Zenon
  <2> HIDE DEF r, on
  <2>4. OwnLocks(c) /\ lock'["ptable"] # c /\ lock'["ticks"] = lock["ticks"]
    BY <1>0, <2>1, WhereRunning, LockSteps DEF PtableAt
  <2>5. Fits(c, p, on, "user")
    BY <2>1, <2>3, <2>4, WhereRunning DEF Fits, PtableAt, TicksAt, SpinAt, OnAt, SavedAt, Count
  <2>6. Moves(p, "user")
    BY <1>0, <2>1, WhereRunning, Zenon DEF TypeOK, ProcInv, Moves, StateAt, PC
  <2> QED
    BY <2>1, <2>4, <2>5, <2>6, MoveIInv, Zenon
<1> QED
  BY <1>1, <1>2, <1>3, Zenon

\* sys_sleep goes on to sleep with both locks counted, or returns.
LEMMA SysSleepTestIInv ==
  ASSUME IInv, NEW c \in Cpu, NEW p \in Proc, SysSleepTest(c, p)
  PROVE  IInv'
<1>0. /\ TypeOK /\ ProcInv(p) /\ SleepInv(p)
      /\ Runs(c, p) /\ pc[p] = "s_test" /\ UNCHANGED <<state, killed, ret, intena>>
  BY Zenon DEF IInv, SysSleepTest
<1>1. CASE left[p] > 0 /\ ~killed[p]
  <2> DEFINE r == Pushcli(cpu[c])
  <2>1. cpu' = [cpu EXCEPT ![c] = r] /\ pc' = [pc EXCEPT ![p] = "sl_spin"] /\ UNCHANGED <<lock, left>>
    BY <1>1, Zenon DEF SysSleepTest, Goto
  <2>2. cpu[c] \in CpuRecord /\ cpu[c].ncli = 1 /\ cpu[c].ncli < 2 /\ cpu[c].ncli # 0
    BY <1>0, WhereRunning DEF PtableAt, TicksAt, SpinAt, Count
  <2>3. /\ r \in CpuRecord /\ r.proc = cpu[c].proc /\ r.h = cpu[c].h /\ r.s = cpu[c].s /\ r.idx = cpu[c].idx
        /\ r.ncli = cpu[c].ncli + 1 /\ r.if = FALSE /\ r.intena = cpu[c].intena
    BY Zenon, <2>2, PushcliDoes
  <2> HIDE DEF r
  <2>4. Fits(c, p, r, "sl_spin")
    BY <1>0, <2>1, <2>2, <2>3, WhereRunning DEF Fits, PtableAt, TicksAt, SpinAt, OnAt, SavedAt, Count
  <2>5. Moves(p, "sl_spin")
    BY <1>0, <1>1, <2>1, WhereRunning, Zenon DEF TypeOK, ProcInv, Moves, StateAt, PC
  <2> QED
    BY <1>0, <2>1, <2>4, <2>5, LockSteps, MoveIInv, Zenon
<1>2. CASE ~(left[p] > 0 /\ ~killed[p])
  <2> DEFINE r == Popcli(cpu[c])
  <2>1. /\ Drop("ticks") /\ cpu' = [cpu EXCEPT ![c] = r] /\ pc' = [pc EXCEPT ![p] = ToUser(p)]
        /\ left' = [left EXCEPT ![p] = 0]
    BY <1>2, Zenon DEF SysSleepTest, Goto
  <2>2. /\ r \in CpuRecord /\ r.proc = p /\ r.h = "off" /\ r.s = "scan" /\ r.idx = p
        /\ r.ncli = cpu[c].ncli - 1 /\ (r.if <=> cpu[c].ncli = 1 /\ cpu[c].intena)
    <3>1. pc[p] \in PtableAt \cup TicksAt
      BY <1>0, Zenon DEF TicksAt
    <3> QED
      BY <1>0, <3>1, PopHere
  <2> HIDE DEF r
  <2>3. OwnLocks(c) /\ lock'["ticks"] # c /\ lock'["ptable"] = lock["ptable"]
    BY <1>0, <2>1, WhereRunning, LockSteps DEF TicksAt
  <2>4. ToUser(p) \in {"user", "e_push"}
    BY Zenon DEF ToUser
  <2>5. Fits(c, p, r, ToUser(p))
    BY <1>0, <2>1, <2>2, <2>3, <2>4, WhereRunning DEF Fits, PtableAt, TicksAt, SpinAt, OnAt, SavedAt, Count
  <2>6. Moves(p, ToUser(p))
    BY <1>0, <2>1, <2>4, WhereRunning, SleepConstants DEF TypeOK, ProcInv, Moves, StateAt, PC
  <2> QED
    BY <1>0, <2>3, <2>5, <2>6, MoveIInv, Zenon
<1> QED
  BY <1>1, <1>2, Zenon

\* Back from sched, with the intena of the process: sleep() goes on, and yield
\* returns to where the timer interrupted it.
LEMMA BackIInv ==
  ASSUME IInv, NEW c \in Cpu, NEW p \in Proc, SleepBack(c, p) \/ YieldBack(c, p)
  PROVE  IInv'
<1> DEFINE r == Resume(c, p)
           on == [r EXCEPT !.if = TRUE]
<1>0. /\ TypeOK /\ ProcInv(p) /\ SleepInv(p) /\ intena[p] \in BOOLEAN
      /\ Runs(c, p) /\ pc[p] \in {"sl_back", "y_back"} /\ Drop("ptable")
      /\ intena' = [intena EXCEPT ![p] = FALSE] /\ UNCHANGED <<state, killed, left>>
  BY Zenon DEF IInv, TypeOK, SleepBack, YieldBack
<1>1. /\ r \in CpuRecord /\ r.proc = p /\ r.h = "off" /\ r.s = "scan" /\ r.idx = p /\ r.ncli = cpu[c].ncli - 1
      /\ r.if <=> cpu[c].ncli = 1 /\ intena[p]
  BY <1>0, PopRunning DEF PtableAt, Resume
<1>2. on \in CpuRecord /\ on.proc = p /\ on.h = "off" /\ on.s = "scan" /\ on.idx = p /\ on.ncli = cpu[c].ncli - 1 /\ on.if
  BY <1>1, IfOn, Zenon
<1>3. OwnLocks(c) /\ lock'["ptable"] # c /\ lock'["ticks"] = lock["ticks"]
  BY <1>0, WhereRunning, LockSteps DEF PtableAt
<1> HIDE DEF r, on
<1>4. CASE SleepBack(c, p)
  <2>1. pc[p] = "sl_back" /\ cpu' = [cpu EXCEPT ![c] = r] /\ pc' = [pc EXCEPT ![p] = "r_push"] /\ ret' = ret /\ intena[p]
    BY <1>0, <1>4, Zenon DEF SleepBack, Goto, ProcInv, r
  <2>2. Fits(c, p, r, "r_push")
    BY <1>0, <1>1, <1>3, <2>1, WhereRunning DEF Fits, PtableAt, TicksAt, SpinAt, OnAt, SavedAt, Count
  <2>3. Moves(p, "r_push")
    BY <1>0, <2>1, WhereRunning DEF TypeOK, ProcInv, Moves, StateAt, PC
  <2> QED
    BY <1>0, <1>3, <2>2, <2>3, MoveIInv, Zenon
<1>5. CASE YieldBack(c, p) /\ ret[p] = "user" /\ killed[p]
  <2>1. pc[p] = "y_back" /\ cpu' = [cpu EXCEPT ![c] = r] /\ pc' = [pc EXCEPT ![p] = "e_push"] /\ ret' = [ret EXCEPT ![p] = "user"]
    BY <1>5, Zenon DEF YieldBack, Goto, r
  <2>2. Fits(c, p, r, "e_push")
    BY <1>0, <1>1, <1>3, <2>1, WhereRunning DEF Fits, PtableAt, TicksAt, SpinAt, OnAt, SavedAt, Count
  <2>3. Moves(p, "e_push")
    BY <1>0, <2>1, WhereRunning DEF TypeOK, Moves, StateAt, PC, KernelAt
  <2> QED
    BY <1>0, <1>3, <2>2, <2>3, MoveIInv, Zenon
<1>6. CASE YieldBack(c, p) /\ ~(ret[p] = "user" /\ killed[p])
  <2>1. pc[p] = "y_back" /\ cpu' = [cpu EXCEPT ![c] = on] /\ pc' = [pc EXCEPT ![p] = ret[p]] /\ ret' = [ret EXCEPT ![p] = "user"]
    BY <1>6, Zenon DEF YieldBack, Goto, r, on
  <2>2. ret[p] \in {"user", "s_push", "r_push", "k_push", "e_push"}
    BY <1>0, Zenon DEF ProcInv, KernelAt
  <2>3. Fits(c, p, on, ret[p])
    BY <1>0, <1>2, <1>3, <2>1, <2>2, WhereRunning DEF Fits, PtableAt, TicksAt, SpinAt, OnAt, SavedAt, Count
  <2>4. Moves(p, ret[p])
    BY <1>0, <2>1, <2>2, WhereRunning DEF TypeOK, Moves, StateAt, PC, KernelAt
  <2> QED
    BY <1>0, <1>3, <2>3, <2>4, MoveIInv, Zenon
<1> QED
  BY <1>4, <1>5, <1>6, Zenon
=============================================================================
