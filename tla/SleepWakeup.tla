---------------------------- MODULE SleepWakeup -----------------------------
(***************************************************************************)
(* sleep() and wakeup() on several CPUs, one step per lock operation:      *)
(* spinlock.c (acquire, release, pushcli, popcli), the scheduler, sched,   *)
(* yield, sleep, wakeup, kill and exit of proc.c, the timer interrupt of   *)
(* trap.c that counts ticks, and sys_sleep, which waits for them.          *)
(*                                                                         *)
(* A CPU executes its interrupt handler if it is in one, else the process  *)
(* it has switched to, else its scheduler loop.  Other modules take "give  *)
(* the lock up and sleep" for one step; here it is several.                *)
(***************************************************************************)
EXTENDS Naturals, FiniteSets

CONSTANTS Cpu,
          Cpu0,     \* the CPU whose timer interrupts count ticks
          NPROC,    \* slots of the process table, all in use
          MaxSleep, \* longest sys_sleep
          Free      \* nobody holds the lock

ASSUME SleepConstants == /\ Cpu0 \in Cpu
                         /\ Free \notin Cpu
                         /\ NPROC \in Nat \ {0}
                         /\ MaxSleep \in Nat \ {0}

Proc == 1 .. NPROC
NoProc == 0

VARIABLES cpu,     \* struct cpu: FL_IF, ncli, intena, proc, and where its
                   \* handler (h) and its scheduler (s, idx) are
          lock,    \* the holder of ptable.lock and of tickslock
          state,   \* p->state; every sleeper sleeps on &ticks
          killed,  \* p->killed
          pc,      \* where each process is in the kernel
          ret,     \* where a process was when the timer interrupted it
          intena,  \* sched()'s saved copy of cpu->intena, while it is away
          left     \* max(0, n - (ticks - ticks0)) in sys_sleep

vars == <<cpu, lock, state, killed, pc, ret, intena, left>>

\* x_push and x_spin are the two halves of an acquire: pushcli, then the
\* loop on xchg; x_swtch is the call of sched.  f: forkret, s: sys_sleep,
\* sl: sleep, r: sleep after the wakeup, y: yield, k: kill, e: exit.
PC == {"f_ret", "user", "s_push", "s_spin", "s_test",
       "sl_spin", "sl_rel", "sl_set", "sl_swtch", "sl_back", "r_push", "r_spin",
       "y_push", "y_spin", "y_swtch", "y_back",
       "k_push", "k_spin", "k_rel", "e_push", "e_spin", "e_swtch", "gone"}

CpuRecord == [if : BOOLEAN, ncli : 0 .. 2, intena : BOOLEAN, proc : Proc \cup {NoProc},
              h : {"off", "push", "spin", "tick", "wspin", "wrel", "rel", "eoi"},
              s : {"sti", "push", "spin", "scan"}, idx : 1 .. NPROC + 1]

TypeOK ==
  /\ cpu \in [Cpu -> CpuRecord]
  /\ lock \in [{"ptable", "ticks"} -> Cpu \cup {Free}]
  /\ state \in [Proc -> {"SLEEPING", "RUNNABLE", "RUNNING", "ZOMBIE"}]
  /\ killed \in [Proc -> BOOLEAN]
  /\ pc \in [Proc -> PC]
  /\ ret \in [Proc -> PC]
  /\ intena \in [Proc -> BOOLEAN]
  /\ left \in [Proc -> 0 .. MaxSleep]

\* Processes just forked, CPUs about to enter scheduler().
Init == /\ cpu = [c \in Cpu |-> [if |-> FALSE, ncli |-> 0, intena |-> FALSE,
                                 proc |-> NoProc, h |-> "off", s |-> "sti", idx |-> 1]]
        /\ lock = [l \in {"ptable", "ticks"} |-> Free]
        /\ state = [p \in Proc |-> "RUNNABLE"]
        /\ killed = [p \in Proc |-> FALSE]
        /\ pc = [p \in Proc |-> "f_ret"]
        /\ ret = [p \in Proc |-> "user"]
        /\ intena = [p \in Proc |-> FALSE]
        /\ left = [p \in Proc |-> 0]

-----------------------------------------------------------------------------
(* spinlock.c on one CPU's record.                                          *)

Pushcli(r) == [r EXCEPT !.if = FALSE, !.ncli = @ + 1,
                        !.intena = IF r.ncli = 0 THEN r.if ELSE @]

Popcli(r) == [r EXCEPT !.ncli = @ - 1,
                       !.if = @ \/ (r.ncli = 1 /\ r.intena)]

\* while(xchg(&lk->locked, 1) != 0): leaves the loop when the lock is free.
\* (Named for what they get wrong, TakeAnyway and the like are mutations.)
TakeAnyway(c, l) == lock' = [lock EXCEPT ![l] = c]

Take(c, l) == /\ lock[l] = Free
              /\ lock' = [lock EXCEPT ![l] = c]

Drop(l) == lock' = [lock EXCEPT ![l] = Free]

-----------------------------------------------------------------------------
(* The process CPU c is executing, if it is not in a handler.               *)

Runs(c, p) == cpu[c].h = "off" /\ cpu[c].proc = p

Goto(p, l) == pc' = [pc EXCEPT ![p] = l]

\* pushcli of an acquire.
Push(c, p, from, to) ==
  /\ Runs(c, p) /\ pc[p] = from
  /\ cpu' = [cpu EXCEPT ![c] = Pushcli(@)]
  /\ Goto(p, to)
  /\ UNCHANGED <<lock, state, killed, ret, intena, left>>

\* An acquire's loop ends: the process has the lock lk.
Taken(c, p, from, lk, to) ==
  /\ Runs(c, p) /\ pc[p] = from
  /\ Take(c, lk)
  /\ Goto(p, to)

\* Back from sched(): cpu->intena is the process's own again, and the code
\* after it releases ptable.lock.
ResumeForgets(c, p) == Popcli(cpu[c])

Resume(c, p) == Popcli([cpu[c] EXCEPT !.intena = intena[p]])

\* Return to user space from a system call: a killed process exits instead.
ToUser(p) == IF killed[p] THEN "e_push" ELSE "user"

ForkRet(c, p) ==
  /\ Runs(c, p) /\ pc[p] = "f_ret"
  /\ Drop("ptable")
  /\ cpu' = [cpu EXCEPT ![c] = [Popcli(@) EXCEPT !.if = TRUE]]
  /\ Goto(p, "user")
  /\ UNCHANGED <<state, killed, ret, intena, left>>

\* A system call: sys_sleep, kill, or exit because the process was killed.
Syscall(c, p, to) ==
  /\ Runs(c, p) /\ pc[p] = "user"
  /\ to \in IF killed[p] THEN {"e_push"} ELSE {"s_push", "k_push", "e_push"}
  /\ Goto(p, to)
  /\ UNCHANGED <<cpu, lock, state, killed, ret, intena, left>>

-----------------------------------------------------------------------------
(* sys_sleep                                                                *)

SysSleepTake(c, p, n) ==
  /\ Taken(c, p, "s_spin", "ticks", "s_test")
  /\ left' = [left EXCEPT ![p] = n]
  /\ UNCHANGED <<cpu, state, killed, ret, intena>>

\* The while loop's test, with tickslock held: return, or call sleep, which
\* begins with pushcli of its acquire(&ptable.lock).
SysSleepTest(c, p) ==
  /\ Runs(c, p) /\ pc[p] = "s_test"
  /\ IF left[p] > 0 /\ ~killed[p]
     THEN /\ cpu' = [cpu EXCEPT ![c] = Pushcli(@)]
          /\ Goto(p, "sl_spin")
          /\ UNCHANGED <<lock, left>>
     ELSE /\ Drop("ticks")
          /\ cpu' = [cpu EXCEPT ![c] = Popcli(@)]
          /\ Goto(p, ToUser(p))
          /\ left' = [left EXCEPT ![p] = 0]
  /\ UNCHANGED <<state, killed, ret, intena>>

-----------------------------------------------------------------------------
(* sleep(&ticks, &tickslock)                                                *)

SleepTake(c, p) ==
  /\ Taken(c, p, "sl_spin", "ptable", "sl_rel")
  /\ UNCHANGED <<cpu, state, killed, ret, intena, left>>

SleepRelease(c, p) ==
  /\ Runs(c, p) /\ pc[p] = "sl_rel"
  /\ Drop("ticks")
  /\ cpu' = [cpu EXCEPT ![c] = Popcli(@)]
  /\ Goto(p, "sl_set")
  /\ UNCHANGED <<state, killed, ret, intena, left>>

SleepSet(c, p) ==
  /\ Runs(c, p) /\ pc[p] = "sl_set"
  /\ state' = [state EXCEPT ![p] = "SLEEPING"]
  /\ Goto(p, "sl_swtch")
  /\ UNCHANGED <<cpu, lock, killed, ret, intena, left>>

\* Scheduled again: release(&ptable.lock), then acquire(&tickslock).
SleepBack(c, p) ==
  /\ Runs(c, p) /\ pc[p] = "sl_back"
  /\ Drop("ptable")
  /\ cpu' = [cpu EXCEPT ![c] = Resume(c, p)]
  /\ intena' = [intena EXCEPT ![p] = FALSE]
  /\ Goto(p, "r_push")
  /\ UNCHANGED <<state, killed, ret, left>>

SleepRetake(c, p) ==
  /\ Taken(c, p, "r_spin", "ticks", "s_test")
  /\ UNCHANGED <<cpu, state, killed, ret, intena, left>>

-----------------------------------------------------------------------------
(* sched: save cpu->intena and swtch to the scheduler, which goes on with   *)
(* its scan and still holds ptable.lock.                                    *)

BackAt == [sl_swtch |-> "sl_back", y_swtch |-> "y_back", e_swtch |-> "gone"]

Swtch(c, p) ==
  /\ Runs(c, p) /\ pc[p] \in DOMAIN BackAt
  /\ intena' = [intena EXCEPT ![p] = cpu[c].intena]
  /\ cpu' = [cpu EXCEPT ![c].proc = NoProc, ![c].idx = @ + 1]
  /\ Goto(p, BackAt[pc[p]])
  /\ UNCHANGED <<lock, state, killed, ret, left>>

-----------------------------------------------------------------------------
(* yield, called from the timer interrupt, and the return from the trap.    *)

YieldTake(c, p) ==
  /\ Taken(c, p, "y_spin", "ptable", "y_swtch")
  /\ state' = [state EXCEPT ![p] = "RUNNABLE"]
  /\ UNCHANGED <<cpu, killed, ret, intena, left>>

YieldBack(c, p) ==
  /\ Runs(c, p) /\ pc[p] = "y_back"
  /\ Drop("ptable")
  /\ IF ret[p] = "user" /\ killed[p]
     THEN /\ cpu' = [cpu EXCEPT ![c] = Resume(c, p)]
          /\ Goto(p, "e_push")
     ELSE /\ cpu' = [cpu EXCEPT ![c] = [Resume(c, p) EXCEPT !.if = TRUE]]
          /\ Goto(p, ret[p])
  /\ ret' = [ret EXCEPT ![p] = "user"]
  /\ intena' = [intena EXCEPT ![p] = FALSE]
  /\ UNCHANGED <<state, killed, left>>

-----------------------------------------------------------------------------
(* kill and exit                                                            *)

Killed(q) ==
  /\ killed' = [killed EXCEPT ![q] = TRUE]
  /\ state' = [state EXCEPT ![q] = IF @ = "SLEEPING" THEN "RUNNABLE" ELSE @]

KillTake(c, p, q) ==
  /\ Taken(c, p, "k_spin", "ptable", "k_rel")
  /\ Killed(q)
  /\ UNCHANGED <<cpu, ret, intena, left>>

\* kill by a process on a CPU that is not in Cpu, seen from here.
KillElsewhere(q) ==
  /\ lock["ptable"] = Free
  /\ Killed(q)
  /\ UNCHANGED <<cpu, lock, pc, ret, intena, left>>

KillRelease(c, p) ==
  /\ Runs(c, p) /\ pc[p] = "k_rel"
  /\ Drop("ptable")
  /\ cpu' = [cpu EXCEPT ![c] = Popcli(@)]
  /\ Goto(p, ToUser(p))
  /\ UNCHANGED <<state, killed, ret, intena, left>>

ExitTake(c, p) ==
  /\ Taken(c, p, "e_spin", "ptable", "e_swtch")
  /\ state' = [state EXCEPT ![p] = "ZOMBIE"]
  /\ UNCHANGED <<cpu, killed, ret, intena, left>>

PushOf == [s_push |-> "s_spin", r_push |-> "r_spin", y_push |-> "y_spin",
           k_push |-> "k_spin", e_push |-> "e_spin"]

Process(c, p) ==
  \/ pc[p] \in DOMAIN PushOf /\ Push(c, p, pc[p], PushOf[pc[p]])
  \/ ForkRet(c, p)
  \/ SysSleepTest(c, p)
  \/ \E n \in 0 .. MaxSleep : SysSleepTake(c, p, n)
  \/ SleepTake(c, p) \/ SleepRelease(c, p) \/ SleepSet(c, p)
  \/ SleepBack(c, p) \/ SleepRetake(c, p)
  \/ Swtch(c, p)
  \/ YieldTake(c, p) \/ YieldBack(c, p)
  \/ \E q \in Proc : KillTake(c, p, q)
  \/ KillRelease(c, p) \/ ExitTake(c, p)

-----------------------------------------------------------------------------
(* scheduler(): the loop of a CPU that runs no process.                     *)

Idle(c) == cpu[c].h = "off" /\ cpu[c].proc = NoProc

SchedSti(c) ==
  /\ Idle(c) /\ cpu[c].s = "sti"
  /\ cpu' = [cpu EXCEPT ![c].if = TRUE, ![c].s = "push"]
  /\ UNCHANGED <<lock, state, killed, pc, ret, intena, left>>

SchedPush(c) ==
  /\ Idle(c) /\ cpu[c].s = "push"
  /\ cpu' = [cpu EXCEPT ![c] = [Pushcli(@) EXCEPT !.s = "spin"]]
  /\ UNCHANGED <<lock, state, killed, pc, ret, intena, left>>

SchedTake(c) ==
  /\ Idle(c) /\ cpu[c].s = "spin"
  /\ Take(c, "ptable")
  /\ cpu' = [cpu EXCEPT ![c].s = "scan", ![c].idx = 1]
  /\ UNCHANGED <<state, killed, pc, ret, intena, left>>

\* The for loop over the table, and release when it is over.
SchedScan(c) ==
  /\ Idle(c) /\ cpu[c].s = "scan"
  /\ LET p == cpu[c].idx
     IN \/ /\ p \in Proc /\ state[p] = "RUNNABLE"
           /\ cpu' = [cpu EXCEPT ![c].proc = p]
           /\ state' = [state EXCEPT ![p] = "RUNNING"]
           /\ UNCHANGED lock
        \/ /\ p \in Proc /\ state[p] # "RUNNABLE"
           /\ cpu' = [cpu EXCEPT ![c].idx = @ + 1]
           /\ UNCHANGED <<lock, state>>
        \/ /\ p \notin Proc
           /\ Drop("ptable")
           /\ cpu' = [cpu EXCEPT ![c] = [Popcli(@) EXCEPT !.s = "sti"]]
           /\ UNCHANGED state
  /\ UNCHANGED <<killed, pc, ret, intena, left>>

Scheduler(c) == SchedSti(c) \/ SchedPush(c) \/ SchedTake(c) \/ SchedScan(c)

-----------------------------------------------------------------------------
(* trap(): the timer interrupt, taken when FL_IF is set; it clears FL_IF.   *)

Timer(c) ==
  /\ cpu[c].h = "off" /\ cpu[c].if
  /\ cpu' = [cpu EXCEPT ![c].if = FALSE,
                        ![c].h = IF c = Cpu0 THEN "push" ELSE "eoi"]
  /\ UNCHANGED <<lock, state, killed, pc, ret, intena, left>>

IntrPush(c) ==
  /\ cpu[c].h = "push"
  /\ cpu' = [cpu EXCEPT ![c] = [Pushcli(@) EXCEPT !.h = "spin"]]
  /\ UNCHANGED <<lock, state, killed, pc, ret, intena, left>>

IntrTake(c) ==
  /\ cpu[c].h = "spin"
  /\ Take(c, "ticks")
  /\ cpu' = [cpu EXCEPT ![c].h = "tick"]
  /\ UNCHANGED <<state, killed, pc, ret, intena, left>>

\* ticks++, then pushcli of wakeup's acquire(&ptable.lock).
IntrTick(c) ==
  /\ cpu[c].h = "tick"
  /\ left' = [p \in Proc |-> IF left[p] = 0 THEN 0 ELSE left[p] - 1]
  /\ cpu' = [cpu EXCEPT ![c] = [Pushcli(@) EXCEPT !.h = "wspin"]]
  /\ UNCHANGED <<lock, state, killed, pc, ret, intena>>

\* wakeup1(&ticks)
WakeupNobody == UNCHANGED state

Wakeup1 == state' = [p \in Proc |-> IF state[p] = "SLEEPING" THEN "RUNNABLE" ELSE state[p]]

\* A wakeup that does not wait for ptable.lock.
IntrWakeupUnlocked(c) ==
  /\ cpu[c].h = "wspin"
  /\ Wakeup1
  /\ cpu' = [cpu EXCEPT ![c] = [Popcli(@) EXCEPT !.h = "rel"]]
  /\ UNCHANGED <<lock, killed, pc, ret, intena, left>>

IntrWakeup(c) ==
  /\ cpu[c].h = "wspin"
  /\ Take(c, "ptable")
  /\ Wakeup1
  /\ cpu' = [cpu EXCEPT ![c].h = "wrel"]
  /\ UNCHANGED <<killed, pc, ret, intena, left>>

IntrRelease(c) ==
  /\ \/ /\ cpu[c].h = "wrel"
        /\ Drop("ptable")
        /\ cpu' = [cpu EXCEPT ![c] = [Popcli(@) EXCEPT !.h = "rel"]]
     \/ /\ cpu[c].h = "rel"
        /\ Drop("ticks")
        /\ cpu' = [cpu EXCEPT ![c] = [Popcli(@) EXCEPT !.h = "eoi"]]
  /\ UNCHANGED <<state, killed, pc, ret, intena, left>>

\* The end of trap: exit if killed in user space, yield if a process was
\* interrupted, else return from the interrupt.
IntrEnd(c) ==
  /\ cpu[c].h = "eoi"
  /\ LET p == cpu[c].proc
     IN IF p = NoProc
        THEN /\ cpu' = [cpu EXCEPT ![c].h = "off", ![c].if = TRUE]
             /\ UNCHANGED <<pc, ret>>
        ELSE /\ cpu' = [cpu EXCEPT ![c].h = "off"]
             /\ IF killed[p] /\ pc[p] = "user"
                THEN Goto(p, "e_push") /\ UNCHANGED ret
                ELSE Goto(p, "y_push") /\ ret' = [ret EXCEPT ![p] = pc[p]]
  /\ UNCHANGED <<lock, state, killed, intena, left>>

Handler(c) == \/ IntrPush(c) \/ IntrTake(c) \/ IntrTick(c) \/ IntrWakeup(c)
              \/ IntrRelease(c) \/ IntrEnd(c)

-----------------------------------------------------------------------------
Next == \/ \E c \in Cpu :
             \/ Timer(c) \/ Handler(c) \/ Scheduler(c)
             \/ \E p \in Proc : \/ Process(c, p)
                                \/ \E to \in PC : Syscall(c, p, to)
        \/ \E q \in Proc : KillElsewhere(q)

Spec == Init /\ [][Next]_vars

\* The CPU is in the loop on xchg of some acquire.
Spinning(c) == \/ cpu[c].h \in {"spin", "wspin"}
               \/ Idle(c) /\ cpu[c].s = "spin"
               \/ \E p \in Proc : Runs(c, p) /\ pc[p] \in
                     {"s_spin", "sl_spin", "r_spin", "y_spin", "k_spin", "e_spin"}

Yielding(p) == pc[p] \in {"y_push", "y_spin", "y_swtch", "y_back"}

\* The hardware goes on: a CPU with interrupts off executes, a CPU that spins
\* gets a lock that is free again and again (xchg is fair), and the timers
\* keep interrupting, the one that counts ticks also a CPU that turns its
\* interrupts off now and then.  The timer is slow enough that whatever it
\* interrupts gets its own next step done in between.
Fairness ==
  /\ \A c \in Cpu :
        /\ SF_vars(Spinning(c) /\ (Handler(c) \/ Scheduler(c) \/ \E p \in Proc : Process(c, p)))
        /\ SF_vars(Scheduler(c))
        /\ WF_vars(Handler(c))
        /\ WF_vars(Timer(c))
  /\ SF_vars(Timer(Cpu0))
  /\ \A p \in Proc : /\ WF_vars(Yielding(p) /\ \E c \in Cpu : Process(c, p))
                     /\ SF_vars(~Yielding(p) /\ \E c \in Cpu : Process(c, p))

FairSpec == Spec /\ Fairness

-----------------------------------------------------------------------------
(* The properties.                                                          *)

\* No process is executed by two CPUs: wakeup, kill or yield may make a
\* process RUNNABLE while it is still on its way through sched on its own
\* stack, and no scheduler picks it up before the swtch.
OneCpuPerProcess ==
  \A c, d \in Cpu : c # d /\ cpu[c].proc # NoProc => cpu[c].proc # cpu[d].proc

Held(c) == {l \in DOMAIN lock : lock[l] = c}

\* "disable interrupts to avoid deadlock" (acquire): a CPU that holds or waits
\* for a lock takes no interrupt, and ncli counts exactly those locks,
\* though a process is resumed on another CPU than it left.
LocksKeepInterruptsOff ==
  \A c \in Cpu :
     /\ cpu[c].ncli = Cardinality(Held(c)) + (IF Spinning(c) THEN 1 ELSE 0)
     /\ cpu[c].ncli > 0 => ~cpu[c].if

\* What sched panics about: whoever calls it holds ptable.lock and no other
\* lock, is not RUNNING, and cannot be interrupted.
SchedNeverPanics ==
  \A c \in Cpu, p \in Proc : Runs(c, p) /\ pc[p] \in DOMAIN BackAt =>
     /\ Held(c) = {"ptable"}
     /\ cpu[c].ncli = 1
     /\ state[p] # "RUNNING"
     /\ ~cpu[c].if

\* Interrupts come back: a process in user space, or about to take its first
\* lock in a system call, runs with them on, whatever CPU and whatever other
\* process's intena it went through in between.
InterruptsComeBack ==
  \A c \in Cpu, p \in Proc :
     Runs(c, p) /\ pc[p] \in {"user", "s_push", "r_push", "k_push"} => cpu[c].if

\* Together: pushcli, popcli and sched keep interrupts off exactly as long as
\* the spin locks need it, on every CPU that a process comes through.
InterruptsFollowLocks == LocksKeepInterruptsOff /\ SchedNeverPanics /\ InterruptsComeBack

\* "we can be guaranteed that we won't miss any wakeup" (sleep): a process
\* never sleeps on past its time, unless the tick that ended it is just about
\* to wake it.
NoLostWakeup ==
  \A p \in Proc : state[p] = "SLEEPING" /\ left[p] = 0 =>
     cpu[Cpu0].h = "wspin"

\* Every sys_sleep returns (or its caller exits), whatever CPU the process is
\* moved to while it sleeps and however often it is woken too early.
SleepReturns ==
  \A p \in Proc : pc[p] = "s_test" ~> pc[p] \in {"user", "gone"}

\* A killed process exits, also when kill comes after sys_sleep has tested
\* killed and before it sleeps (sysproc.c:69-73), or when the process is
\* elsewhere in the kernel, where trap lets it go on (trap.c:97-100).
KilledExits ==
  \A p \in Proc : killed[p] ~> pc[p] = "gone"

\* Together: nobody stays in sys_sleep, killed or not.
SleepEnds == SleepReturns /\ KilledExits
-----------------------------------------------------------------------------
(* An inductive invariant, from which the safety properties above follow.   *)

\* Where CPU c is when it is in no handler.
At(c) == IF cpu[c].proc = NoProc THEN cpu[c].s ELSE pc[cpu[c].proc]

\* With ptable.lock, with tickslock, in the loop of an acquire, with no lock.
PtableAt == {"scan", "f_ret", "sl_rel", "sl_set", "sl_swtch", "sl_back", "y_swtch", "y_back", "k_rel", "e_swtch"}
TicksAt == {"s_test", "sl_spin", "sl_rel"}
SpinAt == {"spin", "s_spin", "sl_spin", "r_spin", "y_spin", "k_spin", "e_spin"}
KernelAt == {"user", "s_push", "r_push", "k_push", "e_push"}

\* With interrupts on, and where popcli will turn them on again.
OnAt == {"user", "s_push", "r_push", "k_push"}
SavedAt == {"s_spin", "s_test", "sl_spin", "sl_rel", "sl_set", "sl_swtch", "k_spin", "k_rel", "r_spin"}

HasPtable(c) == cpu[c].h = "wrel" \/ (cpu[c].h = "off" /\ At(c) \in PtableAt)
HasTicks(c) == cpu[c].h \in {"tick", "wspin", "wrel", "rel"} \/ (cpu[c].h = "off" /\ At(c) \in TicksAt)
Spins(c) == cpu[c].h \in {"spin", "wspin"} \/ (cpu[c].h = "off" /\ At(c) \in SpinAt)
Count(b) == IF b THEN 1 ELSE 0

\* The locks and interrupts of one CPU are those of the place where it is.
CpuInv(c) ==
  /\ lock["ptable"] = c <=> HasPtable(c)
  /\ lock["ticks"] = c <=> HasTicks(c)
  /\ cpu[c].ncli = Count(HasPtable(c)) + Count(HasTicks(c)) + Count(Spins(c))
  /\ cpu[c].ncli > 0 => ~cpu[c].if
  /\ cpu[c].h # "off" => ~cpu[c].if /\ At(c) \in KernelAt \cup {"sti", "push"}
  /\ cpu[c].h \notin {"off", "eoi"} => c = Cpu0
  /\ cpu[c].h \notin {"off", "push", "eoi"} => ~cpu[c].intena
  /\ cpu[c].proc # NoProc => cpu[c].s = "scan" /\ cpu[c].idx = cpu[c].proc
  /\ cpu[c].h = "off" /\ At(c) \in OnAt => cpu[c].if
  /\ cpu[c].h = "off" /\ At(c) \in SavedAt => cpu[c].intena
  /\ cpu[c].h = "off" /\ At(c) = "y_push" => ~cpu[c].if

\* The state of a process that a CPU has switched to.
StateAt(l) == IF l = "sl_swtch" THEN "SLEEPING" ELSE IF l = "y_swtch" THEN "RUNNABLE"
              ELSE IF l = "e_swtch" THEN "ZOMBIE" ELSE "RUNNING"

\* A process has a CPU, or it waits inside sched or for its first time slice.
ProcInv(p) ==
  /\ \A c \in Cpu : cpu[c].proc = p => state[p] = StateAt(pc[p])
  /\ \/ \E c \in Cpu : cpu[c].proc = p
     \/ pc[p] \in {"f_ret", "y_back"} /\ state[p] = "RUNNABLE"
     \/ pc[p] = "sl_back" /\ state[p] \in {"SLEEPING", "RUNNABLE"}
     \/ pc[p] = "gone" /\ state[p] = "ZOMBIE"
  /\ pc[p] = "sl_back" => intena[p]
  /\ pc[p] = "gone" => state[p] = "ZOMBIE"
  /\ ret[p] \in KernelAt

\* On its way into sleep a process is counted down by tick after tick, and the
\* one that ends its time has yet to wake it.
SleepInv(p) ==
  /\ pc[p] \in {"sl_spin", "sl_rel"} => left[p] > 0
  /\ (pc[p] = "sl_set" \/ state[p] = "SLEEPING") /\ left[p] = 0 => cpu[Cpu0].h = "wspin"

\* Together: what every step of spinlock.c, sched, sleep and wakeup preserves.
IInv == /\ TypeOK
        /\ OneCpuPerProcess
        /\ \A c \in Cpu : CpuInv(c)
        /\ \A p \in Proc : ProcInv(p) /\ SleepInv(p)
=============================================================================
