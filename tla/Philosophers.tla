---------------------------- MODULE Philosophers ----------------------------
(***************************************************************************)
(* The three solutions of mp3/3_philosophers.py, run one at a time: the    *)
(* footman, the left-handed philosopher, and Tanenbaum's with a barrier    *)
(* after each burst of rendezvousPoint meals.                              *)
(***************************************************************************)
EXTENDS Integers, FiniteSets

CONSTANTS NUM_PHILOSOPHERS, NUM_MEALS, Solution

Phil == 0 .. NUM_PHILOSOPHERS - 1
NoOne == -1

VARIABLES solution,      \* footman, left or tanenbaum
          pc, round,     \* of each thread: where it is, meals finished
          forks,         \* who has each fork
          footman,       \* the semaphore
          state, phil, mealsEaten,   \* Tanenbaum's variables
          waiting, leaving           \* the barrier: who waits, who may go on

vars == <<solution, pc, round, forks, footman, state, phil, mealsEaten, waiting, leaving>>
tvars == <<state, phil, mealsEaten, waiting, leaving>>
fvars == <<forks, footman>>

\* The meals after which the philosophers wait for each other.
rendezvousPoint == IF NUM_MEALS >= NUM_PHILOSOPHERS THEN NUM_MEALS \div NUM_PHILOSOPHERS
                   ELSE NUM_PHILOSOPHERS \div NUM_MEALS

left(i) == i
right(i) == (i + 1) % NUM_PHILOSOPHERS
tleft(i) == (i - 1) % NUM_PHILOSOPHERS
tright(i) == (i + 1) % NUM_PHILOSOPHERS

Init == /\ solution \in Solution
        /\ pc = [i \in Phil |-> "start"] /\ round = [i \in Phil |-> 0]
        /\ forks = [f \in Phil |-> NoOne] /\ footman = NUM_PHILOSOPHERS - 1
        /\ state = [i \in Phil |-> "THINKING"] /\ phil = [i \in Phil |-> 0]
        /\ mealsEaten = [i \in Phil |-> 0] /\ waiting = {} /\ leaving = {}

Goto(i, there) == pc' = [pc EXCEPT ![i] = there]
Again(i) == Goto(i, "start") /\ round' = [round EXCEPT ![i] = @ + 1]
At(i, here) == pc[i] = here /\ round[i] < NUM_MEALS /\ UNCHANGED solution

-----------------------------------------------------------------------------
(* Forks: the footman lets all but one in; the last philosopher is the      *)
(* leftie.                                                                  *)

AskFootman == footman > 0

CallFootman(i) ==
  /\ At(i, "start") /\ solution = "footman" /\ AskFootman
  /\ footman' = footman - 1 /\ Goto(i, "hungry")
  /\ UNCHANGED <<round, forks, tvars>>

Sit(i) ==
  /\ At(i, "start") /\ solution = "left" /\ Goto(i, "hungry") /\ UNCHANGED <<round, fvars, tvars>>

Leftie(i) == solution = "left" /\ i = NUM_PHILOSOPHERS - 1

First(i) == IF Leftie(i) THEN left(i) ELSE right(i)
Second(i) == IF Leftie(i) THEN right(i) ELSE left(i)

Acquire(i, f, there) == /\ forks[f] = NoOne /\ forks' = [forks EXCEPT ![f] = i]
                        /\ Goto(i, there) /\ UNCHANGED <<round, footman, tvars>>

get_forks(i) == \/ At(i, "hungry") /\ Acquire(i, First(i), "one fork")
                \/ At(i, "one fork") /\ Acquire(i, Second(i), "eating")

put_forks(i) ==
  /\ At(i, "eating") /\ solution # "tanenbaum"
  /\ forks' = [forks EXCEPT ![left(i)] = NoOne, ![right(i)] = NoOne]
  /\ Goto(i, "leave") /\ UNCHANGED <<round, footman, tvars>>

Leave(i) ==
  /\ At(i, "leave") /\ footman' = footman + (IF solution = "footman" THEN 1 ELSE 0)
  /\ Again(i) /\ UNCHANGED <<forks, tvars>>

-----------------------------------------------------------------------------
(* Tanenbaum.  Each piece between mutex.acquire and release is one step.    *)

IgnoreRight(i, s) == s[i] = "HUNGRY" /\ s[tleft(i)] # "EATING"

MayEat(i, s) == s[i] = "HUNGRY" /\ s[tleft(i)] # "EATING" /\ s[tright(i)] # "EATING"

\* test(i) on <<state, phil>>.
test(i, s) == IF MayEat(i, s[1]) THEN <<[s[1] EXCEPT ![i] = "EATING"], [s[2] EXCEPT ![i] = @ + 1]>> ELSE s

BecomesState(s) == state' = s[1] /\ phil' = s[2]

AtRendezvous(i) == mealsEaten[i] = rendezvousPoint

CheckMeals(i) ==
  /\ At(i, "start") /\ solution = "tanenbaum"
  /\ IF AtRendezvous(i)
     THEN /\ Goto(i, "barrier")
          /\ IF waiting \cup {i} = Phil THEN waiting' = {} /\ leaving' = Phil
             ELSE waiting' = waiting \cup {i} /\ UNCHANGED leaving
     ELSE Goto(i, "get") /\ UNCHANGED <<waiting, leaving>>
  /\ leaving = {} \/ ~AtRendezvous(i)
  /\ UNCHANGED <<round, fvars, state, phil, mealsEaten>>

\* The barrier lets everyone go; then resetMeals.
LeaveBarrier(i) ==
  /\ At(i, "barrier") /\ i \in leaving /\ leaving' = leaving \ {i}
  /\ Goto(i, "reset") /\ UNCHANGED <<round, fvars, state, phil, mealsEaten, waiting>>

resetMeals(i) ==
  /\ At(i, "reset") /\ mealsEaten' = [mealsEaten EXCEPT ![i] = 0] /\ Goto(i, "get")
  /\ UNCHANGED <<round, fvars, state, phil, waiting, leaving>>

tget_forks(i) ==
  \/ /\ At(i, "get") /\ Goto(i, "wait")
     /\ BecomesState(test(i, <<[state EXCEPT ![i] = "HUNGRY"], phil>>))
     /\ UNCHANGED <<round, fvars, mealsEaten, waiting, leaving>>
  \/ /\ At(i, "wait") /\ phil[i] > 0 /\ phil' = [phil EXCEPT ![i] = @ - 1] /\ Goto(i, "eating")
     /\ UNCHANGED <<round, fvars, state, mealsEaten, waiting, leaving>>

TestBoth(i, s) == test(tleft(i), test(tright(i), s))

tput_forks(i) ==
  /\ At(i, "eating") /\ solution = "tanenbaum"
  /\ BecomesState(TestBoth(i, <<[state EXCEPT ![i] = "THINKING"], phil>>))
  /\ mealsEaten' = [mealsEaten EXCEPT ![i] = @ + 1]
  /\ Again(i) /\ UNCHANGED <<fvars, waiting, leaving>>

-----------------------------------------------------------------------------
Step(i) == \/ CallFootman(i) \/ Sit(i) \/ get_forks(i) \/ put_forks(i) \/ Leave(i)
           \/ CheckMeals(i) \/ LeaveBarrier(i) \/ resetMeals(i) \/ tget_forks(i) \/ tput_forks(i)

Next == \E i \in Phil : Step(i)

Spec == Init /\ [][Next]_vars

\* A thread that can go on does so.  Nothing is assumed of who gets a lock.
FairSpec == Spec /\ \A i \in Phil : WF_vars(Step(i))

-----------------------------------------------------------------------------
(* Correctness.                                                             *)

\* The values of the variables.
TypeOK == /\ round \in [Phil -> 0 .. NUM_MEALS] /\ forks \in [Phil -> Phil \cup {NoOne}]
          /\ footman \in 0 .. NUM_PHILOSOPHERS - 1
          /\ state \in [Phil -> {"THINKING", "HUNGRY", "EATING"}]
          /\ phil \in [Phil -> {0, 1}] /\ mealsEaten \in [Phil -> 0 .. rendezvousPoint]
          /\ waiting \subseteq Phil /\ leaving \subseteq Phil

\* Neighbours never eat at the same time, in any of the solutions.
NeighboursApart == \A i \in Phil : pc[i] = "eating" /\ NUM_PHILOSOPHERS > 1 => pc[right(i)] # "eating"

\* "each philosopher can eat at most 'rendezvousPoint' meals before it has to
\* wait for everyone else to eat that many" (lines 26-29): no one gets further
\* ahead than that.
NoOneRunsAhead == solution = "tanenbaum" =>
  \A i, j \in Phil : round[i] <= round[j] + rendezvousPoint

\* All threads finish all their meals, so that join returns: no deadlock, and
\* no one waits at the barrier for a philosopher who has left.
AllMealsEaten == <>(\A i \in Phil : round[i] = NUM_MEALS)
=============================================================================
