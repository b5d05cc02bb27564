----------------------------- MODULE AtomicDisk -----------------------------
(***************************************************************************)
(* What the log promises to the file system above it, with no log in it.   *)
(*                                                                         *)
(* A disk with crash-atomic transactions: at most one process is inside a  *)
(* transaction, its writes are visible to every reader at once, they reach *)
(* stable storage all together in one step, and they have done so before   *)
(* the transaction ends.  A crash falls back to the last stable contents.  *)
(***************************************************************************)
CONSTANTS Proc,     \* the processes that make file system calls
          Sector,   \* the sectors the file system addresses
          Data,     \* the contents a sector can have
          NoProc    \* nobody is in a transaction

VARIABLES stable,   \* the contents a crash at this moment would leave
          view,     \* the contents a reader sees at this moment
          owner     \* the process inside a transaction

vars == <<stable, view, owner>>

Init == /\ stable \in [Sector -> Data]
        /\ view = stable
        /\ owner = NoProc

Begin(p) == /\ owner = NoProc
            /\ owner' = p
            /\ UNCHANGED <<stable, view>>

Write(p, s, d) == /\ owner = p
                  /\ view' = [view EXCEPT ![s] = d]
                  /\ UNCHANGED <<stable, owner>>

\* All the writes of the transaction become stable in this one step.
Commit(p) == /\ owner = p
             /\ stable' = view
             /\ UNCHANGED <<view, owner>>

\* A transaction ends only when everything it wrote is stable.
End(p) == /\ owner = p
          /\ stable = view
          /\ owner' = NoProc
          /\ UNCHANGED <<stable, view>>

Crash == /\ view' = stable
         /\ owner' = NoProc
         /\ UNCHANGED stable

Next == \/ \E p \in Proc : Begin(p) \/ Commit(p) \/ End(p)
        \/ \E p \in Proc, s \in Sector, d \in Data : Write(p, s, d)
        \/ Crash

Spec == Init /\ [][Next]_vars
=============================================================================
