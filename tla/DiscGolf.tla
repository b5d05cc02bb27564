------------------------------ MODULE DiscGolf ------------------------------
(***************************************************************************)
(* mp3/1_disc_golf_range.py: frolfers take buckets of discs from a stash   *)
(* and throw them; a cart collects the field when a frolfer finds the      *)
(* stash short.  The cart changes STASH without the lock: the frolfer who  *)
(* called it holds stashLock for it.  Each += and -= of a shared variable  *)
(* is a read and a write.                                                  *)
(***************************************************************************)
EXTENDS Integers, FiniteSetsExt

CONSTANTS Frolfer, Cart, DISCS, BUCKET_SIZE

NoOne == "none"

VARIABLES STASH, discs_on_field,
          stashLock, fieldLock,     \* who holds each
          stashEmpty, stashFull,    \* semaphores
          pc, bucket, tmp           \* of each thread; discs in hand; value read

vars == <<STASH, discs_on_field, stashLock, fieldLock, stashEmpty, stashFull, pc, bucket, tmp>>
sems == <<stashEmpty, stashFull>>
discs == <<STASH, discs_on_field, bucket>>

Init == /\ STASH = DISCS /\ discs_on_field = 0
        /\ stashLock = NoOne /\ fieldLock = NoOne /\ stashEmpty = 0 /\ stashFull = 0
        /\ pc = [t \in Frolfer \cup {Cart} |-> IF t = Cart THEN "idle" ELSE "calling"]
        /\ bucket = [f \in Frolfer |-> 0] /\ tmp = [t \in Frolfer \cup {Cart} |-> 0]

At(t, here, there) == pc[t] = here /\ pc' = [pc EXCEPT ![t] = there]
Reads(t, v) == tmp' = [tmp EXCEPT ![t] = v]

-----------------------------------------------------------------------------
Call(f) == /\ stashLock = NoOne /\ stashLock' = f
           /\ At(f, "calling", IF STASH < BUCKET_SIZE THEN "short" ELSE "counting")
           /\ UNCHANGED <<discs, fieldLock, sems, tmp>>

\* The lock stays held while the cart is out.
KeepsLock(f) == UNCHANGED stashLock

SignalCart(f) == /\ At(f, "short", "waiting") /\ stashEmpty' = stashEmpty + 1
                 /\ KeepsLock(f) /\ UNCHANGED <<discs, fieldLock, stashFull, tmp>>

StashFilled(f) == /\ At(f, "waiting", "counting") /\ stashFull > 0 /\ stashFull' = stashFull - 1
                  /\ UNCHANGED <<discs, stashLock, fieldLock, stashEmpty, tmp>>

Count(f) == /\ Reads(f, STASH)
            /\ IF STASH < BUCKET_SIZE THEN At(f, "counting", "calling") /\ stashLock' = NoOne
               ELSE At(f, "counting", "taking") /\ UNCHANGED stashLock
            /\ UNCHANGED <<discs, fieldLock, sems>>

Take(f) == /\ At(f, "taking", "throwing") /\ STASH' = tmp[f] - BUCKET_SIZE
           /\ bucket' = [bucket EXCEPT ![f] = BUCKET_SIZE] /\ stashLock' = NoOne
           /\ UNCHANGED <<discs_on_field, fieldLock, sems, tmp>>

\* fieldLock.acquire and the read of discs_on_field.
Throws(f) == /\ At(f, "throwing", "throw") /\ fieldLock = NoOne /\ fieldLock' = f
             /\ Reads(f, discs_on_field) /\ UNCHANGED <<discs, stashLock, sems>>

NextThrow(f) == IF bucket[f] = 1 THEN "calling" ELSE "throwing"

Thrown(f) == /\ At(f, "throw", NextThrow(f)) /\ discs_on_field' = tmp[f] + 1
             /\ bucket' = [bucket EXCEPT ![f] = @ - 1] /\ fieldLock' = NoOne
             /\ UNCHANGED <<STASH, stashLock, sems, tmp>>

frolfer(f) == Call(f) \/ SignalCart(f) \/ StashFilled(f) \/ Count(f) \/ Take(f) \/ Throws(f) \/ Thrown(f)

-----------------------------------------------------------------------------
Called == /\ At(Cart, "idle", "entering") /\ stashEmpty > 0 /\ stashEmpty' = stashEmpty - 1
          /\ UNCHANGED <<discs, stashLock, fieldLock, stashFull, tmp>>

FieldFree == fieldLock = NoOne

Enter == /\ At(Cart, "entering", "collecting") /\ FieldFree /\ fieldLock' = Cart
         /\ Reads(Cart, STASH + discs_on_field) /\ UNCHANGED <<discs, stashLock, sems>>

Collect == /\ At(Cart, "collecting", "clearing") /\ STASH' = tmp[Cart]
           /\ UNCHANGED <<discs_on_field, bucket, stashLock, fieldLock, sems, tmp>>

Clear == /\ At(Cart, "clearing", "done") /\ discs_on_field' = 0 /\ fieldLock' = NoOne
         /\ UNCHANGED <<STASH, bucket, stashLock, sems, tmp>>

SignalFrolfers == stashFull' = stashFull + 1

Done == /\ At(Cart, "done", "idle") /\ SignalFrolfers
        /\ UNCHANGED <<discs, stashLock, fieldLock, stashEmpty, tmp>>

cart == Called \/ Enter \/ Collect \/ Clear \/ Done

-----------------------------------------------------------------------------
Next == cart \/ \E f \in Frolfer : frolfer(f)

Spec == Init /\ [][Next]_vars

\* Every thread runs.  Whoever waits for fieldLock gets it in the end: every
\* thread sleeps after it releases the lock (lines 57 and 80).
FairSpec == /\ Spec /\ WF_vars(cart) /\ SF_vars(Enter)
            /\ \A f \in Frolfer : WF_vars(frolfer(f)) /\ SF_vars(Throws(f))

-----------------------------------------------------------------------------
\* No disc is lost or made: the stash, the field and the buckets always hold
\* DISCS discs together.  Between the cart's two writes they are counted twice.
DiscsConserved ==
  pc[Cart] # "clearing" => STASH + discs_on_field +
     MapThenSumSet(LAMBDA f : bucket[f], Frolfer) = DISCS

\* The cart is out only while one frolfer waits for it with stashLock held, so
\* that no one else looks at the stash, and each signal is for that frolfer.
CartCalledByHolder ==
  /\ stashEmpty + stashFull <= 1
  /\ pc[Cart] \in {"entering", "collecting", "clearing", "done"} \/ stashEmpty + stashFull > 0
       => stashLock # NoOne /\ pc[stashLock] = "waiting"

\* Someone always takes a bucket again: the cart and the frolfers do not end up
\* waiting for each other, nor for one who throws.
BucketsKeepComing == []<><<\E f \in Frolfer : Take(f)>>_vars
=============================================================================
