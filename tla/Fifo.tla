-------------------------------- MODULE Fifo --------------------------------
(***************************************************************************)
(* What a pipe promises: a bounded first-in first-out queue of bytes, in   *)
(* which nothing is lost, repeated, reordered or changed, and two ends     *)
(* that close once and for all.                                            *)
(***************************************************************************)
EXTENDS Naturals, Sequences

CONSTANTS Data, PIPESIZE

VARIABLES q,      \* bytes written and not yet read
          out,    \* the last byte a reader was given
          ropen, wopen

Init == q = <<>> /\ out \in Data /\ ropen = TRUE /\ wopen = TRUE

Put == /\ Len(q) < PIPESIZE
       /\ \E d \in Data : q' = Append(q, d)
       /\ UNCHANGED <<out, ropen, wopen>>

Get == /\ q # <<>>
       /\ out' = Head(q) /\ q' = Tail(q)
       /\ UNCHANGED <<ropen, wopen>>

CloseRead == ropen /\ ropen' = FALSE /\ UNCHANGED <<q, out, wopen>>
CloseWrite == wopen /\ wopen' = FALSE /\ UNCHANGED <<q, out, ropen>>

Spec == Init /\ [][Put \/ Get \/ CloseRead \/ CloseWrite]_<<q, out, ropen, wopen>>
=============================================================================
