--------------------------------- MODULE Tty --------------------------------
(***************************************************************************)
(* What the console promises about input: a line is edited until it is     *)
(* handed over; what was handed over is read once, in order.               *)
(***************************************************************************)
EXTENDS Naturals, Sequences

CONSTANTS Char,     \* the characters that are stored
          Enders,   \* those that end a line (newline, ^D)
          INPUT_BUF

VARIABLES ready,    \* handed over, not yet read
          edit      \* the line being edited

Init == ready = <<>> /\ edit = <<>>

Room == Len(ready) + Len(edit) < INPUT_BUF

\* A character that leaves room for more and ends no line joins the line.
Type(c) == /\ Room /\ c \notin Enders /\ Len(ready) + Len(edit) + 1 < INPUT_BUF
           /\ edit' = Append(edit, c) /\ UNCHANGED ready

HandOver(c) == /\ Room /\ (c \in Enders \/ Len(ready) + Len(edit) + 1 = INPUT_BUF)
               /\ ready' = ready \o Append(edit, c) /\ edit' = <<>>

Erase == /\ edit # <<>> /\ UNCHANGED ready
         /\ \E n \in 0 .. Len(edit) - 1 : edit' = SubSeq(edit, 1, n)

Take == ready # <<>> /\ ready' = Tail(ready) /\ UNCHANGED edit

Next == Erase \/ Take \/ \E c \in Char : Type(c) \/ HandOver(c)

Spec == Init /\ [][Next]_<<ready, edit>>
=============================================================================
