------------------------------- MODULE Console ------------------------------
(***************************************************************************)
(* Console input (console.c: consoleintr, consoleread): keys that arrive   *)
(* by interrupt, processes that read, and kill, which takes no input.lock. *)
(***************************************************************************)
EXTENDS Integers, Sequences, FiniteSets

CONSTANTS Proc, NoProc,
          INPUT_BUF,
          UINT,       \* 2^32: the indices wrap around; a multiple of INPUT_BUF
          Plain,      \* characters without a meaning of their own
          MaxN,       \* bound on the length of a read
          MaxKeys     \* bound on the keys that are struck

CtrlD == "^D"
Newline == "nl"
Nul == "nul"
Char == Plain \cup {CtrlD, Newline}
Key == Char \cup {"^U", "^H"}

VARIABLES buf, r, w, e,    \* input
          lock,            \* who holds input.lock
          pc, n, target,   \* consoleread of each process
          got,             \* what it has copied to dst
          killed, keys

vars == <<buf, r, w, e, lock, pc, n, target, got, killed, keys>>

Init == /\ buf = [i \in 0 .. INPUT_BUF - 1 |-> Nul]
        /\ r \in {0, UINT - INPUT_BUF} /\ w = r /\ e = r
        /\ lock = NoProc
        /\ pc = [p \in Proc |-> "user"]
        /\ n = [p \in Proc |-> 0] /\ target = [p \in Proc |-> 0]
        /\ got = [p \in Proc |-> <<>>]
        /\ killed = [p \in Proc |-> FALSE]
        /\ keys = 0

Up(i) == (i + 1) % UINT
Down(i) == (i - 1) % UINT
Cell(i) == i % INPUT_BUF

-----------------------------------------------------------------------------
\* consoleintr, for one key.  It holds input.lock from start to end.
Sleepers == {p \in Proc : pc[p] = "asleep"}

NoWakeup == UNCHANGED pc

wakeup == pc' = [p \in Proc |-> IF p \in Sleepers THEN "again" ELSE pc[p]]

\* ^U: back to the end of the last line.
KillLine == /\ buf[Cell(Down(e))] # Newline
            /\ \E k \in 1 .. INPUT_BUF :
                 /\ e' = (e - k) % UINT
                 /\ \A j \in 1 .. k : (e - j + 1) % UINT # w /\ buf[Cell((e - j) % UINT)] # Newline
                 /\ e' = w \/ buf[Cell(Down(e'))] = Newline

Full == (e - r) % UINT >= INPUT_BUF

HandsOverLines(c) == c \in {Newline, CtrlD}

HandsOver(c) == c \in {Newline, CtrlD} \/ Up(e) = (r + INPUT_BUF) % UINT

EraseUnread == e # r

MayErase == e # w

Store(c) == /\ ~Full
            /\ buf' = [buf EXCEPT ![Cell(e)] = c]
            /\ e' = Up(e)
            /\ IF HandsOver(c) THEN w' = e' /\ wakeup ELSE UNCHANGED <<w, pc>>

consoleintr(c) ==
  /\ lock = NoProc /\ keys < MaxKeys /\ keys' = keys + 1
  /\ \/ c = "^U" /\ MayErase /\ KillLine /\ UNCHANGED <<buf, w, pc>>
     \/ c = "^H" /\ MayErase /\ e' = Down(e) /\ UNCHANGED <<buf, w, pc>>
     \/ c \in Char /\ Store(c)
  /\ UNCHANGED <<r, lock, n, target, got, killed>>

-----------------------------------------------------------------------------
\* consoleread: called, then with input.lock until it sleeps or returns.
Call(p, k) ==
  /\ pc[p] = "user" /\ ~killed[p]
  /\ pc' = [pc EXCEPT ![p] = "again"]
  /\ n' = [n EXCEPT ![p] = k] /\ target' = [target EXCEPT ![p] = k]
  /\ got' = [got EXCEPT ![p] = <<>>]
  /\ UNCHANGED <<buf, r, w, e, lock, killed, keys>>

Acquire(p) ==
  /\ pc[p] = "again" /\ lock = NoProc /\ lock' = p
  /\ pc' = [pc EXCEPT ![p] = "loop"]
  /\ UNCHANGED <<buf, r, w, e, n, target, got, killed, keys>>

Return(p) == pc' = [pc EXCEPT ![p] = "user"] /\ lock' = NoProc

Empty == r = w

Ends(p, c) == c = Newline \/ n[p] = 1

\* One more character: ^D ends the read, and stays for the next one unless
\* this one has nothing.
ReadChar(p) ==
  /\ pc[p] = "loop" /\ ~Empty
  /\ LET c == buf[Cell(r)] IN
     IF c = CtrlD
     THEN /\ r' = IF n[p] < target[p] THEN r ELSE Up(r)
          /\ Return(p) /\ UNCHANGED <<n, got>>
     ELSE /\ r' = Up(r)
          /\ got' = [got EXCEPT ![p] = Append(@, c)]
          /\ n' = [n EXCEPT ![p] = @ - 1]
          /\ IF Ends(p, c) THEN Return(p) ELSE UNCHANGED <<pc, lock>>
  /\ UNCHANGED <<buf, w, e, target, killed, keys>>

\* Nothing there: killed, or to sleep; the check and sleep are two steps for
\* kill.
CheckKilled(p) ==
  /\ pc[p] = "loop" /\ Empty
  /\ IF killed[p] THEN Return(p) ELSE pc' = [pc EXCEPT ![p] = "sleep"] /\ UNCHANGED lock
  /\ UNCHANGED <<buf, r, w, e, n, target, got, killed, keys>>

Sleep(p) ==
  /\ pc[p] = "sleep" /\ pc' = [pc EXCEPT ![p] = "asleep"] /\ lock' = NoProc
  /\ UNCHANGED <<buf, r, w, e, n, target, got, killed, keys>>

\* kill, from elsewhere: a sleeper gets up.
Kill(p) ==
  /\ ~killed[p] /\ pc[p] # "user"
  /\ killed' = [killed EXCEPT ![p] = TRUE]
  /\ pc' = [pc EXCEPT ![p] = IF @ = "asleep" THEN "again" ELSE @]
  /\ UNCHANGED <<buf, r, w, e, lock, n, target, got, keys>>

Step(p) == Acquire(p) \/ ReadChar(p) \/ CheckKilled(p) \/ Sleep(p)

Next == \/ \E c \in Key : consoleintr(c)
        \/ \E p \in Proc : Step(p) \/ Kill(p) \/ \E k \in 1 .. MaxN : Call(p, k)

Spec == Init /\ [][Next]_vars

\* The processes run and input.lock is handed on; keys need not come.
FairSpec == Spec /\ \A p \in Proc : SF_vars(Acquire(p)) /\ WF_vars(Step(p))

-----------------------------------------------------------------------------
(* Correctness.                                                             *)

Slice(i, j) == [k \in 1 .. (j - i) % UINT |-> buf[Cell((i + k - 1) % UINT)]]

\* The values of the variables; at most INPUT_BUF characters are in use.
TypeOK == /\ buf \in [0 .. INPUT_BUF - 1 -> Char \cup {Nul}]
          /\ {r, w, e} \subseteq 0 .. UINT - 1
          /\ (w - r) % UINT <= (e - r) % UINT /\ (e - r) % UINT <= INPUT_BUF
          /\ lock \in Proc \cup {NoProc}
          /\ n \in [Proc -> 0 .. MaxN] /\ target \in [Proc -> 0 .. MaxN]
          /\ \A p \in Proc : got[p] \in Seq(Char)
          /\ killed \in [Proc -> BOOLEAN]

\* The ring buffer with its three wrapping indices is the two queues of Tty:
\* no character is lost, read twice, or erased once it was handed over.
Line == INSTANCE Tty WITH ready <- Slice(r, w), edit <- Slice(w, e), Enders <- {CtrlD, Newline}
IsTty == Line!Spec

\* No reader sleeps while there is something to read, also with several
\* readers and with ^D put back (console.c:250).
NoSleepOverInput == \A p \in Proc : pc[p] = "asleep" => Empty

\* The keyboard is never stuck: a full buffer has been handed over, so that a
\* reader can make room, even without a newline.
FullIsReady == Full => w = e

\* A read returns early only for the end of a line or of the file, and never
\* returns a ^D (console.c:246-257).
ShortRead(p) ==
  /\ \A i \in 1 .. Len(got[p]) : /\ got[p][i] # CtrlD
                                 /\ got[p][i] = Newline => i = Len(got[p]) /\ pc[p] = "user"
  /\ Len(got[p]) + n[p] = target[p]
ShortReads == \A p \in Proc : ShortRead(p)

\* A ^D is used up by a read that returns nothing, and by no other, though the
\* handler may store characters between the two reads: a read that it cuts short
\* leaves it in the ring (console.c:247-252).
EndOfFileSeen ==
  [][r' # r /\ buf[Cell(r)] = CtrlD => \E p \in Proc : lock = p /\ pc'[p] = "user" /\ got'[p] = <<>>]_vars

\* Together: what a process that reads can rely on.
ReadsRight == [](NoSleepOverInput /\ FullIsReady /\ ShortReads) /\ EndOfFileSeen

\* A reader with input returns, or another one takes the input.
InputIsRead == \A p \in Proc : (pc[p] # "user" /\ ~Empty) ~> (pc[p] = "user" \/ Empty)

-----------------------------------------------------------------------------
(* The inductive invariants behind them.                                    *)

\* The constants: in console.c INPUT_BUF is 128 and an index has 32 bits.
Sizes == /\ INPUT_BUF \in Nat \ {0} /\ UINT \in Nat \ {0} /\ MaxN \in Nat
         /\ INPUT_BUF < UINT /\ UINT % INPUT_BUF = 0
         /\ NoProc \notin Proc

\* The indices are in order, at most INPUT_BUF apart, and what is between r and
\* e was struck.
RingInv == /\ buf \in [0 .. INPUT_BUF - 1 -> Char \cup {Nul}]
           /\ r \in 0 .. UINT - 1 /\ w \in 0 .. UINT - 1 /\ e \in 0 .. UINT - 1
           /\ (w - r) % UINT <= (e - r) % UINT /\ (e - r) % UINT <= INPUT_BUF
           /\ FullIsReady
           /\ Slice(r, e) \in Seq(Char)

\* Whoever is between Acquire and Return or Sleep holds input.lock; a read that
\* goes on has room left; who is about to sleep has seen an empty buffer.
PC == {"user", "again", "loop", "sleep", "asleep"}
Reader(p) == /\ pc[p] \in {"loop", "sleep"} <=> lock = p
             /\ pc[p] # "user" => n[p] > 0
             /\ pc[p] \in {"sleep", "asleep"} => Empty
             /\ ShortRead(p)
ReadInv == /\ lock \in Proc \cup {NoProc} /\ pc \in [Proc -> PC]
           /\ n \in [Proc -> 0 .. MaxN] /\ target \in [Proc -> 0 .. MaxN]
           /\ got \in [Proc -> Seq(Char)] /\ killed \in [Proc -> BOOLEAN]
           /\ \A p \in Proc : Reader(p)
=============================================================================
