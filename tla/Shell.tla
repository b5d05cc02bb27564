------------------------------- MODULE Shell --------------------------------
(***************************************************************************)
(* The shell, sh.c: the parser, on lines that are sequences of tokens, and *)
(* runcmd, which runs the parsed command in a tree of processes joined by  *)
(* pipes.  fork, wait, exit, pipe, dup, open and close are those of the    *)
(* kernel, by their effect.  The programs that are run are external: cat   *)
(* reads to the end of a pipe, yes writes until a pipe has no reader.      *)
(***************************************************************************)
EXTENDS Integers, Sequences, FiniteSetsExt

CONSTANTS Lines,      \* input lines: sequences of tokens
          MAXARGS,    \* arguments of a command, less one
          NPROC,      \* processes that fit beside init
          NLINES      \* lines read before end of file

Programs == {"cat", "yes", "true"}
Words == Programs \cup {"f"}
Arrow == {"<", ">", ">>"}
None == <<0, "none">>
Pid == 1 .. NPROC
sh == 1
init == 0
Fd == 0 .. 4

-----------------------------------------------------------------------------
(* Parsing.  A parser takes the tokens left and gives the command, the      *)
(* tokens left after it, and whether it has panicked.                       *)

Exec(argv) == [type |-> "EXEC", argv |-> argv]
Redir(cmd, mode) == [type |-> "REDIR", cmd |-> cmd, mode |-> mode]
Pipe(l, r) == [type |-> "PIPE", left |-> l, right |-> r]
List(l, r) == [type |-> "LIST", left |-> l, right |-> r]
Back(cmd) == [type |-> "BACK", cmd |-> cmd]

peek(s, toks) == s # << >> /\ Head(s) \in toks
Parsed(cmd, s) == [cmd |-> cmd, rest |-> s, bad |-> FALSE]
Syntax == [cmd |-> Exec(<< >>), rest |-> << >>, bad |-> TRUE]

RECURSIVE parseline(_), parsepipe(_), parseredirs(_, _), parseargs(_, _, _), Backs(_)

\* Redirections are put around what was parsed; an exec command inside them
\* keeps collecting arguments.
parseredirs(cmd, s) ==
  IF ~peek(s, Arrow) THEN Parsed(cmd, s)
  ELSE IF ~peek(Tail(s), Words) THEN Syntax
  ELSE parseredirs(Redir(cmd, Head(s)), Tail(Tail(s)))

RECURSIVE AddArg(_, _), AddFirst(_, _)
AddFirst(cmd, w) == IF cmd.type = "EXEC" THEN Exec(<<w>> \o cmd.argv) ELSE Redir(AddFirst(cmd.cmd, w), cmd.mode)

AddArg(cmd, w) == IF cmd.type = "EXEC" THEN Exec(Append(cmd.argv, w)) ELSE Redir(AddArg(cmd.cmd, w), cmd.mode)

parseargs(cmd, s, argc) ==
  LET r == parseredirs(cmd, s) IN
  IF r.bad \/ r.rest = << >> \/ peek(r.rest, {"|", ")", "&", ";"}) THEN r
  ELSE IF ~peek(r.rest, Words) \/ argc + 1 >= MAXARGS THEN Syntax
  ELSE parseargs(AddArg(r.cmd, Head(r.rest)), Tail(r.rest), argc + 1)

parseblock(s) ==
  LET r == parseline(Tail(s)) IN
  IF r.bad \/ ~peek(r.rest, {")"}) THEN Syntax ELSE parseredirs(r.cmd, Tail(r.rest))

parseexec(s) == IF peek(s, {"("}) THEN parseblock(s) ELSE parseargs(Exec(<< >>), s, 0)

parsepipe(s) ==
  LET l == parseexec(s) IN
  IF l.bad \/ ~peek(l.rest, {"|"}) THEN l
  ELSE LET r == parsepipe(Tail(l.rest)) IN IF r.bad THEN Syntax ELSE Parsed(Pipe(l.cmd, r.cmd), r.rest)

Backs(p) == IF p.bad \/ ~peek(p.rest, {"&"}) THEN p ELSE Backs(Parsed(Back(p.cmd), Tail(p.rest)))

parseline(s) ==
  LET l == Backs(parsepipe(s)) IN
  IF l.bad \/ ~peek(l.rest, {";"}) THEN l
  ELSE LET r == parseline(Tail(l.rest)) IN IF r.bad THEN Syntax ELSE Parsed(List(l.cmd, r.cmd), r.rest)

NoLeftovers(p) == IF p.rest # << >> THEN Syntax ELSE p

parsecmd(s) == NoLeftovers(parseline(s))

-----------------------------------------------------------------------------
VARIABLES proc,    \* pc, command, descriptors, parent, pipe ends, background
          buf,     \* the line being run
          lines,   \* lines read
          failed   \* fork1 or pipe has failed

vars == <<proc, buf, lines, failed>>

NoProc == [pc |-> "free", cmd |-> Exec(<< >>), fd |-> [f \in Fd |-> None], parent |-> init, p |-> <<0, 0>>, bg |-> FALSE]
Stdio == [f \in Fd |-> IF f < 3 THEN <<0, "console">> ELSE None]

Init == /\ proc = [q \in Pid |-> IF q = sh THEN [NoProc EXCEPT !.pc = "prompt", !.fd = Stdio] ELSE NoProc]
        /\ buf = << >> /\ lines = 0 /\ failed = FALSE

Live == {q \in Pid : proc[q].pc # "free"}
Holds(file) == \E q \in Pid, f \in Fd : proc[q].fd[f] = file
FreeFd(fd) == Min({f \in Fd : fd[f] = None})
Close(fd, f) == [fd EXCEPT ![f] = None]
Alloc(fd, file) == [fd EXCEPT ![FreeFd(fd)] = file]

\* exit: the children go to init, which reaps those that have ended.
Exited(ps, q) ==
  [c \in Pid |->
     IF c = q THEN IF ps[q].parent = init THEN NoProc
                   ELSE [NoProc EXCEPT !.pc = "zombie", !.parent = ps[q].parent, !.bg = ps[q].bg]
     ELSE IF ps[c].parent # q THEN ps[c]
     ELSE IF ps[c].pc = "zombie" THEN NoProc ELSE [ps[c] EXCEPT !.parent = init]]

exit(q) == proc' = Exited(proc, q) /\ UNCHANGED <<buf, lines, failed>>

\* fork1: the parent goes on as `me', the child, a copy, with pc and cmd.
\* When there is no slot, it panics: the process prints and exits.
fork1(q, me, pc, cmd, bg) ==
  \/ \E c \in Pid \ Live :
       /\ c = Min(Pid \ Live)
       /\ proc' = [proc EXCEPT ![q] = me,
                     ![c] = [proc[q] EXCEPT !.pc = pc, !.cmd = cmd, !.parent = q, !.bg = proc[q].bg \/ bg]]
       /\ UNCHANGED <<lines, failed>>
  \/ /\ Live = Pid /\ proc' = Exited(proc, q) /\ failed' = TRUE /\ UNCHANGED lines

\* wait: a child that has ended is reaped.
wait(q, me) ==
  \E c \in Pid : /\ proc[c].pc = "zombie" /\ proc[c].parent = q
                 /\ proc' = [proc EXCEPT ![q] = me, ![c] = NoProc]
                 /\ UNCHANGED <<buf, lines, failed>>

-----------------------------------------------------------------------------
(* main: a line is parsed and run by a child, which has its own copy of     *)
(* buf; cd is done by the shell itself.                                     *)

ReadLine ==
  /\ proc[sh].pc = "prompt" /\ lines < NLINES
  /\ \E s \in Lines : \E p \in {parsecmd(s)} :
       /\ buf' = s
       /\ IF s = <<"cd">> THEN lines' = lines + 1 /\ UNCHANGED <<proc, failed>>
          ELSE fork1(sh, [proc[sh] EXCEPT !.pc = "wait"], IF p.bad THEN "done" ELSE "run", p.cmd, FALSE)

WaitLine == /\ proc[sh].pc = "wait"
            /\ \E c \in Pid : /\ proc[c].pc = "zombie" /\ proc[c].parent = sh
                              /\ proc' = [proc EXCEPT ![sh].pc = "prompt", ![c] = NoProc]
            /\ lines' = lines + 1 /\ UNCHANGED <<buf, failed>>

EndOfFile == proc[sh].pc = "prompt" /\ lines = NLINES /\ exit(sh)

-----------------------------------------------------------------------------
(* runcmd.                                                                  *)

At(q, pc, type) == proc[q].pc = pc /\ proc[q].cmd.type = type
Runs(q, pc, cmd) == [proc[q] EXCEPT !.pc = pc, !.cmd = cmd]

\* exec starts the program; if there is none, or no name at all, or exec fails
\* for want of memory, the child exits.
RunExec(q) ==
  LET argv == proc[q].cmd.argv IN
  /\ At(q, "run", "EXEC")
  /\ \/ /\ argv # << >> /\ Head(argv) \in Programs
        /\ proc' = [proc EXCEPT ![q].pc = "prog"] /\ UNCHANGED <<buf, lines, failed>>
     \/ exit(q)

Redirects(mode) == IF mode = "<" THEN 0 ELSE 1

RunRedir(q) ==
  LET cmd == proc[q].cmd IN
  /\ At(q, "run", "REDIR")
  /\ \/ /\ proc' = [proc EXCEPT ![q].fd = Alloc(Close(@, Redirects(cmd.mode)), <<0, "file">>), ![q].cmd = cmd.cmd]
        /\ UNCHANGED <<buf, lines, failed>>
     \/ exit(q)

RunList(q) == At(q, "run", "LIST") /\ UNCHANGED buf
              /\ fork1(q, Runs(q, "list", proc[q].cmd), "run", proc[q].cmd.left, FALSE)

WaitList(q) == At(q, "list", "LIST") /\ wait(q, Runs(q, "run", proc[q].cmd.right))

RunBack(q) == At(q, "run", "BACK") /\ UNCHANGED buf
              /\ fork1(q, Runs(q, "done", proc[q].cmd), "run", proc[q].cmd.cmd, TRUE)

\* pipe: two descriptors on a new pipe, named by a free number; or no memory.
RunPipe(q) ==
  LET k == Min({i \in 1 .. NPROC + 1 : ~Holds(<<i, "r">>) /\ ~Holds(<<i, "w">>)})
      r == Alloc(proc[q].fd, <<k, "r">>)
      w == Alloc(r, <<k, "w">>)
  IN /\ At(q, "run", "PIPE")
     /\ \/ /\ proc' = [proc EXCEPT ![q].pc = "left", ![q].fd = w, ![q].p = <<FreeFd(proc[q].fd), FreeFd(r)>>]
           /\ UNCHANGED failed
        \/ proc' = Exited(proc, q) /\ failed' = TRUE
     /\ UNCHANGED <<buf, lines>>

ForkLeft(q) == /\ At(q, "left", "PIPE") /\ UNCHANGED buf
               /\ fork1(q, Runs(q, "right", proc[q].cmd), "to pipe", proc[q].cmd.left, FALSE)

ForkRight(q) == /\ At(q, "right", "PIPE") /\ UNCHANGED buf
                /\ fork1(q, Runs(q, "close", proc[q].cmd), "from pipe", proc[q].cmd.right, FALSE)

BothClosed(fd, p) == Close(Close(fd, p[1]), p[2])

\* The children: close(1), dup(p[1]) or close(0), dup(p[0]), and both closed.
Connect(q, pc, std, end) ==
  LET fd == proc[q].fd
      p == proc[q].p
  IN /\ proc[q].pc = pc
     /\ proc' = [proc EXCEPT ![q].pc = "run", ![q].fd = BothClosed(Alloc(Close(fd, std), fd[p[end]]), p)]
     /\ UNCHANGED <<buf, lines, failed>>

ConnectLeft(q) == Connect(q, "to pipe", 1, 2)
ConnectRight(q) == Connect(q, "from pipe", 0, 1)

KeepsEnds(q) == /\ proc[q].pc = "close" /\ proc' = [proc EXCEPT ![q].pc = "wait2"]
                /\ UNCHANGED <<buf, lines, failed>>

ClosePipe(q) == /\ proc[q].pc = "close"
                /\ proc' = [proc EXCEPT ![q].pc = "wait2", ![q].fd = BothClosed(@, proc[q].p)]
                /\ UNCHANGED <<buf, lines, failed>>

WaitOnce(q) == proc[q].pc = "wait2" /\ wait(q, [proc[q] EXCEPT !.pc = "done"])

WaitPipe(q) == \/ proc[q].pc = "wait2" /\ wait(q, [proc[q] EXCEPT !.pc = "wait1"])
               \/ proc[q].pc = "wait1" /\ wait(q, [proc[q] EXCEPT !.pc = "done"])

Done(q) == proc[q].pc = "done" /\ exit(q)

\* A program ends.  It is not stopped while it waits for input or for room.
Program(q) ==
  LET name == Head(proc[q].cmd.argv)
      fd == proc[q].fd
      others(end, f) == fd[f] \in {<<i, end>> : i \in 1 .. NPROC + 1}
                          /\ Holds(<<fd[f][1], IF end = "r" THEN "w" ELSE "r">>)
  IN /\ proc[q].pc = "prog"
     /\ name = "cat" => ~others("r", 0)
     /\ name = "yes" => ~others("w", 1)
     /\ exit(q)

runcmd(q) == \/ RunExec(q) \/ RunRedir(q) \/ RunList(q) \/ WaitList(q) \/ RunBack(q) \/ RunPipe(q)
             \/ ForkLeft(q) \/ ForkRight(q) \/ ConnectLeft(q) \/ ConnectRight(q) \/ ClosePipe(q)
             \/ WaitPipe(q) \/ Done(q) \/ Program(q)

Next == ReadLine \/ WaitLine \/ EndOfFile \/ \E q \in Pid : runcmd(q)

Spec == Init /\ [][Next]_vars

\* The kernel's scheduler runs every process that can run.
FairSpec == Spec /\ WF_vars(WaitLine) /\ \A q \in Pid : WF_vars(runcmd(q))

-----------------------------------------------------------------------------
(* The grammar, and how a command is written.                               *)

RECURSIVE IsLine(_), IsPipe(_), IsRedirs(_), IsSimple(_, _)
Left(s, i) == SubSeq(s, 1, i - 1)
Right(s, i) == SubSeq(s, i + 1, Len(s))
IsRedirs(s) == \/ s = << >>
               \/ Len(s) > 1 /\ s[1] \in Arrow /\ s[2] \in Words /\ IsRedirs(Right(s, 2))
IsSimple(s, n) == \/ s = << >>
                  \/ s[1] \in Words /\ n + 1 < MAXARGS /\ IsSimple(Tail(s), n + 1)
                  \/ Len(s) > 1 /\ s[1] \in Arrow /\ s[2] \in Words /\ IsSimple(Right(s, 2), n)
IsBlock(s) == \E i \in 2 .. Len(s) : /\ s[1] = "(" /\ s[i] = ")"
                                     /\ IsLine(SubSeq(s, 2, i - 1)) /\ IsRedirs(Right(s, i))
IsCommand(s) == IsSimple(s, 0) \/ IsBlock(s)
IsPipe(s) == IsCommand(s) \/ \E i \in 1 .. Len(s) : s[i] = "|" /\ IsCommand(Left(s, i)) /\ IsPipe(Right(s, i))
IsLine(s) == \E i \in 1 .. Len(s) + 1 :
  /\ IsPipe(Left(s, i))
  /\ \E j \in i .. Len(s) + 1 : /\ \A k \in i .. j - 1 : s[k] = "&"
                                /\ \/ j = Len(s) + 1
                                   \/ j <= Len(s) /\ s[j] = ";" /\ IsLine(Right(s, j))

RECURSIVE Show(_)
Show(c) == CASE c.type = "EXEC"  -> c.argv
             [] c.type = "REDIR" -> (IF c.cmd.type \in {"EXEC", "REDIR"} THEN Show(c.cmd)
                                     ELSE <<"(">> \o Show(c.cmd) \o <<")">>) \o <<c.mode, "f">>
             [] c.type = "PIPE"  -> (IF c.left.type \in {"EXEC", "REDIR"} THEN Show(c.left)
                                     ELSE <<"(">> \o Show(c.left) \o <<")">>) \o <<"|">> \o
                                    (IF c.right.type \in {"EXEC", "REDIR", "PIPE"} THEN Show(c.right)
                                     ELSE <<"(">> \o Show(c.right) \o <<")">>)
             [] c.type = "BACK"  -> (IF c.cmd.type = "LIST" THEN <<"(">> \o Show(c.cmd) \o <<")">>
                                     ELSE Show(c.cmd)) \o <<"&">>
             [] c.type = "LIST"  -> (IF c.left.type = "LIST" THEN <<"(">> \o Show(c.left) \o <<")">>
                                     ELSE Show(c.left)) \o <<";">> \o Show(c.right)

-----------------------------------------------------------------------------
(* Correctness.                                                             *)

\* The parser accepts exactly the lines of the grammar
\*   line = pipe {"&"} [";" line],  pipe = command ["|" pipe],
\*   command = {word | redirection} or "(" line ")" {redirection}.
ParserAcceptsGrammar == proc[sh].pc = "wait" => (parsecmd(buf).bad <=> ~IsLine(buf))

\* The tree says everything: the command it stands for, written out with the
\* parentheses that precedence needs, is parsed to the same tree.
TreeIsTheLine == proc[sh].pc = "wait" =>
  \A p \in {parsecmd(buf)} : p.bad \/ parsecmd(Show(p.cmd)) = p

\* A program gets the three standard descriptors and no end of a pipe beside
\* them, and a process that waits for its children holds no end at all that
\* they wait to see closed.
NoEndLeaks == \A q \in Pid :
  /\ proc[q].pc = "prog" => \A f \in Fd : f > 2 => proc[q].fd[f] = None
  /\ proc[q].pc \in {"wait1", "wait2", "done"} /\ proc[q].cmd.type = "PIPE" =>
       \A f \in Fd : f > 2 => proc[q].fd[f] = None

\* At the prompt nothing of the last line is left but what runs in the
\* background, unless fork has failed: then the process that waits is gone.
ForegroundDone == proc[sh].pc = "prompt" /\ ~failed => \A q \in Live \ {sh} : proc[q].bg

\* The prompt comes back: every reader of a pipe sees its end, every writer
\* sees that no one reads, and each wait has its child.
PromptReturns == [](proc[sh].pc = "wait" => <>(proc[sh].pc # "wait"))
=============================================================================
