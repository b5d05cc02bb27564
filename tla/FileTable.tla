----------------------------- MODULE FileTable ------------------------------
(***************************************************************************)
(* Open files (file.c), descriptors (sysfile.c) and the pages and ends of  *)
(* pipes (pipealloc, pipeclose), with fork, clone and exit.                *)
(*                                                                         *)
(* What a process has left to do in its call is a list, one item for each  *)
(* piece of code that takes ftable.lock, p->lock or kmem.lock.  Struct     *)
(* files that no one else can reach, and ofile, which is private to a      *)
(* process, are filled in along with the piece before.                     *)
(***************************************************************************)
EXTENDS Naturals, Sequences, SequencesExt, FiniteSets, FiniteSetsExt

CONSTANTS Proc, Init1,      \* processes; the one that runs at first
          NFILE, NOFILE,
          Page,             \* pages that kalloc may give to pipes, numbers > 0
          MaxCalls          \* bound on the number of system calls

VARIABLES ref, file,   \* ftable: f->ref; type, pipe and writable
          pipe,        \* pages in use as pipes: which ends are open
          iref,        \* references to the one inode of the model
          ofile,       \* proc->ofile, 0 if closed
          alive,
          todo,
          panicked, calls

vars == <<ref, file, pipe, iref, ofile, alive, todo, panicked, calls>>

File == 1 .. NFILE
Fd == 0 .. NOFILE - 1
NoPage == 0
FD_NONE == [type |-> "none", pipe |-> NoPage, writable |-> FALSE]
FD_INODE == [type |-> "inode", pipe |-> NoPage, writable |-> TRUE]
FD_PIPE(k, w) == [type |-> "pipe", pipe |-> k, writable |-> w]
NoPipe == [used |-> FALSE, readopen |-> FALSE, writeopen |-> FALSE]

\* An item of todo: what, for which files, and the fields of a closed file.
Op(o, fs, ff) == [op |-> o, fs |-> fs, ff |-> ff]
Fileclose(f) == Op("close", <<f>>, FD_NONE)
Iput == Op("iput", <<>>, FD_NONE)

Init == /\ ref = [f \in File |-> 0] /\ file = [f \in File |-> FD_NONE]
        /\ pipe = [k \in Page |-> NoPipe]
        /\ iref = 0
        /\ ofile = [p \in Proc |-> [fd \in Fd |-> 0]]
        /\ alive = [p \in Proc |-> p = Init1]
        /\ todo = [p \in Proc |-> <<>>]
        /\ panicked = FALSE /\ calls = 0

At(p, o) == ~panicked /\ todo[p] # <<>> /\ todo[p][1].op = o
Here(p) == todo[p][1]
Then(p, ops) == todo' = [todo EXCEPT ![p] = ops \o Tail(@)]

Panic == panicked' = TRUE /\ UNCHANGED <<ref, file, pipe, iref, ofile, alive, todo, calls>>

\* A system call begins.
Call(p) == /\ ~panicked /\ alive[p] /\ todo[p] = <<>> /\ calls < MaxCalls
           /\ calls' = calls + 1 /\ UNCHANGED <<panicked, alive>>

FreeFiles == {f \in File : ref[f] = 0}
FreeFds(p) == {fd \in Fd : ofile[p][fd] = 0}

\* argfd is the guard ofile[p][fd] # 0, filealloc and fdalloc take the first
\* free slot.
filealloc(f) == f = Min(FreeFiles) /\ ref' = [ref EXCEPT ![f] = 1]

-----------------------------------------------------------------------------
\* sys_open: create or namei has given the inode.
OpenInode(p) == /\ Call(p) /\ iref' = iref + 1
                /\ todo' = [todo EXCEPT ![p] = <<Op("open", <<>>, FD_NONE)>>]
                /\ UNCHANGED <<ref, file, pipe, ofile>>

OpenFile(p) ==
  /\ At(p, "open")
  /\ \/ FreeFiles = {} /\ Then(p, <<Iput>>) /\ UNCHANGED <<ref, file, ofile>>
     \/ \E f \in File :
          /\ FreeFiles # {} /\ filealloc(f)
          /\ IF FreeFds(p) = {} THEN Then(p, <<Fileclose(f), Iput>>) /\ UNCHANGED <<file, ofile>>
             ELSE /\ ofile' = [ofile EXCEPT ![p][Min(FreeFds(p))] = f]
                  /\ file' = [file EXCEPT ![f] = FD_INODE]
                  /\ Then(p, <<>>)
  /\ UNCHANGED <<pipe, iref, alive, panicked, calls>>

\* sys_pipe and pipealloc: two files, then a page; what there is of them is
\* given back when one step fails.
SysPipe(p) == /\ Call(p) /\ todo' = [todo EXCEPT ![p] = <<Op("pipe", <<>>, FD_NONE)>>]
              /\ UNCHANGED <<ref, file, pipe, iref, ofile>>

Undo(p) == Then(p, [i \in 1 .. Len(Here(p).fs) |-> Fileclose(Here(p).fs[i])])

PipeFile(p) ==
  /\ At(p, "pipe") /\ Len(Here(p).fs) < 2
  /\ \/ FreeFiles = {} /\ Undo(p) /\ UNCHANGED ref
     \/ \E f \in File : /\ FreeFiles # {} /\ filealloc(f)
                        /\ Then(p, <<Op("pipe", Here(p).fs \o <<f>>, FD_NONE)>>)
  /\ UNCHANGED <<file, pipe, iref, ofile, alive, panicked, calls>>

\* kalloc may also fail because the memory went elsewhere.
FreePages == {k \in Page : ~pipe[k].used}

PipePage(p) ==
  /\ At(p, "pipe") /\ Len(Here(p).fs) = 2
  /\ LET rf == Here(p).fs[1] wf == Here(p).fs[2] IN
     \/ Undo(p) /\ UNCHANGED <<file, pipe, ofile>>
     \/ \E k \in FreePages :
          /\ pipe' = [pipe EXCEPT ![k] = [used |-> TRUE, readopen |-> TRUE, writeopen |-> TRUE]]
          /\ file' = [file EXCEPT ![rf] = FD_PIPE(k, FALSE), ![wf] = FD_PIPE(k, TRUE)]
          /\ IF Cardinality(FreeFds(p)) < 2 THEN Undo(p) /\ UNCHANGED ofile
             ELSE LET fd0 == Min(FreeFds(p)) fd1 == Min(FreeFds(p) \ {fd0}) IN
                  ofile' = [ofile EXCEPT ![p][fd0] = rf, ![p][fd1] = wf] /\ Then(p, <<>>)
  /\ UNCHANGED <<ref, iref, alive, panicked, calls>>

\* sys_dup: fdalloc, then filedup.
SysDup(p, fd) ==
  /\ ofile[p][fd] # 0 /\ FreeFds(p) # {}
  /\ \/ ref[ofile[p][fd]] < 1 /\ Panic
     \/ /\ ref[ofile[p][fd]] >= 1 /\ Call(p)
        /\ ofile' = [ofile EXCEPT ![p][Min(FreeFds(p))] = ofile[p][fd]]
        /\ ref' = [ref EXCEPT ![ofile[p][fd]] = @ + 1]
        /\ UNCHANGED <<file, pipe, iref, todo>>

SysClose(p, fd) ==
  /\ ofile[p][fd] # 0 /\ Call(p)
  /\ ofile' = [ofile EXCEPT ![p][fd] = 0]
  /\ todo' = [todo EXCEPT ![p] = <<Fileclose(ofile[p][fd])>>]
  /\ UNCHANGED <<ref, file, pipe, iref>>

\* fork and clone: filedup of each open file.
Dups(p, f) == Cardinality({fd \in Fd : ofile[p][fd] = f})

Refs(p, f) == Dups(p, f)

Fork(p, q) ==
  /\ ~panicked /\ alive[p] /\ todo[p] = <<>> /\ calls < MaxCalls /\ calls' = calls + 1
  /\ ~alive[q] /\ alive' = [alive EXCEPT ![q] = TRUE]
  /\ ref' = [f \in File |-> ref[f] + Refs(p, f)]
  /\ ofile' = [ofile EXCEPT ![q] = ofile[p]]
  /\ UNCHANGED <<file, pipe, iref, todo, panicked>>

\* exit closes what is open; ofile[fd] is cleared after each fileclose, here
\* with its start, since no one looks at it any more.
Exit(p) ==
  /\ p # Init1 /\ Call(p)
  /\ todo' = [todo EXCEPT ![p] =
       [i \in 1 .. Cardinality(Fd \ FreeFds(p)) |-> Op("exitclose", <<>>, FD_NONE)] \o <<Op("exit", <<>>, FD_NONE)>>]
  /\ UNCHANGED <<ref, file, pipe, iref, ofile>>

ExitClose(p) ==
  /\ At(p, "exitclose")
  /\ LET fd == Min(Fd \ FreeFds(p)) IN
     /\ ofile' = [ofile EXCEPT ![p][fd] = 0]
     /\ Then(p, <<Fileclose(ofile[p][fd])>>)
  /\ UNCHANGED <<ref, file, pipe, iref, alive, panicked, calls>>

ExitDone(p) ==
  /\ At(p, "exit") /\ alive' = [alive EXCEPT ![p] = FALSE] /\ Then(p, <<>>)
  /\ UNCHANGED <<ref, file, pipe, iref, ofile, panicked, calls>>

-----------------------------------------------------------------------------
\* fileclose: the last reference frees the struct, and what it was is closed
\* after the lock is released, from a copy.
Cleared(f) == [file EXCEPT ![f] = FD_NONE]

AfterClose(f) ==
  CASE file[f].type = "pipe" -> <<Op("pipeclose", <<>>, file[f])>>
    [] file[f].type = "inode" -> <<Iput>>
    [] OTHER -> <<>>

FileClose(p) ==
  /\ At(p, "close")
  /\ LET f == Here(p).fs[1] IN
     \/ ref[f] < 1 /\ Panic
     \/ /\ ref[f] >= 1 /\ ref' = [ref EXCEPT ![f] = @ - 1]
        /\ IF ref[f] > 1 THEN Then(p, <<>>) /\ UNCHANGED file
           ELSE file' = Cleared(f) /\ Then(p, AfterClose(f))
        /\ UNCHANGED <<pipe, iref, ofile, alive, panicked, calls>>

FreeEarly(q) == IF q.readopen /\ q.writeopen THEN q ELSE NoPipe

FreeClosed(q) == IF q.readopen \/ q.writeopen THEN q ELSE NoPipe

PipeClose(p) ==
  /\ At(p, "pipeclose")
  /\ LET ff == Here(p).ff
         q == pipe[ff.pipe] IN
     \/ ~q.used /\ Panic
     \/ /\ q.used
        /\ pipe' = [pipe EXCEPT ![ff.pipe] =
             FreeClosed(IF ff.writable THEN [q EXCEPT !.writeopen = FALSE] ELSE [q EXCEPT !.readopen = FALSE])]
        /\ Then(p, <<>>)
        /\ UNCHANGED <<ref, file, iref, ofile, alive, panicked, calls>>

IputStep(p) ==
  /\ At(p, "iput") /\ Then(p, <<>>)
  /\ \/ iref = 0 /\ panicked' = TRUE /\ UNCHANGED iref
     \/ iref > 0 /\ iref' = iref - 1 /\ UNCHANGED panicked
  /\ UNCHANGED <<ref, file, pipe, ofile, alive, calls>>

Step(p) == \/ OpenFile(p) \/ PipeFile(p) \/ PipePage(p) \/ ExitClose(p) \/ ExitDone(p)
           \/ FileClose(p) \/ PipeClose(p) \/ IputStep(p)

Next == \E p \in Proc :
          \/ Step(p) \/ OpenInode(p) \/ SysPipe(p) \/ Exit(p)
          \/ \E fd \in Fd : SysDup(p, fd) \/ SysClose(p, fd)
          \/ \E q \in Proc : Fork(p, q)

Spec == Init /\ [][Next]_vars
FairSpec == Spec /\ \A p \in Proc : WF_vars(Step(p))

-----------------------------------------------------------------------------
(* Correctness.                                                             *)

\* The values of the variables.
TypeOK == /\ ref \in [File -> Nat] /\ iref \in Nat
          /\ file \in [File -> {FD_NONE, FD_INODE} \cup {FD_PIPE(k, w) : k \in Page, w \in BOOLEAN}]
          /\ pipe \in [Page -> [used : BOOLEAN, readopen : BOOLEAN, writeopen : BOOLEAN]]
          /\ ofile \in [Proc -> [Fd -> File \cup {0}]]
          /\ alive \in [Proc -> BOOLEAN]
          /\ \A p \in Proc : \A i \in DOMAIN todo[p] : todo[p][i].fs \in Seq(File)
          /\ panicked \in BOOLEAN /\ calls \in 0 .. MaxCalls

Items == UNION {{<<p, i>> : i \in DOMAIN todo[p]} : p \in Proc}
Item(x) == todo[x[1]][x[2]]

\* A reference count is the number of descriptors, and of calls under way,
\* that will still close the file: none is closed too often or never.
RefsExact ==
  \A f \in File :
    ref[f] = Cardinality({x \in Proc \X Fd : ofile[x[1]][x[2]] = f})
             + Cardinality({x \in Items : f \in ToSet(Item(x).fs)})

\* An inode reference for each open file of that type and each iput to come.
InodeRefsExact ==
  iref = Cardinality({f \in File : ref[f] > 0 /\ file[f].type = "inode"})
         + Cardinality({x \in Items : Item(x).op \in {"iput", "open"}})

\* An end of a pipe is open exactly as long as a struct file for it is in use
\* or about to be closed; the page is freed with the second end.  No file, and
\* no pipeclose, is left with a freed page (pipe.c:58-74).
EndInUse(k, w) == \/ \E f \in File : ref[f] > 0 /\ file[f] = FD_PIPE(k, w)
                  \/ \E x \in Items : Item(x).op = "pipeclose" /\ Item(x).ff = FD_PIPE(k, w)
PipeEnds ==
  \A k \in Page : /\ pipe[k].readopen = EndInUse(k, FALSE)
                  /\ pipe[k].writeopen = EndInUse(k, TRUE)
                  /\ pipe[k].used = (pipe[k].readopen \/ pipe[k].writeopen)

\* filedup and fileclose always find a reference, pipeclose a page and iput an
\* inode (file.c:47, 61).
NoPanic == ~panicked

\* Once no process has a descriptor of the writing end, its readers get to see
\* the end of the file: writeopen is cleared (or the pipe is gone).
Writers(k) == \E p \in Proc, fd \in Fd : ofile[p][fd] # 0 /\ file[ofile[p][fd]] = FD_PIPE(k, TRUE)
EofArrives == \A k \in Page : (pipe[k].writeopen /\ ~Writers(k)) ~> (~pipe[k].writeopen \/ Writers(k))
=============================================================================
