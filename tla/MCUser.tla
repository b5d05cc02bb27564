------------------------------- MODULE MCUser -------------------------------
(* What runs on top of the kernel, and the open files it works with.  A     *)
(* behaviour is about one of the parts; the others stay in their initial    *)
(* states.                                                                  *)
(*                                                                          *)
(* files: two processes, three open files, three descriptors each and a     *)
(* page for one pipe.  threads: the three tests, with a buffer of two,      *)
(* three rounds and stacks of four words.  shell: all lines of up to three  *)
(* tokens, and longer ones that combine pipes, lists, blocks and            *)
(* redirections; room for five processes.  philosophers: three of them and  *)
(* three meals, in each of the three solutions.  golf: two frolfers, three  *)
(* discs, buckets of two.  bursts, kernel_bursts: an array for two bursts   *)
(* and four ticks, with programs that call end_burst themselves and         *)
(* without.                                                                 *)
EXTENDS Integers, Sequences, SequencesExt

VARIABLES
  program,  \* the part this behaviour is about
  ft_ref, ft_file, ft_pipe, ft_iref, ft_ofile, ft_alive, ft_todo, ft_panicked, ft_calls,
  th_program, th_main, th_locked, th_nextLockId, th_mutex, th_pc, th_round, th_j, th_counter,
  th_mem, th_stack, th_freed, th_made, th_got,
  sh_proc, sh_buf, sh_lines, sh_failed,
  ph_solution, ph_pc, ph_round, ph_forks, ph_footman, ph_state, ph_phil, ph_mealsEaten, ph_waiting,
  ph_leaving,
  go_STASH, go_discs_on_field, go_stashLock, go_fieldLock, go_stashEmpty, go_stashFull, go_pc,
  go_bucket, go_tmp,
  bu_ticks, bu_word, bu_pc, bu_stray

ShortLines == SeqOf({"cat", "|", "&", ";", "(", ")", "<"}, 3)
LongLines == { <<"yes", "|", "cat", "<", "f">>, <<"cat", "|", "(", "cat", ";", "true", ")">>,
  <<"cat", "&", ";", "cat", "|", "true">>, <<"(", "true", "|", "cat", ")", "&">>,
  <<"true", "|", "cat", "|", "cat">>, <<"cat", "cat", ">", "f", "cat">>,
  <<"true", "cat", ">>", "f">>, <<"cd">> }
ShellLines == ShortLines \cup LongLines

FT == INSTANCE FileTable WITH Proc <- {"p1", "p2"}, Init1 <- "p1", NFILE <- 3, NOFILE <- 3, Page <-
  {1}, MaxCalls <- 4, ref <- ft_ref, file <- ft_file, pipe <- ft_pipe, iref <- ft_iref, ofile <-
  ft_ofile, alive <- ft_alive, todo <- ft_todo, panicked <- ft_panicked, calls <- ft_calls
Th == INSTANCE Threads WITH Program <- {"PC", "glob", "shrd"}, SIZE <- 2, MAX_COUNT <- 3, STACK <- 4,
  DEPTH <- 2, program <- th_program, main <- th_main, locked <- th_locked, nextLockId <- th_nextLockId, mutex <- th_mutex,
  pc <- th_pc, round <- th_round, j <- th_j, counter <- th_counter, mem <- th_mem, stack <-
  th_stack, freed <- th_freed, made <- th_made, got <- th_got
Sh == INSTANCE Shell WITH Lines <- ShellLines, MAXARGS <- 3, NPROC <- 5, NLINES <- 1, proc <-
  sh_proc, buf <- sh_buf, lines <- sh_lines, failed <- sh_failed
Ph == INSTANCE Philosophers WITH NUM_PHILOSOPHERS <- 3, NUM_MEALS <- 3, Solution <- {"footman",
  "left", "tanenbaum"}, solution <- ph_solution, pc <- ph_pc, round <- ph_round, forks <- ph_forks,
  footman <- ph_footman, state <- ph_state, phil <- ph_phil, mealsEaten <- ph_mealsEaten, waiting <-
  ph_waiting, leaving <- ph_leaving
Go == INSTANCE DiscGolf WITH Frolfer <- {"f1", "f2"}, Cart <- "cart", DISCS <- 3, BUCKET_SIZE <- 2,
  STASH <- go_STASH, discs_on_field <- go_discs_on_field, stashLock <- go_stashLock, fieldLock <-
  go_fieldLock, stashEmpty <- go_stashEmpty, stashFull <- go_stashFull, pc <- go_pc, bucket <-
  go_bucket, tmp <- go_tmp
OtherCalls == {"start_burst", "print_bursts", "other"}
Bu == INSTANCE Bursts WITH MAX_NUM_BURSTS <- 2, MaxTicks <- 4, Calls <- OtherCalls \cup {"end_burst"},
  ticks <- bu_ticks, word <- bu_word, pc <- bu_pc, stray <- bu_stray
KernelBu == INSTANCE Bursts WITH MAX_NUM_BURSTS <- 2, MaxTicks <- 4, Calls <- OtherCalls,
  ticks <- bu_ticks, word <- bu_word, pc <- bu_pc, stray <- bu_stray

ft_vars == <<ft_ref, ft_file, ft_pipe, ft_iref, ft_ofile, ft_alive, ft_todo, ft_panicked, ft_calls>>
th_vars == <<th_program, th_main, th_locked, th_nextLockId, th_mutex, th_pc, th_round, th_j,
  th_counter, th_mem, th_stack, th_freed, th_made, th_got>>
sh_vars == <<sh_proc, sh_buf, sh_lines, sh_failed>>
ph_vars == <<ph_solution, ph_pc, ph_round, ph_forks, ph_footman, ph_state, ph_phil, ph_mealsEaten,
  ph_waiting, ph_leaving>>
go_vars == <<go_STASH, go_discs_on_field, go_stashLock, go_fieldLock, go_stashEmpty, go_stashFull,
  go_pc, go_bucket, go_tmp>>
bu_vars == <<bu_ticks, bu_word, bu_pc, bu_stray>>
vars == <<program, ft_vars, th_vars, sh_vars, ph_vars, go_vars, bu_vars>>

Init ==
  /\ program \in {"files", "threads", "shell", "philosophers", "golf", "bursts", "kernel_bursts"}
  /\ FT!Init
  /\ (program # "threads" => th_program = "PC") /\ Th!Init
  /\ Sh!Init
  /\ (program # "philosophers" => ph_solution = "left") /\ Ph!Init
  /\ Go!Init
  /\ Bu!Init

Next ==
  \/ program = "files" /\ FT!Next
     /\ UNCHANGED <<program, th_vars, sh_vars, ph_vars, go_vars, bu_vars>>
  \/ program = "threads" /\ Th!Next
     /\ UNCHANGED <<program, ft_vars, sh_vars, ph_vars, go_vars, bu_vars>>
  \/ program = "shell" /\ Sh!Next
     /\ UNCHANGED <<program, ft_vars, th_vars, ph_vars, go_vars, bu_vars>>
  \/ program = "philosophers" /\ Ph!Next
     /\ UNCHANGED <<program, ft_vars, th_vars, sh_vars, go_vars, bu_vars>>
  \/ program = "golf" /\ Go!Next
     /\ UNCHANGED <<program, ft_vars, th_vars, sh_vars, ph_vars, bu_vars>>
  \/ program = "bursts" /\ Bu!Next
     /\ UNCHANGED <<program, ft_vars, th_vars, sh_vars, ph_vars, go_vars>>
  \/ program = "kernel_bursts" /\ KernelBu!Next
     /\ UNCHANGED <<program, ft_vars, th_vars, sh_vars, ph_vars, go_vars>>

Spec == Init /\ [][Next]_vars

\* The fairness of each part, as its own module states it.
FairSpec ==
  /\ Spec
  /\ \A p \in {"p1", "p2"} : WF_ft_vars(program = "files" /\ FT!Step(p))
  /\ WF_th_vars(program = "threads" /\ Th!MainStep)
  /\ \A t \in {"producer", "consumer"} : /\ WF_th_vars(program = "threads" /\ Th!ThreadStep(t))
                                        /\ SF_th_vars(program = "threads" /\ Th!Lock(t))
  /\ WF_sh_vars(program = "shell" /\ Sh!WaitLine)
  /\ \A q \in 1 .. 5 : WF_sh_vars(program = "shell" /\ Sh!runcmd(q))
  /\ \A i \in 0 .. 2 : WF_ph_vars(program = "philosophers" /\ Ph!Step(i))
  /\ WF_go_vars(program = "golf" /\ Go!cart) /\ SF_go_vars(program = "golf" /\ Go!Enter)
  /\ \A f \in {"f1", "f2"} : /\ WF_go_vars(program = "golf" /\ Go!frolfer(f))
                            /\ SF_go_vars(program = "golf" /\ Go!Throws(f))

-----------------------------------------------------------------------------
(* The properties of the parts, in the behaviours about them.               *)

\* What is open is counted right while calls fail half way: f->ref is the number
\* of descriptors, and of calls under way, that will still close the file
\* (file.c:24-79); each open inode and each iput that a close still owes has its
\* reference (file.c:70-78, sysfile.c:296-305); an end of a pipe is open exactly as
\* long as a file stands for it or is about to close it, and the page goes with the
\* second end (pipe.c:58-74); filedup and fileclose never panic (file.c:47, 61).
FilesCounted ==
  program = "files" => /\ FT!TypeOK
                       /\ FT!RefsExact
                       /\ FT!InodeRefsExact
                       /\ FT!PipeEnds
                       /\ FT!NoPanic

\* The consumer gets each value the producer put in once and in order, in the test
\* on one stack all but the first, which the second thread_create overwrites
\* (testmp2_PC.c:17-53, proc.c:576-603), because one thread at a time is between
\* mtx_lock and mtx_unlock (sysproc.c:178-194); and nobody writes into the frames
\* of a running thread, which lie below the block that malloc returned, nor frees
\* its stack (testmp2_PC.c:60-75, testmp2_shrd_stck.c:46-61).
ThreadsSafe ==
  program = "threads" => Th!NothingLost /\ Th!OneInside /\ Th!FramesKept

\* The shell's parser accepts exactly the lines of its grammar, and loses or moves
\* no token: the command, written out again, is parsed to the same command
\* (sh.c:328-447).
ShellParses ==
  program = "shell" => Sh!ParserAcceptsGrammar /\ Sh!TreeIsTheLine

\* No program and no waiting shell process holds a spare end of a pipe, and at the
\* prompt nothing of the last line runs but what is in the background, unless fork
\* has failed (sh.c:92-128, 168-171).
ShellCleansUp ==
  program = "shell" => Sh!NoEndLeaks /\ Sh!ForegroundDone

\* Neighbours never eat at the same time, in any of the three solutions, and none
\* gets more than rendezvousPoint meals ahead (3_philosophers.py:26-164).  Stash,
\* field and buckets always hold DISCS discs together, and the cart, which changes
\* the stash without its lock, is out only while a frolfer waits for it with
\* stashLock held (1_disc_golf_range.py:26-80).
ExercisesSafe ==
  /\ program = "philosophers" => Ph!TypeOK /\ Ph!NeighboursApart /\ Ph!NoOneRunsAhead
  /\ program = "golf" => Go!DiscsConserved /\ Go!CartCalledByHolder

\* burst_idx is at most one too large in user space, whatever end_burst stored over
\* it before; and if end_burst is left to the kernel, the bursts of a process add up
\* to no more than its life (sysproc.c:92-110, syscall.c:148-150).
BurstsAddUp ==
  /\ program = "bursts" => Bu!IndexComesBack
  /\ program = "kernel_bursts" => KernelBu!IndexComesBack /\ KernelBu!BurstsWithinLife

\* Everybody gets done.  Once no process has a descriptor of the writing end,
\* readers see the end of the file (file.c:54-79, pipe.c:58-74); main joins both
\* threads (testmp2_PC.c:55-78); the prompt comes back (sh.c:100-122, 168-171); all
\* philosophers finish all meals (3_philosophers.py:32-183); and someone always
\* takes a bucket again (1_disc_golf_range.py:26-80).
ProgramsFinish ==
  /\ program = "files" => FT!EofArrives
  /\ program = "threads" => Th!MainEnds
  /\ program = "shell" => Sh!PromptReturns
  /\ program = "philosophers" => Ph!AllMealsEaten
  /\ program = "golf" => Go!BucketsKeepComing
=============================================================================
