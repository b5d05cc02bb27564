----------------------------- MODULE MCFileSys ------------------------------
(* Two processes and a small tree, with or without a file or a directory a, *)
(* a file or a directory a/b, and either process anywhere in it.            *)
EXTENDS FileSys, TLC

A == [abs |-> FALSE, elems |-> <<"a">>]
AB == [abs |-> TRUE, elems |-> <<"a", "b">>]
Up == [abs |-> FALSE, elems |-> <<"..">>]
PathSet == {A, AB, Up}
LinkSet == {<<A, AB>>, <<AB, A>>}

CONSTANTS p1, p2

\* A directory i whose entry n, if any, names inode i + 1 of the given type.
Dir(i, up, n, child) ==
  [type |-> "dir", nlink |-> IF child = "dir" THEN 2 ELSE 1,
   ent |-> [NoEntries EXCEPT !["."] = i, ![".."] = up, ![n] = IF child = "none" THEN 0 ELSE i + 1]]
Other(t) == [FreeInode EXCEPT !.type = t, !.nlink = IF t = "none" THEN 0 ELSE 1]

\* /a is an a, /a/b is a b; removed(d, i) is d after the unlink of directory i.
Tree(a, b) == <<Dir(1, 1, "a", a),
                IF a = "dir" THEN Dir(2, 1, "b", b) ELSE Other(a),
                IF b = "dir" THEN Dir(3, 2, "a", "none") ELSE Other(b)>>
removed(d, i) == [d EXCEPT ![i].nlink = 0, ![i - 1] = Dir(i - 1, 1, "a", "none")]

\* States that the system calls lead to from the disk of mkfs: p1 in the root,
\* p2 in some directory, which p1 may have removed.
MCInit ==
  /\ cwd \in [Proc -> Inum] /\ cwd[p1] = ROOTINO
  /\ \/ disk = Tree("none", "none") /\ cwd[p2] = 1
     \/ disk = Tree("dir", "file") /\ cwd[p2] = 2
     \/ disk = Tree("dir", "dir") /\ cwd[p2] = 3
     \/ disk = removed(Tree("dir", "none"), 2) /\ cwd[p2] = 2
     \/ disk = removed(Tree("dir", "dir"), 3) /\ cwd[p2] = 3
  /\ ic = [i \in Inum |->
       [FreeEntry EXCEPT !.ref = Quantify(Proc, LAMBDA p : cwd[p] = i),
                         !.valid = disk[i].type = "dir" /\ disk[i].nlink = 0, !.type = disk[i].type]]
  /\ trans = NoProc
  /\ ofile = [p \in Proc |-> [f \in Fd |-> 0]]
  /\ todo = [p \in Proc |-> <<>>]
  /\ res = [p \in Proc |-> 0]
  /\ name = [p \in Proc |-> "."]
  /\ panicked = "no" /\ calls = 0 /\ adrift = {}

MCSpec == MCInit /\ [][Next]_vars /\ WF_vars(\E p \in Proc : Step(p))
=============================================================================
