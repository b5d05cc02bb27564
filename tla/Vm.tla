--------------------------------- MODULE Vm ---------------------------------
(***************************************************************************)
(* Address spaces: kalloc.c, vm.c, exec.c, growproc and the memory part of *)
(* fork and wait, for processes that run at the same time.  Sizes are in   *)
(* units, PGSIZE of which make a page.                                     *)
(*                                                                         *)
(* A call takes one step for each kalloc, since only there, and where      *)
(* pages are freed, does it meet the others.  growproc works on a copy of  *)
(* its page directory: no one looks at it until it is done.                *)
(***************************************************************************)
EXTENDS Integers, Sequences, SequencesExt, FiniteSets, FiniteSetsExt

CONSTANTS Proc, Init1,     \* processes; the first one
          NPAGE,           \* physical pages
          Held,            \* how many pages pipes and kernel stacks may hold
          PGSIZE, NPTENTRIES,
          NUPD, NKPD,      \* page directory entries, user and kernel
          SegSizes,        \* memsz of programs, units
          GrowSizes,       \* arguments of sbrk besides -sz, units
          Stored,          \* the pages that user code writes to
          MaxCalls         \* bound on the number of calls

VARIABLES free, mem,     \* free pages; what is in each page
          pt, sz,        \* proc->pgdir and proc->sz
          alive,
          c,             \* the call that a process is in
          panicked, calls,
          held,          \* pages held elsewhere
          lost, ranOut   \* history: pages no one knows of; kalloc returned 0

vars == <<free, mem, pt, sz, alive, c, panicked, calls, held, lost, ranOut>>

Page == 1 .. NPAGE
NVPN == NUPD * NPTENTRIES                   \* user pages
Vpn == 0 .. NVPN - 1
KERNBASE == NVPN * PGSIZE
Pdx == 0 .. NUPD + NKPD - 1
PDX(v) == v \div NPTENTRIES
PgUp(n) == (n + PGSIZE - 1) \div PGSIZE     \* PGROUNDUP, as a page number

NoPte == [pa |-> 0, u |-> FALSE]
NoPgdir == [dir |-> 0, tab |-> [k \in Pdx |-> 0], pte |-> [v \in Vpn |-> NoPte]]

\* A call: the page directory d it works on, the next page v, the new size n,
\* the page pg it has got and not mapped yet, the child of fork.
Idle == [op |-> "user", d |-> NoPgdir, v |-> 0, n |-> 0, pg |-> 0, child |-> Init1]
Calls == {"kvmcopy", "kvmseg", "copy", "seg", "stack", "grow"}

PagesOf(d) == ({d.dir} \cup {d.tab[k] : k \in Pdx} \cup {d.pte[v].pa : v \in Vpn}) \ {0}

\* userinit: setupkvm, inituvm.
Init ==
  /\ held \in {1 .. h : h \in Held}
  /\ LET at == Cardinality(held)
         tab == [k \in Pdx |-> IF k >= NUPD THEN at + 2 + k - NUPD ELSE 0]
         first == at + 2 + NKPD
         d == [NoPgdir EXCEPT !.dir = at + 1, !.tab = [tab EXCEPT ![0] = first],
                              !.pte[0] = [pa |-> first + 1, u |-> TRUE]] IN
     /\ pt = [p \in Proc |-> IF p = Init1 THEN d ELSE NoPgdir]
     /\ free = Page \ (held \cup PagesOf(d))
     /\ mem = [pg \in Page |-> IF pg = first + 1 THEN "code" ELSE IF pg \in PagesOf(d) THEN "table" ELSE "junk"]
  /\ sz = [p \in Proc |-> IF p = Init1 THEN PGSIZE ELSE 0]
  /\ alive = [p \in Proc |-> p = Init1]
  /\ c = [p \in Proc |-> Idle]
  /\ panicked = FALSE /\ calls = 0 /\ lost = {} /\ ranOut = FALSE

-----------------------------------------------------------------------------
(* Memory.                                                                  *)

\* kalloc takes the first page of kmem.freelist.  Nothing depends on which page
\* that is, so the list is a set and the page its smallest.
kalloc(pg) == pg = Min(free) /\ free' = free \ {pg}

\* The tables of the kernel part that are still missing.
Missing(d) == {k \in NUPD .. NUPD + NKPD - 1 : d.tab[k] = 0}

\* The pages that deallocuvm visits from page m up to n: where there is no
\* page table it goes on NPTENTRIES pages later.
Visited(d, m, n) ==
  LET f[v \in 0 .. NVPN + NPTENTRIES] ==
        IF v >= n THEN {} ELSE IF d.tab[PDX(v)] = 0 THEN f[v + NPTENTRIES] ELSE {v} \cup f[v + 1] IN
  f[m]

\* deallocuvm(pgdir, oldsz, newsz): what it frees and what it leaves.
FirstFreed(newsz) == PgUp(newsz)

Dropped(d, oldsz, newsz) == IF newsz >= oldsz THEN {} ELSE Visited(d, FirstFreed(newsz), PgUp(oldsz))

StillMapped(d, vs) == d

Shrunk(d, vs) == [d EXCEPT !.pte = [v \in Vpn |-> IF v \in vs THEN NoPte ELSE d.pte[v]]]

UserPages(d, vs) == {d.pte[v].pa : v \in vs} \ {0}

kfree(pgs) == /\ free' = free \cup pgs
              /\ mem' = [pg \in Page |-> IF pg \in pgs THEN "junk" ELSE mem[pg]]

\* freevm: the user pages, the page tables, the directory.
Freed(d) == UserPages(d, Dropped(d, KERNBASE, 0)) \cup ({d.tab[k] : k \in Pdx} \ {0}) \cup {d.dir}

freevm(d) == kfree(Freed(d)) /\ lost' = lost \cup (PagesOf(d) \ Freed(d))

-----------------------------------------------------------------------------
(* Calls.                                                                   *)

\* p runs user code in page 0, so that has to be there.
Enter(p) == /\ ~panicked /\ calls < MaxCalls /\ calls' = calls + 1
            /\ alive[p] /\ c[p] = Idle /\ pt[p].pte[0].pa # 0
            /\ UNCHANGED <<panicked, held, lost, ranOut>>

Fork(p, q) ==
  /\ Enter(p) /\ ~alive[q] /\ \A o \in Proc : c[o].op = "user" \/ c[o].child # q
  /\ c' = [c EXCEPT ![p] = [Idle EXCEPT !.op = "kvmcopy", !.n = sz[p], !.child = q]]
  /\ UNCHANGED <<free, mem, pt, sz, alive>>

Exec(p, n) ==
  /\ Enter(p)
  /\ c' = [c EXCEPT ![p] = [Idle EXCEPT !.op = "kvmseg", !.n = n]]
  /\ UNCHANGED <<free, mem, pt, sz, alive>>

\* growproc.  A size that wraps around below 0 is larger than the old one.
Grow(p, n) ==
  /\ Enter(p) /\ n > 0 /\ sz[p] + n < KERNBASE
  /\ c' = [c EXCEPT ![p] = [Idle EXCEPT !.op = "grow", !.d = pt[p], !.v = PgUp(sz[p]), !.n = sz[p] + n]]
  /\ UNCHANGED <<free, mem, pt, sz, alive>>

Shrink(p, n) ==
  /\ Enter(p) /\ n < 0 /\ sz[p] + n >= 0
  /\ LET vs == Dropped(pt[p], sz[p], sz[p] + n) IN
     kfree(UserPages(pt[p], vs)) /\ pt' = [pt EXCEPT ![p] = Shrunk(@, vs)]
  /\ sz' = [sz EXCEPT ![p] = IF sz[p] + n = 0 THEN @ ELSE @ + n]
  /\ UNCHANGED <<alive, c>>

Going(p, ops) == ~panicked /\ c[p].op \in ops /\ UNCHANGED <<calls, held>>
Goes(p, r) == c' = [c EXCEPT ![p] = r]

OutOfMemory == free = {} /\ ranOut' = TRUE

\* setupkvm: the directory, then the tables of the kernel part; if one of them
\* fails, those before are left behind.
KvmStep(p) ==
  /\ Going(p, {"kvmcopy", "kvmseg"})
  /\ \/ /\ OutOfMemory
        /\ lost' = lost \cup PagesOf(c[p].d) /\ Goes(p, Idle)
        /\ UNCHANGED <<free, mem>>
     \/ \E pg \in free :
          /\ kalloc(pg) /\ mem' = [mem EXCEPT ![pg] = "table"] /\ UNCHANGED <<lost, ranOut>>
          /\ LET d == IF c[p].d.dir = 0 THEN [c[p].d EXCEPT !.dir = pg]
                      ELSE [c[p].d EXCEPT !.tab[Min(Missing(c[p].d))] = pg] IN
             Goes(p, [c[p] EXCEPT !.d = d, !.op = IF Missing(d) # {} THEN @
                                                 ELSE IF @ = "kvmcopy" THEN "copy" ELSE "seg"])
  /\ UNCHANGED <<pt, sz, alive, panicked>>

Working(p) == Going(p, {"copy", "seg", "stack", "grow"}) /\ c[p].v < PgUp(c[p].n)

\* The next page: zeroed by allocuvm, copied by copyuvm, which insists on the
\* parent's pages.
Zeroed == "zero"

Content(p) == IF c[p].op = "copy" THEN mem[pt[p].pte[c[p].v].pa] ELSE Zeroed

CopyPanic(p) == c[p].op = "copy" /\ pt[p].pte[c[p].v].pa = 0

TakePage(p) ==
  /\ Working(p) /\ c[p].pg = 0 /\ free # {} /\ ~CopyPanic(p)
  /\ \E pg \in free : /\ kalloc(pg) /\ mem' = [mem EXCEPT ![pg] = Content(p)]
                      /\ Goes(p, [c[p] EXCEPT !.pg = pg])
  /\ UNCHANGED <<pt, sz, alive, panicked, lost, ranOut>>

\* mappages: walkpgdir may need a page for a table.  Without one copyuvm gives
\* up and allocuvm does not notice; either way the page itself is lost.
Perm(p) == IF c[p].op = "copy" THEN pt[p].pte[c[p].v].u ELSE TRUE

Mapped(p, d) == [c[p] EXCEPT !.d = [d EXCEPT !.pte[c[p].v] = [pa |-> c[p].pg, u |-> Perm(p)]],
                             !.pg = 0, !.v = @ + 1]

Table(p) == c[p].d.tab[PDX(c[p].v)]

MapPage(p) ==
  /\ Working(p) /\ c[p].pg # 0
  /\ \/ Table(p) # 0 /\ Goes(p, Mapped(p, c[p].d)) /\ UNCHANGED <<free, mem>>
     \/ /\ Table(p) = 0
        /\ \E pg \in free : /\ kalloc(pg) /\ mem' = [mem EXCEPT ![pg] = "table"]
                            /\ Goes(p, Mapped(p, [c[p].d EXCEPT !.tab[PDX(c[p].v)] = pg]))
  /\ panicked' = (c[p].d.pte[c[p].v] # NoPte)
  /\ UNCHANGED <<pt, sz, alive, lost, ranOut>>

MapFails(p) ==
  /\ Working(p) /\ c[p].pg # 0 /\ Table(p) = 0 /\ OutOfMemory
  /\ \/ /\ c[p].op # "copy" /\ lost' = lost \cup {c[p].pg}
        /\ Goes(p, [c[p] EXCEPT !.pg = 0, !.v = @ + 1]) /\ UNCHANGED <<free, mem>>
     \/ /\ c[p].op = "copy" /\ Goes(p, Idle)
        /\ kfree(Freed(c[p].d)) /\ lost' = lost \cup (PagesOf(c[p].d) \ Freed(c[p].d)) \cup {c[p].pg}
  /\ UNCHANGED <<pt, sz, alive, panicked>>

\* No page: copyuvm and exec free what they have built, allocuvm what it has
\* added.
GrowKeeps(p, d, newsz) == pt' = [pt EXCEPT ![p] = d] /\ UNCHANGED <<free, mem, lost>>

UndoGrow(p, d, newsz) ==
  LET vs == Dropped(d, newsz, sz[p]) IN
  /\ kfree(UserPages(d, vs))
  /\ pt' = [pt EXCEPT ![p] = Shrunk(d, vs)]
  /\ UNCHANGED lost

NoPage(p) ==
  /\ Working(p) /\ c[p].pg = 0 /\ ~CopyPanic(p) /\ OutOfMemory /\ Goes(p, Idle)
  /\ \/ c[p].op = "grow" /\ UndoGrow(p, c[p].d, c[p].n)
     \/ c[p].op # "grow" /\ freevm(c[p].d) /\ UNCHANGED pt
  /\ UNCHANGED <<sz, alive, panicked>>

CopyPanics(p) ==
  /\ Working(p) /\ c[p].pg = 0 /\ CopyPanic(p) /\ panicked' = TRUE
  /\ UNCHANGED <<free, mem, pt, sz, alive, c, lost, ranOut>>

-----------------------------------------------------------------------------
(* The end of a call.                                                       *)

Done(p, op) == Going(p, {op}) /\ c[p].v >= PgUp(c[p].n) /\ UNCHANGED ranOut

ForkDone(p) ==
  /\ Done(p, "copy") /\ Goes(p, Idle)
  /\ pt' = [pt EXCEPT ![c[p].child] = c[p].d] /\ sz' = [sz EXCEPT ![c[p].child] = c[p].n]
  /\ alive' = [alive EXCEPT ![c[p].child] = TRUE]
  /\ UNCHANGED <<free, mem, panicked, lost>>

GrowDone(p) ==
  /\ Done(p, "grow") /\ Goes(p, Idle)
  /\ pt' = [pt EXCEPT ![p] = c[p].d] /\ sz' = [sz EXCEPT ![p] = c[p].n]
  /\ UNCHANGED <<free, mem, alive, panicked, lost>>

ExecBad(p) == freevm(c[p].d) /\ Goes(p, Idle) /\ UNCHANGED <<pt, sz, panicked>>

\* loaduvm, then the stack.  A file that is too short is an error, a missing
\* table a panic.  (Without the page alone it would write to physical page 0.)
Loaded(p) == {c[p].d.pte[v].pa : v \in 0 .. PgUp(c[p].n) - 1}
NeedTables(p) == {c[p].d.tab[PDX(v)] : v \in 0 .. PgUp(c[p].n) - 1}

SegDone(p) ==
  /\ Done(p, "seg")
  /\ \/ 0 \in NeedTables(p) /\ panicked' = TRUE /\ UNCHANGED <<free, mem, lost, pt, sz, c>>
     \/ ExecBad(p)
     \/ (PgUp(c[p].n) + 2) * PGSIZE >= KERNBASE /\ ExecBad(p)
     \/ /\ (PgUp(c[p].n) + 2) * PGSIZE < KERNBASE /\ 0 \notin NeedTables(p)
        /\ mem' = [pg \in Page |-> IF pg \in Loaded(p) THEN "code" ELSE mem[pg]]
        /\ Goes(p, [c[p] EXCEPT !.op = "stack", !.n = (PgUp(@) + 2) * PGSIZE])
        /\ UNCHANGED <<free, lost, pt, sz, panicked>>
  /\ UNCHANGED alive

\* clearpteu takes the guard page below the stack from user code; copyout puts
\* the arguments on the stack, if uva2ka finds its page.  Both need the page
\* tables.  Then the new image replaces the old one.
clearpteu(d, v) == [d EXCEPT !.pte[v].u = FALSE]

uva2ka(d, v) == IF d.pte[v].u THEN d.pte[v].pa ELSE 0

copyout(d, v) == uva2ka(d, v) # 0

StackDone(p) ==
  LET guard == c[p].v - 2
      stack == c[p].v - 1
      d == clearpteu(c[p].d, guard) IN
  /\ Done(p, "stack") /\ UNCHANGED alive
  /\ \/ /\ {d.tab[PDX(guard)], d.tab[PDX(stack)]} \cap {0} # {}
        /\ panicked' = TRUE /\ UNCHANGED <<free, mem, lost, pt, sz, c>>
     \/ d.tab[PDX(guard)] # 0 /\ d.tab[PDX(stack)] # 0 /\ ~copyout(d, stack) /\ ExecBad(p)
     \/ /\ d.tab[PDX(guard)] # 0 /\ copyout(d, stack)
        /\ pt' = [pt EXCEPT ![p] = d] /\ sz' = [sz EXCEPT ![p] = c[p].n]
        /\ freevm(pt[p]) /\ Goes(p, Idle) /\ UNCHANGED panicked

\* User code writes to a page it may access.
Store(p, v) ==
  /\ ~panicked /\ alive[p] /\ c[p] = Idle /\ pt[p].pte[0].pa # 0
  /\ pt[p].pte[v].u /\ mem' = [mem EXCEPT ![pt[p].pte[v].pa] = "data"]
  /\ UNCHANGED <<free, pt, sz, alive, c, panicked, calls, held, lost, ranOut>>

\* exit and the parent's wait.
Reap(p) ==
  /\ ~panicked /\ alive[p] /\ p # Init1 /\ c[p] = Idle /\ freevm(pt[p])
  /\ pt' = [pt EXCEPT ![p] = NoPgdir] /\ sz' = [sz EXCEPT ![p] = 0]
  /\ alive' = [alive EXCEPT ![p] = FALSE]
  /\ UNCHANGED <<c, panicked, calls, held, ranOut>>

Step(p) == \/ KvmStep(p) \/ TakePage(p) \/ MapPage(p) \/ MapFails(p) \/ NoPage(p) \/ CopyPanics(p)
           \/ ForkDone(p) \/ GrowDone(p) \/ SegDone(p) \/ StackDone(p)

Next == \E p \in Proc :
          \/ Step(p) \/ Reap(p)
          \/ \E q \in Proc : Fork(p, q)
          \/ \E n \in SegSizes : Exec(p, n)
          \/ \E n \in GrowSizes \cup {-sz[p]} : Grow(p, n) \/ Shrink(p, n)
          \/ \E v \in Stored : Store(p, v)

Spec == Init /\ [][Next]_vars

-----------------------------------------------------------------------------
(* Correctness.                                                             *)

\* The values of the variables.
TypeOK == /\ free \subseteq Page /\ lost \subseteq Page /\ held \subseteq Page
          /\ \A pg \in Page : mem[pg] \in {"junk", "table", "zero", "code", "data"}
          /\ \A p \in Proc : /\ pt[p].dir \in Page \cup {0}
                             /\ \A k \in Pdx : pt[p].tab[k] \in Page \cup {0}
                             /\ \A v \in Vpn : pt[p].pte[v].pa \in Page \cup {0}
                             /\ c[p].op \in Calls \cup {"user"} /\ c[p].pg \in Page \cup {0}
          /\ sz \in [Proc -> 0 .. KERNBASE] /\ alive \in [Proc -> BOOLEAN]
          /\ panicked \in BOOLEAN /\ ranOut \in BOOLEAN

\* Every use of a page in a page directory.
UsesIn(d) == <<d.dir>> \o [i \in 1 .. NUPD + NKPD |-> d.tab[i - 1]] \o [i \in 1 .. NVPN |-> d.pte[i - 1].pa]

\* Of a process: its address space, or the one growproc works on, the one that a
\* call builds, and the page in between.
UsesOf(p) == (IF c[p].op = "grow" THEN <<>> ELSE UsesIn(pt[p])) \o UsesIn(c[p].d) \o <<c[p].pg>>
Used == SelectSeq(FlattenSeq([i \in 1 .. Cardinality(Proc) |-> UsesOf(SetToSeq(Proc)[i])]), LAMBDA x : x # 0)

\* A page has one use: it is free, lost, held elsewhere or in one place of one
\* address space.  No mapping survives kfree, none is handed out twice.
OneUse == /\ IsInjective(Used)
          /\ ToSet(Used) \cap free = {} /\ (ToSet(Used) \cup free) \cap (lost \cup held) = {}

\* Unless memory has run out no page is lost.
NoLeak == ~ranOut => ToSet(Used) \cup free \cup held = Page

\* Unless memory has run out, exactly the pages below sz are mapped in a
\* process that can run, as copyuvm expects (vm.c:320-323).
SizeIsMapped ==
  ~ranOut => \A p \in Proc : alive[p] /\ pt[p].pte[0].pa # 0 =>
               \A v \in Vpn : (pt[p].pte[v].pa # 0) = (v < PgUp(sz[p]))

\* No page above sz is mapped, also after allocuvm had to give up.
NothingAboveSize == \A p \in Proc, v \in Vpn : pt[p].pte[v].pa # 0 => v < PgUp(sz[p])

\* The panics of mappages, copyuvm and clearpteu need memory that has run out
\* before.
PanicsNeedOom == panicked => ranOut

\* User code never sees what others left in a page: what is mapped has been
\* zeroed, loaded or copied (vm.c:239, 327).
NoJunkMapped == \A p \in Proc, v \in Vpn : pt[p].pte[v].pa # 0 => mem[pt[p].pte[v].pa] \notin {"junk", "table"}

Image(p) == [v \in Vpn |-> IF pt[p].pte[v].pa = 0 THEN "none" ELSE mem[pt[p].pte[v].pa]]

\* What one process does changes no other address space: only steps of p
\* itself, or making or reaping it, touch the image of p.
ImagesPrivate == [][\A p \in Proc : alive[p] /\ alive'[p] /\ Image(p)' # Image(p) =>
                      \A q \in Proc \ {p} : c'[q] = c[q] /\ Image(q)' = Image(q)]_vars

\* A new process has the memory of the one that forked it, guard page
\* included.
ForkCopies == [][\A q \in Proc : ~alive[q] /\ alive'[q] =>
                   \E p \in Proc : /\ alive[p] /\ Image(q)' = Image(p)
                                   /\ \A v \in Vpn : pt'[q].pte[v].u = pt[p].pte[v].u]_vars
=============================================================================
