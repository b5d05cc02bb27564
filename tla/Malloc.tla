------------------------------- MODULE Malloc --------------------------------
(***************************************************************************)
(* The user-level allocator, umalloc.c: a circular list of free blocks in  *)
(* address order, searched from where the last search ended.  The unit of  *)
(* memory is a Header; `base' is unit 0 and the heap starts at unit 1.     *)
(* What the code never reads again is cleared: the header of a block that  *)
(* is joined to another, and the ptr of one that is handed out.            *)
(***************************************************************************)
EXTENDS Integers, FiniteSetsExt

CONSTANTS HEAP,       \* units the process can have
          MINCORE,    \* the least morecore asks for: 4096
          Units       \* sizes asked for, the header included

NULL == -1
Unit == 0 .. HEAP

VARIABLES ptr, size,  \* the headers
          freep,      \* where the next search starts
          brk,        \* end of the heap
          used,       \* blocks handed out: start -> units asked for
          others      \* units that the program took from sbrk itself

vars == <<ptr, size, freep, brk, used, others>>

Init == /\ ptr = [u \in Unit |-> 0] /\ size = [u \in Unit |-> 0]
        /\ freep = NULL /\ brk = 1 /\ used = << >> /\ others = {}

Heap == [ptr |-> ptr, size |-> size, freep |-> freep]
Becomes(h) == ptr' = h.ptr /\ size' = h.size /\ freep' = h.freep

\* The block k steps along the list from `from'.
Along(h, from, k) == LET at[i \in Nat] == IF i = 0 THEN from ELSE h.ptr[at[i - 1]] IN at[k]

\* How many steps to the first block with T, among the next HEAP + 1.
Steps(h, from, T(_)) == {k \in Unit : T(Along(h, from, k))}
Search(h, from, T(_)) == Along(h, from, Min(Steps(h, from, T)))

-----------------------------------------------------------------------------
\* Where free puts a block: between its neighbours, or at the end of the list.
Before(h, p, bp) == \/ bp > p /\ bp < h.ptr[p]
                    \/ p >= h.ptr[p] /\ (bp > p \/ bp < h.ptr[p])

\* bp and the block after it become one if they touch.
JoinUpper(h, bp, q) == IF bp + h.size[bp] = q
                       THEN [h EXCEPT !.size[bp] = @ + h.size[q], !.ptr[bp] = h.ptr[q],
                                      !.size[q] = 0, !.ptr[q] = 0]
                       ELSE [h EXCEPT !.ptr[bp] = q]

NoAdd(h, p, bp) == IF p + h.size[p] = bp THEN [h EXCEPT !.ptr[p] = h.ptr[bp]]
                   ELSE [h EXCEPT !.ptr[p] = bp]

JoinLower(h, p, bp) == IF p + h.size[p] = bp
                       THEN [h EXCEPT !.size[p] = @ + h.size[bp], !.ptr[p] = h.ptr[bp],
                                      !.size[bp] = 0, !.ptr[bp] = 0]
                       ELSE [h EXCEPT !.ptr[p] = bp]

free(h, bp) == LET T(p) == Before(h, p, bp)
                   p == Search(h, h.freep, T)
                   upper == JoinUpper(h, bp, h.ptr[p])
               IN [JoinLower(upper, p, bp) EXCEPT !.freep = p]

-----------------------------------------------------------------------------
Started(h) == IF h.freep = NULL THEN [h EXCEPT !.freep = 0, !.ptr[0] = 0, !.size[0] = 0] ELSE h

\* Blocks before one that is large enough, freep being the first.
Fits(h, n) == LET T(p) == h.size[h.ptr[p]] >= n IN Steps(h, h.freep, T)
Prev(h, n) == Along(h, h.freep, Min(Fits(h, n)))

\* The head of a larger block stays free, the tail is handed out.
Carve(h, prev, p, n) ==
  IF h.size[p] = n THEN <<[h EXCEPT !.ptr[prev] = h.ptr[p], !.ptr[p] = 0, !.freep = prev], p>>
  ELSE LET q == p + h.size[p] - n
       IN <<[h EXCEPT !.size[p] = @ - n, !.size[q] = n, !.freep = prev], q>>

Allocate(h, n) == LET prev == Prev(h, n) IN Carve(h, prev, h.ptr[prev], n)

Returns(hp, n) == /\ Becomes(hp[1]) /\ used' = [b \in DOMAIN used \cup {hp[2]} |-> IF b = hp[2] THEN n ELSE used[b]]

malloc(n) ==
  LET h == Started(Heap) IN
  /\ Fits(h, n) # {} /\ Returns(Allocate(h, n), n) /\ UNCHANGED <<brk, others>>

AskFor(n) == IF n < MINCORE THEN MINCORE ELSE n

\* No block is large enough: morecore, and the search goes on.
mallocMore(n) ==
  LET h == Started(Heap)
      more == free([h EXCEPT !.size[brk] = AskFor(n)], brk)
  IN /\ Fits(h, n) = {} /\ brk + AskFor(n) <= HEAP
     /\ Returns(Allocate(more, n), n) /\ brk' = brk + AskFor(n) /\ UNCHANGED others

\* sbrk fails, and so does malloc.
mallocFails(n) ==
  LET h == Started(Heap) IN
  /\ Fits(h, n) = {} /\ brk + AskFor(n) > HEAP /\ Becomes(h) /\ UNCHANGED <<brk, used, others>>

Free(b) == /\ b \in DOMAIN used /\ Becomes(free(Heap, b))
           /\ used' = [c \in DOMAIN used \ {b} |-> used[c]] /\ UNCHANGED <<brk, others>>

\* The program grows itself, so that the next core does not touch the last.
Sbrk == /\ brk < HEAP /\ others = {} /\ brk' = brk + 1 /\ others' = {brk} /\ UNCHANGED <<ptr, size, freep, used>>

Next == \/ \E n \in Units : malloc(n) \/ mallocMore(n) \/ mallocFails(n)
        \/ \E b \in Unit : Free(b)
        \/ Sbrk

Spec == Init /\ [][Next]_vars

-----------------------------------------------------------------------------
\* The blocks of the list, without base.
OnList == {Along(Heap, 0, k) : k \in Unit} \ {0}
Block(b) == b .. b + size[b] - 1

\* Every unit of the heap is in exactly one block, handed out or on the list,
\* or was taken by the program: no two blocks overlap and none is lost.
HeapTiled ==
  LET blocks == DOMAIN used \cup OnList IN
  /\ DOMAIN used \cap OnList = {}
  /\ UNION {Block(b) : b \in blocks} \cup others = 1 .. brk - 1
  /\ \A b \in blocks : Block(b) \cap others = {} /\ \A c \in blocks \ {b} : Block(b) \cap Block(c) = {}
  /\ \A b \in DOMAIN used : size[b] = used[b]

\* The list is in address order from base and back to it, freep is on it, and
\* no two free blocks touch: every gap is as large as it can be.
FreeListOrdered ==
  freep # NULL =>
    /\ freep \in OnList \cup {0} /\ size[0] = 0
    /\ \A b \in OnList \cup {0} : ptr[b] > b \/ ptr[b] = 0
    /\ \A b, c \in OnList : b + size[b] # c
=============================================================================
