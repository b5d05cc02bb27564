----------------------------- MODULE MCBlockMap -----------------------------
(* Two files on a small disk that has an empty, a short and a longer first *)
(* file to start with.  The first may fill its doubly indirect block, both *)
(* together the disk.                                                      *)
EXTENDS BlockMap

MadeSizes == {<<0, 0>>, <<2, 1>>, <<5, 1>>}

\* The next struct buf: dev, sector, one of the list pointers, and a word of its
\* data, a block of a file or nothing.
NextBuf == {<<1, sector, far, data>> :
              sector \in {4, 9}, far \in {FarMarked, FarFree}, data \in {0, 3}}
=============================================================================
