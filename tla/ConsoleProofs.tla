---------------------------- MODULE ConsoleProofs ---------------------------
(***************************************************************************)
(* Proofs about Console: the ring buffer implements the queues of Tty, and *)
(* readers neither sleep over input nor read past the end of a line.       *)
(***************************************************************************)
EXTENDS Console, Remainders

Index == 0 .. UINT - 1
Cells == 0 .. INPUT_BUF - 1
Stored == Char \cup {Nul}

\* Slice of any buffer b, and its length.
Dist(i, j) == (j - i) % UINT
Part(b, i, j) == [k \in 1 .. Dist(i, j) |-> b[Cell((i + k - 1) % UINT)]]

-----------------------------------------------------------------------------
(* Distances on the ring.                                                   *)

\* How far it is from i to j, and one step up.
LEMMA Distance ==
  ASSUME Sizes, NEW i \in Index, NEW j \in Index
  PROVE  /\ Dist(i, j) = IF i <= j THEN j - i ELSE j - i + UINT
         /\ Dist(i, j) \in Nat /\ Dist(i, j) < UINT
         /\ Up(i) = (IF i = UINT - 1 THEN 0 ELSE i + 1) /\ Up(i) \in Index
<1>1. Dist(i, j) = IF i <= j THEN j - i ELSE j - i + UINT
  BY Zenon, ModDifference DEF Sizes, Index, Dist
<1>2. UINT \in Nat /\ UINT > 1 /\ i \in 0 .. UINT - 1 /\ j \in 0 .. UINT - 1
  BY DEF Sizes, Index
<1>3. Dist(i, j) \in Nat /\ Dist(i, j) < UINT
  BY <1>1, <1>2
<1>4. /\ i + 1 < UINT => (i + 1) % UINT = i + 1
      /\ UINT <= i + 1 /\ i + 1 < UINT + UINT => (i + 1) % UINT = (i + 1) - UINT
  <2>1. i + 1 \in Nat /\ UINT \in Nat \ {0}
    BY <1>2
  <2> QED
    BY Zenon, <2>1, ModSmall
<1>5. Up(i) = (IF i = UINT - 1 THEN 0 ELSE i + 1)
  BY <1>2, <1>4 DEF Up
<1> QED
  BY <1>1, <1>2, <1>3, <1>5 DEF Index

\* One step up at the far end, or at the near end.
LEMMA DistanceUp ==
  ASSUME Sizes, NEW i \in Index, NEW j \in Index
  PROVE  /\ Dist(i, j) + 1 < UINT => Dist(i, Up(j)) = Dist(i, j) + 1
         /\ i # j => Dist(Up(i), j) = Dist(i, j) - 1 /\ Dist(i, j) > 0
         /\ Dist(i, i) = 0 /\ (Dist(i, j) = 0 => i = j)
<1>1. UINT \in Nat /\ UINT > 1 /\ i \in 0 .. UINT - 1 /\ j \in 0 .. UINT - 1
  BY DEF Sizes, Index
<1>2. /\ Dist(i, j) = IF i <= j THEN j - i ELSE j - i + UINT
      /\ Up(i) = (IF i = UINT - 1 THEN 0 ELSE i + 1) /\ Up(i) \in Index
      /\ Up(j) = (IF j = UINT - 1 THEN 0 ELSE j + 1) /\ Up(j) \in Index
      /\ Dist(i, i) = 0
  BY <1>1, Distance
<1>3. /\ Dist(i, Up(j)) = IF i <= Up(j) THEN Up(j) - i ELSE Up(j) - i + UINT
      /\ Dist(Up(i), j) = IF Up(i) <= j THEN j - Up(i) ELSE j - Up(i) + UINT
  BY Zenon, <1>2, Distance
<1> QED
  BY <1>1, <1>2, <1>3

\* k steps down from j.
LEMMA DistanceDown ==
  ASSUME Sizes, NEW i \in Index, NEW j \in Index, NEW k \in Nat, k <= Dist(i, j)
  PROVE  /\ (j - k) % UINT \in Index
         /\ Dist(i, (j - k) % UINT) = Dist(i, j) - k
<1>1. UINT \in Nat /\ UINT > 1 /\ i \in 0 .. UINT - 1 /\ j \in 0 .. UINT - 1
  BY DEF Sizes, Index
<1>2. /\ Dist(i, j) = IF i <= j THEN j - i ELSE j - i + UINT
      /\ Dist(i, j) \in Nat /\ Dist(i, j) < UINT
  BY Zenon, Distance
<1>3. k \in Index
  BY <1>1, <1>2 DEF Index
<1>4. PICK x : x = (j - k) % UINT
  OBVIOUS
<1>5. x = IF k <= j THEN j - k ELSE j - k + UINT
  BY Zenon, <1>3, <1>4, Distance DEF Dist
<1>6. x \in Index
  BY <1>1, <1>3, <1>5 DEF Index
<1>7. Dist(i, x) = IF i <= x THEN x - i ELSE x - i + UINT
  BY Zenon, <1>6, Distance
<1>8. Dist(i, x) = Dist(i, j) - k
  BY <1>1, <1>2, <1>5, <1>6, <1>7 DEF Index
<1> QED
  BY Zenon, <1>4, <1>6, <1>8

\* A way by a place in between.
LEMMA DistanceBy ==
  ASSUME Sizes, NEW i \in Index, NEW x \in Index, NEW j \in Index, Dist(i, x) <= Dist(i, j)
  PROVE  Dist(i, j) = Dist(i, x) + Dist(x, j)
<1>1. UINT \in Nat /\ i \in 0 .. UINT - 1 /\ j \in 0 .. UINT - 1 /\ x \in 0 .. UINT - 1
  BY DEF Sizes, Index
<1>2. /\ Dist(i, j) = IF i <= j THEN j - i ELSE j - i + UINT
      /\ Dist(i, x) = IF i <= x THEN x - i ELSE x - i + UINT
      /\ Dist(x, j) = IF x <= j THEN j - x ELSE j - x + UINT
  BY Zenon, Distance
<1> QED
  BY <1>1, <1>2

-----------------------------------------------------------------------------
(* Parts of the buffer.                                                     *)

\* The cell of an index that may have wrapped: INPUT_BUF divides 2^32.
LEMMA WrappedCell ==
  ASSUME Sizes, NEW x \in Nat, x < UINT + UINT
  PROVE  Cell(x % UINT) = x % INPUT_BUF /\ x % INPUT_BUF \in Cells
<1>1. (x % UINT) % INPUT_BUF = x % INPUT_BUF
  BY Zenon, ModDivides DEF Sizes
<1>2. x % INPUT_BUF \in 0 .. INPUT_BUF - 1
  BY Zenon, ModDiv DEF Sizes
<1> QED
  BY Zenon, <1>1, <1>2 DEF Cell, Cells

\* What a part is made of.
LEMMA PartIs ==
  ASSUME Sizes, NEW b \in [Cells -> Stored], NEW i \in Index, NEW j \in Index
  PROVE  /\ Part(b, i, j) \in [1 .. Dist(i, j) -> Stored]
         /\ \A k \in 1 .. Dist(i, j) : /\ Part(b, i, j)[k] = b[(i + k - 1) % INPUT_BUF]
                                       /\ i + k - 1 \in Nat /\ i + k - 1 < UINT + UINT
                                       /\ (i + k - 1) % INPUT_BUF \in Cells
<1>1. ASSUME NEW k \in 1 .. Dist(i, j)
      PROVE  /\ i + k - 1 \in Nat /\ i + k - 1 < UINT + UINT
             /\ Cell((i + k - 1) % UINT) = (i + k - 1) % INPUT_BUF
             /\ (i + k - 1) % INPUT_BUF \in Cells
  <2>1. UINT \in Nat /\ i \in 0 .. UINT - 1 /\ Dist(i, j) \in Nat /\ Dist(i, j) < UINT
    BY Distance DEF Sizes, Index
  <2>2. i + k - 1 \in Nat /\ i + k - 1 < UINT + UINT
    BY <2>1
  <2> QED
    BY Zenon, <2>2, WrappedCell
<1> QED
  BY Zenon, <1>1 DEF Part

\* A store at x leaves the part up to x alone.
LEMMA PartSame ==
  ASSUME Sizes, NEW b \in [Cells -> Stored], NEW c \in Stored,
         NEW i \in Index, NEW j \in Index, NEW x \in Index,
         Dist(i, j) <= Dist(i, x), Dist(i, x) < INPUT_BUF
  PROVE  Part([b EXCEPT ![Cell(x)] = c], i, j) = Part(b, i, j)
<1>1. /\ UINT \in Nat \ {0} /\ i \in 0 .. UINT - 1 /\ x \in 0 .. UINT - 1
      /\ INPUT_BUF \in Nat \ {0} /\ INPUT_BUF < UINT
  BY DEF Sizes, Index
<1>2. /\ Dist(i, x) = IF i <= x THEN x - i ELSE x - i + UINT
      /\ Dist(i, j) \in Nat /\ Dist(i, x) \in Nat
  BY Zenon, Distance
<1>3. x % UINT = x
  BY <1>1, ModSmall
<1>4. ASSUME NEW k \in 1 .. Dist(i, j)
      PROVE  Cell(x) # Cell((i + k - 1) % UINT)
  <2>1. PICK y \in {x, x + UINT} : y = i + Dist(i, x)
    BY <1>1, <1>2
  <2>2. /\ y \in Nat /\ y < UINT + UINT /\ i + k - 1 \in Nat /\ i + k - 1 < y
        /\ y < (i + k - 1) + INPUT_BUF
    BY <1>1, <1>2, <2>1
  <2>3. i + k - 1 < UINT + UINT
    BY <1>1, <2>2
  <2>4. y % UINT = x
    <3>1. x + UINT \in Nat /\ UINT <= x + UINT /\ x + UINT < UINT + UINT /\ (x + UINT) - UINT = x
      BY <1>1
    <3>2. (x + UINT) % UINT = x
      BY Zenon, <1>1, <3>1, ModSmall
    <3> QED
      BY Zenon, <1>3, <2>1, <3>2
  <2>5. Cell(x) = y % INPUT_BUF
    BY Zenon, <2>2, <2>4, WrappedCell
  <2>6. Cell((i + k - 1) % UINT) = (i + k - 1) % INPUT_BUF
    BY Zenon, <2>2, <2>3, WrappedCell
  <2>7. (i + k - 1) % INPUT_BUF # y % INPUT_BUF
    BY Zenon, <1>1, <2>2, ModDistinct
  <2> QED
    BY Zenon, <2>5, <2>6, <2>7
<1>5. ASSUME NEW k \in 1 .. Dist(i, j)
      PROVE  Cell((i + k - 1) % UINT) \in Cells
  <2>1. i + k - 1 \in Nat /\ i + k - 1 < UINT + UINT
    BY Zenon, PartIs
  <2> QED
    BY Zenon, <2>1, WrappedCell
<1>6. ASSUME NEW k \in 1 .. Dist(i, j)
      PROVE  [b EXCEPT ![Cell(x)] = c][Cell((i + k - 1) % UINT)] = b[Cell((i + k - 1) % UINT)]
  BY Zenon, <1>4, <1>5
<1> QED
  BY Zenon, <1>6 DEF Part

\* A store at j makes the part from i one longer.
LEMMA PartExtend ==
  ASSUME Sizes, NEW b \in [Cells -> Stored], NEW c \in Stored,
         NEW i \in Index, NEW j \in Index, Dist(i, j) < INPUT_BUF
  PROVE  /\ Part([b EXCEPT ![Cell(j)] = c], i, Up(j)) = Append(Part(b, i, j), c)
         /\ Dist(i, Up(j)) = Dist(i, j) + 1
<1> DEFINE b2 == [b EXCEPT ![Cell(j)] = c]
           m == Dist(i, j)
<1>1. /\ UINT \in Nat \ {0} /\ i \in 0 .. UINT - 1 /\ j \in 0 .. UINT - 1
      /\ INPUT_BUF \in Nat \ {0} /\ INPUT_BUF < UINT
  BY DEF Sizes, Index
<1>2. m = (IF i <= j THEN j - i ELSE j - i + UINT) /\ m \in Nat /\ Up(j) \in Index
  BY Zenon, Distance
<1>3. Dist(i, Up(j)) = m + 1
  <2>1. m + 1 < UINT
    BY <1>1, <1>2
  <2> QED
    BY Zenon, <2>1, DistanceUp
<1>4. Cell(j) \in Cells
  BY <1>1, ModDiv DEF Cell, Cells
<1>5. b2 \in [Cells -> Stored]
  BY Zenon
<1>6. Part(b2, i, j) = Part(b, i, j)
  <2>1. Dist(i, j) <= Dist(i, j)
    BY <1>2
  <2> QED
    BY Zenon, <2>1, PartSame
<1>7. Part(b2, i, Up(j)) \in [1 .. m + 1 -> Stored] /\ Part(b, i, j) \in [1 .. m -> Stored]
  <2>1. Part(b, i, j) \in [1 .. m -> Stored]
    BY Zenon, PartIs
  <2>2. PICK f \in [Cells -> Stored], x \in Index : f = b2 /\ x = Up(j)
    BY Zenon, <1>2, <1>5
  <2>3. Part(f, i, x) \in [1 .. Dist(i, x) -> Stored]
    BY Zenon, PartIs
  <2> QED
    BY Zenon, <1>3, <2>1, <2>2, <2>3
<1>8. \A k \in 1 .. m : Part(b2, i, Up(j))[k] = Part(b2, i, j)[k]
  <2>1. \A k \in 1 .. m : k \in 1 .. m + 1
    BY <1>2
  <2> QED
    BY <1>3, <2>1 DEF Part
<1>9. Part(b2, i, Up(j))[m + 1] = c
  <2>1. m + 1 \in 1 .. m + 1 /\ i + (m + 1) - 1 = i + m /\ i + m \in {j, j + UINT}
    BY <1>1, <1>2
  <2>2. j % UINT = j /\ (j + UINT) % UINT = j
    <3>1. /\ j \in Nat /\ j < UINT
          /\ j + UINT \in Nat /\ UINT <= j + UINT /\ j + UINT < UINT + UINT /\ (j + UINT) - UINT = j
      BY <1>1
    <3> QED
      BY Zenon, <1>1, <3>1, ModSmall
  <2>3. (i + (m + 1) - 1) % UINT = j
    BY Zenon, <2>1, <2>2
  <2>4. Part(b2, i, Up(j))[m + 1] = b2[Cell((i + (m + 1) - 1) % UINT)]
    BY Zenon, <1>3, <2>1 DEF Part
  <2> QED
    BY Zenon, <1>4, <2>3, <2>4
<1> HIDE DEF b2, m
<1>10. Part(b2, i, Up(j)) = Append(Part(b, i, j), c)
  BY <1>2, <1>6, <1>7, <1>8, <1>9, Appended
<1> QED
  BY Zenon, <1>3, <1>10 DEF b2, m

\* A part is cut in two anywhere in between.
LEMMA PartBy ==
  ASSUME Sizes, NEW b \in [Cells -> Stored],
         NEW i \in Index, NEW x \in Index, NEW j \in Index, Dist(i, x) <= Dist(i, j)
  PROVE  Part(b, i, j) = Part(b, i, x) \o Part(b, x, j)
<1>1. UINT \in Nat \ {0} /\ i \in 0 .. UINT - 1 /\ x \in 0 .. UINT - 1
  BY DEF Sizes, Index
<1>2. PICK m \in Nat, l \in Nat : m = Dist(i, x) /\ l = Dist(x, j)
  BY Zenon, Distance
<1>3. Dist(i, j) = m + l
  BY Zenon, <1>2, DistanceBy
<1>4. m = IF i <= x THEN x - i ELSE x - i + UINT
  BY Zenon, <1>2, Distance
<1>5. /\ Part(b, i, j) \in [1 .. m + l -> Stored]
      /\ Part(b, i, x) \in [1 .. m -> Stored] /\ Part(b, x, j) \in [1 .. l -> Stored]
  BY <1>2, <1>3, PartIs
<1>6. \A k \in 1 .. m : Part(b, i, j)[k] = Part(b, i, x)[k]
  <2>1. \A k \in 1 .. m : k \in 1 .. m + l
    OBVIOUS
  <2> QED
    BY Zenon, <1>2, <1>3, <2>1 DEF Part
<1>7. \A k \in 1 .. l : Part(b, i, j)[m + k] = Part(b, x, j)[k]
  <2> SUFFICES ASSUME NEW k \in 1 .. l
               PROVE  Part(b, i, j)[m + k] = Part(b, x, j)[k]
    OBVIOUS
  <2>1. m + k \in 1 .. m + l
    OBVIOUS
  <2>2. PICK y : y = x + k - 1
    OBVIOUS
  <2>3. y \in Nat /\ y < UINT + UINT
    BY Zenon, <1>2, <2>2, PartIs
  <2>4. i + (m + k) - 1 \in {y, y + UINT}
    BY <1>1, <1>4, <2>2
  <2>5. (y + UINT) % INPUT_BUF = y % INPUT_BUF
    <3>1. PICK q \in Nat : UINT = INPUT_BUF * q + 0
      BY Zenon, ModDiv DEF Sizes
    <3>2. UINT = INPUT_BUF * q
      BY <3>1 DEF Sizes
    <3> QED
      BY Zenon, <2>3, <3>2, ModPeriod DEF Sizes
  <2>6. Part(b, i, j)[m + k] = b[(i + (m + k) - 1) % INPUT_BUF]
    BY <1>3, <2>1, PartIs
  <2>7. Part(b, x, j)[k] = b[y % INPUT_BUF]
    BY <1>2, <2>2, PartIs
  <2> QED
    BY Zenon, <2>4, <2>5, <2>6, <2>7
<1> QED
  <2>1. PICK f \in Seq(Stored), g \in Seq(Stored), h \in Seq(Stored) :
          /\ f = Part(b, i, x) /\ g = Part(b, x, j) /\ h = Part(b, i, j)
          /\ Len(f) = m /\ Len(g) = l /\ Len(h) = m + l
    <3>1. \A s : \A a \in Nat : s \in [1 .. a -> Stored] => s \in Seq(Stored) /\ Len(s) = a
      OBVIOUS
    <3>2. m + l \in Nat
      OBVIOUS
    <3> QED
      BY Zenon, <1>5, <3>1, <3>2
  <2>2. Len(h) = Len(f) + Len(g)
    BY Zenon, <2>1
  <2>3. \A k \in 1 .. Len(f) : h[k] = f[k]
    BY Zenon, <1>6, <2>1
  <2>4. \A k \in 1 .. Len(g) : h[Len(f) + k] = g[k]
    BY Zenon, <1>7, <2>1
  <2>5. h = f \o g
    BY Zenon, <2>2, <2>3, <2>4, Joined
  <2> QED
    BY Zenon, <2>1, <2>5

\* A part without its first character.
LEMMA PartTail ==
  ASSUME Sizes, NEW b \in [Cells -> Stored], NEW i \in Index, NEW j \in Index, i # j
  PROVE  /\ Part(b, i, j) # <<>> /\ Part(b, Up(i), j) = Tail(Part(b, i, j))
         /\ Part(b, i, j)[1] = b[Cell(i)]
<1>1. UINT \in Nat \ {0} /\ i \in 0 .. UINT - 1 /\ j \in 0 .. UINT - 1
  BY DEF Sizes, Index
<1>2. PICK m \in Nat : Dist(i, j) = m + 1 /\ Dist(Up(i), j) = m
  <2>1. Dist(i, j) \in Nat /\ Dist(i, j) > 0 /\ Dist(Up(i), j) = Dist(i, j) - 1
    BY Zenon, Distance, DistanceUp
  <2>2. Dist(i, j) - 1 \in Nat /\ Dist(i, j) = (Dist(i, j) - 1) + 1
    BY <2>1
  <2> QED
    BY Zenon, <2>1, <2>2
<1>3. Up(i) = (IF i = UINT - 1 THEN 0 ELSE i + 1) /\ Up(i) \in Index
  BY Zenon, Distance
<1>4. Part(b, i, j) \in [1 .. m + 1 -> Stored] /\ Part(b, Up(i), j) \in [1 .. m -> Stored]
  <2>1. Part(b, i, j) \in [1 .. Dist(i, j) -> Stored]
    BY Zenon, PartIs
  <2>2. Part(b, Up(i), j) \in [1 .. Dist(Up(i), j) -> Stored]
    BY Zenon, <1>3, PartIs
  <2> QED
    BY Zenon, <1>2, <2>1, <2>2
<1>5. \A k \in 1 .. m : Part(b, Up(i), j)[k] = Part(b, i, j)[k + 1]
  <2> SUFFICES ASSUME NEW k \in 1 .. m
               PROVE  Part(b, Up(i), j)[k] = Part(b, i, j)[k + 1]
    OBVIOUS
  <2>1. k + 1 \in 1 .. m + 1
    OBVIOUS
  <2>2. PICK y : y = Up(i) + k - 1
    OBVIOUS
  <2>3. y \in Nat /\ y < UINT + UINT
    BY Zenon, <1>2, <1>3, <2>2, PartIs
  <2>4. i + (k + 1) - 1 \in {y, y + UINT}
    BY <1>1, <1>3, <2>2
  <2>5. (y + UINT) % INPUT_BUF = y % INPUT_BUF
    <3>1. PICK q \in Nat : UINT = INPUT_BUF * q + 0
      BY Zenon, ModDiv DEF Sizes
    <3>2. UINT = INPUT_BUF * q
      BY <3>1 DEF Sizes
    <3> QED
      BY Zenon, <2>3, <3>2, ModPeriod DEF Sizes
  <2>6. Part(b, i, j)[k + 1] = b[(i + (k + 1) - 1) % INPUT_BUF]
    BY Zenon, <1>2, <2>1, PartIs
  <2>7. Part(b, Up(i), j)[k] = b[y % INPUT_BUF]
    BY Zenon, <1>2, <1>3, <2>2, PartIs
  <2> QED
    BY Zenon, <2>4, <2>5, <2>6, <2>7
<1>6. Part(b, i, j)[1] = b[Cell(i)]
  <2>1. 1 \in 1 .. m + 1 /\ i + 1 - 1 = i
    BY <1>1
  <2> QED
    BY <1>2, <2>1, PartIs DEF Cell
<1> QED
  BY <1>4, <1>5, <1>6, Behead

\* A part that ends k characters earlier.
LEMMA PartDown ==
  ASSUME Sizes, NEW b \in [Cells -> Stored], NEW i \in Index, NEW j \in Index,
         NEW k \in Nat, k <= Dist(i, j)
  PROVE  /\ Part(b, i, (j - k) % UINT) = SubSeq(Part(b, i, j), 1, Dist(i, j) - k)
         /\ Len(Part(b, i, j)) = Dist(i, j)
<1>1. PICK x \in Index : x = (j - k) % UINT /\ Dist(i, x) = Dist(i, j) - k
  BY Zenon, DistanceDown
<1>2. PICK m \in Nat, l \in Nat : m = Dist(i, j) /\ l = Dist(i, x) /\ l = m - k /\ l <= m
  <2>1. Dist(i, j) \in Nat /\ Dist(i, x) \in Nat
    BY Zenon, Distance
  <2>2. Dist(i, x) <= Dist(i, j)
    BY <1>1, <2>1
  <2> QED
    BY Zenon, <1>1, <2>1, <2>2
<1>3. Part(b, i, j) \in [1 .. m -> Stored] /\ Part(b, i, x) \in [1 .. l -> Stored]
  BY Zenon, <1>2, PartIs
<1>4. \A h \in 1 .. l : Part(b, i, x)[h] = Part(b, i, j)[h]
  <2>1. \A h \in 1 .. l : h \in 1 .. m
    BY <1>2
  <2> QED
    BY Zenon, <1>2, <2>1 DEF Part
<1>5. Part(b, i, x) = SubSeq(Part(b, i, j), 1, l) /\ Len(Part(b, i, j)) = m
  BY <1>2, <1>3, <1>4, Beginning
<1> QED
  BY Zenon, <1>1, <1>2, <1>5

\* The index d above i.
LEMMA DistanceAt ==
  ASSUME Sizes, NEW i \in Index, NEW j \in Index, NEW d \in Nat, d < UINT
  PROVE  j = (i + d) % UINT <=> Dist(i, j) = d
<1>1. UINT \in Nat \ {0} /\ i \in 0 .. UINT - 1 /\ j \in 0 .. UINT - 1
  BY DEF Sizes, Index
<1>2. Dist(i, j) = IF i <= j THEN j - i ELSE j - i + UINT
  BY Zenon, Distance
<1>3. i + d \in Nat /\ i + d < UINT + UINT
  BY <1>1
<1>4. /\ i + d < UINT => (i + d) % UINT = i + d
      /\ UINT <= i + d /\ i + d < UINT + UINT => (i + d) % UINT = (i + d) - UINT
  BY Zenon, <1>1, <1>3, ModSmall
<1> QED
  BY <1>1, <1>2, <1>3, <1>4

-----------------------------------------------------------------------------
(* The ring buffer implements the queues.                                   *)

\* The facts about the indices and the queues that every step needs.
LEMMA Queues ==
  ASSUME Sizes, RingInv
  PROVE  /\ r \in Index /\ w \in Index /\ e \in Index /\ buf \in [Cells -> Stored]
         /\ Dist(r, w) \in Nat /\ Dist(w, e) \in Nat /\ Dist(r, e) \in Nat
         /\ Dist(r, e) = Dist(r, w) + Dist(w, e) /\ Dist(r, e) <= INPUT_BUF
         /\ Slice(r, w) = Part(buf, r, w) /\ Slice(w, e) = Part(buf, w, e)
         /\ Slice(r, e) = Part(buf, r, e)
         /\ Part(buf, r, e) = Part(buf, r, w) \o Part(buf, w, e)
         /\ Part(buf, r, e) \in Seq(Char)
         /\ Part(buf, r, w) \in Seq(Stored) /\ Len(Part(buf, r, w)) = Dist(r, w)
         /\ Part(buf, w, e) \in Seq(Stored) /\ Len(Part(buf, w, e)) = Dist(w, e)
<1>1. r \in Index /\ w \in Index /\ e \in Index /\ buf \in [Cells -> Stored]
  BY Zenon DEF RingInv, Index, Cells, Stored
<1>2. /\ Slice(r, w) = Part(buf, r, w) /\ Slice(w, e) = Part(buf, w, e)
      /\ Slice(r, e) = Part(buf, r, e)
  BY Zenon DEF Slice, Part, Dist
<1>3. Dist(r, w) \in Nat /\ Dist(w, e) \in Nat /\ Dist(r, e) \in Nat
  BY Zenon, <1>1, Distance
<1>4. Dist(r, w) <= Dist(r, e) /\ Dist(r, e) <= INPUT_BUF
  BY Zenon DEF RingInv, Dist
<1>5. Dist(r, e) = Dist(r, w) + Dist(w, e)
  BY Zenon, <1>1, <1>4, DistanceBy
<1>6. Part(buf, r, e) = Part(buf, r, w) \o Part(buf, w, e)
  BY Zenon, <1>1, <1>4, PartBy
<1>7. /\ Part(buf, r, w) \in [1 .. Dist(r, w) -> Stored]
      /\ Part(buf, w, e) \in [1 .. Dist(w, e) -> Stored]
  BY Zenon, <1>1, PartIs
<1>8. \A s : \A d \in Nat : s \in [1 .. d -> Stored] => s \in Seq(Stored) /\ Len(s) = d
  OBVIOUS
<1>9. Part(buf, r, e) \in Seq(Char)
  BY Zenon, <1>2 DEF RingInv
<1>10. /\ Part(buf, r, w) \in Seq(Stored) /\ Len(Part(buf, r, w)) = Dist(r, w)
       /\ Part(buf, w, e) \in Seq(Stored) /\ Len(Part(buf, w, e)) = Dist(w, e)
  BY Zenon, <1>3, <1>7, <1>8
<1> QED
  BY Zenon, <1>1, <1>2, <1>3, <1>4, <1>5, <1>6, <1>9, <1>10

\* The invariant and the queues after a step, from the indices after it.
LEMMA RingAfter ==
  ASSUME buf' \in [Cells -> Stored], r' \in Index, w' \in Index, e' \in Index,
         Dist(r', w') <= Dist(r', e'), Dist(r', e') <= INPUT_BUF,
         Dist(r', e') >= INPUT_BUF => w' = e',
         Part(buf', r', e') \in Seq(Char)
  PROVE  /\ RingInv'
         /\ Slice(r, w)' = Part(buf', r', w') /\ Slice(w, e)' = Part(buf', w', e')
<1>1. /\ Slice(r, w)' = Part(buf', r', w') /\ Slice(w, e)' = Part(buf', w', e')
      /\ Slice(r, e)' = Part(buf', r', e')
  BY Zenon DEF Slice, Part, Dist
<1>2. FullIsReady'
  BY Zenon DEF FullIsReady, Full, Dist
<1> QED
  BY Zenon, <1>1, <1>2 DEF RingInv, Index, Cells, Stored, Dist

\* One more character after two parts.
LEMMA AppendStored ==
  ASSUME NEW f \in Seq(Stored), NEW g \in Seq(Stored), NEW x \in Stored
  PROVE  Append(f \o g, x) = f \o Append(g, x)
<1>1. f \o g \in Seq(Stored) /\ <<x>> \in Seq(Stored)
  OBVIOUS
<1>2. Append(f \o g, x) = (f \o g) \o <<x>>
  BY Zenon, <1>1, AppendIsConcat
<1>3. Append(g, x) = g \o <<x>>
  BY Zenon, AppendIsConcat
<1>4. (f \o g) \o <<x>> = f \o (g \o <<x>>)
  <2>1. PICK h \in Seq(Stored) : h = <<x>>
    BY Zenon, <1>1
  <2>2. (f \o g) \o h = f \o (g \o h)
    BY ConcatAssociative
  <2> QED
    BY Zenon, <2>1, <2>2
<1> QED
  BY Zenon, <1>2, <1>3, <1>4

\* An ordinary character, or one that hands the line over.
LEMMA StoreTty ==
  ASSUME Sizes, RingInv, NEW c \in Char, Store(c), r' = r
  PROVE  RingInv' /\ (Line!Type(c) \/ Line!HandOver(c))
<1>0. INPUT_BUF \in Nat \ {0} /\ UINT \in Nat \ {0} /\ INPUT_BUF < UINT
  BY Zenon DEF Sizes
<1>1. /\ r \in Index /\ w \in Index /\ e \in Index /\ buf \in [Cells -> Stored]
      /\ Dist(r, w) \in Nat /\ Dist(w, e) \in Nat /\ Dist(r, e) \in Nat
      /\ Dist(r, e) = Dist(r, w) + Dist(w, e)
      /\ Slice(r, w) = Part(buf, r, w) /\ Slice(w, e) = Part(buf, w, e)
      /\ Part(buf, r, e) = Part(buf, r, w) \o Part(buf, w, e)
      /\ Part(buf, r, e) \in Seq(Char)
      /\ Part(buf, r, w) \in Seq(Stored) /\ Len(Part(buf, r, w)) = Dist(r, w)
      /\ Part(buf, w, e) \in Seq(Stored) /\ Len(Part(buf, w, e)) = Dist(w, e)
  BY Zenon, Queues
<1>2. c \in Stored
  BY DEF Stored
<1>3. buf' = [buf EXCEPT ![Cell(e)] = c] /\ e' = Up(e) /\ buf' \in [Cells -> Stored]
  BY Zenon, <1>1, <1>2 DEF Store
<1>4. e' \in Index
  BY Zenon, <1>1, <1>3, Distance
<1>5. Dist(r, e) < INPUT_BUF /\ Dist(w, e) < INPUT_BUF
  <2>1. ~ (Dist(r, e) >= INPUT_BUF)
    BY Zenon DEF Store, Full, Dist
  <2> QED
    BY <1>0, <1>1, <2>1
<1>6. /\ Part(buf', r, e') = Append(Part(buf, r, e), c) /\ Dist(r, e') = Dist(r, e) + 1
      /\ Part(buf', w, e') = Append(Part(buf, w, e), c)
  <2>1. /\ Part([buf EXCEPT ![Cell(e)] = c], r, Up(e)) = Append(Part(buf, r, e), c)
        /\ Dist(r, Up(e)) = Dist(r, e) + 1
    BY Zenon, <1>1, <1>2, <1>5, PartExtend
  <2>2. Part([buf EXCEPT ![Cell(e)] = c], w, Up(e)) = Append(Part(buf, w, e), c)
    BY Zenon, <1>1, <1>2, <1>5, PartExtend
  <2> QED
    BY Zenon, <1>3, <2>1, <2>2
<1>7. Append(Part(buf, r, e), c) \in Seq(Char)
  BY <1>1
<1>8. e' = (r + INPUT_BUF) % UINT <=> Dist(r, e) + 1 = INPUT_BUF
  <2>1. e' = (r + INPUT_BUF) % UINT <=> Dist(r, e') = INPUT_BUF
    BY <1>0, <1>1, <1>4, DistanceAt
  <2> QED
    BY Zenon, <1>6, <2>1
<1>9. Len(Slice(r, w)) + Len(Slice(w, e)) = Dist(r, e)
  BY Zenon, <1>1
<1>10. CASE HandsOver(c)
  <2>1. w' = e'
    BY Zenon, <1>10 DEF Store
  <2>2. Dist(r', w') <= Dist(r', e') /\ Dist(r', e') <= INPUT_BUF
    <3>1. Dist(r, e) + 1 <= Dist(r, e) + 1 /\ Dist(r, e) + 1 <= INPUT_BUF
      BY <1>0, <1>1, <1>5
    <3> QED
      BY Zenon, <1>6, <2>1, <3>1
  <2>3. RingInv' /\ Slice(r, w)' = Part(buf', r, e') /\ Slice(w, e)' = Part(buf', e', e')
    <3>1. Part(buf', r', e') \in Seq(Char) /\ r' \in Index /\ w' \in Index
      BY Zenon, <1>1, <1>4, <1>6, <1>7, <2>1
    <3> QED
      BY Zenon, <1>3, <1>4, <2>1, <2>2, <3>1, RingAfter
  <2>4. Slice(w, e)' = <<>>
    <3>1. Dist(e', e') = 0
      BY Zenon, <1>4, DistanceUp
    <3>2. Part(buf', e', e') \in [1 .. 0 -> Stored]
      BY Zenon, <1>3, <1>4, <3>1, PartIs
    <3>3. \A s : s \in [1 .. 0 -> Stored] => s = <<>>
      OBVIOUS
    <3> QED
      BY Zenon, <2>3, <3>2, <3>3
  <2>5. Append(Part(buf, r, w) \o Part(buf, w, e), c) = Part(buf, r, w) \o Append(Part(buf, w, e), c)
    <3>1. PICK f \in Seq(Stored), g \in Seq(Stored) : f = Part(buf, r, w) /\ g = Part(buf, w, e)
      BY Zenon, <1>1
    <3>2. Append(f \o g, c) = f \o Append(g, c)
      BY Zenon, <1>2, AppendStored
    <3> QED
      BY Zenon, <3>1, <3>2
  <2>6. Slice(r, w)' = Slice(r, w) \o Append(Slice(w, e), c)
    BY Zenon, <1>1, <1>6, <2>3, <2>5
  <2>7. c \in {CtrlD, Newline} \/ Dist(r, e) + 1 = INPUT_BUF
    BY Zenon, <1>3, <1>8, <1>10 DEF HandsOver
  <2> QED
    BY Zenon, <1>5, <1>9, <2>3, <2>4, <2>6, <2>7 DEF Line!HandOver, Line!Room
<1>11. CASE ~HandsOver(c)
  <2>1. w' = w
    BY Zenon, <1>11 DEF Store
  <2>2. c \notin {CtrlD, Newline} /\ Dist(r, e) + 1 < INPUT_BUF
    <3>1. c \notin {CtrlD, Newline} /\ Dist(r, e) + 1 # INPUT_BUF
      BY Zenon, <1>3, <1>8, <1>11 DEF HandsOver
    <3> QED
      BY <1>0, <1>1, <1>5, <3>1
  <2>3. /\ Dist(r', w') <= Dist(r', e') /\ Dist(r', e') <= INPUT_BUF
        /\ ~ (Dist(r', e') >= INPUT_BUF)
    <3>1. /\ Dist(r, w) <= Dist(r, e) + 1 /\ Dist(r, e) + 1 <= INPUT_BUF
          /\ ~ (Dist(r, e) + 1 >= INPUT_BUF)
      BY <1>0, <1>1, <2>2
    <3> QED
      BY Zenon, <1>6, <2>1, <3>1
  <2>4. RingInv' /\ Slice(r, w)' = Part(buf', r, w) /\ Slice(w, e)' = Part(buf', w, e')
    <3>1. Part(buf', r', e') \in Seq(Char) /\ r' \in Index /\ w' \in Index
      BY Zenon, <1>1, <1>6, <1>7, <2>1
    <3> QED
      BY Zenon, <1>3, <1>4, <2>1, <2>3, <3>1, RingAfter
  <2>5. Part([buf EXCEPT ![Cell(e)] = c], r, w) = Part(buf, r, w)
    <3>1. Dist(r, w) <= Dist(r, e)
      BY <1>1
    <3> QED
      BY Zenon, <1>1, <1>2, <1>5, <3>1, PartSame
  <2> QED
    BY Zenon, <1>1, <1>3, <1>5, <1>6, <1>9, <2>2, <2>4, <2>5 DEF Line!Type, Line!Room
<1> QED
  BY Zenon, <1>10, <1>11

\* Backspace and ^U, which take back k characters of the line.
LEMMA EraseTty ==
  ASSUME Sizes, RingInv, UNCHANGED <<buf, r, w>>,
         NEW k \in Nat \ {0}, k <= Dist(w, e), e' = (e - k) % UINT
  PROVE  RingInv' /\ Line!Erase
<1>0. INPUT_BUF \in Nat \ {0} /\ UINT \in Nat \ {0} /\ INPUT_BUF < UINT
  BY Zenon DEF Sizes
<1>1. /\ r \in Index /\ w \in Index /\ e \in Index /\ buf \in [Cells -> Stored]
      /\ Dist(r, w) \in Nat /\ Dist(w, e) \in Nat /\ Dist(r, e) \in Nat
      /\ Dist(r, e) = Dist(r, w) + Dist(w, e) /\ Dist(r, e) <= INPUT_BUF
      /\ Slice(r, w) = Part(buf, r, w) /\ Slice(w, e) = Part(buf, w, e)
      /\ Part(buf, r, e) \in Seq(Char)
      /\ Len(Part(buf, w, e)) = Dist(w, e)
  BY Zenon, Queues
<1>2. k \in Nat /\ k <= Dist(r, e) /\ k > 0
  BY <1>1
<1>3. e' \in Index /\ Dist(r, e') = Dist(r, e) - k /\ Dist(w, e') = Dist(w, e) - k
  BY Zenon, <1>1, <1>2, DistanceDown
<1>4. /\ Part(buf, r, e') = SubSeq(Part(buf, r, e), 1, Dist(r, e) - k)
      /\ Len(Part(buf, r, e)) = Dist(r, e)
  <2>1. Part(buf, r, (e - k) % UINT) = SubSeq(Part(buf, r, e), 1, Dist(r, e) - k)
    BY Zenon, <1>1, <1>2, PartDown
  <2>2. Len(Part(buf, r, e)) = Dist(r, e)
    BY Zenon, <1>1, <1>2, PartDown
  <2> QED
    BY Zenon, <2>1, <2>2
<1>5. Part(buf, w, e') = SubSeq(Part(buf, w, e), 1, Dist(w, e) - k)
  BY Zenon, <1>1, <1>2, PartDown
<1>6. Part(buf, r, e') \in Seq(Char)
  <2>1. \A s \in Seq(Char) : \A m \in 0 .. Len(s) : SubSeq(s, 1, m) \in Seq(Char)
    OBVIOUS
  <2>2. Dist(r, e) - k \in 0 .. Dist(r, e)
    BY <1>1, <1>2
  <2> QED
    BY Zenon, <1>1, <1>4, <2>1, <2>2
<1>7. /\ Dist(r, w) <= Dist(r, e) - k /\ Dist(r, e) - k <= INPUT_BUF
      /\ ~ (Dist(r, e) - k >= INPUT_BUF)
      /\ Dist(w, e) - k \in 0 .. Dist(w, e) - 1 /\ Dist(w, e) # 0
  BY <1>0, <1>1, <1>2
<1>8. RingInv' /\ Slice(r, w)' = Part(buf, r, w) /\ Slice(w, e)' = Part(buf, w, e')
  BY Zenon, <1>1, <1>3, <1>6, <1>7, RingAfter
<1>9. Part(buf, w, e) # <<>>
  <2>1. Len(<<>>) = 0
    OBVIOUS
  <2> QED
    BY Zenon, <1>1, <1>7, <2>1
<1> QED
  BY Zenon, <1>1, <1>5, <1>7, <1>8, <1>9 DEF Line!Erase

\* ^U stops at the end of the last line that was handed over.
LEMMA KillLineTty ==
  ASSUME Sizes, RingInv, UNCHANGED <<buf, r, w>>, MayErase, KillLine
  PROVE  RingInv' /\ Line!Erase
<1>1. /\ w \in Index /\ e \in Index /\ Dist(w, e) \in Nat
      /\ INPUT_BUF \in Nat /\ UINT \in Nat
  BY Zenon, Queues DEF Sizes
<1>2. PICK k \in 1 .. INPUT_BUF : /\ e' = (e - k) % UINT
                                  /\ \A j \in 1 .. k : (e - j + 1) % UINT # w
  BY Zenon DEF KillLine
<1>3. k \in Nat \ {0} /\ e \in Int
  BY <1>1 DEF Index
<1>4. k <= Dist(w, e)
  <2> SUFFICES ASSUME ~ (k <= Dist(w, e)) PROVE FALSE
    OBVIOUS
  <2>1. PICK d \in Nat : d = Dist(w, e)
    BY Zenon, <1>1
  <2>2. d + 1 \in 1 .. k /\ e - (d + 1) + 1 = e - d /\ d <= d /\ d - d = 0
    BY <1>3, <2>1
  <2>3. (e - d) % UINT \in Index /\ Dist(w, (e - d) % UINT) = d - d
    BY Zenon, <1>1, <2>1, <2>2, DistanceDown
  <2>4. (e - d) % UINT = w
    BY Zenon, <1>1, <2>2, <2>3, DistanceUp
  <2> QED
    BY Zenon, <1>2, <2>2, <2>4
<1> QED
  BY Zenon, <1>2, <1>3, <1>4, EraseTty

\* A reader takes the oldest character.
LEMMA TakeTty ==
  ASSUME Sizes, RingInv, UNCHANGED <<buf, w, e>>, r # w, r' = Up(r)
  PROVE  RingInv' /\ Line!Take
<1>0. INPUT_BUF \in Nat \ {0} /\ UINT \in Nat \ {0} /\ INPUT_BUF < UINT
  BY Zenon DEF Sizes
<1>1. /\ r \in Index /\ w \in Index /\ e \in Index /\ buf \in [Cells -> Stored]
      /\ Dist(r, w) \in Nat /\ Dist(w, e) \in Nat /\ Dist(r, e) \in Nat
      /\ Dist(r, e) = Dist(r, w) + Dist(w, e) /\ Dist(r, e) <= INPUT_BUF
      /\ Slice(r, w) = Part(buf, r, w) /\ Slice(w, e) = Part(buf, w, e)
      /\ Part(buf, r, e) \in Seq(Char)
  BY Zenon, Queues
<1>2. r' \in Index /\ Dist(r', w) = Dist(r, w) - 1 /\ Dist(r, w) > 0
  BY Zenon, <1>1, Distance, DistanceUp
<1>3. r # e
  <2>1. Dist(r, e) # 0
    BY <1>1, <1>2
  <2> QED
    BY Zenon, <1>1, <2>1, DistanceUp
<1>4. Dist(r', e) = Dist(r, e) - 1
  BY Zenon, <1>1, <1>3, DistanceUp
<1>5. Part(buf, r, w) # <<>> /\ Part(buf, r', w) = Tail(Part(buf, r, w))
  BY Zenon, <1>1, PartTail
<1>6. Part(buf, r, e) # <<>> /\ Part(buf, r', e) = Tail(Part(buf, r, e))
  BY Zenon, <1>1, <1>3, PartTail
<1>7. Part(buf, r', e) \in Seq(Char)
  <2>1. \A s \in Seq(Char) : s # <<>> => Tail(s) \in Seq(Char)
    OBVIOUS
  <2> QED
    BY Zenon, <1>1, <1>6, <2>1
<1>8. /\ Dist(r, w) - 1 <= Dist(r, e) - 1 /\ Dist(r, e) - 1 <= INPUT_BUF
      /\ ~ (Dist(r, e) - 1 >= INPUT_BUF)
  BY <1>0, <1>1, <1>2
<1>9. RingInv' /\ Slice(r, w)' = Part(buf, r', w) /\ Slice(w, e)' = Part(buf, w, e)
  BY Zenon, <1>1, <1>2, <1>4, <1>7, <1>8, RingAfter
<1> QED
  BY Zenon, <1>1, <1>5, <1>9 DEF Line!Take

\* Steps that leave the ring alone.
LEMMA SameTty ==
  ASSUME RingInv, UNCHANGED <<buf, r, w, e>>
  PROVE  RingInv' /\ Slice(r, w)' = Slice(r, w) /\ Slice(w, e)' = Slice(w, e)
<1>1. Slice(r, w)' = Slice(r, w) /\ Slice(w, e)' = Slice(w, e) /\ Slice(r, e)' = Slice(r, e)
  BY Zenon DEF Slice
<1> QED
  BY Zenon, <1>1 DEF RingInv, FullIsReady, Full

\* A key.
LEMMA KeyTty ==
  ASSUME Sizes, RingInv, NEW c \in Key, consoleintr(c)
  PROVE  RingInv' /\ Line!Next
<1>1. CASE c = "^U" /\ MayErase /\ KillLine /\ UNCHANGED <<buf, w, pc>>
  <2>1. UNCHANGED <<buf, r, w>>
    BY Zenon, <1>1 DEF consoleintr
  <2> QED
    BY Zenon, <1>1, <2>1, KillLineTty DEF Line!Next
<1>2. CASE c = "^H" /\ MayErase /\ e' = Down(e) /\ UNCHANGED <<buf, w, pc>>
  <2>1. UNCHANGED <<buf, r, w>> /\ e' = (e - 1) % UINT /\ e # w
    BY Zenon, <1>2 DEF consoleintr, Down, MayErase
  <2>2. Dist(w, e) \in Nat /\ Dist(w, e) # 0
    BY Zenon, <2>1, Queues, DistanceUp
  <2>3. 1 \in Nat \ {0} /\ 1 <= Dist(w, e)
    BY <2>2
  <2> QED
    BY Zenon, <2>1, <2>3, EraseTty DEF Line!Next
<1>3. CASE c \in Char /\ Store(c)
  <2>1. r' = r
    BY Zenon DEF consoleintr
  <2> QED
    BY Zenon, <1>3, <2>1, StoreTty DEF Line!Next
<1> QED
  BY Zenon, <1>1, <1>2, <1>3 DEF consoleintr

\* A character that is read; ^D may stay.
LEMMA ReadCharTty ==
  ASSUME Sizes, RingInv, NEW p \in Proc, ReadChar(p)
  PROVE  RingInv' /\ (Line!Next \/ UNCHANGED <<Slice(r, w), Slice(w, e)>>)
<1>1. UNCHANGED <<buf, w, e>> /\ r # w /\ r' \in {r, Up(r)}
  BY Zenon DEF ReadChar, Empty
<1>2. CASE r' = r
  BY Zenon, <1>1, <1>2, SameTty
<1>3. CASE r' = Up(r)
  BY Zenon, <1>1, <1>3, TakeTty DEF Line!Next
<1> QED
  BY Zenon, <1>1, <1>2, <1>3

\* Every step is a step of the queues, or one that they do not see.
LEMMA NextTty ==
  ASSUME Sizes
  PROVE  RingInv /\ [Next]_vars => RingInv' /\ [Line!Next]_<<Slice(r, w), Slice(w, e)>>
<1> SUFFICES ASSUME RingInv, [Next]_vars
             PROVE  RingInv' /\ (Line!Next \/ UNCHANGED <<Slice(r, w), Slice(w, e)>>)
  OBVIOUS
<1>1. ASSUME UNCHANGED <<buf, r, w, e>>
      PROVE  RingInv' /\ UNCHANGED <<Slice(r, w), Slice(w, e)>>
  BY Zenon, <1>1, SameTty
<1>2. ASSUME NEW p \in Proc,
             Acquire(p) \/ CheckKilled(p) \/ Sleep(p) \/ Kill(p) \/ \E k \in 1 .. MaxN : Call(p, k)
      PROVE  UNCHANGED <<buf, r, w, e>>
  BY Zenon, <1>2 DEF Acquire, CheckKilled, Sleep, Kill, Call
<1>3. CASE UNCHANGED vars
  BY Zenon, <1>1, <1>3 DEF vars
<1> QED
  BY Zenon, <1>1, <1>2, <1>3, KeyTty, ReadCharTty DEF Next, Step

\* At first both queues are empty.
LEMMA InitTty ==
  ASSUME Sizes
  PROVE  Init => RingInv /\ Line!Init
<1> SUFFICES ASSUME Init PROVE RingInv /\ Line!Init
  OBVIOUS
<1>1. r \in Index /\ w = r /\ e = r /\ INPUT_BUF \in Nat \ {0}
  BY DEF Init, Sizes, Index
<1>2. Dist(r, r) = 0
  BY Zenon, <1>1, DistanceUp
<1>3. \A b : [k \in 1 .. 0 |-> b[Cell((r + k - 1) % UINT)]] = <<>>
  OBVIOUS
<1>4. Slice(r, r) = <<>>
  BY Zenon, <1>2, <1>3 DEF Slice, Dist
<1>5. buf \in [0 .. INPUT_BUF - 1 -> Char \cup {Nul}]
  BY Zenon DEF Init
<1>6. <<>> \in Seq(Char) /\ 0 <= 0 /\ 0 <= INPUT_BUF
  BY <1>1
<1> QED
  BY Zenon, <1>1, <1>2, <1>4, <1>5, <1>6 DEF RingInv, FullIsReady, Line!Init, Dist, Index

\* The ring buffer with its three wrapping indices implements the queues of
\* Tty, for every INPUT_BUF that divides the range of an index and any number of
\* readers: consoleintr and consoleread lose no character, read none twice, and
\* erase none that was handed over.
THEOREM ConsoleIsTty ==
  ASSUME Sizes
  PROVE  Spec => IsTty
BY InitTty, NextTty, PTL DEF Spec, IsTty, Line!Spec

-----------------------------------------------------------------------------
(* Readers.                                                                 *)

\* A character that is read was struck.
LEMMA ReadsChar ==
  ASSUME Sizes, RingInv, r # w
  PROVE  buf[Cell(r)] \in Char
<1>1. /\ r \in Index /\ w \in Index /\ e \in Index /\ buf \in [Cells -> Stored]
      /\ Dist(r, w) \in Nat /\ Dist(w, e) \in Nat /\ Dist(r, e) = Dist(r, w) + Dist(w, e)
      /\ Part(buf, r, e) \in Seq(Char)
  BY Zenon, Queues
<1>2. r # e
  <2>1. Dist(r, w) > 0
    BY Zenon, <1>1, DistanceUp
  <2>2. Dist(r, e) # 0
    BY <1>1, <2>1
  <2> QED
    BY Zenon, <1>1, <2>2, DistanceUp
<1>3. Part(buf, r, e) # <<>> /\ Part(buf, r, e)[1] = buf[Cell(r)]
  BY Zenon, <1>1, <1>2, PartTail
<1>4. \A s \in Seq(Char) : s # <<>> => s[1] \in Char
  OBVIOUS
<1> QED
  BY Zenon, <1>1, <1>3, <1>4

\* A process whose read does not change.
LEMMA SameReader ==
  ASSUME NEW p \in Proc, Reader(p), got'[p] = got[p], n'[p] = n[p], target'[p] = target[p],
         pc'[p] = "user" <=> pc[p] = "user",
         pc'[p] \in {"loop", "sleep"} <=> lock' = p,
         pc'[p] \in {"sleep", "asleep"} => Empty'
  PROVE  Reader(p)'
<1>1. ShortRead(p)'
  BY Zenon DEF Reader, ShortRead
<1> QED
  BY Zenon, <1>1 DEF Reader

\* A key.
LEMMA KeyRead ==
  ASSUME Sizes, ReadInv, NEW c \in Key, consoleintr(c)
  PROVE  ReadInv'
<1>1. /\ lock = NoProc /\ UNCHANGED <<r, lock, n, target, got, killed>>
      /\ \/ pc' = pc /\ w' = w
         \/ pc' = [p \in Proc |-> IF p \in Sleepers THEN "again" ELSE pc[p]]
  BY Zenon DEF consoleintr, Store, wakeup
<1>2. pc' \in [Proc -> PC]
  BY <1>1 DEF ReadInv, PC
<1>3. ASSUME NEW p \in Proc
      PROVE  Reader(p)'
  <2>1. Reader(p) /\ p # NoProc /\ pc[p] \notin {"loop", "sleep"} /\ pc[p] \in PC
    BY <1>1 DEF ReadInv, Reader, Sizes
  <2>2. \/ pc'[p] = pc[p] /\ w' = w
        \/ pc[p] = "asleep" /\ pc'[p] = "again"
        \/ pc[p] # "asleep" /\ pc'[p] = pc[p]
    BY <1>1 DEF Sleepers
  <2>3. /\ pc'[p] = "user" <=> pc[p] = "user"
        /\ pc'[p] \in {"loop", "sleep"} <=> lock' = p
        /\ pc'[p] \in {"sleep", "asleep"} => Empty'
    BY <1>1, <2>1, <2>2 DEF Reader, Empty
  <2> QED
    BY Zenon, <1>1, <2>1, <2>3, SameReader
<1> QED
  BY Zenon, <1>1, <1>2, <1>3 DEF ReadInv

\* A read begins.
LEMMA CallRead ==
  ASSUME Sizes, ReadInv, NEW p \in Proc, NEW k \in 1 .. MaxN, Call(p, k)
  PROVE  ReadInv'
<1>1. /\ lock' \in Proc \cup {NoProc} /\ pc' \in [Proc -> PC]
      /\ n' \in [Proc -> 0 .. MaxN] /\ target' \in [Proc -> 0 .. MaxN]
      /\ got' \in [Proc -> Seq(Char)] /\ killed' \in [Proc -> BOOLEAN]
  BY DEF Call, ReadInv, PC, Sizes
<1>2. ASSUME NEW q \in Proc
      PROVE  Reader(q)'
  <2>1. CASE q = p
    <3>1. pc'[p] = "again" /\ n'[p] = k /\ target'[p] = k /\ got'[p] = <<>> /\ lock' = lock
      BY DEF Call, ReadInv
    <3>2. ShortRead(p)'
      BY <3>1 DEF ShortRead
    <3>3. lock # p
      BY Zenon DEF Call, ReadInv, Reader
    <3> QED
      BY <2>1, <3>1, <3>2, <3>3 DEF Reader
  <2>2. CASE q # p
    <3>1. /\ pc'[q] = pc[q] /\ n'[q] = n[q] /\ target'[q] = target[q] /\ got'[q] = got[q]
          /\ lock' = lock /\ Empty' = Empty
      BY <2>2 DEF Call, ReadInv, Empty
    <3> QED
      BY Zenon, <3>1, SameReader DEF ReadInv, Reader
  <2> QED
    BY <2>1, <2>2
<1> QED
  BY Zenon, <1>1, <1>2 DEF ReadInv

\* A step of p that changes only its pc and the lock.
LEMMA MoveRead ==
  ASSUME Sizes, ReadInv, NEW p \in Proc, NEW here \in PC, NEW there \in PC,
         UNCHANGED <<r, w, n, target, got>>, killed' \in [Proc -> BOOLEAN],
         pc[p] = here, here # "user" \/ there = "user",
         pc' = [pc EXCEPT ![p] = there],
         lock' \in Proc \cup {NoProc},
         there \in {"loop", "sleep"} <=> lock' = p,
         lock' = lock \/ {lock, lock'} = {p, NoProc},
         there \in {"sleep", "asleep"} => Empty
  PROVE  ReadInv'
<1>1. pc' \in [Proc -> PC]
  BY DEF ReadInv
<1>2. ASSUME NEW q \in Proc
      PROVE  Reader(q)'
  <2>1. CASE q = p
    <3>1. pc'[p] = there /\ Reader(p) /\ Empty' = Empty
      BY DEF ReadInv, Empty
    <3>2. ShortRead(p)'
      BY <3>1 DEF Reader, ShortRead
    <3> QED
      BY <2>1, <3>1, <3>2 DEF Reader
  <2>2. CASE q # p
    <3>1. pc'[q] = pc[q] /\ Empty' = Empty /\ Reader(q)
      BY <2>2 DEF ReadInv, Empty
    <3>2. lock' = q <=> lock = q
      BY <2>2 DEF Sizes
    <3> QED
      BY Zenon, <3>1, <3>2, SameReader DEF Reader
  <2> QED
    BY <2>1, <2>2
<1> QED
  BY Zenon, <1>1, <1>2 DEF ReadInv

\* The steps of consoleread that copy nothing, and kill.
LEMMA QuietRead ==
  ASSUME Sizes, ReadInv, NEW p \in Proc, Acquire(p) \/ CheckKilled(p) \/ Sleep(p) \/ Kill(p)
  PROVE  ReadInv'
<1>1. Reader(p) /\ pc[p] \in PC /\ NoProc \notin Proc /\ killed \in [Proc -> BOOLEAN]
  BY DEF ReadInv, Sizes
<1>2. CASE Acquire(p)
  BY Zenon, <1>1, <1>2, MoveRead DEF Acquire, PC
<1>3. CASE CheckKilled(p)
  <2>1. pc[p] = "loop" /\ lock = p /\ Empty
    BY Zenon, <1>1, <1>3 DEF CheckKilled, Reader
  <2>2. CASE killed[p]
    BY <1>1, <1>3, <2>1, <2>2, MoveRead DEF CheckKilled, Return, PC
  <2>3. CASE ~killed[p]
    BY <1>1, <1>3, <2>1, <2>3, MoveRead DEF CheckKilled, PC
  <2> QED
    BY Zenon, <2>2, <2>3
<1>4. CASE Sleep(p)
  <2>1. pc[p] = "sleep" /\ lock = p /\ Empty
    BY Zenon, <1>1, <1>4 DEF Sleep, Reader
  <2> QED
    BY Zenon, <1>1, <1>4, <2>1, MoveRead DEF Sleep, PC
<1>5. CASE Kill(p)
  <2>1. PICK there \in PC : there = IF pc[p] = "asleep" THEN "again" ELSE pc[p]
    BY <1>1 DEF PC
  <2>2. /\ UNCHANGED <<r, w, n, target, got, lock>> /\ killed' \in [Proc -> BOOLEAN]
        /\ pc' = [pc EXCEPT ![p] = there] /\ pc[p] # "user"
    BY <1>1, <1>5, <2>1 DEF Kill, ReadInv
  <2>3. /\ there \in {"loop", "sleep"} <=> lock' = p
        /\ there \in {"sleep", "asleep"} => Empty
    BY <1>1, <2>1, <2>2 DEF Reader
  <2>4. lock' \in Proc \cup {NoProc}
    BY Zenon, <2>2 DEF ReadInv
  <2> QED
    BY Zenon, <1>1, <2>2, <2>3, <2>4, MoveRead
<1> QED
  BY Zenon, <1>2, <1>3, <1>4, <1>5

\* What a read copies: one more character, no ^D, and nothing after a newline.
LEMMA Copied ==
  ASSUME NEW p \in Proc, NEW c \in Char, c # CtrlD, got[p] \in Seq(Char), n[p] \in Nat \ {0},
         target[p] \in Nat, ShortRead(p), pc[p] # "user",
         got'[p] = Append(got[p], c), n'[p] = n[p] - 1, target'[p] = target[p],
         c = Newline => pc'[p] = "user"
  PROVE  ShortRead(p)'
<1>1. /\ Len(got'[p]) = Len(got[p]) + 1 /\ Len(got[p]) \in Nat
      /\ \A i \in 1 .. Len(got[p]) : got'[p][i] = got[p][i]
      /\ got'[p][Len(got[p]) + 1] = c
  OBVIOUS
<1>2. ASSUME NEW i \in 1 .. Len(got'[p])
      PROVE  /\ got'[p][i] # CtrlD
             /\ got'[p][i] = Newline => i = Len(got'[p]) /\ pc'[p] = "user"
  <2>1. i \in 1 .. Len(got[p]) \/ i = Len(got[p]) + 1
    BY <1>1
  <2>2. CASE i \in 1 .. Len(got[p])
    BY Zenon, <1>1, <2>2 DEF ShortRead
  <2>3. CASE i = Len(got[p]) + 1
    BY Zenon, <1>1, <2>3
  <2> QED
    BY Zenon, <2>1, <2>2, <2>3
<1>3. Len(got'[p]) + n'[p] = target'[p]
  BY <1>1 DEF ShortRead
<1> QED
  BY Zenon, <1>2, <1>3 DEF ShortRead

\* One more character, or ^D.
LEMMA ReadCharRead ==
  ASSUME Sizes, RingInv, ReadInv, NEW p \in Proc, ReadChar(p)
  PROVE  ReadInv'
<1>1. /\ Reader(p) /\ pc[p] = "loop" /\ lock = p /\ r # w /\ p # NoProc
      /\ n[p] \in 1 .. MaxN /\ UNCHANGED <<w, target, killed>>
  BY DEF ReadInv, Reader, ReadChar, Empty, Sizes
<1>2. PICK c \in Char : c = buf[Cell(r)]
  BY Zenon, <1>1, ReadsChar
<1>3. ASSUME NEW q \in Proc, q # p,
             pc'[q] = pc[q], n'[q] = n[q], got'[q] = got[q], lock' # q
      PROVE  Reader(q)'
  <2>1. Reader(q) /\ pc[q] \notin {"sleep", "asleep", "loop"}
    BY <1>1, <1>3 DEF ReadInv, Reader, Empty
  <2> QED
    BY <1>1, <1>3, <2>1, SameReader
<1>4. CASE c = CtrlD
  <2>1. pc' = [pc EXCEPT ![p] = "user"] /\ lock' = NoProc /\ UNCHANGED <<n, got>>
    BY Zenon, <1>2, <1>4 DEF ReadChar, Return
  <2>2. Reader(p)'
    <3>1. pc'[p] = "user"
      BY <2>1 DEF ReadInv
    <3>2. ShortRead(p)'
      BY <1>1, <2>1, <3>1 DEF Reader, ShortRead
    <3> QED
      BY <1>1, <2>1, <3>1, <3>2 DEF Reader
  <2>3. ASSUME NEW q \in Proc, q # p
        PROVE  Reader(q)'
    BY <1>3, <2>1, <2>3 DEF ReadInv, Sizes
  <2> QED
    BY <1>1, <2>1, <2>2, <2>3 DEF ReadInv, PC
<1>5. CASE c # CtrlD
  <2>1. /\ got' = [got EXCEPT ![p] = Append(@, c)] /\ n' = [n EXCEPT ![p] = @ - 1]
        /\ \/ Ends(p, c) /\ pc' = [pc EXCEPT ![p] = "user"] /\ lock' = NoProc
           \/ ~Ends(p, c) /\ UNCHANGED <<pc, lock>>
    BY Zenon, <1>2, <1>5 DEF ReadChar, Return
  <2>2. /\ got'[p] = Append(got[p], c) /\ n'[p] = n[p] - 1 /\ got[p] \in Seq(Char)
        /\ target[p] \in Nat
    BY <2>1 DEF ReadInv
  <2>3. /\ n' \in [Proc -> 0 .. MaxN] /\ got' \in [Proc -> Seq(Char)] /\ pc' \in [Proc -> PC]
        /\ lock' \in Proc \cup {NoProc}
    <3>1. n' \in [Proc -> 0 .. MaxN]
      BY <1>1, <2>1 DEF ReadInv, Sizes
    <3>2. got' \in [Proc -> Seq(Char)]
      BY <2>1 DEF ReadInv
    <3>3. pc' \in [Proc -> PC] /\ lock' \in Proc \cup {NoProc}
      BY Zenon, <2>1 DEF ReadInv, PC
    <3> QED
      BY Zenon, <3>1, <3>2, <3>3
  <2>4. \/ Ends(p, c) /\ pc'[p] = "user" /\ lock' = NoProc
        \/ ~Ends(p, c) /\ pc'[p] = "loop" /\ lock' = p
    BY <1>1, <2>1 DEF ReadInv
  <2>5. Reader(p)'
    <3>1. c = Newline => pc'[p] = "user"
      BY Zenon, <2>4 DEF Ends
    <3>2. n[p] \in Nat \ {0} /\ ShortRead(p) /\ pc[p] # "user" /\ target'[p] = target[p]
      BY <1>1 DEF Reader
    <3>3. ShortRead(p)'
      BY Zenon, <1>5, <2>2, <3>1, <3>2, Copied
    <3>4. pc'[p] # "user" => n'[p] > 0
      BY <1>1, <2>2, <2>4 DEF Ends
    <3> QED
      BY <1>1, <2>4, <3>3, <3>4 DEF Reader
  <2>6. ASSUME NEW q \in Proc, q # p
        PROVE  Reader(q)'
    <3>1. pc'[q] = pc[q] /\ n'[q] = n[q] /\ got'[q] = got[q] /\ lock' # q
      BY <2>1, <2>4, <2>6 DEF ReadInv, Sizes
    <3> QED
      BY Zenon, <1>3, <2>6, <3>1
  <2> QED
    BY Zenon, <1>1, <2>3, <2>5, <2>6 DEF ReadInv
<1> QED
  BY Zenon, <1>4, <1>5

\* Every step keeps both invariants.
LEMMA NextRead ==
  ASSUME Sizes
  PROVE  RingInv /\ ReadInv /\ [Next]_vars => ReadInv'
<1> SUFFICES ASSUME RingInv, ReadInv, [Next]_vars PROVE ReadInv'
  OBVIOUS
<1>1. CASE UNCHANGED vars
  <2>1. ASSUME NEW p \in Proc
        PROVE  Reader(p)'
    <3>1. Reader(p) /\ Empty' = Empty
      BY Zenon, <1>1 DEF ReadInv, vars, Empty
    <3> QED
      BY Zenon, <1>1, <3>1, SameReader DEF vars, Reader
  <2> QED
    BY Zenon, <1>1, <2>1 DEF ReadInv, vars
<1> QED
  BY Zenon, <1>1, KeyRead, CallRead, QuietRead, ReadCharRead DEF Next, Step

\* Both invariants hold of every behaviour.
THEOREM ConsoleInvariant ==
  ASSUME Sizes
  PROVE  Spec => [](RingInv /\ ReadInv)
<1>1. Init => RingInv /\ ReadInv
  <2> SUFFICES ASSUME Init PROVE ReadInv
    BY InitTty
  <2>1. /\ lock \in Proc \cup {NoProc} /\ pc \in [Proc -> PC]
        /\ n \in [Proc -> 0 .. MaxN] /\ target \in [Proc -> 0 .. MaxN]
        /\ got \in [Proc -> Seq(Char)] /\ killed \in [Proc -> BOOLEAN]
    BY DEF Init, Sizes, PC
  <2>2. \A p \in Proc : Reader(p)
    BY DEF Init, Sizes, Reader, ShortRead
  <2> QED
    BY Zenon, <2>1, <2>2 DEF ReadInv
<1> QED
  BY <1>1, NextTty, NextRead, PTL DEF Spec

\* No reader sleeps while there is something to read; a read ends early only for
\* the end of a line or of the file, and gives out no ^D; a full buffer has been
\* handed over, so that the keyboard is not stuck; and a ^D is used up by a read
\* that returns nothing, and by no other (consoleintr, consoleread).
THEOREM ConsoleReads ==
  ASSUME Sizes
  PROVE  Spec => ReadsRight
<1>1. RingInv /\ ReadInv => NoSleepOverInput /\ FullIsReady /\ ShortReads
  BY Zenon DEF RingInv, ReadInv, Reader, NoSleepOverInput, ShortReads
<1>2. ASSUME ReadInv, Next, r' # r, buf[Cell(r)] = CtrlD
      PROVE  \E p \in Proc : lock = p /\ pc'[p] = "user" /\ got'[p] = <<>>
  <2>1. PICK p \in Proc : ReadChar(p)
    BY <1>2, Zenon DEF Next, consoleintr, Step, Kill, Call, Acquire, CheckKilled, Sleep
  <2>2. /\ pc[p] = "loop" /\ pc' = [pc EXCEPT ![p] = "user"] /\ got' = got
        /\ r' = IF n[p] < target[p] THEN r ELSE Up(r)
    BY <1>2, <2>1, Zenon DEF ReadChar, Return
  <2>3. lock = p /\ pc'[p] = "user" /\ ~(n[p] < target[p])
    BY <1>2, <2>2, Zenon DEF ReadInv, Reader
  <2>4. /\ Len(got[p]) + n[p] = target[p] /\ got[p] \in Seq(Char)
        /\ n[p] \in 0 .. MaxN /\ target[p] \in 0 .. MaxN /\ MaxN \in Nat
    BY <1>2, Zenon DEF ReadInv, Reader, ShortRead, Sizes
  <2>5. got[p] = <<>>
    BY <2>3, <2>4
  <2> QED
    BY <2>2, <2>3, <2>5, Zenon
<1>3. RingInv /\ ReadInv /\ [Next]_vars =>
        [r' # r /\ buf[Cell(r)] = CtrlD => \E p \in Proc : lock = p /\ pc'[p] = "user" /\ got'[p] = <<>>]_vars
  BY <1>2, Zenon
<1> QED
  BY <1>1, <1>3, ConsoleInvariant, PTL DEF Spec, ReadsRight, EndOfFileSeen
=============================================================================
