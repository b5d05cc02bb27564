----------------------------- MODULE Remainders -----------------------------
(***************************************************************************)
(* Facts about % that the proofs about ring buffers use: the indices of    *)
(* pipes (pipe.c) and of the console (console.c) are uints that wrap       *)
(* around, and are taken modulo the size of the buffer.                    *)
(***************************************************************************)
EXTENDS Integers, SequenceTheorems, TLAPS

\* A larger factor gives a larger product, by one summand at least.
LEMMA Times == \A n, q, k \in Nat : k > q => n * k >= n * q + n
<1> SUFFICES ASSUME NEW n \in Nat, NEW q \in Nat, NEW k \in Nat, k > q
             PROVE  n * k >= n * q + n
  OBVIOUS
<1>1. PICK d \in Nat : k = q + 1 + d
  <2>1. k - q - 1 \in Nat /\ k = q + 1 + (k - q - 1)
    OBVIOUS
  <2> QED
    BY <2>1
<1>2. n * (q + 1 + d) = n * q + n + n * d /\ n * d \in Nat
  OBVIOUS
<1> QED
  BY <1>1, <1>2

\* Quotient and remainder.
LEMMA ModDiv ==
  ASSUME NEW x \in Nat, NEW n \in Nat \ {0}
  PROVE  /\ x \div n \in Nat /\ x % n \in 0 .. n - 1
         /\ x = n * (x \div n) + (x % n)
<1>1. x \div n \in Nat /\ x % n \in 0 .. n - 1
  BY Z3
<1>2. x = n * (x \div n) + (x % n)
  BY Z3
<1> QED
  BY <1>1, <1>2

\* They are unique.
LEMMA ModUnique ==
  ASSUME NEW n \in Nat \ {0}, NEW q \in Nat, NEW r \in 0 .. n - 1
  PROVE  (n * q + r) % n = r
<1> DEFINE x == n * q + r
           k == x \div n
           s == x % n
<1>0. x \in Nat /\ n * q \in Nat
  OBVIOUS
<1>1. k \in Nat /\ s \in 0 .. n - 1 /\ x = n * k + s
  BY Zenon, <1>0, ModDiv
<1>2. n * k \in Nat /\ x = n * q + r
  BY <1>1
<1> HIDE DEF x, k, s
<1>3. ~ (k > q)
  <2>1. k > q => n * k >= n * q + n
    BY <1>1, Times
  <2> QED
    BY <1>0, <1>1, <1>2, <2>1
<1>4. ~ (q > k)
  <2>1. q > k => n * q >= n * k + n
    BY <1>1, Times
  <2> QED
    BY <1>0, <1>1, <1>2, <2>1
<1>5. k = q
  BY <1>1, <1>3, <1>4
<1> QED
  BY <1>0, <1>1, <1>2, <1>5 DEF x, s

\* Multiples of the modulus do not count.
LEMMA ModPeriod ==
  ASSUME NEW n \in Nat \ {0}, NEW k \in Nat, NEW x \in Nat
  PROVE  (x + n * k) % n = x % n
<1>1. PICK q \in Nat, r \in 0 .. n - 1 : x = n * q + r /\ r = x % n
  BY Zenon, ModDiv
<1>2. x + n * k = n * (q + k) + r
  BY <1>1
<1>3. q + k \in Nat
  BY <1>1
<1> QED
  BY Zenon, <1>1, <1>2, <1>3, ModUnique

\* Remainders of numbers below twice the modulus.
LEMMA ModSmall ==
  ASSUME NEW n \in Nat \ {0}, NEW x \in Nat
  PROVE  /\ x < n => x % n = x
         /\ n <= x /\ x < n + n => x % n = x - n
<1>1. ASSUME x < n PROVE x % n = x
  <2>1. n * 0 + x = x /\ x \in 0 .. n - 1
    BY <1>1
  <2> QED
    BY <2>1, ModUnique
<1>2. ASSUME n <= x, x < n + n PROVE x % n = x - n
  <2>1. n * 1 + (x - n) = x /\ x - n \in 0 .. n - 1
    BY <1>2
  <2> QED
    BY <2>1, ModUnique
<1> QED
  BY <1>1, <1>2

\* Numbers less than the modulus apart have different remainders.
LEMMA ModDistinct ==
  ASSUME NEW n \in Nat \ {0}, NEW x \in Nat, NEW y \in Nat, x < y, y < x + n
  PROVE  x % n # y % n
<1> SUFFICES ASSUME x % n = y % n PROVE FALSE
  OBVIOUS
<1> DEFINE a == x \div n
           b == y \div n
           r == x % n
<1>1. a \in Nat /\ b \in Nat /\ r \in 0 .. n - 1 /\ x = n * a + r /\ y = n * b + r
  BY Zenon, ModDiv
<1>2. n * a \in Nat /\ n * b \in Nat
  BY <1>1
<1> HIDE DEF a, b, r
<1>3. b > a => n * b >= n * a + n
  BY <1>1, Times
<1>4. a > b => n * a >= n * b + n
  BY <1>1, Times
<1> QED
  BY <1>1, <1>2, <1>3, <1>4

\* The remainder of a negative number.
LEMMA ModNegative ==
  ASSUME NEW n \in Nat \ {0}, NEW x \in Int, x < 0, 0 <= x + n
  PROVE  x % n = x + n
<1> DEFINE k == x \div n
           s == x % n
<1>1. k \in Int /\ s \in 0 .. n - 1 /\ x = n * k + s
  BY Z3
<1> HIDE DEF k, s
<1>2. k < 0
  <2> SUFFICES ASSUME k >= 0 PROVE FALSE
    BY <1>1
  <2>1. k \in Nat /\ n * k \in Nat
    BY <1>1
  <2> QED
    BY <1>1, <2>1
<1>3. ~ (k < -1)
  <2> SUFFICES ASSUME k < -1 PROVE FALSE
    OBVIOUS
  <2>1. PICK m \in Nat : m = -k
    BY <1>1
  <2>2. n * k = -(n * m) /\ n * m \in Nat
    BY <1>1, <2>1
  <2>3. n * m >= n * 1 + n
    BY <2>1, <1>1, Times
  <2> QED
    BY <1>1, <2>2, <2>3
<1>4. k = -1
  BY <1>1, <1>2, <1>3
<1> QED
  BY <1>1, <1>4 DEF s

\* The difference of two numbers below the modulus.
LEMMA ModDifference ==
  ASSUME NEW n \in Nat \ {0}, NEW i \in 0 .. n - 1, NEW j \in 0 .. n - 1
  PROVE  (j - i) % n = IF i <= j THEN j - i ELSE j - i + n
<1>1. CASE i <= j
  <2>1. j - i \in Nat /\ j - i < n
    BY <1>1
  <2> QED
    BY <1>1, <2>1, ModSmall
<1>2. CASE j < i
  <2>1. j - i \in Int /\ j - i < 0 /\ 0 <= (j - i) + n
    BY <1>2
  <2> QED
    BY <1>2, <2>1, ModNegative
<1> QED
  BY <1>1, <1>2

\* A modulus that divides another one.
LEMMA ModDivides ==
  ASSUME NEW n \in Nat \ {0}, NEW u \in Nat \ {0}, u % n = 0, NEW x \in Nat, x < u + u
  PROVE  (x % u) % n = x % n
<1>1. PICK k \in Nat : u = n * k + 0
  BY Zenon, ModDiv
<1>2. u = n * k
  BY <1>1
<1>3. CASE x < u
  BY Zenon, <1>3, ModSmall
<1>4. CASE u <= x
  <2>1. PICK y \in Nat : y = x - u
    BY <1>4
  <2>2. x % u = x - u
    BY Zenon, <1>4, ModSmall
  <2>3. x % u = y /\ x = y + n * k
    BY <1>2, <2>1, <2>2
  <2>4. (y + n * k) % n = y % n
    BY Zenon, ModPeriod
  <2> QED
    BY Zenon, <2>3, <2>4
<1> QED
  BY <1>3, <1>4

-----------------------------------------------------------------------------
(* Sequences, element by element.                                           *)

\* A sequence that is one longer.
LEMMA Appended ==
  ASSUME NEW D, NEW n \in Nat, NEW f \in [1 .. n -> D], NEW g \in [1 .. n + 1 -> D],
         \A i \in 1 .. n : g[i] = f[i]
  PROVE  g = Append(f, g[n + 1]) /\ Len(f) = n
OBVIOUS

\* A sequence without its first element.
LEMMA Behead ==
  ASSUME NEW D, NEW n \in Nat, NEW f \in [1 .. n + 1 -> D], NEW g \in [1 .. n -> D],
         \A i \in 1 .. n : g[i] = f[i + 1]
  PROVE  g = Tail(f) /\ Head(f) = f[1] /\ f # <<>>
OBVIOUS

\* A sequence cut in two.
LEMMA Joined ==
  ASSUME NEW D, NEW f \in Seq(D), NEW g \in Seq(D), NEW h \in Seq(D),
         Len(h) = Len(f) + Len(g),
         \A i \in 1 .. Len(f) : h[i] = f[i],
         \A i \in 1 .. Len(g) : h[Len(f) + i] = g[i]
  PROVE  h = f \o g
<1>1. /\ f \o g \in Seq(D) /\ Len(f \o g) = Len(f) + Len(g)
      /\ \A i \in 1 .. Len(f) + Len(g) : (f \o g)[i] = IF i <= Len(f) THEN f[i] ELSE g[i - Len(f)]
  BY Zenon, ConcatProperties
<1>2. ASSUME NEW i \in 1 .. Len(h)
      PROVE  h[i] = (f \o g)[i]
  <2>1. CASE i <= Len(f)
    <3>1. i \in 1 .. Len(f)
      BY <2>1
    <3> QED
      BY Zenon, <1>1, <1>2, <2>1, <3>1
  <2>2. CASE ~ (i <= Len(f))
    <3>1. i - Len(f) \in 1 .. Len(g) /\ i = Len(f) + (i - Len(f))
      BY <2>2
    <3> QED
      BY Zenon, <1>1, <1>2, <2>2, <3>1
  <2> QED
    BY Zenon, <2>1, <2>2
<1> QED
  BY Zenon, <1>1, <1>2, SeqEqual

\* The beginning of a sequence.
LEMMA Beginning ==
  ASSUME NEW D, NEW m \in Nat, NEW n \in Nat, m <= n, NEW f \in [1 .. n -> D],
         NEW g \in [1 .. m -> D], \A i \in 1 .. m : g[i] = f[i]
  PROVE  g = SubSeq(f, 1, m) /\ Len(f) = n
OBVIOUS
=============================================================================
