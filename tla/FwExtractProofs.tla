--------------------------- MODULE FwExtractProofs ---------------------------
(***************************************************************************)
(* Theorems about FwExtract, for any containers, command lines and keys    *)
(* and any lengths of header, signature, block and key.                    *)
(***************************************************************************)
EXTENDS FwExtract, WellFoundedInduction, TLAPS

Cells == 0 .. Base - 1

-----------------------------------------------------------------------------
(* parse_chunks.                                                           *)

\* A set of naturals that is not empty has a least element.
LEMMA LeastNatural ==
  ASSUME NEW T \in SUBSET Nat, T # {}
  PROVE  \E x \in T : \A y \in T : x <= y
<1>1. PICK x \in T : \A y \in T : ~(<<y, x>> \in OpToRel(<, Nat))
  BY NatLessThanWellFounded, WFMin, Zenon
<1>2. ASSUME NEW y \in T PROVE x <= y
  <2>1. ~(y < x)
    BY <1>1 DEF OpToRel
  <2> QED  BY <2>1
<1> QED  BY <1>2

\* One turn of the loop ends it, or goes on at an offset that is greater and still in
\* the file.
LEMMA ChunkCases ==
  ASSUME NEW d \in Seq(Cells), NEW at \in 0 .. Len(d), NEW f
  PROVE  \/ ChunkFrom(d, at, f).len \in Nat
         \/ \E n \in Nat : /\ at + n \in 0 .. Len(d) /\ at + n > at
                           /\ ChunkFrom(d, at, f).len = n + f[at + n].len
<1>1. Len(d) \in Nat /\ ChunkHead = 2
  BY DEF ChunkHead
<1>2. CASE at + ChunkHead > Len(d)
  BY <1>2 DEF ChunkFrom, NoTag
<1>3. CASE ~(at + ChunkHead > Len(d))
  <2> DEFINE n == d[at + 2]
  <2>1. n \in Nat
    <3>1. at + 2 \in 1 .. Len(d)
      BY <1>1, <1>3
    <3>2. n \in Cells
      BY <3>1
    <3> QED  BY <3>2, LayoutAssumption DEF Cells
  <2> HIDE DEF n
  <2>2. CASE n < ChunkHead \/ at + n > Len(d)
    BY <1>3, <2>2 DEF ChunkFrom, NoTag, n
  <2>3. CASE ~(n < ChunkHead \/ at + n > Len(d)) /\ d[at + 1] = 0
    BY <1>3, <2>1, <2>3 DEF ChunkFrom, n
  <2>4. CASE ~(n < ChunkHead \/ at + n > Len(d)) /\ d[at + 1] # 0
    <3>1. at + n \in 0 .. Len(d) /\ at + n > at
      BY <1>1, <2>1, <2>4
    <3>2. ChunkFrom(d, at, f).len = n + f[at + n].len
      BY <1>3, <2>4 DEF ChunkFrom, n
    <3> QED  BY <2>1, <3>1, <3>2
  <2> QED  BY <2>2, <2>3, <2>4
<1> QED  BY <1>2, <1>3

\* It looks at no other offset that is not greater.
LEMMA ChunkLocal ==
  ASSUME NEW d \in Seq(Cells), NEW at \in 0 .. Len(d), NEW f, NEW g,
         \A k \in 0 .. Len(d) : k > at => f[k] = g[k]
  PROVE  ChunkFrom(d, at, f) = ChunkFrom(d, at, g)
<1>1. Len(d) \in Nat /\ ChunkHead = 2
  BY DEF ChunkHead
<1>2. CASE at + ChunkHead > Len(d)
  BY <1>2 DEF ChunkFrom
<1>3. CASE ~(at + ChunkHead > Len(d))
  <2> DEFINE n == d[at + 2]
  <2>1. n \in Nat
    <3>1. at + 2 \in 1 .. Len(d)
      BY <1>1, <1>3
    <3>2. n \in Cells
      BY <3>1
    <3> QED  BY <3>2, LayoutAssumption DEF Cells
  <2> HIDE DEF n
  <2>2. CASE n < ChunkHead \/ at + n > Len(d)
    BY <1>3, <2>2 DEF ChunkFrom, n
  <2>3. CASE ~(n < ChunkHead \/ at + n > Len(d))
    <3>1. at + n \in 0 .. Len(d) /\ at + n > at
      BY <1>1, <2>1, <2>3
    <3>2. f[at + n] = g[at + n]
      BY <3>1
    <3> QED  BY <1>3, <2>3, <3>2 DEF ChunkFrom, n
  <2> QED  BY <2>2, <2>3
<1> QED  BY <1>2, <1>3

\* The recursion is well founded: there is a function that satisfies it.
LEMMA ChunksExist ==
  ASSUME NEW d \in Seq(Cells)
  PROVE  \E f : f = [at \in 0 .. Len(d) |-> ChunkFrom(d, at, f)]
<1> DEFINE N == Len(d)
           Good(f, n) == /\ f = [at \in 0 .. N |-> f[at]]
                         /\ \A at \in 0 .. N : at >= n => f[at] = ChunkFrom(d, at, f)
           T == {n \in Nat : \E f : Good(f, n)}
<1>0. N \in Nat
  OBVIOUS
<1> HIDE DEF N
<1>1. N + 1 \in T
  <2> DEFINE f == [at \in 0 .. N |-> NoTag]
  <2>1. f = [at \in 0 .. N |-> f[at]]
    OBVIOUS
  <2>2. \A at \in 0 .. N : ~(at >= N + 1)
    BY <1>0
  <2>3. Good(f, N + 1)
    BY <2>1, <2>2
  <2> QED  BY <1>0, <2>3
<1>2. PICK m \in T : \A n \in T : m <= n
  BY <1>1, LeastNatural
<1>3. m = 0
  <2> SUFFICES ASSUME m # 0 PROVE FALSE
    OBVIOUS
  <2>1. m \in Nat /\ m - 1 \in Nat /\ ~(m <= m - 1)
    OBVIOUS
  <2>2. PICK f : Good(f, m)
    BY <1>2
  <2> DEFINE g == [at \in 0 .. N |-> IF at = m - 1 THEN ChunkFrom(d, at, f) ELSE f[at]]
  <2>3. ASSUME NEW at \in 0 .. N, at >= m - 1 PROVE g[at] = ChunkFrom(d, at, g)
    <3>1. \A k \in 0 .. N : k > at => f[k] = g[k]
      BY <2>1, <2>3
    <3>2. ChunkFrom(d, at, f) = ChunkFrom(d, at, g)
      BY <3>1, ChunkLocal, ZenonT(40) DEF N
    <3>3. g[at] = ChunkFrom(d, at, f)
      <4>1. CASE at = m - 1
        BY <4>1
      <4>2. CASE at # m - 1
        <5>1. at >= m
          BY <2>1, <2>3, <4>2
        <5>2. f[at] = ChunkFrom(d, at, f)
          BY <2>2, <5>1
        <5> QED  BY <4>2, <5>2
      <4> QED  BY <4>1, <4>2
    <3> QED  BY <3>2, <3>3
  <2>4. g = [at \in 0 .. N |-> g[at]]
    OBVIOUS
  <2> HIDE DEF g
  <2>5. Good(g, m - 1)
    BY <2>3, <2>4
  <2>6. m - 1 \in T
    BY <2>1, <2>5
  <2> QED  BY <1>2, <2>1, <2>6
<1>4. PICK f : Good(f, 0)
  BY <1>2, <1>3
<1>5. \A at \in 0 .. N : f[at] = ChunkFrom(d, at, f)
  BY <1>0, <1>4
<1>6. f = [at \in 0 .. N |-> ChunkFrom(d, at, f)]
  BY <1>4, <1>5
<1> QED  BY <1>6 DEF N

\* So Chunks is such a function.
LEMMA ChunksDefined ==
  ASSUME NEW d \in Seq(Cells)
  PROVE  \A at \in 0 .. Len(d) : Chunks(d)[at] = ChunkFrom(d, at, Chunks(d))
<1>1. Chunks(d) = CHOOSE f : f = [at \in 0 .. Len(d) |-> ChunkFrom(d, at, f)]
  BY Zenon DEF Chunks
<1>2. Chunks(d) = [at \in 0 .. Len(d) |-> ChunkFrom(d, at, Chunks(d))]
  BY <1>1, ChunksExist, Zenon
<1> QED  BY <1>2, Zenon

\* The length of the tag is that of its header at least.
LEMMA TagLen ==
  ASSUME NEW d \in Seq(Cells), Len(d) >= TagHeader
  PROVE  ParseChunks(d).len \in Nat /\ ParseChunks(d).len >= TagHeader
<1> DEFINE N == Len(d)
           T == {k \in Nat : \E at \in 0 .. N : k = N - at /\ Chunks(d)[at].len \notin Nat}
<1>0. N \in Nat
  OBVIOUS
<1>1. T = {}
  <2> SUFFICES ASSUME T # {} PROVE FALSE
    OBVIOUS
  <2>1. PICK k \in T : \A j \in T : k <= j
    BY LeastNatural
  <2>2. PICK at \in 0 .. N : k = N - at /\ Chunks(d)[at].len \notin Nat
    OBVIOUS
  <2>3. ASSUME NEW n \in Nat, at + n \in 0 .. N, at + n > at
        PROVE  Chunks(d)[at + n].len \in Nat
    <3>1. N - (at + n) \in Nat /\ ~(k <= N - (at + n))
      BY <1>0, <2>2, <2>3
    <3> QED  BY <2>1, <2>3, <3>1
  <2>4. Chunks(d)[at] = ChunkFrom(d, at, Chunks(d))
    BY ChunksDefined
  <2>5. ChunkFrom(d, at, Chunks(d)).len \in Nat
    <3>1. \/ ChunkFrom(d, at, Chunks(d)).len \in Nat
          \/ \E n \in Nat : /\ at + n \in 0 .. Len(d) /\ at + n > at
                            /\ ChunkFrom(d, at, Chunks(d)).len = n + Chunks(d)[at + n].len
      BY ChunkCases
    <3>2. ASSUME NEW n \in Nat, at + n \in 0 .. Len(d), at + n > at,
                 ChunkFrom(d, at, Chunks(d)).len = n + Chunks(d)[at + n].len
          PROVE  ChunkFrom(d, at, Chunks(d)).len \in Nat
      <4>1. Chunks(d)[at + n].len \in Nat
        BY <2>3, <3>2
      <4> HIDE DEF T
      <4> QED  BY <3>2, <4>1
    <3> QED  BY <3>1, <3>2
  <2> QED  BY <2>2, <2>4, <2>5
<1>2. TagHeader \in Nat /\ TagHeader \in 0 .. N
  BY <1>0, LayoutAssumption
<1>3. Chunks(d)[TagHeader].len \in Nat
  <2>1. N - TagHeader \in Nat
    BY <1>0, <1>2
  <2> QED  BY <1>1, <1>2, <2>1
<1> QED  BY <1>2, <1>3 DEF ParseChunks

-----------------------------------------------------------------------------
(* Pieces of a container.                                                  *)

\* Two slices that meet make one.
LEMMA SlicesJoin ==
  ASSUME NEW S, NEW s \in Seq(S), NEW a \in Nat, NEW b \in Nat, a <= b, b <= Len(s)
  PROVE  Slice(s, 0, a) \o Slice(s, a, b) = Slice(s, 0, b)
BY DEF Slice

\* The slice from the beginning to the end is the whole.
LEMMA SliceAll ==
  ASSUME NEW S, NEW s \in Seq(S)
  PROVE  Slice(s, 0, Len(s)) = s
BY DEF Slice

\* The values in a sequence.
Own(e) == {e[i] : i \in DOMAIN e}

\* A function on 1 .. n is a sequence of its own values.
LEMMA OwnCells ==
  ASSUME NEW e, NEW n \in Nat, e = [i \in 1 .. n |-> e[i]]
  PROVE  e \in Seq(Own(e)) /\ Len(e) = n
<1>1. e \in [1 .. n -> Own(e)]
  BY DEF Own
<1> QED  BY <1>1

\* aes_cbc_decrypt works in place, behind the tag.
LEMMA DecryptedFacts ==
  ASSUME NEW S, NEW d \in Seq(S), NEW start \in Nat, NEW k, NEW iv,
         NEW e, e = Decrypted(d, start, k, iv)
  PROVE  /\ e \in Seq(Own(e)) /\ Len(e) = Len(d)
         /\ \A i \in 1 .. Len(d) : i <= start => e[i] = d[i]
<1>1. e = [i \in 1 .. Len(d) |-> e[i]] /\ \A i \in 1 .. Len(d) : i <= start => e[i] = d[i]
  BY DEF Decrypted
<1>2. Len(d) \in Nat
  OBVIOUS
<1>3. e \in Seq(Own(e)) /\ Len(e) = Len(d)
  BY <1>1, <1>2, OwnCells
<1> QED  BY <1>1, <1>3

-----------------------------------------------------------------------------
(* Arithmetic modulo the number of values of a cell.                       *)

\* Products keep the order.
LEMMA Monotone ==
  ASSUME NEW b \in Nat, NEW p \in Int, NEW q \in Int, p <= q
  PROVE  p * b <= q * b
OBVIOUS

\* A number is its quotient times the divisor, and its remainder.
LEMMA DivMod ==
  ASSUME NEW b \in Nat \ {0}, NEW n \in Int
  PROVE  /\ n \div b \in Int /\ n % b \in 0 .. b - 1
         /\ n = (n \div b) * b + (n % b)
OBVIOUS

\* No other quotient and remainder do.
LEMMA DivUnique ==
  ASSUME NEW b \in Nat \ {0}, NEW q \in Int, NEW r \in 0 .. b - 1
  PROVE  (q * b + r) \div b = q /\ (q * b + r) % b = r
<1> DEFINE n == q * b + r
           d == n \div b
           m == n % b
<1>1. n \in Int
  OBVIOUS
<1>2. d \in Int /\ m \in 0 .. b - 1 /\ n = d * b + m
  BY <1>1, DivMod
<1> HIDE DEF d, m
<1>3. CASE d < q
  <2>1. (d + 1) * b <= q * b
    BY <1>2, <1>3, Monotone
  <2>2. (d + 1) * b = d * b + b
    BY <1>2
  <2> QED  BY <1>2, <2>1, <2>2
<1>4. CASE d > q
  <2>1. (q + 1) * b <= d * b
    BY <1>2, <1>4, Monotone
  <2>2. (q + 1) * b = q * b + b
    OBVIOUS
  <2> QED  BY <1>2, <2>1, <2>2
<1>5. d = q
  BY <1>2, <1>3, <1>4
<1>6. m = r
  BY <1>2, <1>5
<1> QED  BY <1>5, <1>6 DEF d, m, n

\* What was subtracted from a cell can be added again.
LEMMA AddBack ==
  ASSUME NEW u \in Cells, NEW v \in Cells
  PROVE  /\ (u - v) % Base \in Cells
         /\ (((u - v) % Base) + v) % Base = u
<1>1. Base \in Nat \ {0} /\ u \in Int /\ v \in Int /\ 0 <= u /\ u < Base /\ 0 <= v /\ v < Base
  BY LayoutAssumption DEF Cells
<1> DEFINE B == Base
<1> HIDE DEF B
<1>2. B \in Nat \ {0} /\ u \in 0 .. B - 1 /\ v \in 0 .. B - 1
  BY <1>1 DEF B
<1>3. \A q \in Int, r \in 0 .. B - 1 : (q * B + r) % B = r
  BY <1>2, DivUnique
<1>4. u % B = u /\ (B + u) % B = u
  <2>1. (0 * B + u) % B = u /\ (1 * B + u) % B = u
    BY <1>2, <1>3
  <2>2. 0 * B + u = u /\ 1 * B + u = B + u
    BY <1>2
  <2> QED  BY <2>1, <2>2
<1>5. CASE u >= v
  <2>1. (0 * B + (u - v)) % B = u - v
    BY <1>2, <1>3, <1>5
  <2>2. 0 * B + (u - v) = u - v /\ (u - v) + v = u /\ u - v \in 0 .. B - 1
    BY <1>2, <1>5
  <2> QED  BY <1>4, <2>1, <2>2 DEF B, Cells
<1>6. CASE ~(u >= v)
  <2>1. B + u - v \in 0 .. B - 1 /\ -1 \in Int
    BY <1>2, <1>6
  <2>2. ((-1) * B + (B + u - v)) % B = B + u - v
    BY <1>2, <1>3, <2>1
  <2>3. (-1) * B + (B + u - v) = u - v /\ (B + u - v) + v = B + u
    BY <1>2
  <2> QED  BY <1>4, <2>1, <2>2, <2>3 DEF B, Cells
<1> QED  BY <1>5, <1>6

-----------------------------------------------------------------------------
(* Blocks.                                                                 *)

\* Equal cell by cell.
LEMMA SameCells ==
  ASSUME NEW C, NEW x \in Seq(C), NEW y \in Seq(C), Len(x) = Len(y), \A i \in 1 .. Len(x) : x[i] = y[i]
  PROVE  x = y
OBVIOUS

\* A slice of a container.
LEMMA SliceFacts ==
  ASSUME NEW C, NEW q \in Seq(C), NEW a \in Nat, NEW b \in Nat, a <= b, b <= Len(q)
  PROVE  /\ Slice(q, a, b) \in Seq(C) /\ Len(Slice(q, a, b)) = b - a
         /\ \A i \in 1 .. b - a : Slice(q, a, b)[i] = q[a + i]
<1>1. Len(q) \in Nat
  OBVIOUS
<1>2. SubSeq(q, a + 1, b) \in Seq(C) /\ Len(SubSeq(q, a + 1, b)) = b - a
  BY <1>1
<1>3. \A i \in 1 .. b - a : SubSeq(q, a + 1, b)[i] = q[a + i]
  BY <1>1
<1> QED  BY <1>2, <1>3 DEF Slice

\* x and y are sequences that agree between offsets a and b.
AgreeBetween(x, y, a, b) ==
  /\ x \in Seq(Own(x)) /\ y \in Seq(Own(y)) /\ a \in Nat /\ b \in Nat
  /\ a <= b /\ b <= Len(x) /\ b <= Len(y)
  /\ \A i \in 1 .. b - a : x[a + i] = y[a + i]

\* Slices that agree cell by cell are the same.
LEMMA SlicesAgree ==
  ASSUME NEW x, NEW y, NEW a, NEW b, AgreeBetween(x, y, a, b)
  PROVE  Slice(x, a, b) = Slice(y, a, b)
<1> DEFINE C == Own(x)
           D == Own(y)
           E == C \cup D
           u == Slice(x, a, b)
           v == Slice(y, a, b)
<1>0. x \in Seq(C) /\ y \in Seq(D) /\ a \in Nat /\ b \in Nat /\ a <= b /\ b <= Len(x) /\ b <= Len(y)
  BY DEF AgreeBetween
<1> HIDE DEF C, D
<1>1. u \in Seq(C) /\ Len(u) = b - a /\ \A i \in 1 .. b - a : u[i] = x[a + i]
  BY <1>0, SliceFacts
<1>2. v \in Seq(D) /\ Len(v) = b - a /\ \A i \in 1 .. b - a : v[i] = y[a + i]
  BY <1>0, SliceFacts
<1> HIDE DEF u, v
<1>3. u \in Seq(E) /\ v \in Seq(E)
  <2>1. C \subseteq E /\ D \subseteq E
    OBVIOUS
  <2> HIDE DEF E
  <2>2. u \in Seq(C) /\ v \in Seq(D)
    BY <1>1, <1>2
  <2> QED  BY <2>1, <2>2
<1> HIDE DEF E
<1>4. Len(u) = Len(v) /\ \A i \in 1 .. Len(u) : u[i] = v[i]
  <2>1. \A i \in 1 .. b - a : x[a + i] = y[a + i]
    BY DEF AgreeBetween
  <2> QED  BY <1>1, <1>2, <2>1
<1>5. u = v
  BY <1>3, <1>4, SameCells
<1> QED  BY <1>5 DEF u, v

\* Block i of n whole blocks lies between them.
LEMMA BlockBounds ==
  ASSUME NEW n \in Nat, NEW i \in 1 .. n
  PROVE  /\ (i - 1) * Block \in Nat /\ i * Block \in Nat /\ n * Block \in Nat
         /\ i * Block = (i - 1) * Block + Block /\ i * Block <= n * Block
<1> DEFINE B == Block
<1>1. B \in Nat
  BY LayoutAssumption
<1> HIDE DEF B
<1>2. i \in Nat /\ i - 1 \in Nat /\ i <= n
  OBVIOUS
<1>3. (i - 1) * B \in Nat /\ i * B \in Nat /\ n * B \in Nat
  BY <1>1, <1>2
<1>4. i * B = (i - 1) * B + B
  BY <1>1, <1>2
<1>5. i * B <= n * B
  BY <1>1, <1>2, Monotone
<1> QED  BY <1>3, <1>4, <1>5 DEF B

\* There are at least n whole blocks in q.
HasBlocks(q, n) == n * Block <= Len(q)

\* The cells of a block.
LEMMA BlockFacts ==
  ASSUME NEW C, NEW q \in Seq(C), NEW n \in Nat, HasBlocks(q, n), NEW i \in 1 .. n
  PROVE  /\ BlockOf(q, i) \in Seq(C) /\ Len(BlockOf(q, i)) = Block
         /\ \A x \in 1 .. Block : BlockOf(q, i)[x] = q[(i - 1) * Block + x]
<1> DEFINE a == (i - 1) * Block
           b == i * Block
           z == n * Block
           B == Block
<1>1. /\ a \in Nat /\ b \in Nat /\ b = a + B /\ b <= z /\ z \in Nat /\ B \in Nat
      /\ z <= Len(q) /\ Len(q) \in Nat
  <2>1. a \in Nat /\ b \in Nat /\ z \in Nat /\ b = a + B /\ b <= z
    BY BlockBounds
  <2>2. B \in Nat /\ Len(q) \in Nat
    BY LayoutAssumption
  <2>3. z <= Len(q)
    BY DEF HasBlocks
  <2> QED  BY <2>1, <2>2, <2>3
<1>2. BlockOf(q, i) = Slice(q, a, b)
  BY DEF BlockOf
<1> HIDE DEF a, b, z, B
<1>3. a <= b /\ b <= Len(q) /\ b - a = B
  BY <1>1
<1>4. /\ Slice(q, a, b) \in Seq(C) /\ Len(Slice(q, a, b)) = b - a
      /\ \A x \in 1 .. b - a : Slice(q, a, b)[x] = q[a + x]
  <2>1. q \in Seq(C) /\ a \in Nat /\ b \in Nat /\ a <= b /\ b <= Len(q)
    BY <1>1, <1>3
  <2> QED  BY <2>1, SliceFacts, Zenon
<1>5. /\ BlockOf(q, i) \in Seq(C) /\ Len(BlockOf(q, i)) = B
      /\ \A x \in 1 .. B : BlockOf(q, i)[x] = q[a + x]
  BY <1>2, <1>3, <1>4
<1> QED  BY <1>5 DEF a, B

\* Cell x of block i, counted from 0, is in block i and at place x.
LEMMA PlaceOf ==
  ASSUME NEW i \in Nat \ {0}, NEW x \in 1 .. Block
  PROVE  /\ ((i - 1) * Block + x - 1) \div Block + 1 = i
         /\ (((i - 1) * Block + x - 1) % Block) + 1 = x
<1> DEFINE B == Block
           q == i - 1
           r == x - 1
           m == q * B
<1>1. B \in Nat \ {0} /\ q \in Int /\ r \in 0 .. B - 1
  BY LayoutAssumption
<1>2. m \in Int /\ x \in Int
  BY <1>1
<1>3. m + x - 1 = m + r
  <2> HIDE DEF m
  <2> QED  BY <1>2
<1>4. (m + r) \div B = q /\ (m + r) % B = r
  <2> HIDE DEF q, r, B
  <2> QED  BY <1>1, DivUnique
<1>5. q + 1 = i /\ r + 1 = x
  BY <1>1
<1> QED  BY <1>3, <1>4, <1>5

\* A block of cells.
IsBlock(w) == w = [x \in 1 .. Block |-> w[x]] /\ \A x \in 1 .. Block : w[x] \in Cells

\* u is block w deciphered and unchained from v.
Unchained(k, w, v, u) ==
  /\ k[1] \in Cells /\ IsBlock(w) /\ IsBlock(v)
  /\ \A x \in 1 .. Block : u[x] = Minus(Decipher(k, w), v)[x]

\* Chaining and enciphering a block undoes deciphering and unchaining it.
LEMMA BlockInverts ==
  ASSUME NEW k, NEW w, NEW v, NEW u, Unchained(k, w, v, u)
  PROVE  Cipher(k, Plus(u, v)) = w
<1> DEFINE B == Block
           g == Decipher(k, w)
           q == Plus(u, v)
           r == Cipher(k, q)
           a == k[1]
<1>1. B \in Nat \ {0} /\ a \in Cells
  BY LayoutAssumption DEF Unchained
<1>2. \A x \in 1 .. B : B + 1 - x \in 1 .. B /\ B + 1 - (B + 1 - x) = x
  <2> HIDE DEF B
  <2> QED  BY <1>1
<1>3. \A x \in 1 .. B : g[x] = (w[B + 1 - x] - a) % Base
  BY DEF Decipher
<1>4. \A x \in 1 .. B : u[x] = (g[x] - v[x]) % Base
  BY DEF Minus, Unchained
<1>5. \A x \in 1 .. B : q[x] = (u[x] + v[x]) % Base
  BY DEF Plus
<1>6. r = [x \in 1 .. B |-> (q[B + 1 - x] + a) % Base]
  BY DEF Cipher
<1>7. /\ \A x \in 1 .. B : w[x] \in Cells /\ v[x] \in Cells
      /\ w = [x \in 1 .. B |-> w[x]]
  BY DEF IsBlock, Unchained
<1> HIDE DEF B, g, q, r, a
<1>8. ASSUME NEW x \in 1 .. B PROVE g[x] \in Cells /\ q[x] = g[x]
  <2> DEFINE y == w[B + 1 - x]
             z == v[x]
             h == g[x]
  <2>1. y \in Cells /\ z \in Cells
    BY <1>2, <1>7
  <2>2. h = (y - a) % Base
    BY <1>3
  <2> HIDE DEF y, z, h
  <2>3. h \in Cells
    BY <1>1, <2>1, <2>2, AddBack
  <2>4. (((h - z) % Base) + z) % Base = h
    BY <2>1, <2>3, AddBack
  <2>5. q[x] = (((h - z) % Base) + z) % Base
    BY <1>4, <1>5 DEF h, z
  <2> QED  BY <2>3, <2>4, <2>5 DEF h
<1>9. ASSUME NEW y \in 1 .. B PROVE (q[B + 1 - y] + a) % Base = w[y]
  <2> DEFINE x == B + 1 - y
             c == w[y]
  <2>1. x \in 1 .. B /\ B + 1 - x = y
    BY <1>2
  <2>2. q[x] = g[x] /\ g[x] = (w[B + 1 - x] - a) % Base /\ c \in Cells
    BY <1>3, <1>7, <1>8, <2>1
  <2>3. q[x] = (c - a) % Base
    BY <2>1, <2>2, Zenon
  <2> HIDE DEF c
  <2>4. (((c - a) % Base) + a) % Base = c
    BY <1>1, <2>2, AddBack
  <2> QED  BY <2>3, <2>4 DEF c
<1>10. r = w
  BY <1>6, <1>7, <1>9, Zenon
<1> QED  BY <1>10 DEF r, q


\* The number of whole blocks behind offset s.
Whole(d, s) == (Len(d) - s) \div Block

\* How many cells they are.
LEMMA WholeFacts ==
  ASSUME NEW C, NEW d \in Seq(C), NEW s \in Nat, s <= Len(d)
  PROVE  /\ Whole(d, s) \in Nat /\ Whole(d, s) * Block \in Nat
         /\ s + Whole(d, s) * Block <= Len(d)
         /\ AlignedLen(d, s) = Whole(d, s) * Block
<1> DEFINE B == Block
           m == Len(d) - s
           n == m \div B
           r == m % B
           z == n * B
<1>1. B \in Nat \ {0} /\ m \in Nat /\ Len(d) \in Nat /\ m = Len(d) - s
  BY LayoutAssumption
<1>2. n \in Int /\ r \in 0 .. B - 1 /\ m = z + r
  <2> HIDE DEF B, m
  <2>1. m \in Int
    BY <1>1
  <2> QED  BY <1>1, <2>1, DivMod
<1> HIDE DEF B, n, m, r
<1>3. n >= 0
  <2>1. ASSUME n <= -1 PROVE FALSE
    <3>1. n * B <= (-1) * B
      BY <1>1, <1>2, <2>1, Monotone
    <3>2. (-1) * B = -B
      BY <1>1
    <3>3. z \in Int
      BY <1>1, <1>2
    <3>4. z <= -B
      BY <3>1, <3>2
    <3> HIDE DEF z
    <3> QED  BY <1>1, <1>2, <3>3, <3>4
  <2> QED  BY <1>2, <2>1
<1>4. n \in Nat /\ z \in Nat
  BY <1>1, <1>2, <1>3
<1> HIDE DEF z
<1>5. s + z <= Len(d)
  BY <1>1, <1>2, <1>4
<1>6. Whole(d, s) = n /\ AlignedLen(d, s) = z
  BY DEF Whole, AlignedLen, n, z, m, B
<1>7. Whole(d, s) * Block = z
  BY <1>6 DEF z, B
<1> QED  BY <1>4, <1>5, <1>6, <1>7

\* e is d decrypted behind offset s.
Deciphered(d, s, k, iv, e) ==
  /\ d \in Seq(Cells) /\ s \in Nat /\ s <= Len(d) /\ k[1] \in Cells /\ IsBlock(iv)
  /\ e = Decrypted(d, s, k, iv)

\* The blocks that are decrypted are those of the container behind the tag.
LEMMA SameBlocks ==
  ASSUME NEW d \in Seq(Cells), NEW s \in Nat, s <= Len(d), NEW i \in 1 .. Whole(d, s)
  PROVE  BlockOf(Slice(d, s, s + AlignedLen(d, s)), i) = BlockOf(Slice(d, s, Len(d)), i)
<1> DEFINE n == Whole(d, s)
           z == n * Block
           N == Len(d)
           a == Slice(d, s, s + z)
           c == Slice(d, s, N)
<1>1. n \in Nat /\ z \in Nat /\ s + z <= N /\ AlignedLen(d, s) = z /\ N \in Nat
  <2>1. Len(d) \in Nat
    OBVIOUS
  <2> QED  BY <2>1, WholeFacts
<1> HIDE DEF n, z
<1>2. a \in Seq(Cells) /\ Len(a) = z /\ \A x \in 1 .. z : a[x] = d[s + x]
  <2> DEFINE b == s + z
  <2>1. d \in Seq(Cells) /\ s \in Nat /\ b \in Nat /\ s <= b /\ b <= Len(d) /\ b - s = z
    BY <1>1
  <2> HIDE DEF b
  <2>2. /\ Slice(d, s, b) \in Seq(Cells) /\ Len(Slice(d, s, b)) = b - s
        /\ \A x \in 1 .. b - s : Slice(d, s, b)[x] = d[s + x]
    BY <2>1, SliceFacts, Zenon
  <2> QED  BY <2>1, <2>2 DEF b
<1>3. c \in Seq(Cells) /\ Len(c) = N - s /\ \A x \in 1 .. N - s : c[x] = d[s + x]
  <2>1. d \in Seq(Cells) /\ s \in Nat /\ N \in Nat /\ s <= N /\ N <= Len(d)
    BY <1>1
  <2> HIDE DEF N
  <2> QED  BY <2>1, SliceFacts, Zenon
<1> HIDE DEF a, c, N
<1>4. z <= N - s /\ N - s \in Nat
  BY <1>1
<1>5. HasBlocks(a, n) /\ HasBlocks(c, n) /\ i \in 1 .. n
  BY <1>1, <1>2, <1>3, <1>4 DEF HasBlocks, n, z
<1>6. /\ BlockOf(a, i) \in Seq(Cells) /\ Len(BlockOf(a, i)) = Block
      /\ \A x \in 1 .. Block : BlockOf(a, i)[x] = a[(i - 1) * Block + x]
  BY <1>1, <1>2, <1>5, BlockFacts
<1>7. /\ BlockOf(c, i) \in Seq(Cells) /\ Len(BlockOf(c, i)) = Block
      /\ \A x \in 1 .. Block : BlockOf(c, i)[x] = c[(i - 1) * Block + x]
  BY <1>1, <1>3, <1>5, BlockFacts, SMTT(30)
<1>8. ASSUME NEW x \in 1 .. Block PROVE BlockOf(a, i)[x] = BlockOf(c, i)[x]
  <2> DEFINE m == (i - 1) * Block
             h == i * Block
             B == Block
  <2>1. m \in Nat /\ h = m + B /\ h <= z /\ B \in Nat
    BY <1>1, <1>5, BlockBounds, LayoutAssumption DEF z
  <2> HIDE DEF m, h
  <2>2. m + x \in 1 .. z /\ m + x \in 1 .. N - s
    BY <1>1, <1>4, <2>1
  <2>3. a[m + x] = c[m + x]
    BY <1>2, <1>3, <2>2
  <2> QED  BY <1>6, <1>7, <2>3 DEF m
<1> DEFINE u == BlockOf(a, i)
           v == BlockOf(c, i)
<1>9. u \in Seq(Cells) /\ v \in Seq(Cells) /\ Len(u) = Len(v) /\ \A x \in 1 .. Len(u) : u[x] = v[x]
  BY <1>6, <1>7, <1>8
<1> HIDE DEF u, v
<1>10. u = v
  BY <1>9, SameCells
<1> QED  BY <1>1, <1>10 DEF u, v, a, c, N

\* The blocks of the ciphertext, and what each is chained with.
LEMMA CipherBlocks ==
  ASSUME NEW d, NEW s, NEW k, NEW iv, NEW e, Deciphered(d, s, k, iv, e), NEW i \in 1 .. Whole(d, s)
  PROVE  LET c == Slice(d, s, Len(d)) IN IsBlock(BlockOf(c, i)) /\ IsBlock(PrevBlock(c, iv, i))
<1> DEFINE n == Whole(d, s)
           N == Len(d)
           c == Slice(d, s, N)
<1>1. d \in Seq(Cells) /\ s \in Nat /\ s <= N /\ IsBlock(iv) /\ N \in Nat
  BY DEF Deciphered
<1>2. n \in Nat /\ n * Block \in Nat /\ s + n * Block <= N
  BY <1>1, WholeFacts
<1>3. c \in Seq(Cells) /\ Len(c) = N - s
  <2>1. d \in Seq(Cells) /\ s \in Nat /\ N \in Nat /\ s <= N /\ N <= Len(d)
    BY <1>1
  <2> HIDE DEF N
  <2> QED  BY <2>1, SliceFacts, Zenon
<1> HIDE DEF c, n, N
<1>4. HasBlocks(c, n)
  <2> DEFINE z == n * Block
  <2>1. z \in Nat /\ s + z <= N
    BY <1>2
  <2> HIDE DEF z
  <2>2. z <= N - s
    BY <1>1, <2>1
  <2> QED  BY <1>3, <2>2 DEF HasBlocks, z
<1>5. ASSUME NEW j \in 1 .. n PROVE IsBlock(BlockOf(c, j))
  <2> DEFINE u == BlockOf(c, j)
  <2>1. u \in Seq(Cells) /\ Len(u) = Block
    BY <1>2, <1>3, <1>4, BlockFacts
  <2>2. Block \in Nat
    BY LayoutAssumption
  <2> HIDE DEF u
  <2>3. IsBlock(u)
    BY <2>1, <2>2 DEF IsBlock
  <2> QED  BY <2>3 DEF u
<1>6. i \in 1 .. n
  BY DEF n
<1>7. IsBlock(PrevBlock(c, iv, i))
  <2>1. CASE i = 1
    BY <1>1, <2>1 DEF PrevBlock
  <2>2. CASE i # 1
    <3>1. i - 1 \in 1 .. n
      BY <1>2, <1>6, <2>2
    <3> QED  BY <1>5, <2>2, <3>1 DEF PrevBlock
  <2> QED  BY <2>1, <2>2
<1> QED  BY <1>5, <1>6, <1>7 DEF c, N

\* aes_cbc_decrypt leaves what is not a whole block behind s, and deciphers and unchains
\* every block.
LEMMA DecryptedCells ==
  ASSUME NEW d, NEW s, NEW k, NEW iv, NEW e, Deciphered(d, s, k, iv, e)
  PROVE  /\ e \in Seq(Own(e)) /\ Len(e) = Len(d)
         /\ \A j \in 1 .. Len(d) : j <= s \/ j > s + Whole(d, s) * Block => e[j] = d[j]
         /\ LET c == Slice(d, s, Len(d))
            IN \A i \in 1 .. Whole(d, s), x \in 1 .. Block :
                 e[s + ((i - 1) * Block + x)] = Minus(Decipher(k, BlockOf(c, i)), PrevBlock(c, iv, i))[x]
<1> DEFINE n == Whole(d, s)
           z == n * Block
           N == Len(d)
           c == Slice(d, s, N)
           a == Slice(d, s, s + AlignedLen(d, s))
           At(j) == IF j <= s \/ j > s + z THEN d[j]
                    ELSE LET i == (j - s - 1) \div Block + 1
                         IN Minus(Decipher(k, BlockOf(a, i)), PrevBlock(a, iv, i))
                              [((j - s - 1) % Block) + 1]
<1>1. d \in Seq(Cells) /\ s \in Nat /\ s <= N /\ N \in Nat /\ DOMAIN d = 1 .. N
  BY DEF Deciphered
<1>2. n \in Nat /\ z \in Nat /\ s + z <= N /\ AlignedLen(d, s) = z
  BY <1>1, WholeFacts
<1>3. Len(a) = z
  <2> DEFINE b == s + z
  <2>1. d \in Seq(Cells) /\ s \in Nat /\ b \in Nat /\ s <= b /\ b <= Len(d) /\ b - s = z
    <3> HIDE DEF z
    <3> QED  BY <1>1, <1>2
  <2>2. a = Slice(d, s, b)
    BY <1>2
  <2> HIDE DEF b, z
  <2>3. Len(Slice(d, s, b)) = b - s
    BY <2>1, SliceFacts, Zenon
  <2> HIDE DEF a
  <2> QED  BY <2>1, <2>2, <2>3
<1>4. e = [j \in 1 .. N |-> At(j)]
  <2>1. e = Decrypted(d, s, k, iv)
    BY DEF Deciphered
  <2> QED  BY <1>1, <1>3, <2>1, Zenon DEF Decrypted
<1>5. e = [j \in 1 .. N |-> e[j]] /\ \A j \in 1 .. N : e[j] = At(j)
  <2> HIDE DEF At
  <2> QED  BY <1>4
<1>6. e \in Seq(Own(e)) /\ Len(e) = N
  BY <1>1, <1>5, OwnCells
<1>7. \A j \in 1 .. N : j <= s \/ j > s + z => e[j] = d[j]
  BY <1>5, Zenon
<1>8. ASSUME NEW i \in 1 .. n, NEW x \in 1 .. Block
      PROVE  e[s + ((i - 1) * Block + x)] = Minus(Decipher(k, BlockOf(c, i)), PrevBlock(c, iv, i))[x]
  <2> DEFINE m == (i - 1) * Block
             B == Block
             h == i * Block
             j == s + (m + x)
  <2>1. m \in Nat /\ h = m + B /\ h <= z /\ B \in Nat /\ x \in 1 .. B
    BY <1>2, BlockBounds, LayoutAssumption
  <2>2. j \in 1 .. N /\ ~(j <= s \/ j > s + z) /\ j - s - 1 = m + x - 1
    <3> HIDE DEF m, h, B, z
    <3> QED  BY <1>1, <1>2, <2>1
  <2>3. (m + x - 1) \div Block + 1 = i /\ ((m + x - 1) % Block) + 1 = x
    BY PlaceOf
  <2>4. At(j) = Minus(Decipher(k, BlockOf(a, i)), PrevBlock(a, iv, i))[x]
    <3> HIDE DEF m, a, c, j, z
    <3> QED  BY <2>2, <2>3, Zenon
  <2>5. BlockOf(a, i) = BlockOf(c, i)
    BY <1>1, SameBlocks
  <2>6. PrevBlock(a, iv, i) = PrevBlock(c, iv, i)
    <3>1. CASE i = 1
      BY <3>1 DEF PrevBlock
    <3>2. CASE i # 1
      <4>1. i - 1 \in 1 .. n
        BY <1>2, <3>2
      <4>2. BlockOf(a, i - 1) = BlockOf(c, i - 1)
        BY <1>1, <4>1, SameBlocks
      <4> QED  BY <3>2, <4>2 DEF PrevBlock
    <3> QED  BY <3>1, <3>2
  <2>7. e[j] = At(j)
    BY <1>5, <2>2
  <2> HIDE DEF At, a, c
  <2> QED  BY <2>4, <2>5, <2>6, <2>7, Zenon
<1> QED  BY <1>6, <1>7, <1>8

\* The ciphertext block before block i, or the initial vector.
Chain(c, iv, n) == [i \in 0 .. n |-> IF i = 0 THEN iv ELSE BlockOf(c, i)]

\* One turn of CBC encryption.
EncNext(p, k, iv, f, i) == IF i = 0 THEN iv ELSE Cipher(k, Plus(BlockOf(p, i), f[i - 1]))

\* Encrypting what was decrypted gives the blocks of the ciphertext one after the other.
LEMMA ChainIsEncryption ==
  ASSUME NEW d, NEW s, NEW k, NEW iv, NEW e, Deciphered(d, s, k, iv, e),
         NEW p, p = Slice(e, s, Len(e)), NEW g, g = Chain(Slice(d, s, Len(d)), iv, Whole(d, s))
  PROVE  g = [i \in 0 .. Whole(d, s) |-> EncNext(p, k, iv, g, i)]
<1> DEFINE n == Whole(d, s)
           z == n * Block
           N == Len(d)
           c == Slice(d, s, N)
<1>1. d \in Seq(Cells) /\ s \in Nat /\ s <= N /\ N \in Nat /\ k[1] \in Cells
  BY DEF Deciphered
<1>2. n \in Nat /\ z \in Nat /\ s + z <= N
  BY <1>1, WholeFacts
<1>3. e \in Seq(Own(e)) /\ Len(e) = N
  BY DecryptedCells
<1>4. p \in Seq(Own(e)) /\ Len(p) = N - s /\ \A x \in 1 .. N - s : p[x] = e[s + x]
  <2> DEFINE C == Own(e)
             b == Len(e)
  <2>1. e \in Seq(C) /\ s \in Nat /\ b \in Nat /\ s <= b /\ b <= Len(e) /\ b = N /\ p = Slice(e, s, b)
    BY <1>1, <1>3
  <2> HIDE DEF C, b
  <2>2. /\ Slice(e, s, b) \in Seq(C) /\ Len(Slice(e, s, b)) = b - s
        /\ \A x \in 1 .. b - s : Slice(e, s, b)[x] = e[s + x]
    BY <2>1, SliceFacts, ZenonT(30)
  <2> QED  BY <2>1, <2>2, Zenon DEF C
<1>5. HasBlocks(p, n)
  <2> HIDE DEF z
  <2>1. z <= N - s
    BY <1>1, <1>2
  <2> QED  BY <1>4, <2>1 DEF HasBlocks, z
<1>6. ASSUME NEW i \in 1 .. n, NEW x \in 1 .. Block
      PROVE  BlockOf(p, i)[x] = Minus(Decipher(k, BlockOf(c, i)), PrevBlock(c, iv, i))[x]
  <2> DEFINE m == (i - 1) * Block
             B == Block
             h == i * Block
  <2>1. m \in Nat /\ h = m + B /\ h <= z /\ B \in Nat /\ x \in 1 .. B
    BY <1>2, BlockBounds, LayoutAssumption
  <2>2. m + x \in 1 .. N - s
    <3> HIDE DEF m, h, B, z
    <3> QED  BY <1>1, <1>2, <2>1
  <2>3. BlockOf(p, i)[x] = p[m + x]
    BY <1>2, <1>4, <1>5, BlockFacts
  <2>4. e[s + (m + x)] = Minus(Decipher(k, BlockOf(c, i)), PrevBlock(c, iv, i))[x]
    BY DecryptedCells
  <2> HIDE DEF m, c
  <2> QED  BY <1>4, <2>2, <2>3, <2>4, Zenon
<1>7. \A i \in 0 .. n : g[i] = IF i = 0 THEN iv ELSE BlockOf(c, i)
  BY DEF Chain
<1>8. ASSUME NEW i \in 1 .. n PROVE g[i] = EncNext(p, k, iv, g, i)
  <2> DEFINE w == BlockOf(c, i)
             v == PrevBlock(c, iv, i)
             u == BlockOf(p, i)
  <2>1. IsBlock(w) /\ IsBlock(v)
    BY CipherBlocks
  <2>2. \A x \in 1 .. Block : u[x] = Minus(Decipher(k, w), v)[x]
    BY <1>6
  <2>3. i \in 0 .. n /\ i - 1 \in 0 .. n /\ i # 0 /\ (i - 1 = 0 <=> i = 1)
    BY <1>2
  <2>4. g[i - 1] = v
    BY <1>7, <2>3 DEF PrevBlock
  <2>5. g[i] = w
    BY <1>7, <2>3
  <2> HIDE DEF w, v, u
  <2>a. Unchained(k, w, v, u)
    BY <1>1, <2>1, <2>2 DEF Unchained
  <2>6. Cipher(k, Plus(u, v)) = w
    BY <2>a, BlockInverts, Zenon
  <2> QED  BY <2>3, <2>4, <2>5, <2>6 DEF EncNext, u
<1>9. 0 \in 0 .. n /\ g[0] = iv /\ EncNext(p, k, iv, g, 0) = iv
  BY <1>2, <1>7 DEF EncNext
<1>10. \A i \in 0 .. n : g[i] = EncNext(p, k, iv, g, i)
  <2> TAKE i \in 0 .. n
  <2>1. CASE i = 0
    BY <1>9, <2>1
  <2>2. CASE i # 0
    <3>1. i \in 1 .. n
      BY <1>2, <2>2
    <3> QED  BY <1>8, <3>1
  <2> QED  BY <2>1, <2>2
<1>11. g = [i \in 0 .. n |-> g[i]]
  BY DEF Chain
<1> HIDE DEF n
<1>12. g = [i \in 0 .. n |-> EncNext(p, k, iv, g, i)]
  BY <1>10, <1>11, Zenon
<1> QED  BY <1>12 DEF n

\* The recursion has one solution.
LEMMA EncryptionUnique ==
  ASSUME NEW p, NEW k, NEW iv, NEW n \in Nat, NEW f, NEW g,
         f = [i \in 0 .. n |-> EncNext(p, k, iv, f, i)], g = [i \in 0 .. n |-> EncNext(p, k, iv, g, i)]
  PROVE  \A i \in 0 .. n : f[i] = g[i]
<1> DEFINE T == {i \in 0 .. n : f[i] # g[i]}
<1> SUFFICES ASSUME T # {} PROVE FALSE
  OBVIOUS
<1>1. PICK m \in T : \A i \in T : m <= i
  <2>1. T \in SUBSET Nat
    OBVIOUS
  <2> HIDE DEF T
  <2> QED  BY <2>1, LeastNatural
<1>2. m \in 0 .. n /\ f[m] # g[m]
  OBVIOUS
<1>3. f[m] = EncNext(p, k, iv, f, m) /\ g[m] = EncNext(p, k, iv, g, m)
  BY <1>2, Zenon
<1>4. CASE m = 0
  BY <1>2, <1>3, <1>4 DEF EncNext
<1>5. CASE m # 0
  <2>1. m - 1 \in 0 .. n /\ ~(m <= m - 1)
    BY <1>2, <1>5
  <2>2. f[m - 1] = g[m - 1]
    BY <1>1, <2>1
  <2> QED  BY <1>2, <1>3, <1>5, <2>2, Zenon DEF EncNext
<1> QED  BY <1>4, <1>5

\* Encrypting again what was decrypted gives the ciphertext, block by block.
LEMMA EncryptBack ==
  ASSUME NEW d, NEW s, NEW k, NEW iv, NEW e, Deciphered(d, s, k, iv, e), NEW n, n = Whole(d, s),
         NEW p, p = Slice(e, s, Len(e))
  PROVE  \A i \in 1 .. n : Encryption(p, k, iv, n)[i] = BlockOf(Slice(d, s, Len(d)), i)
<1> DEFINE c == Slice(d, s, Len(d))
           g == Chain(c, iv, n)
           f == Encryption(p, k, iv, n)
<1>1. n \in Nat
  <2>1. d \in Seq(Cells) /\ s \in Nat /\ s <= Len(d)
    BY DEF Deciphered
  <2> QED  BY <2>1, WholeFacts
<1>2. g = [i \in 0 .. n |-> EncNext(p, k, iv, g, i)]
  BY ChainIsEncryption
<1> HIDE DEF c, g
<1>3. f = [i \in 0 .. n |-> EncNext(p, k, iv, f, i)]
  BY <1>2, Zenon DEF EncNext, Encryption
<1> HIDE DEF f
<1>4. \A i \in 0 .. n : f[i] = g[i]
  BY <1>1, <1>2, <1>3, EncryptionUnique
<1>5. ASSUME NEW i \in 1 .. n PROVE f[i] = BlockOf(c, i)
  <2>1. i \in 0 .. n /\ i # 0
    BY <1>1
  <2>2. g[i] = BlockOf(c, i)
    BY <2>1 DEF g, Chain
  <2> QED  BY <1>4, <2>1, <2>2
<1> QED  BY <1>5, Zenon DEF f, c

\* p is what stands behind s in e, c what stands there in d, of n whole blocks.
Behind(d, s, k, iv, e, p, c, n) ==
  /\ Deciphered(d, s, k, iv, e)
  /\ p = Slice(e, s, Len(e)) /\ c = Slice(d, s, Len(d)) /\ n = Len(p) \div Block

\* Decryption can be undone, and touches whole blocks behind s only.
LEMMA DecryptionInverts ==
  ASSUME NEW d, NEW s, NEW k, NEW iv, NEW e, NEW p, NEW c, NEW n, Behind(d, s, k, iv, e, p, c, n)
  PROVE  /\ Slice(e, 0, s) = Slice(d, 0, s)
         /\ Slice(p, n * Block, Len(p)) = Slice(c, n * Block, Len(c))
         /\ \A i \in 1 .. n : Encryption(p, k, iv, n)[i] = BlockOf(c, i)
<1> DEFINE N == Len(d)
           w == Whole(d, s)
           z == w * Block
<1>0. /\ Deciphered(d, s, k, iv, e)
      /\ p = Slice(e, s, Len(e)) /\ c = Slice(d, s, Len(d)) /\ n = Len(p) \div Block
  BY DEF Behind
<1>1. d \in Seq(Cells) /\ s \in Nat /\ s <= N /\ N \in Nat
  BY <1>0 DEF Deciphered
<1>2. /\ e \in Seq(Own(e)) /\ Len(e) = N
      /\ \A j \in 1 .. N : j <= s \/ j > s + z => e[j] = d[j]
  BY <1>0, DecryptedCells
<1>3. w \in Nat /\ z \in Nat /\ s + z <= N
  BY <1>1, WholeFacts
<1> HIDE DEF z
<1>4. p \in Seq(Own(e)) /\ Len(p) = N - s /\ \A x \in 1 .. N - s : p[x] = e[s + x]
  <2> DEFINE C == Own(e)
             b == Len(e)
  <2>1. e \in Seq(C) /\ s \in Nat /\ b \in Nat /\ s <= b /\ b <= Len(e) /\ b = N /\ p = Slice(e, s, b)
    BY <1>0, <1>1, <1>2
  <2> HIDE DEF C, b
  <2>2. /\ Slice(e, s, b) \in Seq(C) /\ Len(Slice(e, s, b)) = b - s
        /\ \A x \in 1 .. b - s : Slice(e, s, b)[x] = e[s + x]
    BY <2>1, SliceFacts, ZenonT(30)
  <2> QED  BY <2>1, <2>2, Zenon DEF C
<1>5. c \in Seq(Cells) /\ Len(c) = N - s /\ \A x \in 1 .. N - s : c[x] = d[s + x]
  <2>1. d \in Seq(Cells) /\ s \in Nat /\ N \in Nat /\ s <= N /\ N <= Len(d) /\ c = Slice(d, s, N)
    BY <1>0, <1>1
  <2> HIDE DEF N
  <2>2. /\ Slice(d, s, N) \in Seq(Cells) /\ Len(Slice(d, s, N)) = N - s
        /\ \A x \in 1 .. N - s : Slice(d, s, N)[x] = d[s + x]
    BY <2>1, SliceFacts, Zenon
  <2> QED  BY <2>1, <2>2, Zenon
<1>6. n = w /\ n * Block = z
  <2>1. n = (N - s) \div Block
    BY <1>0, <1>4
  <2> QED  BY <2>1 DEF z, Whole
<1>7. ASSUME NEW D, NEW q \in Seq(D) PROVE q \in Seq(Own(q))
  <2>1. q = [i \in 1 .. Len(q) |-> q[i]] /\ Len(q) \in Nat
    OBVIOUS
  <2> QED  BY <2>1, OwnCells
<1>8. Slice(e, 0, s) = Slice(d, 0, s)
  <2> DEFINE o == 0
  <2>1. \A i \in 1 .. s - o : e[o + i] = d[o + i]
    <3> TAKE i \in 1 .. s - o
    <3>1. o + i \in 1 .. N /\ o + i <= s
      BY <1>1
    <3> QED  BY <1>2, <3>1
  <2>2. d \in Seq(Own(d)) /\ o \in Nat /\ o <= s
    BY <1>1, <1>7
  <2> HIDE DEF o
  <2>3. AgreeBetween(e, d, o, s)
    BY <1>1, <1>2, <2>1, <2>2 DEF AgreeBetween
  <2>4. Slice(e, o, s) = Slice(d, o, s)
    BY <2>3, SlicesAgree
  <2> QED  BY <2>4 DEF o
<1>9. Slice(p, z, Len(p)) = Slice(c, z, Len(c))
  <2> DEFINE b == N - s
  <2>1. p \in Seq(Own(p)) /\ c \in Seq(Own(c)) /\ b = Len(p) /\ b = Len(c)
    BY <1>4, <1>5, <1>7
  <2>2. z \in Nat /\ b \in Nat /\ z <= b
    BY <1>1, <1>3
  <2>3. ASSUME NEW i \in 1 .. b - z PROVE p[z + i] = c[z + i]
    <3>1. z + i \in 1 .. b /\ s + (z + i) \in 1 .. N /\ s + (z + i) > s + z
      BY <1>1, <1>3, <2>2
    <3>2. e[s + (z + i)] = d[s + (z + i)]
      BY <1>2, <3>1
    <3> QED  BY <1>4, <1>5, <3>1, <3>2
  <2> HIDE DEF b
  <2>4. b <= Len(p) /\ b <= Len(c)
    BY <2>1, <2>2
  <2>5. AgreeBetween(p, c, z, b)
    BY <2>1, <2>2, <2>3, <2>4 DEF AgreeBetween
  <2>6. Slice(p, z, b) = Slice(c, z, b)
    BY <2>5, SlicesAgree
  <2> QED  BY <2>1, <2>6
<1>10. \A i \in 1 .. n : Encryption(p, k, iv, n)[i] = BlockOf(c, i)
  <2>1. Deciphered(d, s, k, iv, e) /\ n = Whole(d, s) /\ p = Slice(e, s, Len(e))
    BY <1>0, <1>6
  <2>2. \A i \in 1 .. n : Encryption(p, k, iv, n)[i] = BlockOf(Slice(d, s, Len(d)), i)
    BY <2>1, EncryptBack
  <2> QED  BY <1>0, <2>2, Zenon
<1>11. Slice(p, n * Block, Len(p)) = Slice(c, n * Block, Len(c))
  BY <1>6, <1>9
<1> QED  BY <1>8, <1>10, <1>11

\* The salt is a part of the recovered message.
LEMMA SaltCells ==
  ASSUME NEW em \in Recovered
  PROVE  SaltOf(em) \in Seq(Cells)
<1> DEFINE q == em.db
           T == {i \in DOMAIN q : q[i] # 0}
           m == CHOOSE i \in T : \A j \in T : i <= j
           t == SaltOf(em)
<1>1. q \in Seq(Cells)
  BY LayoutAssumption DEF Cells
<1>2. Len(q) \in Nat /\ DOMAIN q = 1 .. Len(q)
  BY <1>1
<1>3. t \in Seq(Cells)
  <2>1. CASE t = <<>>
    BY <2>1
  <2>2. CASE t # <<>>
    <3>1. T # {} /\ t = SubSeq(q, m + 1, Len(q))
      BY <2>2, Zenon DEF SaltOf
    <3>2. T \in SUBSET Nat
      BY <1>2
    <3>3. \E i \in T : \A j \in T : i <= j
      <4> HIDE DEF T
      <4> QED  BY <3>1, <3>2, LeastNatural
    <3>4. m \in T
      <4> HIDE DEF T
      <4> QED  BY <3>3, Zenon
    <3>5. m \in 1 .. Len(q)
      BY <1>2, <3>4
    <3> DEFINE b == Len(q)
    <3>6. m \in Nat /\ b \in Nat /\ m <= b /\ b <= Len(q) /\ t = Slice(q, m, b)
      BY <1>2, <3>1, <3>5 DEF Slice
    <3> HIDE DEF b, m, q, t
    <3> QED  BY <1>1, <3>6, SliceFacts
  <2> QED  BY <2>1, <2>2
<1> QED  BY <1>3

\* Long enough, it gives a key and a vector.
LEMMA SaltFacts ==
  ASSUME NEW em \in Recovered, Len(SaltOf(em)) >= KeyLen + Block
  PROVE  /\ Slice(SaltOf(em), 0, KeyLen)[1] \in Cells
         /\ IsBlock(Slice(SaltOf(em), KeyLen, KeyLen + Block))
<1> DEFINE t == SaltOf(em)
           K == KeyLen
           B == Block
<1>1. K \in Nat \ {0} /\ B \in Nat \ {0}
  BY LayoutAssumption
<1>3. t \in Seq(Cells)
  BY SaltCells
<1>4. Len(t) \in Nat /\ K + B <= Len(t)
  <2>1. Len(t) >= K + B
    OBVIOUS
  <2> HIDE DEF t, K, B
  <2> QED  BY <1>1, <1>3, <2>1
<1> HIDE DEF t, K, B
<1>5. Slice(t, 0, K)[1] \in Cells
  <2> DEFINE o == 0
  <2>1. t \in Seq(Cells) /\ o \in Nat /\ K \in Nat /\ o <= K /\ K <= Len(t) /\ 1 \in 1 .. K - o
    BY <1>1, <1>3, <1>4
  <2> HIDE DEF o
  <2>2. Slice(t, o, K) \in Seq(Cells) /\ Len(Slice(t, o, K)) = K - o
    BY <2>1, SliceFacts, Zenon
  <2>3. Slice(t, o, K)[1] \in Cells
    BY <2>1, <2>2
  <2> QED  BY <2>3 DEF o
<1>6. IsBlock(Slice(t, K, K + B))
  <2> DEFINE b == K + B
             u == Slice(t, K, b)
  <2>1. t \in Seq(Cells) /\ K \in Nat /\ b \in Nat /\ K <= b /\ b <= Len(t) /\ b - K = B
    BY <1>1, <1>3, <1>4
  <2> HIDE DEF b
  <2>2. u \in Seq(Cells) /\ Len(u) = b - K
    BY <2>1, SliceFacts, Zenon
  <2> HIDE DEF u
  <2>3. u \in Seq(Cells) /\ Len(u) = B
    BY <2>1, <2>2
  <2>4. IsBlock(u)
    BY <1>1, <2>3 DEF IsBlock, B
  <2> QED  BY <2>4 DEF u, b
<1> QED  BY <1>5, <1>6 DEF t, K, B

-----------------------------------------------------------------------------
(* The output files.                                                       *)

\* What was read makes sense, and decryption has left the tag alone.
DataOk ==
  /\ orig \in Seq(Cells) /\ Len(orig) >= TagHeader
  /\ tag.len \in Nat /\ tag.len >= TagHeader /\ orig[TotalAt] + tag.len <= Len(orig)
  /\ data \in Seq(Own(data)) /\ Len(data) = Len(orig)
  /\ \A i \in 1 .. Len(orig) : i <= tag.len => data[i] = orig[i]

\* The files the command line asks for.
Two == args.split \/ args.all
Count == IF Two THEN 2 ELSE 1
FirstCells == IF args.split THEN Host ELSE Remote
SecondCells == IF args.split THEN Remote ELSE Host

AllUntouched == \A n \in Outputs : Untouched(n)

\* The first file is not overwritten by the second.
Apart == First # Second \/ ~Two

\* There is nothing to write, or the version line panics.
Unwritable == tag.len > 0 /\ (Remote = <<>> \/ VersionPanics(Remote))

\* Files are written one after the other.
Progress ==
  /\ written \in 0 .. Count /\ (pc = "fill" => written < Count)
  /\ written = 0 /\ pc = "write" => AllUntouched
  /\ written >= 1 /\ Apart => out[First] = File(FirstCells)
  /\ written = 2 => out[Second] = File(SecondCells)
  /\ First # Second /\ (written = 0 \/ (written = 1 /\ pc = "write")) => Untouched(Second)

AllDone ==
  /\ Apart => out[First] = File(FirstCells)
  /\ Two => out[Second] = File(SecondCells)

Before == {"args", "read", "decrypt", "layout"}

\* How far the run has come, and what that means for its input and its output.
RunInv ==
  /\ pc \in Before \cup {"write", "fill", "exit"}
  /\ pc # "exit" => exit = -1
  /\ DOMAIN out = Outputs
  /\ pc \in {"args", "read"} => data = <<>>
  /\ pc \in Before => AllUntouched /\ written = 0
  /\ pc \in {"decrypt", "layout", "write", "fill"} \/ (exit = 0 /\ data # <<>>) => DataOk
  /\ pc \in {"write", "fill"} => Remote # <<>> /\ ~Unwritable /\ Progress
  /\ exit = 2 \/ (exit = Panic /\ written = 0) \/ Unwritable => AllUntouched
  /\ exit = 0 /\ data # <<>> /\ Remote # <<>> => AllDone
  /\ SecondAfterFirst

\* The list of files in terms of the command line.
LEMMA WritesFacts ==
  /\ Len(Writes) = Count
  /\ Writes[1] = [name |-> First, content |-> FirstCells]
  /\ Two => Writes[2] = [name |-> Second, content |-> SecondCells]
  /\ First \in Outputs /\ Second \in Outputs
<1>1. First \in Outputs /\ Second \in Outputs
  BY DEF First, Second, RemoteOut, Outputs
<1>2. CASE args.split
  BY <1>1, <1>2 DEF Writes, Count, Two, First, Second, FirstCells, SecondCells
<1>3. CASE ~args.split /\ args.all
  BY <1>1, <1>3 DEF Writes, Count, Two, First, Second, FirstCells, SecondCells
<1>4. CASE ~args.split /\ ~args.all
  BY <1>1, <1>4 DEF Writes, Count, Two, First, Second, FirstCells, SecondCells
<1> QED  BY <1>2, <1>3, <1>4

\* The names stand for the same as long as command line and container do.
LEMMA SameFiles ==
  ASSUME UNCHANGED <<args, data, tag>>
  PROVE  /\ UNCHANGED <<First, Second, FirstCells, SecondCells, Two, Count, Remote, Host>>
         /\ UNCHANGED <<Apart, Unwritable>>
<1>1. UNCHANGED <<First, Second, FirstCells, SecondCells, Two, Count, Remote, Host>>
  BY DEF First, Second, RemoteOut, FirstCells, SecondCells, Two, Count, Remote, Host, HostStart,
         RemoteStart
<1> QED  BY <1>1 DEF Apart, Unwritable

\* What an untouched directory means for the order of the files.
LEMMA UntouchedOrder == AllUntouched => SecondAfterFirst
BY WritesFacts DEF AllUntouched, SecondAfterFirst

\* A step before the first File::create keeps the invariant.
LEMMA QuietStep ==
  ASSUME RunInv, pc \in Before, UNCHANGED <<written, out>>,
         \/ pc' = "exit" /\ exit' \in {1, 2, Panic}
         \/ pc' = "exit" /\ exit' = 0 /\ (data' # <<>> => DataOk' /\ Remote' = <<>>)
         \/ pc' \in {"args", "read"} /\ exit' = -1 /\ data' = <<>>
         \/ pc' \in {"decrypt", "layout"} /\ exit' = -1 /\ DataOk'
         \/ pc' = "write" /\ exit' = -1 /\ DataOk' /\ Remote' # <<>> /\ ~Unwritable'
  PROVE  RunInv'
<1>1. DOMAIN out' = Outputs /\ AllUntouched' /\ written' = 0
  BY DEF RunInv, AllUntouched, Untouched
<1>2. SecondAfterFirst' /\ Untouched(Second)'
  BY <1>1 DEF AllUntouched, SecondAfterFirst, Second, Outputs
<1>3. pc' = "write" => Progress'
  BY <1>1, <1>2 DEF Progress, Count
<1> QED  BY <1>1, <1>2, <1>3 DEF RunInv, Before, Panic

\* parse_args.
LEMMA ParseStep ==
  ASSUME RunInv, ParseArg \/ ArgsParsed
  PROVE  RunInv'
<1>1. pc \in Before /\ data = <<>> /\ exit = -1 /\ pc = "args"
  BY DEF RunInv, ParseArg, ArgsParsed, Before
<1>2. UNCHANGED <<written, out, data>>
  BY DEF ParseArg, ArgsParsed
<1>3. \/ pc' \in {"args", "read"} /\ exit' = -1
      \/ pc' = "exit" /\ exit' \in {0, 2, Panic}
  <2>1. CASE ParseArg
    BY <1>1, <2>1 DEF ParseArg, Exit, End
  <2>2. CASE ArgsParsed
    BY <1>1, <2>2 DEF ArgsParsed, Exit, End
  <2> QED  BY <2>1, <2>2
<1> QED  BY <1>1, <1>2, <1>3, QuietStep

\* Reading the container, its tag and its sizes.
LEMMA ReadStep ==
  ASSUME RunInv, ReadContainer
  PROVE  RunInv'
<1>1. pc \in Before /\ exit = -1 /\ UNCHANGED <<written, out, args>>
  BY DEF RunInv, ReadContainer, Before
<1>2. CASE Exit(1)
  BY <1>1, <1>2, QuietStep DEF Exit, End
<1>3. CASE ~Exit(1)
  <2>1. PICK d \in Files :
          /\ orig' = d /\ data' = d /\ ~(Len(d) < TagHeader)
          /\ tag' = ParseChunks(d) /\ Fits(d, tag')
          /\ pc' = NextStage("tag") /\ UNCHANGED exit
    BY <1>3 DEF ReadContainer, Continue, Exit
  <2>2. d \in Seq(Cells) /\ Len(d) \in Nat /\ TagHeader \in Nat
    BY LayoutAssumption DEF Cells
  <2>3. Len(d) >= TagHeader
    BY <2>1, <2>2
  <2>4. ParseChunks(d).len \in Nat /\ ParseChunks(d).len >= TagHeader
    BY <2>2, <2>3, TagLen
  <2>5. d = [i \in 1 .. Len(d) |-> d[i]]
    BY <2>2
  <2>6. d \in Seq(Own(d))
    BY <2>2, <2>5, OwnCells
  <2>7. tag'.len = ParseChunks(d).len
    BY <2>1
  <2>8. d[TotalAt] + tag'.len <= Len(d)
    BY <2>1 DEF Fits
  <2>9. DataOk'
    BY <2>1, <2>2, <2>3, <2>4, <2>6, <2>7, <2>8 DEF DataOk
  <2>10. pc' \in {"decrypt", "layout"}
    BY <2>1 DEF NextStage
  <2> QED  BY <1>1, <2>1, <2>9, <2>10, QuietStep
<1> QED  BY <1>2, <1>3

\* Decryption, which may abort.
LEMMA DecryptStep ==
  ASSUME RunInv, Decrypt
  PROVE  RunInv'
<1>1. pc \in Before /\ exit = -1 /\ DataOk /\ UNCHANGED <<written, out, args, tag, orig>>
  BY DEF RunInv, Decrypt, Before
<1>2. CASE Exit(1)
  BY <1>1, <1>2, QuietStep DEF Exit, End
<1>3. CASE ~Exit(1)
  <2>1. PICK k, iv : data' = Decrypted(data, tag.len, k, iv)
    BY <1>3 DEF Decrypt, Exit
  <2>2. pc' = "layout" /\ UNCHANGED exit
    BY <1>3 DEF Decrypt, NextStage, Continue, Exit
  <2>3. DataOk'
    <3>1. /\ data' \in Seq(Own(data')) /\ Len(data') = Len(data)
          /\ \A i \in 1 .. Len(data) : i <= tag.len => data'[i] = data[i]
      <4>1. data \in Seq(Own(data)) /\ tag.len \in Nat
        BY <1>1 DEF DataOk
      <4> QED  BY <2>1, <4>1, DecryptedFacts
    <3> QED  BY <1>1, <3>1 DEF DataOk
  <2> QED  BY <1>1, <2>2, <2>3, QuietStep
<1> QED  BY <1>2, <1>3

\* The lines main prints before it writes.
LEMMA LayoutStep ==
  ASSUME RunInv, Layout
  PROVE  RunInv'
<1>1. pc \in Before /\ exit = -1 /\ DataOk
  BY DEF RunInv, Layout, Before
<1>2. UNCHANGED <<written, out, args, tag, orig, data>>
  BY DEF Layout
<1>3. DataOk' /\ Remote' = Remote
  BY <1>1, <1>2, SameFiles DEF DataOk
<1>4. \/ End(0) /\ Remote = <<>>
      \/ End(Panic)
      \/ pc' = NextStage("layout") /\ UNCHANGED exit /\ Remote # <<>> /\ ~VersionPanics(Remote)
  BY DEF Layout, Exit, Continue
<1>5. NextStage("layout") = "write"
  BY DEF NextStage
<1>6. Unwritable' = Unwritable
  BY <1>2, SameFiles
<1> QED  BY <1>1, <1>2, <1>3, <1>4, <1>5, <1>6, QuietStep DEF End, Unwritable

\* File::create of the next file.
LEMMA CreateStep ==
  ASSUME RunInv, CreateFile
  PROVE  RunInv'
<1>1. /\ exit = -1 /\ pc = "write" /\ DataOk /\ Remote # <<>> /\ ~Unwritable /\ Progress
      /\ DOMAIN out = Outputs
  BY DEF RunInv, CreateFile
<1>2. UNCHANGED <<args, data, tag, orig, written>>
  BY DEF CreateFile
<1>3. /\ UNCHANGED <<First, Second, FirstCells, SecondCells, Two, Count, Remote, Host>>
      /\ UNCHANGED <<Apart, Unwritable>> /\ DataOk'
  BY <1>1, <1>2, SameFiles DEF DataOk
<1>4. CASE Exit(1) /\ UNCHANGED out
  <2>1. SecondAfterFirst'
    BY <1>3, <1>2, <1>4 DEF RunInv, SecondAfterFirst, Untouched
  <2>2. AllUntouched' = AllUntouched /\ (written = 0 => AllUntouched)
    BY <1>1, <1>4 DEF AllUntouched, Untouched, Progress
  <2> QED  BY <1>1, <1>2, <1>3, <1>4, <2>1, <2>2 DEF RunInv, Exit, End, Before, Panic
<1>5. CASE ~(Exit(1) /\ UNCHANGED out)
  <2>1. /\ out' = [out EXCEPT ![Writes[written + 1].name] = File(<<>>)]
        /\ pc' = "fill" /\ exit' = -1 /\ written < Len(Writes)
    BY <1>1, <1>5 DEF CreateFile
  <2>2. written \in {0, 1} /\ written < Count /\ (written = 1 => Two)
    BY <1>1, <2>1, WritesFacts DEF Progress, Count
  <2>3. CASE written = 0
    <3>1. out' = [out EXCEPT ![First] = File(<<>>)]
      <4>1. Writes[written + 1].name = First
        BY <2>3, WritesFacts
      <4> QED  BY <2>1, <4>1
    <3>2. (First # Second => Untouched(Second)') /\ DOMAIN out' = Outputs
      BY <1>1, <1>3, <2>3, <3>1, WritesFacts DEF Progress, Untouched
    <3>3. Progress' /\ SecondAfterFirst'
      BY <1>1, <1>2, <1>3, <2>1, <2>2, <2>3, <3>2 DEF Progress, SecondAfterFirst
    <3> QED  BY <1>1, <1>3, <2>1, <3>2, <3>3 DEF RunInv, Before, Panic
  <2>4. CASE written = 1
    <3>1. out' = [out EXCEPT ![Second] = File(<<>>)]
      <4>1. Writes[written + 1].name = Second
        BY <2>2, <2>4, WritesFacts
      <4> QED  BY <2>1, <4>1
    <3>2. (First # Second => out'[First] = File(FirstCells)) /\ DOMAIN out' = Outputs
      BY <1>1, <2>4, <3>1, WritesFacts DEF Progress, Apart
    <3>3. Progress'
      BY <1>1, <1>2, <1>3, <2>1, <2>2, <2>4, <3>2 DEF Progress, Apart
    <3>4. SecondAfterFirst'
      BY <1>2, <1>3, <3>2 DEF SecondAfterFirst, Untouched, File, FirstCells
    <3> QED  BY <1>1, <1>3, <2>1, <3>2, <3>3, <3>4 DEF RunInv, Before, Panic
  <2> QED  BY <2>2, <2>3, <2>4
<1> QED  BY <1>4, <1>5

\* write_all and sync_all of the file just created.
LEMMA FillStep ==
  ASSUME RunInv, FillFile
  PROVE  RunInv'
<1>1. /\ exit = -1 /\ pc = "fill" /\ DataOk /\ Remote # <<>> /\ ~Unwritable /\ Progress
      /\ DOMAIN out = Outputs
  BY DEF RunInv, FillFile
<1>2. UNCHANGED <<args, data, tag, orig>> /\ written' = written + 1
  BY DEF FillFile
<1>3. /\ UNCHANGED <<First, Second, FirstCells, SecondCells, Two, Count, Remote, Host>>
      /\ UNCHANGED <<Apart, Unwritable>> /\ DataOk'
  BY <1>1, <1>2, SameFiles DEF DataOk
<1>4. written \in {0, 1} /\ written < Count /\ (written = 1 => Two)
  BY <1>1 DEF Progress, Count
<1> DEFINE f == Writes[written + 1]
<1>5. f = IF written = 0 THEN [name |-> First, content |-> FirstCells]
                         ELSE [name |-> Second, content |-> SecondCells]
  BY <1>4, WritesFacts
<1>6. PICK c : /\ out' = [out EXCEPT ![f.name] = File(c)]
               /\ \/ pc' = "write" /\ exit' = -1 /\ c = f.content
                  \/ pc' = "exit" /\ exit' \in {1, Panic}
  BY <1>1 DEF FillFile, AfterWriteError, Continue, End
<1> HIDE DEF f
<1>7. DOMAIN out' = Outputs
  BY <1>1, <1>6
<1>8. CASE written = 0
  <2>1. f.name = First /\ f.content = FirstCells /\ written' = 1
    BY <1>2, <1>5, <1>8
  <2>2. out' = [out EXCEPT ![First] = File(c)]
    BY <1>6, <2>1
  <2>3. (First # Second => Untouched(Second)') /\ out'[First] = File(c)
    BY <1>1, <1>3, <1>8, <2>2, WritesFacts DEF Progress, Untouched
  <2>4. SecondAfterFirst'
    BY <1>3, <2>3 DEF SecondAfterFirst
  <2>5. pc' = "write" => Progress'
    BY <1>3, <1>4, <1>6, <1>8, <2>1, <2>3 DEF Progress, Count
  <2> QED  BY <1>1, <1>3, <1>6, <1>7, <2>1, <2>4, <2>5 DEF RunInv, Before, Panic
<1>9. CASE written = 1
  <2>1. f.name = Second /\ f.content = SecondCells /\ written' = 2
    BY <1>2, <1>5, <1>9
  <2>2. out' = [out EXCEPT ![Second] = File(c)]
    BY <1>6, <2>1
  <2>3. (First # Second => out'[First] = File(FirstCells)) /\ out'[Second] = File(c)
    BY <1>1, <1>9, <2>2, WritesFacts DEF Progress, Apart
  <2>4. SecondAfterFirst'
    BY <1>2, <1>3, <2>3 DEF SecondAfterFirst, Untouched, File, FirstCells
  <2>5. pc' = "write" => Progress'
    BY <1>3, <1>4, <1>6, <1>9, <2>1, <2>3 DEF Progress, Count, Apart
  <2> QED  BY <1>1, <1>3, <1>6, <1>7, <2>1, <2>4, <2>5 DEF RunInv, Before, Panic
<1> QED  BY <1>4, <1>8, <1>9

\* The end of the run, in time or not.
LEMMA EndStep ==
  ASSUME RunInv, AllWritten \/ Kill \/ UNCHANGED vars
  PROVE  RunInv'
<1>1. UNCHANGED <<args, data, tag, orig, written, out>>
  BY DEF AllWritten, Kill, vars
<1>2. /\ UNCHANGED <<First, Second, FirstCells, SecondCells, Two, Count, Remote, Host>>
      /\ DataOk' = DataOk /\ AllDone' = AllDone /\ UNCHANGED <<Apart, Unwritable>>
      /\ AllUntouched' = AllUntouched /\ SecondAfterFirst' = SecondAfterFirst
  <2>1. /\ UNCHANGED <<First, Second, FirstCells, SecondCells, Two, Count, Remote, Host>>
        /\ UNCHANGED <<Apart, Unwritable>>
    BY <1>1, SameFiles
  <2> QED  BY <1>1, <2>1 DEF DataOk, AllDone, AllUntouched, SecondAfterFirst, Untouched
<1>3. CASE AllWritten
  <2>1. exit = -1 /\ pc = "write" /\ DataOk /\ Remote # <<>> /\ ~Unwritable /\ Progress
    BY <1>3 DEF RunInv, AllWritten
  <2>2. written = Count /\ pc' = "exit" /\ exit' = 0
    BY <1>3, WritesFacts DEF AllWritten, NextStage
  <2>3. AllDone
    BY <2>1, <2>2 DEF Progress, AllDone, Count
  <2> QED  BY <1>1, <1>2, <2>1, <2>2, <2>3 DEF RunInv, Before, Panic
<1>4. CASE Kill
  BY <1>1, <1>2, <1>4 DEF RunInv, Kill, End, Before, Panic
<1>5. CASE UNCHANGED vars
  <2>1. UNCHANGED <<pc, exit>>
    BY <1>5 DEF vars
  <2>2. Progress => Progress'
    BY <1>1, <1>2, <2>1 DEF Progress, Untouched, AllUntouched
  <2> QED  BY <1>1, <1>2, <2>1, <2>2 DEF RunInv
<1> QED  BY <1>3, <1>4, <1>5

\* RunInv is inductive.
LEMMA RunInvariant == Spec => []RunInv
<1>1. Init => RunInv
  <2> SUFFICES ASSUME Init PROVE RunInv
    OBVIOUS
  <2>1. AllUntouched
    BY DEF Init, AllUntouched, Untouched
  <2> QED  BY <2>1, UntouchedOrder DEF Init, RunInv, Before, Panic
<1>2. RunInv /\ [Next]_vars => RunInv'
  BY ParseStep, ReadStep, DecryptStep, LayoutStep, CreateStep, FillStep, EndStep DEF Next
<1> QED  BY <1>1, <1>2, PTL DEF Spec

-----------------------------------------------------------------------------
(* Theorems.                                                               *)

\* Whatever the container, the key and the command line, a usage error, a container
\* without a usable remote image and a panic before the first file is dealt with leave
\* every output file alone.
THEOREM AbortCorrect == Spec => []AbortLeavesOutput
<1>1. RunInv => AbortLeavesOutput
  BY DEF RunInv, AbortLeavesOutput, AllUntouched, Unwritable
<1> QED  BY <1>1, RunInvariant, PTL

\* At every moment at most one of two different output files is cut off.
THEOREM SecondCorrect == Spec => []SecondAfterFirst
<1>1. RunInv => SecondAfterFirst
  BY DEF RunInv
<1> QED  BY <1>1, RunInvariant, PTL

\* The files of a run that succeeds are the container behind the tag, with nothing
\* lost and nothing twice.
THEOREM PartitionCorrect == Spec => []PartitionOut
<1>1. RunInv => PartitionOut
  <2> SUFFICES ASSUME RunInv, exit = 0, data # <<>>, Remote # <<>>
               PROVE  PartitionOut
    BY DEF PartitionOut
  <2>1. DataOk /\ AllDone
    BY DEF RunInv
  <2> DEFINE S == Own(data)
             n == data[TotalAt]
             t == tag.len
  <2>2. data \in Seq(S) /\ t \in Nat /\ Len(data) \in Nat
    BY <2>1 DEF DataOk
  <2>3. n = orig[TotalAt] /\ n \in Nat /\ t + n <= Len(data)
    <3>1. TotalAt \in 1 .. Len(orig) /\ TotalAt <= t
      BY <2>1, LayoutAssumption DEF DataOk, TotalAt
    <3>2. orig[TotalAt] \in Nat
      <4>1. orig \in Seq(Cells)
        BY <2>1 DEF DataOk
      <4>2. orig[TotalAt] \in Cells
        BY <3>1, <4>1
      <4> QED  BY <4>2, LayoutAssumption DEF Cells
    <3> QED  BY <2>1, <2>2, <3>1, <3>2 DEF DataOk
  <2>4. Host = Slice(data, t, t + n) /\ Remote = Slice(data, t + n, Len(data))
    BY DEF Host, Remote, HostStart, RemoteStart
  <2> HIDE DEF S, n, t
  <2>5. Slice(data, 0, t) \o Host = Slice(data, 0, t + n)
    <3>1. t + n \in Nat /\ t <= t + n
      BY <2>2, <2>3
    <3> QED  BY <2>2, <2>3, <2>4, <3>1, SlicesJoin
  <2>6. Slice(data, 0, t + n) \o Remote = data
    <3> DEFINE a == t + n
               b == Len(data)
    <3>1. a \in Nat /\ b \in Nat /\ a <= b /\ b <= Len(data)
      BY <2>2, <2>3
    <3> HIDE DEF a, b
    <3>2. Slice(data, 0, a) \o Slice(data, a, b) = Slice(data, 0, b)
      BY <2>2, <3>1, SlicesJoin
    <3>3. Slice(data, 0, t + n) \o Remote = Slice(data, 0, Len(data))
      BY <2>4, <3>2 DEF a, b
    <3> QED  BY <2>2, <3>3, SliceAll
  <2>7. \A m \in {First} \cup (IF args.split \/ args.all THEN {Second} ELSE {}) : ~Untouched(m)
    BY <2>1 DEF AllDone, Apart, Two, Untouched, File
  <2>8. args.split => out["host"].cells = Host /\ out["remote"].cells = Remote
    BY <2>1 DEF AllDone, Apart, Two, First, Second, FirstCells, SecondCells, File
  <2>9. ~args.split => /\ ~args.all => out[First].cells = Remote
                       /\ args.all /\ First # Second => /\ out["main"].cells = Host
                                                       /\ out["named"].cells = Remote
    BY <2>1 DEF AllDone, Apart, Two, First, Second, RemoteOut, FirstCells, SecondCells, File
  <2> QED  BY <2>3, <2>5, <2>6, <2>7, <2>8, <2>9 DEF PartitionOut, t
<1> QED  BY <1>1, RunInvariant, PTL

-----------------------------------------------------------------------------
(* Decryption.                                                             *)

\* The salt of message em has deciphered the container.
DecipheredBy(em) ==
  LET salt == SaltOf(em)
  IN /\ Len(salt) >= KeyLen + Block
     /\ Deciphered(orig, tag.len, Slice(salt, 0, KeyLen), Slice(salt, KeyLen, KeyLen + Block), data)

\* The container is as it was read until it is decrypted, once.
CipherInv ==
  /\ pc \in {"args", "read", "decrypt"} => data = orig
  /\ data # orig => \E em \in Recovered : DecipheredBy(em)

\* Decrypt is the one step that makes the container differ from what was read.
LEMMA CipherStep ==
  ASSUME RunInv, CipherInv, [Next]_vars
  PROVE  CipherInv'
<1>1. ASSUME UNCHANGED <<orig, data, tag>>,
             pc' \in {"args", "read", "decrypt"} => pc \in {"args", "read", "decrypt"}
      PROVE  CipherInv'
  <2>1. \A em \in Recovered : DecipheredBy(em)' = DecipheredBy(em)
    BY <1>1 DEF DecipheredBy
  <2> QED  BY <1>1, <2>1 DEF CipherInv
<1>2. CASE ParseArg \/ ArgsParsed
  <2>1. UNCHANGED <<orig, data, tag>> /\ pc = "args"
    BY <1>2 DEF ParseArg, ArgsParsed
  <2> QED  BY <1>1, <2>1
<1>3. CASE ReadContainer
  <2>1. data' = orig'
    <3>1. data = orig
      BY <1>3 DEF ReadContainer, CipherInv
    <3> QED  BY <1>3, <3>1 DEF ReadContainer
  <2> QED  BY <2>1 DEF CipherInv
<1>4. CASE Decrypt
  <2>1. data = orig /\ DataOk /\ UNCHANGED <<orig, tag>>
    BY <1>4 DEF Decrypt, CipherInv, RunInv
  <2>2. CASE UNCHANGED data
    BY <2>1, <2>2 DEF CipherInv
  <2>3. CASE ~UNCHANGED data
    <3>1. PICK em \in Recovered :
            /\ Len(SaltOf(em)) >= KeyLen + Block /\ Continue(NextStage("decrypt"))
            /\ data' = Decrypted(data, tag.len, Slice(SaltOf(em), 0, KeyLen),
                                 Slice(SaltOf(em), KeyLen, KeyLen + Block))
      <4> DEFINE G(em) ==
                   LET salt == SaltOf(em)
                   IN IF Len(salt) < KeyLen + Block
                      THEN Exit(1) /\ UNCHANGED data
                      ELSE /\ data' = Decrypted(data, tag.len, Slice(salt, 0, KeyLen),
                                                Slice(salt, KeyLen, KeyLen + Block))
                           /\ Continue(NextStage("decrypt"))
      <4>1. \E em \in Recovered : G(em)
        BY <1>4, <2>3, Zenon DEF Decrypt
      <4>2. PICK em \in Recovered : G(em)
        <5> HIDE DEF G
        <5> QED  BY <4>1
      <4>3. ~(Len(SaltOf(em)) < KeyLen + Block)
        BY <2>3, <4>2, Zenon
      <4>4. Len(SaltOf(em)) >= KeyLen + Block
        <5>1. SaltOf(em) \in Seq(Cells)
          BY SaltCells
        <5>2. Len(SaltOf(em)) \in Nat
          BY <5>1
        <5>3. KeyLen \in Nat /\ Block \in Nat
          BY LayoutAssumption
        <5> QED  BY <4>3, <5>2, <5>3
      <4>5. /\ data' = Decrypted(data, tag.len, Slice(SaltOf(em), 0, KeyLen),
                                 Slice(SaltOf(em), KeyLen, KeyLen + Block))
            /\ Continue(NextStage("decrypt"))
        BY <4>2, <4>3, Zenon
      <4> QED  BY <4>4, <4>5, Zenon
    <3>2. pc' \in {"layout", "exit"}
      BY <3>1 DEF NextStage, Continue, End
    <3>3. orig \in Seq(Cells) /\ tag.len \in Nat /\ tag.len <= Len(orig)
      <4>1. /\ orig \in Seq(Cells) /\ Len(orig) \in Nat /\ tag.len \in Nat /\ Len(orig) >= TagHeader
            /\ orig[TotalAt] + tag.len <= Len(orig) /\ TagHeader \in Nat /\ TagHeader >= 2
        BY <2>1, LayoutAssumption DEF DataOk, TotalAt
      <4>2. 2 \in 1 .. Len(orig)
        BY <4>1
      <4>3. orig[2] \in Nat
        <5>1. orig[2] \in Cells
          BY <4>1, <4>2
        <5> QED  BY <5>1, LayoutAssumption DEF Cells
      <4> QED  BY <4>1, <4>3 DEF TotalAt
    <3>4. /\ Slice(SaltOf(em), 0, KeyLen)[1] \in Cells
          /\ IsBlock(Slice(SaltOf(em), KeyLen, KeyLen + Block))
      BY <3>1, SaltFacts
    <3>5. DecipheredBy(em)'
      <4> DEFINE key == Slice(SaltOf(em), 0, KeyLen)
                 iv == Slice(SaltOf(em), KeyLen, KeyLen + Block)
                 d == orig
                 e == data'
                 n == tag.len
      <4>1. /\ e = Decrypted(d, n, key, iv) /\ key[1] \in Cells /\ IsBlock(iv)
            /\ d \in Seq(Cells) /\ n \in Nat /\ n <= Len(d)
        BY <2>1, <3>1, <3>3, <3>4
      <4>2. orig' = d /\ tag'.len = n /\ Len(SaltOf(em)) >= KeyLen + Block
        BY <2>1, <3>1
      <4>3. Deciphered(d, n, key, iv, e)
        <5> HIDE DEF key, iv, d, e, n
        <5> QED  BY <4>1 DEF Deciphered
      <4> QED  BY <4>2, <4>3, Zenon DEF DecipheredBy
    <3> QED  BY <3>2, <3>5 DEF CipherInv
  <2> QED  BY <2>2, <2>3
<1>5. CASE Layout \/ CreateFile \/ FillFile \/ AllWritten \/ Kill
  <2>1. UNCHANGED <<orig, data, tag>>
    BY <1>5 DEF Layout, CreateFile, FillFile, AllWritten, Kill
  <2>2. pc' \notin {"args", "read", "decrypt"}
    BY <1>5 DEF Layout, CreateFile, FillFile, AllWritten, Kill, Exit, End, Continue, NextStage,
               AfterWriteError
  <2> QED  BY <1>1, <2>1, <2>2
<1>6. CASE UNCHANGED vars
  BY <1>1, <1>6 DEF vars
<1> QED  BY <1>2, <1>3, <1>4, <1>5, <1>6 DEF Next

\* The container in memory is the one that was read, or decrypted with a key a recovered
\* message gave; encrypting it again gives back every whole block behind the tag, and
\* nothing else was changed.
THEOREM DecryptCorrect == Spec => []DecryptInverts
<1>1. Init => CipherInv
  BY DEF Init, CipherInv
<1>2. CipherInv => DecryptInverts
  <2> SUFFICES ASSUME CipherInv, data # orig PROVE DecryptInverts
    BY DEF DecryptInverts
  <2>1. PICK em \in Recovered : DecipheredBy(em)
    BY DEF CipherInv
  <2>2. /\ Len(SaltOf(em)) >= KeyLen + Block
        /\ Deciphered(orig, tag.len, Slice(SaltOf(em), 0, KeyLen),
                      Slice(SaltOf(em), KeyLen, KeyLen + Block), data)
    BY <2>1 DEF DecipheredBy
  <2> DEFINE k == Slice(SaltOf(em), 0, KeyLen)
             iv == Slice(SaltOf(em), KeyLen, KeyLen + Block)
             p == Slice(data, tag.len, Len(data))
             c == Slice(orig, tag.len, Len(orig))
             n == Len(p) \div Block
  <2>3. Deciphered(orig, tag.len, k, iv, data)
    BY <2>2
  <2>4. /\ Slice(data, 0, tag.len) = Slice(orig, 0, tag.len)
        /\ Slice(p, n * Block, Len(p)) = Slice(c, n * Block, Len(c))
        /\ \A i \in 1 .. n : Encryption(p, k, iv, n)[i] = BlockOf(c, i)
    <3>1. Behind(orig, tag.len, k, iv, data, p, c, n)
      BY <2>3 DEF Behind
    <3> HIDE DEF k, iv, p, c, n
    <3> QED  BY <3>1, DecryptionInverts
  <2> QED  BY <2>2, <2>4, Zenon DEF DecryptInverts
<1>3. CipherInv /\ RunInv /\ [Next]_vars => CipherInv'
  BY CipherStep
<1> QED  BY <1>1, <1>2, <1>3, RunInvariant, PTL DEF Spec
=============================================================================
