------------------------- MODULE ChunkLayoutProofs -------------------------
(***************************************************************************)
(* The layout of the chunks for every size, chunk size and width of the    *)
(* integers, for clients within their range.                               *)
(***************************************************************************)
EXTENDS ChunkLayout, FiniteSetTheorems, WellFoundedInduction, TLAPS

----------------------------------------------------------------------------
(* Numbers *)

LEMMA Least == ASSUME NEW T, T \subseteq Nat, T # {} PROVE \E x \in T : \A y \in T : x <= y
<1>1. \E x \in T : \A y \in T : ~(<<y, x>> \in OpToRel(<, Nat))
  BY NatLessThanWellFounded, WFMin
<1>2. PICK x \in T : \A y \in T : ~(<<y, x>> \in OpToRel(<, Nat))
  BY <1>1
<1>3. ASSUME NEW y \in T, y < x PROVE FALSE
  <2>1. <<y, x>> \in Nat \X Nat
    OBVIOUS
  <2>2. <<y, x>> \in OpToRel(<, Nat)
    BY <2>1, <1>3, Zenon DEF OpToRel
  <2>3. QED
    BY <2>2, <1>2
<1>4. QED
  BY <1>3

\* The equation of a running sum has one solution, so the loops that add up
\* sizes have a value.
LEMMA RunningSum ==
  ASSUME NEW s \in [Nat -> Int]
  PROVE  \E f \in [Nat -> Int] : \A g :
           g = f <=> g = [n \in Nat |-> IF n = 0 THEN 0 ELSE g[n - 1] + s[n - 1]]
<1>. DEFINE Sums(n, f) == /\ f \in [0 .. n -> Int] /\ f[0] = 0
                          /\ \A k \in 1 .. n : f[k] = f[k - 1] + s[k - 1]
<1>1. ASSUME NEW n \in Nat PROVE \E f : Sums(n, f)
  <2>. DEFINE T == {k \in Nat : ~ \E f : Sums(k, f)}
  <2>1. SUFFICES ASSUME T # {} PROVE FALSE
    BY <2>1
  <2>2. PICK m \in T : \A k \in T : m <= k
    BY <2>1, Least
  <2>3. CASE m = 0
    <3>1. Sums(0, [k \in 0 .. 0 |-> 0])
      OBVIOUS
    <3>2. QED
      BY <2>2, <2>3, <3>1
  <2>4. CASE m # 0
    <3>1. m - 1 \in Nat /\ m - 1 \notin T
      <4>1. m \in Nat
        OBVIOUS
      <4>. HIDE DEF T
      <4>2. QED
        BY <4>1, <2>2, <2>4
    <3>2. PICK f : Sums(m - 1, f)
      BY <3>1
    <3>. DEFINE g == [k \in 0 .. m |-> IF k = m THEN f[m - 1] + s[m - 1] ELSE f[k]]
    <3>3. Sums(m, g)
      BY <3>1, <3>2, <2>4
    <3>4. QED
      BY <2>2, <3>3
  <2>5. QED
    BY <2>3, <2>4
<1>2. ASSUME NEW m \in Nat, NEW n \in Nat, NEW f, NEW g, Sums(m, f), Sums(n, g),
             NEW k \in Nat, k <= m, k <= n
      PROVE f[k] = g[k]
  <2>. DEFINE T == {j \in 0 .. k : f[j] # g[j]}
  <2>1. SUFFICES ASSUME T # {} PROVE FALSE
    BY <2>1
  <2>2. PICK j \in T : \A i \in T : j <= i
    <3>1. T \subseteq Nat
      OBVIOUS
    <3>. HIDE DEF T
    <3>2. QED
      BY <2>1, <3>1, Least
  <2>3. j # 0
    BY <1>2, <2>2
  <2>4. f[j - 1] = g[j - 1]
    BY <2>2, <2>3
  <2>5. QED
    BY <1>2, <2>2, <2>3, <2>4
<1>. DEFINE some == [n \in Nat |-> CHOOSE f : Sums(n, f)]
            F == [n \in Nat |-> some[n][n]]
<1>3. \A n \in Nat : Sums(n, some[n])
  BY <1>1
<1>. HIDE DEF some
<1>4. F \in [Nat -> Int] /\ F[0] = 0
  <2>1. ASSUME NEW n \in Nat PROVE some[n][n] \in Int
    <3>1. some[n] \in [0 .. n -> Int] /\ n \in 0 .. n
      BY <1>3
    <3>2. QED
      BY <3>1
  <2>2. some[0][0] = 0
    BY <1>3
  <2>3. QED
    BY <2>1, <2>2
<1>5. ASSUME NEW n \in Nat, n # 0 PROVE F[n] = F[n - 1] + s[n - 1]
  <2>1. n - 1 \in Nat
    BY <1>5
  <2>2. some[n][n - 1] = some[n - 1][n - 1]
    <3>1. n - 1 <= n /\ n - 1 <= n - 1
      BY <2>1
    <3>2. Sums(n, some[n]) /\ Sums(n - 1, some[n - 1])
      BY <1>3, <2>1
    <3>. HIDE DEF Sums
    <3>3. QED
      BY <2>1, <3>1, <3>2, <1>2
  <2>3. some[n][n] = some[n][n - 1] + s[n - 1]
    BY <1>3, <1>5
  <2>4. QED
    BY <2>1, <2>2, <2>3
<1>6. F = [n \in Nat |-> IF n = 0 THEN 0 ELSE F[n - 1] + s[n - 1]]
  BY <1>4, <1>5
<1>7. ASSUME NEW g, g = [n \in Nat |-> IF n = 0 THEN 0 ELSE g[n - 1] + s[n - 1]] PROVE g = F
  <2>. DEFINE G == [n \in Nat |-> g[n]]
              T == {j \in Nat : G[j] # F[j]}
  <2>1. g = G /\ g[0] = 0 /\ \A n \in Nat \ {0} : g[n] = g[n - 1] + s[n - 1]
    BY <1>7
  <2>2. SUFFICES ASSUME T # {} PROVE FALSE
    BY <2>1
  <2>3. PICK j \in T : \A i \in T : j <= i
    <3>1. T \subseteq Nat
      OBVIOUS
    <3>. HIDE DEF T
    <3>2. QED
      BY <2>2, <3>1, Least
  <2>. HIDE DEF F
  <2>4. j # 0
    BY <1>4, <2>1, <2>3
  <2>5. g[j - 1] = F[j - 1]
    BY <2>1, <2>3, <2>4
  <2>6. QED
    BY <1>5, <2>1, <2>3, <2>4, <2>5
<1>. HIDE DEF F
<1>8. \A g : g = F <=> g = [n \in Nat |-> IF n = 0 THEN 0 ELSE g[n - 1] + s[n - 1]]
  <2>1. ASSUME NEW g, g = F PROVE g = [n \in Nat |-> IF n = 0 THEN 0 ELSE g[n - 1] + s[n - 1]]
    BY <1>6, <2>1
  <2>2. QED
    BY <1>7, <2>1
<1>9. QED
  BY <1>4, <1>8

LEMMA WrapFits == ASSUME NEW n \in Int, Fits(n) PROVE Wrap(n) = n
BY WidthAssumption DEF Fits, Wrap, MinInt

LEMMA Span ==
  ASSUME NEW a \in Int, NEW n \in Nat
  PROVE  IsFiniteSet(a .. a + n - 1) /\ Cardinality(a .. a + n - 1) = n
<1>1. a + n - 1 \in Int
  OBVIOUS
<1>2. /\ IsFiniteSet(a .. a + n - 1)
      /\ Cardinality(a .. a + n - 1) = IF a > a + n - 1 THEN 0 ELSE a + n - 1 - a + 1
  BY <1>1, FS_Interval
<1>3. QED
  BY <1>2

LEMMA Initial == \A n \in Nat : IsFiniteSet(0 .. n - 1) /\ Cardinality(0 .. n - 1) = n
<1>1. SUFFICES ASSUME NEW n \in Nat PROVE IsFiniteSet(0 .. n - 1) /\ Cardinality(0 .. n - 1) = n
  OBVIOUS
<1>2. 0 \in Int /\ 0 + n - 1 = n - 1
  OBVIOUS
<1>3. IsFiniteSet(0 .. 0 + n - 1) /\ Cardinality(0 .. 0 + n - 1) = n
  BY <1>2, Span
<1>4. QED
  BY <1>2, <1>3

LEMMA Multiples ==
  ASSUME NEW c \in Nat \ {0}, NEW i \in Nat, NEW j \in Nat, i < j
  PROVE i * c + c <= j * c
<1>1. j = i + 1 + (j - i - 1) /\ j - i - 1 \in Nat
  OBVIOUS
<1>2. (j - i - 1) * c >= 0
  BY <1>1
<1>3. j * c = i * c + c + (j - i - 1) * c
  BY <1>1
<1>4. QED
  BY <1>2, <1>3

LEMMA Division ==
  ASSUME NEW a \in Nat, NEW c \in Nat \ {0}
  PROVE a \div c \in Nat /\ (a \div c) * c <= a /\ a < (a \div c) * c + c
OBVIOUS

----------------------------------------------------------------------------
(* The inductive invariant *)

\* A chunk that was accepted lies at its index and has its share of the size.
Fitting(c) ==
  /\ c.index \in Nat
  /\ c.index * chunkSize < size
  /\ c.offset = c.index * chunkSize
  /\ c.size = Smaller(size - c.index * chunkSize, chunkSize)

\* A session announces what the count of its chunks can be computed from.
Announced ==
  IF state = "none"
  THEN size = 0 /\ chunkSize = 0 /\ chunks = {}
  ELSE /\ size > 0 /\ chunkSize > 0 /\ size + chunkSize - 1 <= MaxInt
       /\ Smaller(size, chunkSize) <= BodyLimit

LayoutInv ==
  /\ TypeOK
  /\ Announced
  /\ IsFiniteSet(chunks)
  /\ \A c \in chunks : Fitting(c)
  /\ written = Cardinality(Covered)
  /\ state = "none" => resumeAt = -1
  /\ state = "committed" => Cardinality(chunks) = ChunkCount /\ chunks # {}

----------------------------------------------------------------------------
(* What the loops compute *)

LEMMA SumOfShares ==
  ASSUME NEW whole \in Nat, NEW share \in Nat \ {0}, NEW n \in Nat,
         NEW f \in [Nat -> Int], f[0] = 0,
         \A i \in 0 .. n - 1 : i * share < whole
                               /\ f[i + 1] = f[i] + Smaller(whole - i * share, share)
  PROVE  f[n] = Smaller(n * share, whole)
<1>. DEFINE T == {i \in 0 .. n : f[i] # Smaller(i * share, whole)}
<1>1. SUFFICES ASSUME T # {} PROVE FALSE
  BY <1>1
<1>2. PICK m \in T : \A i \in T : m <= i
  <2>1. T \subseteq Nat
    OBVIOUS
  <2>. HIDE DEF T
  <2>2. QED
    BY <1>1, <2>1, Least
<1>3. m # 0
  BY <1>2 DEF Smaller
<1>4. PICK i \in 0 .. n - 1 : m = i + 1
  BY <1>2, <1>3
<1>5. f[i] = Smaller(i * share, whole)
  BY <1>2, <1>4
<1>6. f[i] = i * share
  BY <1>5 DEF Smaller
<1>7. m * share = i * share + share
  BY <1>4
<1>8. QED
  BY <1>2, <1>4, <1>6, <1>7 DEF Smaller

LEMMA ShareType ==
  ASSUME TypeOK, NEW i \in Int PROVE ChunkSizeFor(i) \in Int
<1>1. \A n \in Int : Wrap(n) \in Int
  BY WidthAssumption DEF Wrap, MinInt
<1>2. size \in Int /\ chunkSize \in Int /\ i * chunkSize \in Int
  BY WidthAssumption DEF TypeOK
<1>3. size - Wrap(i * chunkSize) \in Int
  BY <1>1, <1>2
<1>4. QED
  BY <1>1, <1>2, <1>3 DEF ChunkSizeFor, Smaller

LEMMA ReachedSums ==
  ASSUME TypeOK
  PROVE  /\ Reached \in [Nat -> Int] /\ Reached[0] = 0
         /\ \A i \in Nat : Reached[i + 1] = Reached[i] + ChunkSizeFor(i)
<1>. DEFINE s == [i \in Nat |-> ChunkSizeFor(i)]
            Is(f) == f = [i \in Nat |-> IF i = 0 THEN 0 ELSE f[i - 1] + ChunkSizeFor(i - 1)]
<1>1. s \in [Nat -> Int]
  BY ShareType
<1>2. PICK f \in [Nat -> Int] :
        \A g : g = f <=> g = [i \in Nat |-> IF i = 0 THEN 0 ELSE g[i - 1] + s[i - 1]]
  BY <1>1, RunningSum
<1>3. \A g : g = f <=> Is(g)
  <2>1. ASSUME NEW g
        PROVE [i \in Nat |-> IF i = 0 THEN 0 ELSE g[i - 1] + s[i - 1]]
                = [i \in Nat |-> IF i = 0 THEN 0 ELSE g[i - 1] + ChunkSizeFor(i - 1)]
    <3>1. \A i \in Nat : i # 0 => s[i - 1] = ChunkSizeFor(i - 1)
      OBVIOUS
    <3>2. QED
      BY <3>1
  <2>2. QED
    BY <1>2, <2>1
<1>4. Is(Reached)
  BY <1>3 DEF Reached
<1>5. Reached \in [Nat -> Int]
  BY <1>3, <1>4
<1>6. Reached[0] = 0 /\ \A i \in Nat : Reached[i + 1] = Reached[i] + ChunkSizeFor(i)
  BY <1>4
<1>7. QED
  BY <1>5, <1>6

LEMMA AssembledSums ==
  ASSUME TypeOK
  PROVE  /\ Assembled \in [Nat -> Int] /\ Assembled[0] = 0
         /\ \A i \in Nat : Assembled[i + 1] = Assembled[i] + SizeAt(i)
<1>. DEFINE s == [i \in Nat |-> SizeAt(i)]
            Is(f) == f = [i \in Nat |-> IF i = 0 THEN 0 ELSE f[i - 1] + SizeAt(i - 1)]
<1>1. s \in [Nat -> Int]
  <2>1. ASSUME NEW i \in Nat PROVE SizeAt(i) \in Int
    <3>1. CASE i \in Present
      <4>1. (CHOOSE c \in chunks : c.index = i) \in chunks
        BY <3>1 DEF Present
      <4>2. \A c \in chunks : c.size \in Int
        BY DEF TypeOK
      <4>3. QED
        BY <3>1, <4>1, <4>2 DEF SizeAt
    <3>2. CASE i \notin Present
      BY <3>2 DEF SizeAt
    <3>3. QED
      BY <3>1, <3>2
  <2>2. QED
    BY <2>1
<1>2. PICK f \in [Nat -> Int] :
        \A g : g = f <=> g = [i \in Nat |-> IF i = 0 THEN 0 ELSE g[i - 1] + s[i - 1]]
  BY <1>1, RunningSum
<1>3. \A g : g = f <=> Is(g)
  <2>1. ASSUME NEW g
        PROVE [i \in Nat |-> IF i = 0 THEN 0 ELSE g[i - 1] + s[i - 1]]
                = [i \in Nat |-> IF i = 0 THEN 0 ELSE g[i - 1] + SizeAt(i - 1)]
    <3>1. \A i \in Nat : i # 0 => s[i - 1] = SizeAt(i - 1)
      OBVIOUS
    <3>2. QED
      BY <3>1
  <2>2. QED
    BY <1>2, <2>1
<1>4. Is(Assembled)
  BY <1>3 DEF Assembled
<1>5. Assembled \in [Nat -> Int]
  BY <1>3, <1>4
<1>6. Assembled[0] = 0 /\ \A i \in Nat : Assembled[i + 1] = Assembled[i] + SizeAt(i)
  BY <1>4
<1>7. QED
  BY <1>5, <1>6

----------------------------------------------------------------------------
(* What the arithmetic gives where the invariant holds *)

LEMMA ShareInRange ==
  ASSUME LayoutInv, state # "none", NEW i \in Nat, i * chunkSize < size
  PROVE  ChunkSizeFor(i) = Smaller(size - i * chunkSize, chunkSize) /\ ChunkSizeFor(i) > 0
<1>1. size \in Nat /\ chunkSize \in Nat \ {0} /\ size <= MaxInt
  BY WidthAssumption DEF LayoutInv, TypeOK, Announced
<1>2. i * chunkSize \in Nat
  BY <1>1
<1>3. Wrap(i * chunkSize) = i * chunkSize
  BY <1>1, <1>2, WrapFits, WidthAssumption DEF Fits, MinInt
<1>4. Wrap(size - i * chunkSize) = size - i * chunkSize
  BY <1>1, <1>2, WrapFits, WidthAssumption DEF Fits, MinInt
<1>5. QED
  BY <1>1, <1>2, <1>3, <1>4 DEF ChunkSizeFor, Smaller

LEMMA ShareOnlyInRange ==
  ASSUME LayoutInv, state # "none", NEW i \in Int, Fits(i * chunkSize), ChunkSizeFor(i) # 0
  PROVE  i \in Nat /\ i * chunkSize < size /\ Wrap(i * chunkSize) = i * chunkSize
<1>1. chunkSize \in Int
  BY WidthAssumption DEF LayoutInv, TypeOK
<1>2. i * chunkSize \in Int
  BY <1>1
<1>3. Wrap(i * chunkSize) = i * chunkSize
  BY <1>2, WrapFits
<1>4. ~(i < 0) /\ ~(i * chunkSize >= size)
  BY <1>3 DEF ChunkSizeFor
<1>5. size \in Int
  BY WidthAssumption DEF LayoutInv, TypeOK
<1>6. QED
  BY <1>2, <1>3, <1>4, <1>5

\* No two chunks share an index, and a chunk has what its index asks for.
LEMMA PresentIsFit ==
  ASSUME LayoutInv
  PROVE  /\ \A i \in Present : i \in Nat /\ i * chunkSize < size
         /\ \A b, c \in chunks : b.index = c.index => b = c
<1>1. \A c \in chunks : Fitting(c)
  BY DEF LayoutInv
<1>2. chunks \subseteq [index : MinInt .. MaxInt, offset : MinInt .. MaxInt, size : 1 .. MaxInt]
  BY DEF LayoutInv, TypeOK
<1>3. \A c \in chunks : c = [index |-> c.index, offset |-> c.offset, size |-> c.size]
  BY <1>2
<1>4. \A i \in Present : i \in Nat /\ i * chunkSize < size
  BY <1>1 DEF Present, Fitting
<1>5. ASSUME NEW b \in chunks, NEW c \in chunks, b.index = c.index PROVE b = c
  <2>1. b.offset = c.offset /\ b.size = c.size
    BY <1>1, <1>5 DEF Fitting
  <2>2. QED
    BY <1>3, <1>5, <2>1
<1>6. QED
  BY <1>4, <1>5

LEMMA CountOfChunks ==
  ASSUME LayoutInv, state # "none"
  PROVE  /\ ChunkCount \in Nat
         /\ ChunkCount * chunkSize >= size
         /\ \A i \in Nat : i * chunkSize < size <=> i < ChunkCount
<1>. DEFINE sum == size + chunkSize - 1
<1>1. size \in Nat \ {0} /\ chunkSize \in Nat \ {0} /\ sum <= MaxInt
  BY WidthAssumption DEF LayoutInv, TypeOK, Announced
<1>2. sum \in Nat /\ Wrap(sum) = sum
  BY <1>1, WrapFits, WidthAssumption DEF Fits, MinInt
<1>3. ChunkCount = sum \div chunkSize
  BY <1>2 DEF ChunkCount, Quotient
<1>. HIDE DEF sum
<1>4. ChunkCount \in Nat /\ ChunkCount * chunkSize <= sum /\ sum < ChunkCount * chunkSize + chunkSize
  BY <1>1, <1>2, <1>3, Division
<1>5. ASSUME NEW i \in Nat, i < ChunkCount PROVE i * chunkSize < size
  <2>1. i * chunkSize + chunkSize <= ChunkCount * chunkSize
    BY <1>1, <1>4, <1>5, Multiples
  <2>2. i * chunkSize \in Nat /\ ChunkCount * chunkSize \in Nat
    BY <1>1, <1>4
  <2>3. QED
    BY <1>1, <1>4, <2>1, <2>2 DEF sum
<1>6. ASSUME NEW i \in Nat, i * chunkSize < size, ~(i < ChunkCount) PROVE FALSE
  <2>1. i * chunkSize \in Nat /\ ChunkCount * chunkSize \in Nat
    BY <1>1, <1>4
  <2>2. ChunkCount * chunkSize <= i * chunkSize
    <3>1. CASE i = ChunkCount
      BY <3>1, <2>1
    <3>2. CASE ChunkCount < i
      BY <1>1, <1>4, <3>2, <2>1, Multiples
    <3>3. QED
      BY <1>4, <1>6, <3>1, <3>2
  <2>3. QED
    BY <1>1, <1>4, <1>6, <2>1, <2>2 DEF sum
<1>7. ChunkCount * chunkSize >= size
  <2>1. ChunkCount * chunkSize \in Nat
    BY <1>1, <1>4
  <2>2. QED
    BY <1>1, <1>4, <2>1 DEF sum
<1>8. QED
  BY <1>4, <1>5, <1>6, <1>7

LEMMA OneChunkPerIndex == ASSUME LayoutInv PROVE Cardinality(Present) = Cardinality(chunks)
<1>1. IsFiniteSet(chunks)
  BY DEF LayoutInv
<1>2. ExistsBijection(chunks, Present)
  <2>. DEFINE f == [c \in chunks |-> c.index]
  <2>1. f \in [chunks -> Present] /\ \A i \in Present : \E c \in chunks : f[c] = i
    BY DEF Present
  <2>2. \A b, c \in chunks : f[b] = f[c] => b = c
    BY PresentIsFit
  <2>3. f \in Bijection(chunks, Present)
    BY <2>1, <2>2 DEF Bijection, Injection, Surjection, IsInjective
  <2>4. QED
    BY <2>3 DEF ExistsBijection
<1>3. QED
  BY <1>1, <1>2, FS_Bijection

\* The number of chunks is only reached with every index of the upload.
LEMMA AllPresent ==
  ASSUME LayoutInv, state # "none", Cardinality(chunks) = ChunkCount
  PROVE  Present = 0 .. ChunkCount - 1
<1>1. Cardinality(Present) = ChunkCount
  BY OneChunkPerIndex
<1>2. ChunkCount \in Nat /\ Present \subseteq 0 .. ChunkCount - 1
  BY PresentIsFit, CountOfChunks
<1>3. IsFiniteSet(0 .. ChunkCount - 1) /\ Cardinality(0 .. ChunkCount - 1) = ChunkCount
  BY <1>2, Initial
<1>4. QED
  BY <1>1, <1>2, <1>3, FS_Subset

----------------------------------------------------------------------------
(* The properties follow from the invariant *)

LEMMA SizeFits ==
  ASSUME LayoutInv, NEW c \in chunks
  PROVE  SizeAt(c.index) = Smaller(size - c.index * chunkSize, chunkSize)
<1>1. c.index \in Present
  BY DEF Present
<1>2. (CHOOSE b \in chunks : b.index = c.index) = c
  BY PresentIsFit
<1>3. QED
  BY <1>1, <1>2 DEF SizeAt, LayoutInv, Fitting

LEMMA Tiles == LayoutInv => CommittedTiles
<1>1. SUFFICES ASSUME LayoutInv, state = "committed"
               PROVE  /\ \A c \in chunks : Assembled[c.index] = c.offset
                      /\ \E last \in chunks :
                           /\ \A c \in chunks : c.index <= last.index
                           /\ Assembled[last.index + 1] = size
  BY DEF CommittedTiles
<1>2. /\ Cardinality(chunks) = ChunkCount /\ chunks # {} /\ TypeOK
      /\ size \in Nat \ {0} /\ chunkSize \in Nat \ {0}
      /\ \A c \in chunks : Fitting(c)
  BY <1>1 DEF LayoutInv, TypeOK, Announced
<1>3. Present = 0 .. ChunkCount - 1
  BY <1>1, <1>2, AllPresent
<1>4. PICK count \in Nat : count = ChunkCount
  BY <1>1, CountOfChunks
<1>5. /\ \A i \in 0 .. count - 1 : i \in Present /\ i * chunkSize < size
      /\ count * chunkSize >= size
  BY <1>1, <1>3, <1>4, CountOfChunks
<1>6. ASSUME NEW n \in 0 .. count PROVE Assembled[n] = Smaller(n * chunkSize, size)
  <2>1. ASSUME NEW i \in 0 .. n - 1
        PROVE i * chunkSize < size
              /\ Assembled[i + 1] = Assembled[i] + Smaller(size - i * chunkSize, chunkSize)
    <3>1. i \in Nat /\ i \in Present /\ i * chunkSize < size
      BY <1>5
    <3>2. SizeAt(i) = Smaller(size - i * chunkSize, chunkSize)
      BY <1>1, <3>1, SizeFits DEF Present
    <3>3. QED
      BY <1>2, <3>1, <3>2, AssembledSums
  <2>2. n \in Nat /\ Assembled \in [Nat -> Int] /\ Assembled[0] = 0
    BY <1>2, AssembledSums
  <2>3. QED
    BY <1>2, <2>1, <2>2, SumOfShares
<1>7. ASSUME NEW c \in chunks PROVE Assembled[c.index] = c.offset
  <2>1. c.index \in Present /\ c.index \in 0 .. count
    <3>1. c.index \in Present
      BY DEF Present
    <3>2. QED
      BY <1>3, <1>4, <3>1
  <2>2. c.offset = c.index * chunkSize /\ c.index * chunkSize < size
    BY <1>2 DEF Fitting
  <2>3. QED
    BY <1>6, <2>1, <2>2 DEF Smaller
<1>8. \E last \in chunks : (\A c \in chunks : c.index <= last.index) /\ Assembled[last.index + 1] = size
  <2>1. PICK c \in chunks : TRUE
    BY <1>2
  <2>2. \A b \in chunks : b.index \in 0 .. count - 1
    BY <1>3, <1>4 DEF Present
  <2>3. count > 0 /\ count - 1 \in Present
    BY <2>2, <1>5
  <2>4. PICK last \in chunks : last.index = count - 1
    BY <2>3 DEF Present
  <2>5. Assembled[count] = Smaller(count * chunkSize, size)
    BY <1>6
  <2>6. count * chunkSize \in Nat
    BY <1>2
  <2>7. Assembled[count] = size
    BY <1>2, <1>5, <2>5, <2>6 DEF Smaller
  <2>8. QED
    BY <2>2, <2>4, <2>7
<1>9. QED
  BY <1>7, <1>8

LEMMA CoveredInside == LayoutInv => Covered \subseteq 0 .. size - 1 /\ IsFiniteSet(Covered)
<1>1. SUFFICES ASSUME LayoutInv PROVE Covered \subseteq 0 .. size - 1 /\ IsFiniteSet(Covered)
  OBVIOUS
<1>2. size \in Nat /\ chunkSize \in Nat /\ \A c \in chunks : Fitting(c)
  BY <1>1 DEF LayoutInv, TypeOK
<1>3. ASSUME NEW c \in chunks, NEW b \in Bytes(c) PROVE b \in 0 .. size - 1
  <2>1. c.index * chunkSize \in Nat /\ c.offset = c.index * chunkSize
        /\ c.size = Smaller(size - c.index * chunkSize, chunkSize)
    BY <1>2 DEF Fitting
  <2>2. PICK from \in Nat, length \in Int :
          from = c.offset /\ length = c.size /\ from + length <= size
    BY <1>2, <2>1 DEF Smaller
  <2>3. b \in from .. from + length - 1
    BY <1>3, <2>2 DEF Bytes
  <2>4. QED
    BY <1>2, <2>2, <2>3
<1>4. Covered \subseteq 0 .. size - 1
  BY <1>3 DEF Covered
<1>5. IsFiniteSet(0 .. size - 1)
  BY <1>2, FS_Interval
<1>6. QED
  BY <1>4, <1>5, FS_Subset

\* A byte is covered exactly when the chunk it belongs to is there.
LEMMA CoveredByIndex ==
  ASSUME LayoutInv, state # "none", NEW i \in Nat, NEW b \in Nat,
         i * chunkSize <= b, b < i * chunkSize + chunkSize, b < size
  PROVE  b \in Covered <=> i \in Present
<1>1. size \in Nat /\ chunkSize \in Nat \ {0} /\ \A c \in chunks : Fitting(c)
  BY DEF LayoutInv, TypeOK, Announced
<1>2. ASSUME NEW c \in chunks PROVE b \in Bytes(c) <=> c.index = i
  <2>1. /\ c.index \in Nat /\ c.index * chunkSize \in Nat /\ c.offset = c.index * chunkSize
        /\ c.size = Smaller(size - c.index * chunkSize, chunkSize)
    BY <1>1 DEF Fitting
  <2>2. i * chunkSize \in Nat
    BY <1>1
  <2>3. CASE c.index = i
    BY <1>1, <2>1, <2>2, <2>3 DEF Bytes, Smaller
  <2>4. CASE c.index < i
    <3>1. c.index * chunkSize + chunkSize <= i * chunkSize
      BY <1>1, <2>1, <2>4, Multiples
    <3>2. QED
      BY <1>1, <2>1, <2>2, <2>4, <3>1 DEF Bytes, Smaller
  <2>5. CASE i < c.index
    <3>1. i * chunkSize + chunkSize <= c.index * chunkSize
      BY <1>1, <2>1, <2>5, Multiples
    <3>2. QED
      BY <1>1, <2>1, <2>2, <2>5, <3>1 DEF Bytes, Smaller
  <2>6. QED
    BY <2>1, <2>3, <2>4, <2>5
<1>3. QED
  BY <1>2 DEF Covered, Present

LEMMA LoopStops ==
  ASSUME LayoutInv
  PROVE  FirstStop \in Nat /\ Stops(FirstStop) /\ \A j \in 0 .. FirstStop - 1 : ~Stops(j)
<1>. DEFINE K == Cardinality(Present)
            T == {i \in 0 .. K : Stops(i)}
<1>1. IsFiniteSet(Present) /\ K \in Nat
  <2>1. IsFiniteSet(chunks) /\ \E f : f \in Surjection(chunks, Present)
    <3>. DEFINE f == [c \in chunks |-> c.index]
    <3>1. f \in Surjection(chunks, Present)
      BY DEF Surjection, Present
    <3>2. QED
      BY <3>1 DEF LayoutInv
  <2>2. QED
    BY <2>1, FS_Surjection, FS_CardinalityType
<1>2. T # {}
  <2>1. SUFFICES ASSUME T = {} PROVE FALSE
    OBVIOUS
  <2>2. 0 .. K \in SUBSET Present
    BY <2>1 DEF Stops
  <2>3. Cardinality(0 .. K) = K + 1
    <3>1. \A k \in Nat : Cardinality(0 .. k) = IF 0 > k THEN 0 ELSE k - 0 + 1
      BY FS_Interval
    <3>. HIDE DEF K
    <3>2. QED
      BY <1>1, <3>1
  <2>4. Cardinality(0 .. K) <= Cardinality(Present)
    BY <1>1, <2>2, FS_Subset
  <2>5. QED
    BY <1>1, <2>3, <2>4
<1>3. PICK i \in T : \A j \in T : i <= j
  <2>1. T \subseteq Nat
    BY <1>1
  <2>. HIDE DEF T
  <2>2. QED
    BY <1>2, <2>1, Least
<1>4. i \in 0 .. K /\ Stops(i) /\ \A j \in 0 .. i - 1 : ~Stops(j)
  <2>1. i \in 0 .. K /\ Stops(i) /\ i \in Nat
    BY <1>1
  <2>2. \A j \in 0 .. i - 1 : j \in 0 .. K /\ ~(i <= j)
    BY <1>1, <2>1
  <2>3. QED
    BY <1>3, <2>1, <2>2
<1>. HIDE DEF T
<1>5. /\ FirstStop \in 0 .. K
      /\ Stops(FirstStop) /\ \A j \in 0 .. FirstStop - 1 : ~Stops(j)
  BY <1>4 DEF FirstStop
<1>6. QED
  BY <1>1, <1>5

LEMMA OffsetOfFirstGap ==
  ASSUME LayoutInv, state # "none"
  PROVE  /\ ResumeOffset \in 0 .. size
         /\ \A b \in 0 .. ResumeOffset - 1 : b \in Covered
         /\ ResumeOffset < size => ResumeOffset \notin Covered
<1>1. size \in Nat \ {0} /\ chunkSize \in Nat \ {0} /\ TypeOK
  BY DEF LayoutInv, TypeOK, Announced
<1>2. ASSUME NEW n \in Nat, \A i \in 0 .. n - 1 : i \in Present,
             NEW b \in Nat, b < size, b < n * chunkSize
      PROVE b \in Covered
  <2>1. PICK i \in Nat : i = b \div chunkSize /\ i * chunkSize <= b /\ b < i * chunkSize + chunkSize
    BY <1>1, Division
  <2>2. i * chunkSize \in Nat /\ n * chunkSize \in Nat
    BY <1>1
  <2>3. i < n
    <3>1. CASE i = n
      BY <1>2, <2>1, <2>2, <3>1
    <3>2. CASE n < i
      <4>1. n * chunkSize + chunkSize <= i * chunkSize
        BY <1>1, <3>2, Multiples
      <4>2. QED
        BY <1>1, <1>2, <2>1, <2>2, <4>1
    <3>3. QED
      BY <3>1, <3>2
  <2>4. i \in Present
    BY <1>2, <2>3
  <2>5. QED
    BY <1>2, <2>1, <2>4, CoveredByIndex
<1>3. CASE state = "committed"
  <2>1. ResumeOffset = size
    BY <1>3 DEF ResumeOffset
  <2>2. PICK n \in Nat : n = ChunkCount
    BY CountOfChunks
  <2>3. n * chunkSize >= size /\ \A i \in 0 .. n - 1 : i \in Present
    BY <1>3, <2>2, CountOfChunks, AllPresent DEF LayoutInv
  <2>4. n * chunkSize \in Nat
    BY <1>1
  <2>5. \A b \in 0 .. size - 1 : b \in Covered
    BY <1>1, <1>2, <2>3, <2>4
  <2>6. QED
    BY <1>1, <2>1, <2>5
<1>4. CASE state # "committed"
  <2>1. PICK n \in Nat : n = FirstStop
    BY LoopStops
  <2>2. Stops(n) /\ \A j \in 0 .. n - 1 : ~Stops(j)
    BY <2>1, LoopStops
  <2>3. \A i \in 0 .. n - 1 : i \in Present
    BY <2>2 DEF Stops
  <2>4. Reached[n] = Smaller(n * chunkSize, size)
    <3>1. ASSUME NEW i \in 0 .. n - 1
          PROVE i * chunkSize < size
                /\ Reached[i + 1] = Reached[i] + Smaller(size - i * chunkSize, chunkSize)
      <4>1. i \in Nat /\ i * chunkSize < size
        BY <2>3, PresentIsFit
      <4>2. ChunkSizeFor(i) = Smaller(size - i * chunkSize, chunkSize)
        BY <4>1, ShareInRange
      <4>3. QED
        BY <1>1, <4>1, <4>2, ReachedSums
    <3>2. Reached \in [Nat -> Int] /\ Reached[0] = 0
      BY <1>1, ReachedSums
    <3>3. QED
      BY <1>1, <3>1, <3>2, SumOfShares
  <2>5. PICK reached \in Nat : reached = ResumeOffset /\ reached = Smaller(n * chunkSize, size)
    <3>1. n * chunkSize \in Nat
      BY <1>1
    <3>2. QED
      BY <1>1, <1>4, <2>1, <2>4, <3>1 DEF ResumeOffset, Smaller
  <2>6. n * chunkSize \in Nat /\ reached <= size /\ reached <= n * chunkSize
        /\ (reached < size => reached = n * chunkSize)
    <3>1. n * chunkSize \in Nat
      BY <1>1
    <3>2. QED
      BY <1>1, <2>5, <3>1 DEF Smaller
  <2>7. \A b \in 0 .. reached - 1 : b \in Covered
    BY <1>1, <1>2, <2>3, <2>6
  <2>8. ASSUME reached < size PROVE reached \notin Covered
    <3>1. n * chunkSize < size
      BY <2>6, <2>8
    <3>2. ChunkSizeFor(n) # 0
      BY <3>1, ShareInRange, ShareType, <1>1
    <3>3. ~(Reached[n] >= size)
      BY <1>1, <2>4, <2>5, <2>8
    <3>4. n \notin Present
      BY <2>2, <3>2, <3>3 DEF Stops
    <3>5. n * chunkSize <= reached /\ reached < n * chunkSize + chunkSize
      BY <1>1, <2>6, <2>8
    <3>6. QED
      BY <2>8, <3>4, <3>5, CoveredByIndex
  <2>9. QED
    BY <1>1, <2>5, <2>6, <2>7, <2>8
<1>5. QED
  BY <1>3, <1>4

LEMMA ResumesAtGap == LayoutInv => ResumeAtFirstGap /\ ResumeOffset \in 0 .. size
<1>. DEFINE missing == (0 .. size - 1) \ Covered
<1>1. SUFFICES ASSUME LayoutInv PROVE ResumeAtFirstGap /\ ResumeOffset \in 0 .. size
  OBVIOUS
<1>2. size \in Nat
  BY <1>1 DEF LayoutInv, TypeOK
<1>3. CASE state = "none"
  <2>1. size = 0 /\ chunks = {} /\ TypeOK
    BY <1>1, <1>3 DEF LayoutInv, Announced
  <2>2. FirstStop \in Nat /\ \A j \in 0 .. FirstStop - 1 : ~Stops(j)
    BY <1>1, LoopStops
  <2>3. Stops(0)
    BY <2>1 DEF Stops, Present
  <2>4. FirstStop = 0
    BY <2>2, <2>3
  <2>5. ResumeOffset = 0
    BY <1>3, <2>1, <2>4, ReachedSums DEF ResumeOffset
  <2>6. missing = {}
    BY <2>1
  <2>7. QED
    BY <2>1, <2>5, <2>6 DEF ResumeAtFirstGap
<1>4. CASE state # "none"
  <2>1. PICK r \in 0 .. size : r = ResumeOffset
    BY <1>1, <1>4, OffsetOfFirstGap
  <2>2. (\A b \in 0 .. r - 1 : b \in Covered) /\ (r < size => r \notin Covered)
    BY <1>1, <1>4, <2>1, OffsetOfFirstGap
  <2>3. CASE r = size
    <3>1. missing = {}
      BY <1>2, <2>2, <2>3
    <3>2. QED
      BY <2>1, <2>3, <3>1 DEF ResumeAtFirstGap
  <2>4. CASE r < size
    <3>1. r \in missing /\ \A a \in missing : r <= a
      BY <1>2, <2>1, <2>2, <2>4
    <3>2. \A b \in missing : (\A a \in missing : b <= a) => b = r
      BY <1>2, <2>1, <3>1
    <3>3. (CHOOSE b \in missing : \A a \in missing : b <= a) = r
      BY <3>1, <3>2
    <3>4. QED
      BY <2>1, <3>1, <3>3 DEF ResumeAtFirstGap
  <2>5. QED
    BY <1>2, <2>1, <2>3, <2>4
<1>5. QED
  BY <1>3, <1>4

LEMMA Continues == LayoutInv => NeverStuck
<1>1. SUFFICES ASSUME LayoutInv, state = "uploading"
      PROVE  IF ResumeOffset < size
             THEN Accepts(ResumeOffset \div chunkSize, Smaller(chunkSize, size - ResumeOffset))
             ELSE Cardinality(chunks) = ChunkCount /\ chunks # {}
  BY DEF NeverStuck
<1>2. /\ size \in Nat \ {0} /\ chunkSize \in Nat \ {0} /\ BodyLimit \in Nat
      /\ Smaller(size, chunkSize) <= BodyLimit
  BY <1>1, WidthAssumption DEF LayoutInv, TypeOK, Announced
<1>3. PICK r \in Nat : r = ResumeOffset /\ r <= size
  BY <1>1, <1>2, OffsetOfFirstGap
<1>4. (\A b \in 0 .. r - 1 : b \in Covered) /\ (r < size => r \notin Covered)
  BY <1>1, <1>3, OffsetOfFirstGap
<1>5. CASE r < size
  <2>1. PICK i \in Nat : i = r \div chunkSize /\ i * chunkSize <= r /\ r < i * chunkSize + chunkSize
    BY <1>2, Division
  <2>2. PICK from \in Nat : from = i * chunkSize
    BY <1>2
  <2>3. i \notin Present
    BY <1>1, <1>4, <1>5, <2>1, CoveredByIndex
  <2>4. from \notin Covered
    BY <1>1, <1>2, <1>5, <2>1, <2>2, <2>3, CoveredByIndex
  <2>5. from = r
    BY <1>4, <2>1, <2>2, <2>4
  <2>6. ChunkSizeFor(i) = Smaller(size - r, chunkSize) /\ ChunkSizeFor(i) > 0
    BY <1>1, <1>5, <2>2, <2>5, ShareInRange
  <2>7. Smaller(size - r, chunkSize) = Smaller(chunkSize, size - r)
        /\ Smaller(chunkSize, size - r) <= BodyLimit
    BY <1>2, <1>5 DEF Smaller
  <2>8. Body(Smaller(chunkSize, size - r)) = Smaller(chunkSize, size - r)
    BY <1>2, <1>5, <2>7 DEF Body, Smaller
  <2>9. Accepts(r \div chunkSize, Smaller(chunkSize, size - r))
    BY <1>1, <2>1, <2>3, <2>6, <2>7, <2>8 DEF Accepts
  <2>10. QED
    BY <1>3, <1>5, <2>9
<1>6. CASE ~(r < size)
  <2>1. PICK count \in Nat : count = ChunkCount
    BY <1>1, CountOfChunks
  <2>2. ASSUME NEW i \in 0 .. count - 1 PROVE i \in Present
    <3>1. PICK from \in Nat : i \in Nat /\ from = i * chunkSize /\ from < size
      BY <1>1, <1>2, <2>1, CountOfChunks
    <3>2. from \in Covered
      <4>1. r = size
        BY <1>2, <1>3, <1>6
      <4>2. from \in 0 .. r - 1
        BY <3>1, <4>1
      <4>3. QED
        BY <1>4, <4>2
    <3>3. QED
      BY <1>1, <1>2, <3>1, <3>2, CoveredByIndex
  <2>3. \A i \in Present : i \in 0 .. count - 1
    BY <1>1, <2>1, PresentIsFit, CountOfChunks
  <2>4. Present = 0 .. count - 1
    BY <2>2, <2>3
  <2>5. Cardinality(chunks) = count
    BY <1>1, <2>4, Initial, OneChunkPerIndex
  <2>6. 0 * chunkSize < size
    BY <1>2
  <2>7. 0 \in Present
    BY <1>1, <2>1, <2>4, <2>6, CountOfChunks
  <2>8. chunks # {}
    BY <2>7 DEF Present
  <2>9. QED
    BY <1>3, <1>6, <2>1, <2>5, <2>8
<1>7. QED
  BY <1>5, <1>6

----------------------------------------------------------------------------
(* The invariant is inductive *)

LEMMA LayoutInit == Init => LayoutInv
<1>1. SUFFICES ASSUME Init PROVE LayoutInv
  OBVIOUS
<1>. USE <1>1 DEF Init
<1>2. TypeOK /\ Announced
  BY WidthAssumption DEF TypeOK, Announced
<1>3. Covered = {}
  BY DEF Covered
<1>4. IsFiniteSet(chunks) /\ written = Cardinality(Covered)
  BY <1>3, FS_EmptySet
<1>5. QED
  BY <1>2, <1>4 DEF LayoutInv

\* An accepted chunk covers bytes that no chunk covers yet.
LEMMA StoreKeepsLayout ==
  ASSUME LayoutInv, NEW i \in Int, NEW length \in Nat, Fits(i * chunkSize),
         Accepts(i, length), Store(i, length), resumeAt' \in -1 .. MaxInt
  PROVE  LayoutInv'
<1>1. /\ state = "uploading" /\ i \notin Present
      /\ Body(length) > 0 /\ Body(length) = ChunkSizeFor(i)
  BY DEF Accepts
<1>2. size \in Nat \ {0} /\ chunkSize \in Nat \ {0} /\ size + chunkSize - 1 <= MaxInt /\ TypeOK
  BY <1>1 DEF LayoutInv, TypeOK, Announced
<1>3. i \in Nat /\ i * chunkSize < size /\ Wrap(i * chunkSize) = i * chunkSize
  BY <1>1, ShareOnlyInRange
<1>4. PICK from \in Nat, taken \in Nat \ {0} :
        /\ from = i * chunkSize /\ taken = Body(length)
        /\ taken = Smaller(size - from, chunkSize) /\ from + taken <= size
  <2>1. i * chunkSize \in Nat
    BY <1>2, <1>3
  <2>2. Body(length) = Smaller(size - i * chunkSize, chunkSize)
    BY <1>1, <1>3, ShareInRange
  <2>3. QED
    BY <1>2, <1>3, <2>1, <2>2 DEF Smaller
<1>5. PICK new : new = [index |-> i, offset |-> from, size |-> taken] /\ new = Chunk(i, Body(length))
  BY <1>3, <1>4 DEF Chunk
<1>6. /\ chunks' = chunks \cup {new} /\ written' = Wrap(written + taken)
      /\ state' = state /\ size' = size /\ chunkSize' = chunkSize
  BY <1>4, <1>5 DEF Store
<1>7. Bytes(new) = from .. from + taken - 1
  BY <1>5 DEF Bytes
<1>8. Bytes(new) \subseteq 0 .. size - 1
  BY <1>2, <1>4, <1>7
<1>9. Bytes(new) \cap Covered = {}
  <2>1. ASSUME NEW b \in Bytes(new) PROVE b \notin Covered
    <3>1. b \in Nat /\ i * chunkSize <= b /\ b < i * chunkSize + chunkSize /\ b < size
      BY <1>2, <1>4, <1>7, <2>1 DEF Smaller
    <3>2. QED
      BY <1>1, <1>3, <3>1, CoveredByIndex
  <2>2. QED
    BY <2>1
<1>10. Covered' = Covered \cup Bytes(new)
  BY <1>6 DEF Covered, Bytes
<1>11. Covered' \subseteq 0 .. size - 1 /\ IsFiniteSet(Covered) /\ IsFiniteSet(Covered')
  <2>1. IsFiniteSet(0 .. size - 1)
    BY <1>2, FS_Interval
  <2>2. Covered \subseteq 0 .. size - 1 /\ IsFiniteSet(Covered)
    BY CoveredInside
  <2>3. Covered' \subseteq 0 .. size - 1
    BY <1>8, <1>10, <2>2
  <2>4. QED
    BY <2>1, <2>2, <2>3, FS_Subset
<1>12. Cardinality(Covered') = written + taken /\ written \in Nat /\ written + taken <= size
  <2>1. IsFiniteSet(Bytes(new)) /\ Cardinality(Bytes(new)) = taken
    <3>1. from \in Int /\ taken \in Nat
      BY <1>4
    <3>2. IsFiniteSet(from .. from + taken - 1) /\ Cardinality(from .. from + taken - 1) = taken
      BY <3>1, Span
    <3>3. QED
      BY <1>7, <3>2, Zenon
  <2>2. Cardinality(Covered \cap Bytes(new)) = 0
    BY <1>9, FS_EmptySet
  <2>3. Cardinality(Covered') = Cardinality(Covered) + taken - 0
    BY <1>10, <1>11, <2>1, <2>2, FS_Union
  <2>4. written = Cardinality(Covered) /\ written \in Nat
    BY <1>2 DEF LayoutInv, TypeOK
  <2>5. IsFiniteSet(0 .. size - 1) /\ Cardinality(0 .. size - 1) = size
    BY <1>2, Initial
  <2>6. Cardinality(Covered') <= Cardinality(0 .. size - 1)
    BY <1>11, <2>5, FS_Subset
  <2>7. QED
    BY <1>4, <2>3, <2>4, <2>5, <2>6
<1>13. written' = Cardinality(Covered') /\ written' \in 0 .. MaxInt
  <2>1. PICK sum \in Nat : sum = written + taken /\ sum <= MaxInt
    BY <1>2, <1>4, <1>12, WidthAssumption
  <2>2. Wrap(sum) = sum
    BY <2>1, WrapFits, WidthAssumption DEF Fits, MinInt
  <2>3. QED
    BY <1>6, <1>12, <2>1, <2>2
<1>14. i \in MinInt .. MaxInt /\ from \in MinInt .. MaxInt /\ taken \in 1 .. MaxInt
  <2>1. i <= i * chunkSize
    <3>1. CASE i = 0
      BY <1>2, <3>1
    <3>2. CASE i # 0
      <4>1. chunkSize = 1 + (chunkSize - 1) /\ chunkSize - 1 \in Nat
        BY <1>2
      <4>2. i * (chunkSize - 1) >= 0
        BY <1>3, <4>1
      <4>3. i * chunkSize = i + i * (chunkSize - 1)
        BY <1>3, <4>1
      <4>4. QED
        BY <1>3, <1>4, <4>1, <4>2, <4>3
    <3>3. QED
      BY <3>1, <3>2
  <2>2. QED
    BY <1>2, <1>3, <1>4, <2>1, WidthAssumption DEF MinInt, Smaller
<1>15. TypeOK'
  BY <1>2, <1>5, <1>6, <1>13, <1>14 DEF TypeOK
<1>16. Announced'
  BY <1>1, <1>2, <1>6 DEF Announced, LayoutInv, Smaller
<1>17. IsFiniteSet(chunks')
  BY <1>6, FS_AddElement DEF LayoutInv
<1>18. \A c \in chunks' : Fitting(c)'
  <2>1. \A c \in chunks : Fitting(c)'
    BY <1>6 DEF LayoutInv, Fitting
  <2>2. Fitting(new)'
    BY <1>3, <1>4, <1>5, <1>6 DEF Fitting
  <2>3. QED
    BY <1>6, <2>1, <2>2
<1>19. QED
  BY <1>1, <1>6, <1>13, <1>15, <1>16, <1>17, <1>18 DEF LayoutInv

\* What LayoutInv says of the session does not read the answer a client keeps.
LEMMA AnswerKeepsLayout ==
  ASSUME LayoutInv, UNCHANGED session, resumeAt' \in -1 .. MaxInt,
         state = "none" => resumeAt' = resumeAt
  PROVE  LayoutInv'
<1>1. /\ state' = state /\ size' = size /\ chunkSize' = chunkSize
      /\ chunks' = chunks /\ written' = written
  BY DEF session
<1>2. TypeOK' /\ Announced'
  BY <1>1 DEF LayoutInv, TypeOK, Announced
<1>3. Covered' = Covered /\ ChunkCount' = ChunkCount
  BY <1>1 DEF Covered, ChunkCount
<1>4. \A c \in chunks' : Fitting(c)'
  BY <1>1 DEF LayoutInv, Fitting
<1>5. QED
  BY <1>1, <1>2, <1>3, <1>4 DEF LayoutInv

LEMMA LayoutNext == LayoutInv /\ [InRangeNext]_vars => LayoutInv'
<1>1. SUFFICES ASSUME LayoutInv, [InRangeNext]_vars PROVE LayoutInv'
  OBVIOUS
<1>. USE <1>1
<1>2. ASSUME NEW request \in Requests, InRange(request), Create(request) PROVE LayoutInv'
  <2>1. request.size \in 1 .. MaxInt /\ request.chunkSize \in 1 .. MaxInt
    BY RequestAssumption
  <2>2. /\ state = "none" /\ state' = "uploading" /\ chunks' = chunks /\ written' = written
        /\ size' = request.size /\ chunkSize' = request.chunkSize /\ resumeAt' = resumeAt
        /\ chunks = {} /\ TypeOK
    BY <1>2 DEF Create, LayoutInv, Announced
  <2>3. Announced'
    BY <1>2, <2>1, <2>2, WidthAssumption DEF Announced, InRange, Fits
  <2>4. TypeOK'
    BY <2>1, <2>2, WidthAssumption DEF TypeOK
  <2>5. Covered' = Covered
    BY <2>2 DEF Covered
  <2>6. QED
    BY <2>2, <2>3, <2>4, <2>5 DEF LayoutInv
<1>3. ASSUME NEW i \in Indexes, NEW length \in Lengths, Fits(i * chunkSize), UploadChunk(i, length)
      PROVE LayoutInv'
  <2>1. i \in Int /\ length \in Nat
    BY SentAssumption, WidthAssumption DEF MinInt
  <2>2. resumeAt' \in -1 .. MaxInt
    BY <1>3 DEF UploadChunk, LayoutInv, TypeOK
  <2>3. QED
    BY <1>3, <2>1, <2>2, StoreKeepsLayout DEF UploadChunk
<1>4. CASE SessionStatus
  <2>1. size \in 0 .. MaxInt
    BY DEF LayoutInv, TypeOK
  <2>2. resumeAt' \in 0 .. size
    BY <1>4, ResumesAtGap DEF SessionStatus
  <2>3. resumeAt' \in -1 .. MaxInt
    BY <2>1, <2>2, WidthAssumption
  <2>4. QED
    BY <1>4, <2>3, AnswerKeepsLayout DEF SessionStatus
<1>5. CASE ResumeUpload
  <2>. DEFINE i == resumeAt \div chunkSize
              length == Smaller(chunkSize, size - resumeAt)
  <2>1. resumeAt \in 0 .. size - 1 /\ resumeAt' = -1 /\ resumeAt' \in -1 .. MaxInt
    BY <1>5, WidthAssumption DEF ResumeUpload
  <2>2. state # "none" /\ size \in Nat /\ size <= MaxInt /\ chunkSize \in Nat \ {0}
    BY <2>1, WidthAssumption DEF LayoutInv, TypeOK, Announced
  <2>3. CASE Accepts(i, length)
    <3>1. Store(i, length)
      BY <1>5, <2>3 DEF ResumeUpload
    <3>2. PICK at \in Nat : at = resumeAt /\ at < size
      BY <2>1, <2>2
    <3>3. i \in Nat /\ i * chunkSize <= at
      BY <2>2, <3>2, Division
    <3>4. i * chunkSize \in Nat /\ Fits(i * chunkSize)
      BY <2>2, <3>2, <3>3, WidthAssumption DEF Fits, MinInt
    <3>5. length \in Nat
      BY <2>2, <3>2 DEF Smaller
    <3>. HIDE DEF i, length
    <3>6. QED
      BY <2>1, <2>3, <3>1, <3>3, <3>4, <3>5, StoreKeepsLayout
  <2>4. CASE ~Accepts(i, length)
    <3>1. UNCHANGED session
      BY <1>5, <2>4 DEF ResumeUpload
    <3>2. QED
      BY <2>1, <2>2, <3>1, AnswerKeepsLayout
  <2>5. QED
    BY <2>3, <2>4
<1>6. CASE Complete
  <2>1. /\ state = "uploading" /\ state' = "committed"
        /\ Cardinality(chunks) = ChunkCount /\ chunks # {}
        /\ UNCHANGED <<size, chunkSize, chunks, written, resumeAt>>
    BY <1>6 DEF Complete
  <2>2. TypeOK' /\ Announced'
    BY <2>1 DEF LayoutInv, TypeOK, Announced
  <2>3. Covered' = Covered /\ ChunkCount' = ChunkCount
    BY <2>1 DEF Covered, ChunkCount
  <2>4. \A c \in chunks' : Fitting(c)'
    BY <2>1 DEF LayoutInv, Fitting
  <2>5. QED
    BY <2>1, <2>2, <2>3, <2>4 DEF LayoutInv
<1>7. CASE UNCHANGED vars
  <2>1. UNCHANGED session /\ resumeAt' = resumeAt
    BY <1>7 DEF vars
  <2>2. resumeAt' \in -1 .. MaxInt
    BY <2>1 DEF LayoutInv, TypeOK
  <2>3. QED
    BY <2>1, <2>2, AnswerKeepsLayout
<1>8. QED
  BY <1>2, <1>3, <1>4, <1>5, <1>6, <1>7 DEF InRangeNext

LEMMA LayoutHolds == InRangeSpec => []LayoutInv
BY LayoutInit, LayoutNext, PTL DEF InRangeSpec

----------------------------------------------------------------------------

\* No count and no offset leaves the integers, for clients within the range.
THEOREM TypeCorrect == InRangeSpec => []TypeOK
<1>1. LayoutInv => TypeOK
  BY DEF LayoutInv
<1>2. QED
  BY <1>1, LayoutHolds, PTL

\* The content Complete assembles has no gap, no overlap and the announced
\* size, in whatever order and however often the chunks were sent.
THEOREM CommittedContentTiles == InRangeSpec => []CommittedTiles
BY Tiles, LayoutHolds, PTL

\* Written is the number of bytes that have arrived, each counted once.
THEOREM WrittenIsExact == InRangeSpec => []WrittenIsCovered
<1>1. LayoutInv => WrittenIsCovered
  BY CoveredInside DEF LayoutInv, WrittenIsCovered
<1>2. QED
  BY <1>1, LayoutHolds, PTL

\* ResumeOffset answers the first byte that is missing.
THEOREM ResumeIsFirstGap == InRangeSpec => []ResumeAtFirstGap
<1>1. LayoutInv => ResumeAtFirstGap
  BY ResumesAtGap
<1>2. QED
  BY <1>1, LayoutHolds, PTL

\* A client that follows ResumeOffset always has a step it can take: the part
\* of ResumingFinishes that is a safety property.
THEOREM ResumingIsNeverStuck == InRangeSpec => []NeverStuck
BY Continues, LayoutHolds, PTL
=============================================================================
