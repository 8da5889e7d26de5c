------------------------ MODULE BuddyAllocatorProofs ------------------------
(***************************************************************************)
(* Proofs about the buddy allocator, for any clients, requests and orders, *)
(* and for 2 to 32 blocks.  The loops leave a heap that is consistent but  *)
(* for the block they are at (Around), and a join of unequal blocks leaves *)
(* damage that no later step of the call repairs (Damaged).                *)
(***************************************************************************)
EXTENDS BuddyAllocator, SequenceTheorems, FiniteSetTheorems,
        WellFoundedInduction, TLAPS

-----------------------------------------------------------------------------
(* Powers of two.                                                          *)

(* A nonempty set of numbers has a least one.                              *)
LEMMA LeastNumber ==
    ASSUME NEW S \in SUBSET Nat, S # {}
    PROVE  \E i \in S : \A j \in S : i <= j
  <1>1. PICK i \in S : \A j \in S : ~ (<<j, i>> \in OpToRel(<, Nat))
    BY WFMin, NatLessThanWellFounded
  <1>2. \A j \in S : ~ (j < i)
    BY <1>1 DEF OpToRel
  <1>. QED  BY <1>2

(* A set of numbers that has with a number its successor, and 0, has all.  *)
LEMMA AllNumbers ==
    ASSUME NEW S, 0 \in S, \A n \in Nat : n \in S => n + 1 \in S
    PROVE  \A n \in Nat : n \in S
  <1>. DEFINE Bad == {n \in Nat : n \notin S}
  <1>. SUFFICES ASSUME Bad # {} PROVE FALSE
    OBVIOUS
  <1>1. PICK n \in Bad : \A j \in Bad : n <= j
    <2>1. Bad \in SUBSET Nat
      OBVIOUS
    <2>. HIDE DEF Bad
    <2>. QED  BY <2>1, LeastNumber
  <1>2. n \in Nat /\ n # 0
    OBVIOUS
  <1>3. n - 1 \in Nat /\ ~ (n <= n - 1) /\ (n - 1) + 1 = n
    BY <1>2
  <1>4. n - 1 \in S
    BY <1>1, <1>3
  <1>. QED  BY <1>3, <1>4

(* The defining equation of pow2, up to n.                                 *)
Doubles(n, f) ==
    f = [i \in 0..n |-> IF i = 0 THEN 1 ELSE 2 * f[i - 1]]

(* The equation has a solution up to every n.                              *)
LEMMA DoublesExist == \A n \in Nat : \E f : Doubles(n, f)
  <1>. DEFINE S == {n \in Nat : \E f : Doubles(n, f)}
  <1>1. 0 \in S
    <2>1. Doubles(0, [i \in 0..0 |-> 1])
      BY DEF Doubles
    <2>. QED  BY <2>1
  <1>2. ASSUME NEW n \in Nat, n \in S PROVE n + 1 \in S
    <2>1. PICK f : Doubles(n, f)
      BY <1>2
    <2>. DEFINE g == [i \in 0..(n + 1) |-> IF i = n + 1 THEN 2 * f[n] ELSE f[i]]
    <2>2. ASSUME NEW i \in 0..(n + 1)
          PROVE  g[i] = IF i = 0 THEN 1 ELSE 2 * g[i - 1]
      <3>1. CASE i = n + 1
        <4>1. i # 0 /\ i - 1 = n /\ n \in 0..(n + 1) /\ n # n + 1
          BY <3>1
        <4>. QED  BY <3>1, <4>1
      <3>2. CASE i # n + 1
        <4>1. i \in 0..n /\ (i # 0 => i - 1 \in 0..(n + 1) /\ i - 1 # n + 1)
          BY <3>2
        <4>2. f[i] = IF i = 0 THEN 1 ELSE 2 * f[i - 1]
          BY <4>1, <2>1 DEF Doubles
        <4>. QED  BY <3>2, <4>1, <4>2
      <3>. QED  BY <3>1, <3>2
    <2>3. Doubles(n + 1, g)
      <3>1. g = [i \in 0..(n + 1) |-> g[i]]
        OBVIOUS
      <3>. HIDE DEF g
      <3>. QED  BY <3>1, <2>2 DEF Doubles
    <2>. QED  BY <2>3
  <1>. HIDE DEF S
  <1>3. \A n \in Nat : n \in S
    BY <1>1, <1>2, AllNumbers
  <1>. QED  BY <1>3 DEF S

(* The solutions agree, so together they are one for all numbers.          *)
LEMMA DoublesAgree ==
    ASSUME NEW m \in Nat, NEW n \in Nat, NEW f, NEW g, Doubles(m, f), Doubles(n, g)
    PROVE  \A i \in Nat : i <= m /\ i <= n => f[i] = g[i]
  <1>. DEFINE S == {i \in Nat : i <= m /\ i <= n => f[i] = g[i]}
  <1>1. /\ \A i \in 0..m : f[i] = IF i = 0 THEN 1 ELSE 2 * f[i - 1]
        /\ \A i \in 0..n : g[i] = IF i = 0 THEN 1 ELSE 2 * g[i - 1]
    BY DEF Doubles
  <1>2. 0 \in S
    BY <1>1
  <1>3. ASSUME NEW i \in Nat, i \in S PROVE i + 1 \in S
    <2>. SUFFICES ASSUME i + 1 <= m, i + 1 <= n PROVE f[i + 1] = g[i + 1]
      OBVIOUS
    <2>1. i + 1 \in 0..m /\ i + 1 \in 0..n /\ i + 1 # 0 /\ (i + 1) - 1 = i
      OBVIOUS
    <2>2. f[i] = g[i]
      BY <1>3
    <2>3. f[i + 1] = 2 * f[i] /\ g[i + 1] = 2 * g[i]
      BY <1>1, <2>1
    <2>. QED  BY <2>2, <2>3
  <1>. HIDE DEF S
  <1>4. \A i \in Nat : i \in S
    BY <1>2, <1>3, AllNumbers
  <1>. QED  BY <1>4 DEF S

(* The equation of pow2.                                                   *)
IsPow2(f) == f = [i \in Nat |-> IF i = 0 THEN 1 ELSE 2 * f[i - 1]]

(* pow2 is defined.                                                        *)
LEMMA Pow2Exists == \E f : IsPow2(f)
  <1>. DEFINE sol(n) == CHOOSE f : Doubles(n, f)
              g == [i \in Nat |-> sol(i)[i]]
  <1>1. \A n \in Nat : Doubles(n, sol(n))
    BY DoublesExist
  <1>2. ASSUME NEW i \in Nat PROVE g[i] = IF i = 0 THEN 1 ELSE 2 * g[i - 1]
    <2>1. \A k \in 0..i : sol(i)[k] = IF k = 0 THEN 1 ELSE 2 * sol(i)[k - 1]
      <3>1. Doubles(i, sol(i))
        BY <1>1
      <3>. HIDE DEF sol
      <3>. QED  BY <3>1 DEF Doubles
    <2>. HIDE DEF sol
    <2>2. CASE i = 0
      BY <2>1, <2>2
    <2>3. CASE i # 0
      <3>1. i - 1 \in Nat /\ i - 1 <= i /\ i - 1 <= i - 1 /\ i \in 0..i
        BY <2>3
      <3>2. Doubles(i, sol(i)) /\ Doubles(i - 1, sol(i - 1))
        BY <3>1, <1>1
      <3>3. sol(i)[i - 1] = sol(i - 1)[i - 1]
        BY <3>1, <3>2, DoublesAgree
      <3>. QED  BY <2>1, <2>3, <3>1, <3>3
    <2>. QED  BY <2>2, <2>3
  <1>3. IsPow2(g)
    <2>1. g = [i \in Nat |-> g[i]]
      OBVIOUS
    <2>. HIDE DEF g
    <2>. QED  BY <2>1, <1>2 DEF IsPow2
  <1>. QED  BY <1>3

(* pow2(i) doubles with every i.                                           *)
LEMMA Pow2Steps ==
    /\ pow2[0] = 1
    /\ \A n \in Nat : pow2[n + 1] = 2 * pow2[n]
  <1>1. pow2 = CHOOSE f : IsPow2(f)
    BY DEF pow2, IsPow2
  <1>2. IsPow2(pow2)
    BY <1>1, Pow2Exists
  <1>3. \A i \in Nat : pow2[i] = IF i = 0 THEN 1 ELSE 2 * pow2[i - 1]
    BY <1>2 DEF IsPow2
  <1>4. ASSUME NEW n \in Nat PROVE n + 1 \in Nat /\ n + 1 # 0 /\ (n + 1) - 1 = n
    OBVIOUS
  <1>. QED  BY <1>3, <1>4

(* A block has at least one unit.                                          *)
LEMMA Pow2Type == \A n \in Nat : pow2[n] \in Nat /\ pow2[n] >= 1
  <1>. DEFINE S == {n \in Nat : pow2[n] \in Nat /\ pow2[n] >= 1}
  <1>1. 0 \in S
    BY Pow2Steps
  <1>2. ASSUME NEW n \in Nat, n \in S PROVE n + 1 \in S
    BY <1>2, Pow2Steps
  <1>. HIDE DEF S
  <1>3. \A n \in Nat : n \in S
    BY <1>1, <1>2, AllNumbers
  <1>. QED  BY <1>3 DEF S

-----------------------------------------------------------------------------
(* Alignment.                                                              *)

(* addr is a multiple of the size of a block of the order.                 *)
Aligned(addr, order) == addr % pow2[order] = 0

(* A multiple of a size divides by it.                                     *)
LEMMA Times ==
    ASSUME NEW k \in Nat, NEW P \in Nat, P >= 1
    PROVE  k * P \in Nat /\ (k * P) % P = 0 /\ (k * P) \div P = k
  OBVIOUS

(* Two multiples of a size are as far apart as the size.                   *)
LEMMA Multiples ==
    ASSUME NEW P \in Nat, P >= 1, NEW x \in Nat, NEW y \in Nat,
           x % P = 0, y % P = 0
    PROVE  /\ x < y => x + P <= y
           /\ (x + P) % P = 0
           /\ x > 0 => x - P >= 0 /\ (x - P) % P = 0
  <1>. DEFINE k == x \div P
              m == y \div P
  <1>1. k \in Nat /\ m \in Nat /\ x = k * P /\ y = m * P
    OBVIOUS
  <1>. HIDE DEF k, m
  <1>2. x < y => x + P <= y
    <2>. SUFFICES ASSUME x < y PROVE x + P <= y
      OBVIOUS
    <2>1. k < m
      BY <1>1
    <2>2. k * P + P <= m * P
      BY <1>1, <2>1
    <2>. QED  BY <1>1, <2>2
  <1>3. (x + P) % P = 0
    <2>1. x + P = (k + 1) * P
      BY <1>1
    <2>2. ((k + 1) * P) % P = 0
      BY <1>1
    <2>. QED  BY <2>1, <2>2
  <1>4. ASSUME x > 0 PROVE x - P >= 0 /\ (x - P) % P = 0
    <2>1. k >= 1
      BY <1>1, <1>4
    <2>2. x - P = (k - 1) * P /\ k - 1 \in Nat
      BY <1>1, <2>1
    <2>3. ((k - 1) * P) % P = 0 /\ (k - 1) * P >= 0
      BY <2>2
    <2>. QED  BY <2>2, <2>3
  <1>. QED  BY <1>2, <1>3, <1>4

(* What is aligned to an order is aligned to the orders below.             *)
LEMMA AlignedDown ==
    ASSUME NEW a \in Nat, NEW i \in Nat
    PROVE  \A j \in Nat : i <= j /\ Aligned(a, j) => Aligned(a, i)
  <1>. DEFINE S == {n \in Nat : Aligned(a, i + n) => Aligned(a, i)}
  <1>1. 0 \in S
    OBVIOUS
  <1>2. ASSUME NEW n \in Nat, n \in S PROVE n + 1 \in S
    <2>1. pow2[(i + n) + 1] = 2 * pow2[i + n] /\ pow2[i + n] \in Nat
          /\ pow2[i + n] >= 1
      BY Pow2Steps, Pow2Type
    <2>. DEFINE P == pow2[i + n]
    <2>2. ASSUME a % (2 * P) = 0 PROVE a % P = 0
      <3>. DEFINE k == a \div (2 * P)
      <3>1. P \in Nat /\ P >= 1 /\ 2 * P \in Nat /\ 2 * P >= 1
        BY <2>1
      <3>. HIDE DEF P
      <3>2. k \in Nat /\ a = k * (2 * P)
        BY <2>2, <3>1
      <3>. HIDE DEF k
      <3>3. a = (2 * k) * P
        BY <3>1, <3>2
      <3>4. ((2 * k) * P) % P = 0
        BY <3>1, <3>2
      <3>. QED  BY <3>3, <3>4
    <2>3. (i + n) + 1 = i + (n + 1)
      OBVIOUS
    <2>4. Aligned(a, i + (n + 1)) => Aligned(a, i + n)
      BY <2>1, <2>2, <2>3 DEF Aligned
    <2>. QED  BY <1>2, <2>4
  <1>. HIDE DEF S
  <1>3. \A n \in Nat : n \in S
    BY <1>1, <1>2, AllNumbers
  <1>4. ASSUME NEW j \in Nat, i <= j, Aligned(a, j) PROVE Aligned(a, i)
    <2>1. j - i \in Nat /\ i + (j - i) = j
      BY <1>4
    <2>. QED  BY <1>3, <1>4, <2>1 DEF S
  <1>. QED  BY <1>4

(* Blocks of two orders are apart, or the smaller is in the larger.        *)
LEMMA Nested ==
    ASSUME NEW x \in Nat, NEW i \in Nat, Aligned(x, i),
           NEW y \in Nat, NEW j \in Nat, Aligned(y, j), i <= j
    PROVE  /\ y <= x /\ x < y + pow2[j] => x + pow2[i] <= y + pow2[j]
           /\ x <= y /\ y < x + pow2[i] => x = y
           /\ x < y => x + pow2[i] <= y
  <1>1. Aligned(y, i) /\ Aligned(y + pow2[j], i) /\ y + pow2[j] \in Nat
    <2>1. pow2[j] \in Nat /\ pow2[j] >= 1
      BY Pow2Type
    <2>2. y + pow2[j] \in Nat /\ Aligned(y + pow2[j], j)
      <3>1. y % pow2[j] = 0
        BY DEF Aligned
      <3>2. (y + pow2[j]) % pow2[j] = 0
        BY <2>1, <3>1, Multiples
      <3>. QED  BY <2>1, <3>2 DEF Aligned
    <2>. QED  BY <2>2, AlignedDown
  <1>2. pow2[i] \in Nat /\ pow2[i] >= 1
    BY Pow2Type
  <1>3. x < y => x + pow2[i] <= y
    BY <1>1, <1>2, Multiples DEF Aligned
  <1>4. x < y + pow2[j] => x + pow2[i] <= y + pow2[j]
    BY <1>1, <1>2, Multiples DEF Aligned
  <1>. QED  BY <1>2, <1>3, <1>4

(* Two buddies: the lower one and the higher one.                          *)
LEMMA BuddyFacts ==
    ASSUME NEW a \in Nat, NEW o \in Nat, Aligned(a, o)
    PROVE  LET b == Buddy(a, o)
           IN  /\ b \in Nat /\ b # a /\ Aligned(b, o) /\ Buddy(b, o) = a
               /\ \/ b = a + pow2[o] /\ Aligned(a, o + 1)
                  \/ a = b + pow2[o] /\ Aligned(b, o + 1)
  <1>. DEFINE P == pow2[o]
              k == a \div P
              b == Buddy(a, o)
  <1>1. P \in Nat /\ P >= 1 /\ pow2[o + 1] = 2 * P
    BY Pow2Type, Pow2Steps
  <1>2. a % P = 0
    BY DEF Aligned
  <1>3. b = IF k % 2 = 0 THEN a + P ELSE a - P
    BY DEF Buddy
  <1>3a. \A x : Buddy(x, o) = IF (x \div P) % 2 = 0 THEN x + P ELSE x - P
    BY DEF Buddy
  <1>4. \A x : Aligned(x, o) <=> x % P = 0
    BY DEF Aligned
  <1>5. \A x : Aligned(x, o + 1) <=> x % (2 * P) = 0
    BY <1>1 DEF Aligned
  <1>. HIDE DEF P, b
  <1>6. k \in Nat /\ a = k * P
    BY <1>1, <1>2
  <1>. HIDE DEF k
  <1>7. CASE k % 2 = 0
    <2>1. PICK m \in Nat : k = 2 * m
      BY <1>6, <1>7
    <2>2. a = m * (2 * P)
      BY <1>1, <1>6, <2>1
    <2>3. (m * (2 * P)) % (2 * P) = 0
      <3>1. 2 * P \in Nat /\ 2 * P >= 1
        BY <1>1
      <3>. QED  BY <3>1, Times
    <2>4. Aligned(a, o + 1)
      BY <1>5, <2>2, <2>3
    <2>5. b = a + P
      BY <1>3, <1>7
    <2>6. b = (k + 1) * P
      BY <1>1, <1>6, <2>5
    <2>7. ((k + 1) * P) % P = 0 /\ ((k + 1) * P) \div P = k + 1
      BY <1>1, <1>6
    <2>8. (k + 1) % 2 # 0
      BY <2>1
    <2>9. Buddy(b, o) = b - P
      BY <1>3a, <2>6, <2>7, <2>8
    <2>10. b \in Nat /\ b # a /\ b - P = a
      BY <1>1, <2>5
    <2>. QED  BY <1>4, <2>4, <2>5, <2>6, <2>7, <2>9, <2>10 DEF b, P
  <1>8. CASE k % 2 # 0
    <2>1. PICK m \in Nat : k = 2 * m + 1
      <3>1. k % 2 = 1 /\ k \in Nat
        BY <1>6, <1>8
      <3>2. k = 2 * (k \div 2) + 1 /\ k \div 2 \in Nat
        BY <3>1
      <3>. QED  BY <3>2
    <2>2. b = a - P
      BY <1>3, <1>8
    <2>3. b = (2 * m) * P
      BY <1>1, <1>6, <2>1, <2>2
    <2>4. ((2 * m) * P) % P = 0 /\ ((2 * m) * P) \div P = 2 * m
          /\ (2 * m) * P \in Nat
      BY <1>1
    <2>5. (2 * m) * P = m * (2 * P) /\ (m * (2 * P)) % (2 * P) = 0
      <3>1. 2 * P \in Nat /\ 2 * P >= 1 /\ (2 * m) * P = m * (2 * P)
        BY <1>1
      <3>. QED  BY <3>1, Times
    <2>6. Aligned(b, o + 1)
      BY <1>5, <2>3, <2>5
    <2>7. Buddy(b, o) = b + P
      <3>1. (2 * m) % 2 = 0
        OBVIOUS
      <3>. QED  BY <1>3a, <2>3, <2>4, <3>1
    <2>8. b \in Nat /\ b # a /\ b + P = a
      BY <1>1, <2>2, <2>3, <2>4
    <2>. QED  BY <1>4, <2>3, <2>4, <2>6, <2>7, <2>8 DEF b, P
  <1>. QED  BY <1>7, <1>8

-----------------------------------------------------------------------------
(* The headers.                                                            *)

(* The heap has an even number of blocks of the largest order.             *)
LEMMA UnitsFacts ==
    /\ Units \in Nat /\ Units >= 1
    /\ \A o \in Orders : o \in Nat /\ Aligned(Units, o) /\ Aligned(Units, o + 1)
  <1>1. PICK k \in 1..5 : Blocks = pow2[k]
    BY SizesAssumption
  <1>2. MAX_ORDER \in Nat
    BY SizesAssumption
  <1>. DEFINE B == pow2[k - 1]
              P == pow2[MAX_ORDER]
  <1>3. k - 1 \in Nat /\ (k - 1) + 1 = k
    OBVIOUS
  <1>4. B \in Nat /\ B >= 1 /\ Blocks = 2 * B
    BY <1>1, <1>3, Pow2Steps, Pow2Type
  <1>5. P \in Nat /\ P >= 1 /\ pow2[MAX_ORDER + 1] = 2 * P
    BY <1>2, Pow2Steps, Pow2Type
  <1>6. Units = Blocks * P
    BY DEF Units
  <1>. HIDE DEF B, P
  <1>7. Units = B * (2 * P) /\ 2 * P \in Nat /\ 2 * P >= 1
    BY <1>4, <1>5, <1>6
  <1>8. Units \in Nat /\ Units % (2 * P) = 0
    BY <1>4, <1>7, Times
  <1>9. Units >= 1
    <2>1. Units = (B * 2) * P /\ (B * 2) >= 1 /\ B * 2 \in Nat
      BY <1>4, <1>5, <1>7
    <2>. QED  BY <1>5, <2>1
  <1>10. Aligned(Units, MAX_ORDER + 1) /\ MAX_ORDER + 1 \in Nat
    BY <1>2, <1>5, <1>8 DEF Aligned
  <1>11. ASSUME NEW o \in Orders
         PROVE  o \in Nat /\ Aligned(Units, o) /\ Aligned(Units, o + 1)
    <2>1. o \in Nat /\ o + 1 \in Nat /\ o <= MAX_ORDER + 1 /\ o + 1 <= MAX_ORDER + 1
      BY <1>2 DEF Orders
    <2>2. Aligned(Units, o)
      BY <1>8, <1>10, <2>1, AlignedDown
    <2>3. Aligned(Units, o + 1)
      BY <1>8, <1>10, <2>1, AlignedDown
    <2>. QED  BY <2>1, <2>2, <2>3
  <1>. QED  BY <1>8, <1>9, <1>11

(* A table of headers: the blocks are in the heap, and its start is one.   *)
Headers(M) ==
    /\ DOMAIN M \subseteq 0..(Units - 1) /\ 0 \in DOMAIN M
    /\ M \in [DOMAIN M -> [order : Nat, is_free : BOOLEAN,
                           next : Int, prev : Int]]

(* The points of the block at addr.                                        *)
Covers(M, addr, x) == addr <= x /\ x < addr + pow2[M[addr].order]

(* The fields of a header, and the block it is of.                         *)
LEMMA HeaderFields ==
    ASSUME NEW M, Headers(M), NEW a \in DOMAIN M
    PROVE  /\ a \in Nat /\ a < Units
           /\ M[a].order \in Nat /\ M[a].is_free \in BOOLEAN
           /\ M[a].next \in Int /\ M[a].prev \in Int
           /\ pow2[M[a].order] \in Nat /\ pow2[M[a].order] >= 1
           /\ Covers(M, a, a)
  <1>1. M[a] \in [order : Nat, is_free : BOOLEAN, next : Int, prev : Int]
    BY DEF Headers
  <1>2. a \in Nat /\ a < Units
    BY UnitsFacts DEF Headers
  <1>3. pow2[M[a].order] \in Nat /\ pow2[M[a].order] >= 1
    BY <1>1, Pow2Type
  <1>4. M[a].order \in Nat /\ M[a].is_free \in BOOLEAN
    BY <1>1
  <1>5. M[a].next \in Int /\ M[a].prev \in Int
    BY <1>1
  <1>. QED  BY <1>2, <1>3, <1>4, <1>5 DEF Covers

(* What Tiles says of one block.                                           *)
Placed(M, a) ==
    LET end == a + pow2[M[a].order]
    IN  /\ Aligned(a, M[a].order)
        /\ M[a].next = IF end = Units THEN NULL ELSE end
        /\ end # Units => end \in DOMAIN M /\ M[end].prev = a
        /\ \A b \in DOMAIN M \ {a} : ~ Covers(M, a, b)

(* Tiles, block by block.                                                  *)
LEMMA TilesPlaced ==
    ASSUME NEW M, Headers(M)
    PROVE  Tiles(M) <=> \A a \in DOMAIN M : Placed(M, a)
  <1>1. ASSUME NEW a \in DOMAIN M, NEW b \in DOMAIN M
        PROVE  b \in Span(M, a) <=> Covers(M, a, b)
    <2>1. a \in Nat /\ b \in Nat /\ pow2[M[a].order] \in Nat
      BY HeaderFields
    <2>. QED  BY <2>1 DEF Span, Covers
  <1>. QED  BY <1>1 DEF Tiles, Placed, Aligned

(* Every point of the heap is in a block.                                  *)
LEMMA Covered ==
    ASSUME NEW M, Headers(M), Tiles(M), NEW x \in Nat, x < Units
    PROVE  \E a \in DOMAIN M : Covers(M, a, x)
  <1>. DEFINE S == {n \in Nat : \E a \in DOMAIN M : n = x - a}
  <1>1. x - 0 \in S
    BY DEF Headers
  <1>2. PICK n \in S : \A j \in S : n <= j
    <2>1. S \in SUBSET Nat /\ S # {}
      BY <1>1
    <2>. HIDE DEF S
    <2>. QED  BY <2>1, LeastNumber
  <1>3. PICK a \in DOMAIN M : n = x - a
    OBVIOUS
  <1>4. a \in Nat /\ pow2[M[a].order] \in Nat /\ pow2[M[a].order] >= 1
    BY HeaderFields
  <1>5. a <= x
    BY <1>3, <1>4
  <1>6. CASE x < a + pow2[M[a].order]
    BY <1>5, <1>6 DEF Covers
  <1>7. CASE ~ (x < a + pow2[M[a].order])
    <2>. DEFINE end == a + pow2[M[a].order]
    <2>1. end # Units /\ end <= x /\ end \in Nat
      BY <1>4, <1>7, UnitsFacts
    <2>2. end \in DOMAIN M
      BY <2>1, TilesPlaced DEF Placed
    <2>3. x - end \in S
      BY <2>1, <2>2
    <2>4. n <= x - end
      BY <1>2, <2>3
    <2>. QED  BY <1>3, <1>4, <2>1, <2>4
  <1>. QED  BY <1>6, <1>7

(* The buddies at an order are the halves of a block of the next order,    *)
(* which the heap has.                                                     *)
Lower(a, b) == IF b > a THEN a ELSE b
Higher(a, b) == IF b > a THEN b ELSE a

(* Both buddies, and the block they are the halves of, are in the heap.    *)
LEMMA BuddyInHeap ==
    ASSUME NEW a \in Nat, a < Units, NEW o \in Orders, Aligned(a, o)
    PROVE  LET b == Buddy(a, o)
               lo == Lower(a, b)
           IN  /\ b \in Nat /\ b # a /\ b < Units
               /\ Aligned(b, o) /\ Buddy(b, o) = a
               /\ lo \in Nat /\ Higher(a, b) = lo + pow2[o]
               /\ Aligned(lo, o + 1) /\ pow2[o + 1] = 2 * pow2[o]
               /\ lo + pow2[o + 1] <= Units
               /\ pow2[o] \in Nat /\ pow2[o] >= 1
  <1>. DEFINE b == Buddy(a, o)
              lo == Lower(a, b)
  <1>1. /\ b \in Nat /\ b # a /\ Aligned(b, o) /\ Buddy(b, o) = a
        /\ \/ b = a + pow2[o] /\ Aligned(a, o + 1)
           \/ a = b + pow2[o] /\ Aligned(b, o + 1)
    BY UnitsFacts, BuddyFacts
  <1>2. o \in Nat /\ o + 1 \in Nat /\ Aligned(Units, o + 1) /\ Units \in Nat
    BY UnitsFacts
  <1>3. pow2[o] \in Nat /\ pow2[o] >= 1 /\ pow2[o + 1] = 2 * pow2[o]
    BY <1>2, Pow2Type, Pow2Steps
  <1>. HIDE DEF b
  <1>4. lo \in Nat /\ Higher(a, b) = lo + pow2[o] /\ Aligned(lo, o + 1) /\ lo <= a
    BY <1>1, <1>3 DEF Lower, Higher
  <1>. HIDE DEF lo
  <1>5. lo < Units
    BY <1>4, <1>2
  <1>6. lo + pow2[o + 1] <= Units
    BY <1>2, <1>4, <1>5, Nested
  <1>7. b < Units
    BY <1>1, <1>2, <1>3, <1>4, <1>6 DEF Higher, Lower, lo
  <1>. QED  BY <1>1, <1>3, <1>4, <1>6, <1>7 DEF b, lo

(* The buddy of a block, at the block's order or above, is a block, of at  *)
(* most that order.                                                        *)
LEMMA BuddyIsBlock ==
    ASSUME NEW M, Headers(M), Tiles(M), NEW a \in DOMAIN M,
           NEW o \in Orders, M[a].order <= o, Aligned(a, o)
    PROVE  Buddy(a, o) \in DOMAIN M /\ M[Buddy(a, o)].order <= o
  <1>. DEFINE b == Buddy(a, o)
              lo == Lower(a, b)
  <1>1. a \in Nat /\ a < Units /\ M[a].order \in Nat
    BY HeaderFields
  <1>2. /\ b \in Nat /\ b # a /\ b < Units /\ Aligned(b, o)
        /\ lo \in Nat /\ Higher(a, b) = lo + pow2[o]
        /\ Aligned(lo, o + 1) /\ pow2[o + 1] = 2 * pow2[o]
        /\ pow2[o] \in Nat /\ pow2[o] >= 1
    BY <1>1, BuddyInHeap
  <1>3. o \in Nat /\ o + 1 \in Nat
    BY UnitsFacts
  <1>. HIDE DEF b
  <1>4. PICK c \in DOMAIN M : Covers(M, c, b)
    BY <1>2, Covered
  <1>. DEFINE q == M[c].order
  <1>5. c \in Nat /\ q \in Nat /\ c <= b /\ b < c + pow2[q] /\ Aligned(c, q)
        /\ pow2[q] \in Nat
    BY <1>4, HeaderFields, TilesPlaced DEF Covers, Placed
  <1>6. CASE q <= o
    <2>1. c = b
      BY <1>2, <1>3, <1>5, <1>6, Nested
    <2>. QED  BY <1>6, <2>1 DEF b
  <1>7. CASE o < q
    <2>. HIDE DEF q
    <2>0. o + 1 <= q
      BY <1>3, <1>5, <1>7
    <2>1. lo < c => lo + pow2[o + 1] <= c
      BY <1>2, <1>3, <1>5, <2>0, Nested
    <2>2. c <= lo /\ lo < c + pow2[q] => lo + pow2[o + 1] <= c + pow2[q]
      BY <1>2, <1>3, <1>5, <2>0, Nested
    <2>3. (a = lo /\ b = lo + pow2[o]) \/ (b = lo /\ a = lo + pow2[o])
      BY <1>1, <1>2 DEF Higher, Lower
    <2>. HIDE DEF lo
    <2>4. c <= lo
      BY <1>2, <1>5, <2>1, <2>3
    <2>5. c <= a /\ a < c + pow2[q]
      BY <1>1, <1>2, <1>5, <2>2, <2>3, <2>4
    <2>6. a = c
      BY <2>5, TilesPlaced DEF Placed, Covers, q
    <2>. QED  BY <1>1, <1>3, <1>7, <2>6 DEF q
  <1>. QED  BY <1>3, <1>5, <1>6, <1>7

-----------------------------------------------------------------------------
(* The free lists.                                                         *)

(* No address twice, and the lower ones first.                             *)
Sorted(l) == \A i, j \in 1..Len(l) : i < j => l[i] < l[j]

(* The least element.                                                      *)
LEMMA MinFacts ==
    ASSUME NEW I \in SUBSET Nat, I # {}
    PROVE  Min(I) \in I /\ \A i \in I : Min(I) <= i
  <1>1. \E x \in I : \A y \in I : x <= y
    BY LeastNumber
  <1>. QED  BY <1>1 DEF Min

(* The bounds split a list into less, equal and greater addresses.         *)
LEMMA BoundFacts ==
    ASSUME NEW l \in Seq(Nat), NEW a \in Nat
    PROVE  /\ lower_bound(l, a) \in 1..(Len(l) + 1)
           /\ \A i \in 1..Len(l) : i < lower_bound(l, a) => l[i] < a
           /\ lower_bound(l, a) <= Len(l) => l[lower_bound(l, a)] >= a
           /\ upper_bound(l, a) \in 1..(Len(l) + 1)
           /\ \A i \in 1..Len(l) : i < upper_bound(l, a) => l[i] <= a
           /\ upper_bound(l, a) <= Len(l) => l[upper_bound(l, a)] > a
  <1>. DEFINE I == {i \in 1..Len(l) : l[i] >= a} \cup {Len(l) + 1}
              J == {i \in 1..Len(l) : l[i] > a} \cup {Len(l) + 1}
              k == Min(I)
              m == Min(J)
  <1>1. Len(l) \in Nat /\ \A i \in 1..Len(l) : l[i] \in Nat
    OBVIOUS
  <1>2. I \in SUBSET Nat /\ I # {} /\ J \in SUBSET Nat /\ J # {}
    BY <1>1
  <1>3. k \in I /\ (\A i \in I : k <= i) /\ m \in J /\ \A i \in J : m <= i
    <2>. HIDE DEF I, J
    <2>. QED  BY <1>2, MinFacts
  <1>4. lower_bound(l, a) = k /\ upper_bound(l, a) = m
    BY DEF lower_bound, upper_bound
  <1>. HIDE DEF k, m
  <1>5. k \in 1..(Len(l) + 1) /\ m \in 1..(Len(l) + 1)
    BY <1>1, <1>3
  <1>6. ASSUME NEW i \in 1..Len(l), i < k PROVE l[i] < a
    <2>1. i \notin I
      <3>. HIDE DEF I
      <3>. QED  BY <1>1, <1>3, <1>5, <1>6
    <2>. QED  BY <1>1, <2>1
  <1>7. ASSUME NEW i \in 1..Len(l), i < m PROVE l[i] <= a
    <2>1. i \notin J
      <3>. HIDE DEF J
      <3>. QED  BY <1>1, <1>3, <1>5, <1>7
    <2>. QED  BY <1>1, <2>1
  <1>8. (k <= Len(l) => l[k] >= a) /\ (m <= Len(l) => l[m] > a)
    BY <1>1, <1>3
  <1>. QED  BY <1>4, <1>5, <1>6, <1>7, <1>8

(* The elements of a list are those at its positions.                      *)
LEMMA ElementsOf ==
    ASSUME NEW l \in Seq(Nat)
    PROVE  /\ Len(l) \in Nat /\ ToSet(l) \subseteq Nat
           /\ \A i \in 1..Len(l) : l[i] \in ToSet(l)
           /\ \A a \in ToSet(l) : \E i \in 1..Len(l) : l[i] = a
           /\ l = <<>> <=> ToSet(l) = {}
  <1>1. Len(l) \in Nat /\ DOMAIN l = 1..Len(l)
    OBVIOUS
  <1>2. ToSet(l) = {l[i] : i \in 1..Len(l)}
    BY <1>1 DEF ToSet
  <1>3. l = <<>> <=> ToSet(l) = {}
    <2>1. ASSUME l # <<>> PROVE ToSet(l) # {}
      <3>1. 1 \in 1..Len(l)
        BY <2>1, EmptySeq
      <3>. QED  BY <1>2, <3>1
    <2>2. ASSUME l = <<>> PROVE ToSet(l) = {}
      <3>1. Len(l) = 0
        BY <2>2
      <3>. QED  BY <1>2, <3>1
    <2>. QED  BY <2>1, <2>2
  <1>4. \A i \in 1..Len(l) : l[i] \in Nat
    OBVIOUS
  <1>5. ToSet(l) \subseteq Nat
    BY <1>2, <1>4
  <1>6. /\ \A i \in 1..Len(l) : l[i] \in ToSet(l)
        /\ \A a \in ToSet(l) : \E i \in 1..Len(l) : l[i] = a
    BY <1>2
  <1>. QED  BY <1>1, <1>3, <1>5, <1>6

(* One list after another.                                                 *)
LEMMA Joining ==
    ASSUME NEW u \in Seq(Nat), NEW v \in Seq(Nat)
    PROVE  /\ u \o v \in Seq(Nat) /\ Len(u \o v) = Len(u) + Len(v)
           /\ \A i \in 1..Len(u) : (u \o v)[i] = u[i]
           /\ \A i \in 1..Len(v) : (u \o v)[Len(u) + i] = v[i]
  <1>1. Len(u) \in Nat /\ Len(v) \in Nat
    OBVIOUS
  <1>2. u \o v \in Seq(Nat) /\ Len(u \o v) = Len(u) + Len(v)
    OBVIOUS
  <1>3. \A i \in 1..(Len(u) + Len(v)) :
          (u \o v)[i] = IF i <= Len(u) THEN u[i] ELSE v[i - Len(u)]
    BY ConcatProperties
  <1>4. ASSUME NEW i \in 1..Len(u) PROVE (u \o v)[i] = u[i]
    <2>1. i \in 1..(Len(u) + Len(v)) /\ i <= Len(u)
      BY <1>1
    <2>. QED  BY <1>3, <2>1
  <1>5. ASSUME NEW i \in 1..Len(v) PROVE (u \o v)[Len(u) + i] = v[i]
    <2>1. /\ Len(u) + i \in 1..(Len(u) + Len(v)) /\ ~ (Len(u) + i <= Len(u))
          /\ (Len(u) + i) - Len(u) = i
      BY <1>1
    <2>. QED  BY <1>3, <2>1
  <1>. QED  BY <1>2, <1>4, <1>5

(* AddToFreeOrder keeps a list sorted unless it has the address already.   *)
LEMMA InsertedFacts ==
    ASSUME NEW l \in Seq(Nat), Sorted(l), NEW a \in Nat
    PROVE  /\ Inserted(l, a) \in Seq(Nat)
           /\ ToSet(Inserted(l, a)) = ToSet(l) \cup {a}
           /\ Sorted(Inserted(l, a)) <=> a \notin ToSet(l)
  <1>. DEFINE k == lower_bound(l, a)
              r == Inserted(l, a)
  <1>1. /\ k \in 1..(Len(l) + 1) /\ Len(l) \in Nat
        /\ \A i \in 1..Len(l) : i < k => l[i] < a
        /\ k <= Len(l) => l[k] >= a
        /\ \A i \in 1..Len(l) : l[i] \in Nat
    <2>1. Len(l) \in Nat /\ \A i \in 1..Len(l) : l[i] \in Nat
      OBVIOUS
    <2>. QED  BY <2>1, BoundFacts
  <1>2. r = SubSeq(l, 1, k - 1) \o <<a>> \o SubSeq(l, k, Len(l))
    BY DEF Inserted, InsertAt
  <1>. HIDE DEF k, r
  <1>3. /\ r \in Seq(Nat) /\ Len(r) = Len(l) + 1
        /\ \A i \in 1..(Len(l) + 1) :
              r[i] = IF i < k THEN l[i] ELSE IF i = k THEN a ELSE l[i - 1]
    <2>. DEFINE u == SubSeq(l, 1, k - 1)
                v == SubSeq(l, k, Len(l))
    <2>1. /\ u \in Seq(Nat) /\ Len(u) = k - 1
          /\ \A i \in 1..(k - 1) : u[i] = l[i]
      BY <1>1
    <2>2. /\ v \in Seq(Nat) /\ Len(v) = Len(l) + 1 - k
          /\ \A i \in 1..(Len(l) + 1 - k) : v[i] = l[k - 1 + i]
      BY <1>1
    <2>3. r = (u \o <<a>>) \o v
      BY <1>2
    <2>. HIDE DEF u, v
    <2>4. <<a>> \in Seq(Nat) /\ Len(<<a>>) = 1 /\ <<a>>[1] = a
      OBVIOUS
    <2>5. PICK e \in Seq(Nat) : e = <<a>>
      BY <2>4
    <2>6. PICK w : w = u \o e
      OBVIOUS
    <2>7. /\ w \in Seq(Nat) /\ Len(w) = Len(u) + Len(e)
          /\ \A i \in 1..Len(u) : w[i] = u[i]
          /\ \A i \in 1..Len(e) : w[Len(u) + i] = e[i]
      BY <2>1, <2>6, Joining
    <2>8. Len(w) = k /\ w[k] = a /\ \A i \in 1..(k - 1) : w[i] = l[i]
      <3>1. Len(e) = 1 /\ e[1] = a /\ 1 \in 1..Len(e) /\ Len(u) + 1 = k
        BY <1>1, <2>1, <2>4, <2>5
      <3>2. Len(w) = k /\ w[k] = a
        BY <1>1, <2>1, <2>7, <3>1
      <3>3. \A i \in 1..(k - 1) : w[i] = l[i]
        BY <2>1, <2>7
      <3>. QED  BY <3>2, <3>3
    <2>9. /\ r \in Seq(Nat) /\ Len(r) = Len(w) + Len(v)
          /\ \A i \in 1..Len(w) : r[i] = w[i]
          /\ \A i \in 1..Len(v) : r[Len(w) + i] = v[i]
      <3>1. r = w \o v
        BY <2>3, <2>5, <2>6
      <3>2. w \in Seq(Nat) /\ v \in Seq(Nat)
        BY <2>2, <2>7
      <3>. HIDE DEF r
      <3>. QED  BY <3>1, <3>2, Joining
    <2>10. Len(r) = Len(l) + 1
      BY <1>1, <2>2, <2>8, <2>9
    <2>11. ASSUME NEW i \in 1..(Len(l) + 1)
          PROVE  r[i] = IF i < k THEN l[i] ELSE IF i = k THEN a ELSE l[i - 1]
      <3>1. CASE i < k
        <4>1. i \in 1..Len(w) /\ i \in 1..(k - 1)
          BY <1>1, <2>8, <3>1
        <4>. QED  BY <2>8, <2>9, <3>1, <4>1
      <3>2. CASE i = k
        <4>1. i \in 1..Len(w) /\ ~ (i < k)
          BY <1>1, <2>8, <3>2
        <4>. QED  BY <2>8, <2>9, <3>2, <4>1
      <3>3. CASE i > k
        <4>1. i - k \in 1..Len(v) /\ k - 1 + (i - k) = i - 1 /\ Len(w) + (i - k) = i
              /\ i - k \in 1..(Len(l) + 1 - k) /\ ~ (i < k) /\ i # k
          BY <1>1, <2>2, <2>8, <3>3
        <4>2. r[i] = v[i - k]
          BY <2>9, <4>1
        <4>3. v[i - k] = l[i - 1]
          BY <2>2, <4>1
        <4>. QED  BY <4>1, <4>2, <4>3
      <3>. QED  BY <1>1, <3>1, <3>2, <3>3
    <2>. QED  BY <2>9, <2>10, <2>11
  <1>4. ASSUME NEW x PROVE x \in ToSet(r) <=> x \in ToSet(l) \cup {a}
    <2>1. ASSUME x \in ToSet(r) PROVE x \in ToSet(l) \cup {a}
      <3>1. PICK i \in 1..Len(r) : r[i] = x
        BY <1>3, <2>1, ElementsOf
      <3>2. i = k \/ (i < k /\ i \in 1..Len(l)) \/ (i > k /\ i - 1 \in 1..Len(l))
        BY <1>1, <1>3
      <3>3. i \in 1..(Len(l) + 1)
        BY <1>3
      <3>4. CASE i = k
        <4>1. r[i] = a
          BY <1>1, <1>3, <3>3, <3>4
        <4>. QED  BY <3>1, <4>1
      <3>5. CASE i < k /\ i \in 1..Len(l)
        <4>1. r[i] = l[i]
          BY <1>3, <3>3, <3>5
        <4>. QED  BY <3>1, <3>5, <4>1, ElementsOf
      <3>6. CASE i > k /\ i - 1 \in 1..Len(l)
        <4>1. ~ (i < k) /\ i # k
          BY <1>1, <3>6
        <4>2. r[i] = l[i - 1]
          BY <1>3, <3>3, <4>1
        <4>. QED  BY <3>1, <3>6, <4>2, ElementsOf
      <3>. QED  BY <3>2, <3>4, <3>5, <3>6
    <2>2. ASSUME x \in ToSet(l) PROVE x \in ToSet(r)
      <3>1. PICK i \in 1..Len(l) : l[i] = x
        BY <2>2, ElementsOf
      <3>2. CASE i < k
        <4>1. i \in 1..Len(r) /\ r[i] = x
          BY <1>1, <1>3, <3>1, <3>2
        <4>. QED  BY <1>3, <4>1, ElementsOf
      <3>3. CASE ~ (i < k)
        <4>0. /\ i + 1 \in 1..(Len(l) + 1) /\ ~ (i + 1 < k) /\ i + 1 # k
              /\ (i + 1) - 1 = i
          BY <1>1, <3>3
        <4>1. i + 1 \in 1..Len(r) /\ r[i + 1] = x
          BY <1>3, <3>1, <4>0
        <4>. QED  BY <1>3, <4>1, ElementsOf
      <3>. QED  BY <3>2, <3>3
    <2>3. a \in ToSet(r)
      <3>1. k \in 1..Len(r) /\ r[k] = a
        BY <1>1, <1>3
      <3>. QED  BY <1>3, <3>1, ElementsOf
    <2>. QED  BY <2>1, <2>2, <2>3
  <1>5. ASSUME a \notin ToSet(l) PROVE Sorted(r)
    <2>1. ASSUME NEW i \in 1..Len(l), i >= k PROVE l[i] > a
      <3>1. l[k] >= a /\ k \in 1..Len(l)
        BY <1>1, <2>1
      <3>2. l[k] # a
        BY <1>5, <3>1, ElementsOf
      <3>3. i > k => l[k] < l[i]
        BY <3>1, <2>1 DEF Sorted
      <3>. QED  BY <1>1, <2>1, <3>1, <3>2, <3>3
    <2>2. ASSUME NEW i \in 1..Len(r), NEW j \in 1..Len(r), i < j
          PROVE  r[i] < r[j]
      <3>1. CASE j < k
        <4>1. i \in 1..Len(l) /\ j \in 1..Len(l) /\ i < k
          BY <1>1, <1>3, <2>2, <3>1, SMTT(30)
        <4>. QED  BY <1>3, <2>2, <3>1, <4>1 DEF Sorted
      <3>2. CASE j = k
        <4>1. i \in 1..Len(l) /\ i < k
          BY <1>1, <1>3, <2>2, <3>2
        <4>. QED  BY <1>1, <1>3, <3>2, <4>1, SMTT(30)
      <3>3. CASE j > k
        <4>1. j - 1 \in 1..Len(l) /\ j - 1 >= k /\ r[j] = l[j - 1] /\ l[j - 1] > a
          <5>1. j - 1 \in 1..Len(l) /\ j - 1 >= k /\ ~ (j < k) /\ j # k
                /\ j \in 1..(Len(l) + 1)
            BY <1>1, <1>3, <3>3
          <5>. QED  BY <1>3, <2>1, <5>1, SMTT(30)
        <4>2. CASE i < k
          <5>1. i \in 1..Len(l) /\ r[i] = l[i] /\ l[i] < a
            BY <1>1, <1>3, <4>2, SMTT(30)
          <5>. QED  BY <1>1, <4>1, <5>1, SMTT(30)
        <4>3. CASE i = k
          BY <1>1, <1>3, <4>1, <4>3, SMTT(30)
        <4>4. CASE i > k
          <5>1. i - 1 \in 1..Len(l) /\ r[i] = l[i - 1] /\ i - 1 < j - 1
            BY <1>1, <1>3, <2>2, <4>4, SMTT(30)
          <5>. QED  BY <4>1, <5>1 DEF Sorted
        <4>. QED  BY <1>1, <4>2, <4>3, <4>4
      <3>. QED  BY <1>1, <3>1, <3>2, <3>3
    <2>. QED  BY <2>2 DEF Sorted
  <1>6. ASSUME a \in ToSet(l) PROVE ~ Sorted(r)
    <2>1. PICK i \in 1..Len(l) : l[i] = a
      BY <1>6, ElementsOf
    <2>2. k <= i /\ k \in 1..Len(l)
      BY <1>1, <2>1
    <2>3. l[k] = a
      <3>1. k < i => l[k] < l[i]
        BY <2>2 DEF Sorted
      <3>. QED  BY <1>1, <2>1, <2>2, <3>1
    <2>4. r[k] = a /\ r[k + 1] = a /\ k \in 1..Len(r) /\ k + 1 \in 1..Len(r)
      BY <1>1, <1>3, <2>2, <2>3, SMTT(30)
    <2>. QED  BY <1>1, <2>4 DEF Sorted
  <1>. QED  BY <1>3, <1>4, <1>5, <1>6 DEF r

(* list::remove takes an address out and keeps the list sorted.            *)
LEMMA RemovedFacts ==
    ASSUME NEW l \in Seq(Nat), Sorted(l), NEW a \in Nat
    PROVE  /\ Removed(l, a) \in Seq(Nat) /\ Sorted(Removed(l, a))
           /\ ToSet(Removed(l, a)) = ToSet(l) \ {a}
  <1>. DEFINE k == lower_bound(l, a)
              m == upper_bound(l, a)
              d == m - k
              r == Removed(l, a)
  <1>1. /\ k \in 1..(Len(l) + 1) /\ Len(l) \in Nat
        /\ \A i \in 1..Len(l) : i < k => l[i] < a
        /\ k <= Len(l) => l[k] >= a
        /\ \A i \in 1..Len(l) : l[i] \in Nat
        /\ m \in 1..(Len(l) + 1)
        /\ \A i \in 1..Len(l) : i < m => l[i] <= a
        /\ m <= Len(l) => l[m] > a
    <2>1. Len(l) \in Nat /\ \A i \in 1..Len(l) : l[i] \in Nat
      OBVIOUS
    <2>. QED  BY <2>1, BoundFacts
  <1>2. r = SubSeq(l, 1, k - 1) \o SubSeq(l, m, Len(l))
    BY DEF Removed
  <1>. HIDE DEF k, m, r
  <1>3. ASSUME NEW i \in 1..Len(l) PROVE (i >= m => l[i] > a) /\ (i >= k => l[i] >= a)
    <2>1. i > m => l[m] < l[i]
      BY <1>1 DEF Sorted
    <2>2. i > k => l[k] < l[i]
      BY <1>1 DEF Sorted
    <2>. QED  BY <1>1, <2>1, <2>2
  <1>4. d >= 0 /\ d \in Nat
    <2>. SUFFICES ASSUME m < k PROVE FALSE
      BY <1>1
    <2>1. m \in 1..Len(l)
      BY <1>1
    <2>. QED  BY <1>1, <2>1
  <1>5. /\ r \in Seq(Nat) /\ Len(r) = Len(l) - d
        /\ \A i \in 1..Len(r) : r[i] = IF i < k THEN l[i] ELSE l[i + d]
    <2>. DEFINE u == SubSeq(l, 1, k - 1)
                v == SubSeq(l, m, Len(l))
    <2>1. /\ u \in Seq(Nat) /\ Len(u) = k - 1
          /\ \A i \in 1..(k - 1) : u[i] = l[i]
      BY <1>1
    <2>2. /\ v \in Seq(Nat) /\ Len(v) = Len(l) + 1 - m
          /\ \A i \in 1..(Len(l) + 1 - m) : v[i] = l[m - 1 + i]
      BY <1>1
    <2>3. r = u \o v
      BY <1>2
    <2>. HIDE DEF u, v
    <2>3a. /\ r \in Seq(Nat) /\ Len(r) = Len(u) + Len(v)
           /\ \A i \in 1..Len(u) : r[i] = u[i]
           /\ \A i \in 1..Len(v) : r[Len(u) + i] = v[i]
      BY <2>1, <2>2, <2>3, Joining
    <2>4. r \in Seq(Nat) /\ Len(r) = Len(l) - d
      BY <1>1, <1>4, <2>1, <2>2, <2>3a
    <2>5. ASSUME NEW i \in 1..Len(r)
          PROVE  r[i] = IF i < k THEN l[i] ELSE l[i + d]
      <3>1. CASE i < k
        <4>1. i \in 1..Len(u) /\ i \in 1..(k - 1)
          BY <1>1, <2>1, <3>1
        <4>. QED  BY <2>1, <2>3a, <3>1, <4>1
      <3>2. CASE ~ (i < k)
        <4>1. /\ i - (k - 1) \in 1..(Len(l) + 1 - m)
              /\ m - 1 + (i - (k - 1)) = i + d
              /\ Len(u) + (i - (k - 1)) = i
          BY <1>1, <1>4, <2>1, <2>4, <3>2
        <4>2. r[i] = v[i - (k - 1)]
          BY <2>2, <2>3a, <4>1
        <4>3. v[i - (k - 1)] = l[i + d]
          BY <2>2, <4>1
        <4>. QED  BY <3>2, <4>2, <4>3
      <3>. QED  BY <3>1, <3>2
    <2>. QED  BY <2>4, <2>5
  <1>6. ASSUME NEW x PROVE x \in ToSet(r) <=> x \in ToSet(l) \ {a}
    <2>1. ASSUME x \in ToSet(r) PROVE x \in ToSet(l) \ {a}
      <3>1. PICK i \in 1..Len(r) : r[i] = x
        BY <1>5, <2>1, ElementsOf
      <3>2. CASE i < k
        <4>1. i \in 1..Len(l) /\ l[i] = x /\ l[i] < a
          BY <1>1, <1>4, <1>5, <3>1, <3>2, SMTT(30)
        <4>. QED  BY <1>1, <4>1, ElementsOf
      <3>3. CASE ~ (i < k)
        <4>0. i + d \in 1..Len(l) /\ i + d >= m
          BY <1>1, <1>4, <1>5, <3>3
        <4>1. l[i + d] = x
          BY <1>5, <3>1, <3>3
        <4>2. l[i + d] > a /\ l[i + d] \in Nat
          BY <1>1, <1>3, <4>0
        <4>3. l[i + d] \in ToSet(l)
          BY <4>0, ElementsOf
        <4>. QED  BY <4>1, <4>2, <4>3
      <3>. QED  BY <3>2, <3>3
    <2>2. ASSUME x \in ToSet(l), x # a PROVE x \in ToSet(r)
      <3>1. PICK i \in 1..Len(l) : l[i] = x
        BY <2>2, ElementsOf
      <3>2. CASE i < k
        <4>1. i \in 1..Len(r) /\ r[i] = x
          BY <1>1, <1>4, <1>5, <3>1, <3>2, SMTT(30)
        <4>. QED  BY <1>5, <4>1, ElementsOf
      <3>3. CASE i >= m
        <4>1. i - d \in 1..Len(r) /\ ~ (i - d < k) /\ (i - d) + d = i
          BY <1>1, <1>4, <1>5, <3>3
        <4>2. r[i - d] = x
          BY <1>5, <3>1, <4>1
        <4>. QED  BY <1>5, <4>1, <4>2, ElementsOf
      <3>4. CASE ~ (i < k) /\ ~ (i >= m)
        <4>1. l[i] <= a /\ l[i] >= a
          BY <1>1, <1>3, <3>4
        <4>. QED  BY <1>1, <2>2, <3>1, <4>1
      <3>. QED  BY <3>2, <3>3, <3>4
    <2>. QED  BY <2>1, <2>2
  <1>7. ASSUME NEW i \in 1..Len(r), NEW j \in 1..Len(r), i < j
        PROVE  r[i] < r[j]
    <2>1. CASE j < k
      <3>1. i \in 1..Len(l) /\ j \in 1..Len(l) /\ i < k
        BY <1>1, <1>4, <1>5, <1>7, <2>1
      <3>. QED  BY <1>5, <1>7, <2>1, <3>1 DEF Sorted
    <2>2. CASE ~ (j < k)
      <3>1. j + d \in 1..Len(l) /\ j + d >= m /\ r[j] = l[j + d]
        BY <1>1, <1>4, <1>5, <2>2
      <3>2. l[j + d] > a
        BY <1>3, <3>1
      <3>3. CASE i < k
        <4>1. i \in 1..Len(l) /\ r[i] = l[i] /\ l[i] < a
          BY <1>1, <1>4, <1>5, <3>3, SMTT(30)
        <4>. QED  BY <1>1, <3>1, <3>2, <4>1, SMTT(30)
      <3>4. CASE ~ (i < k)
        <4>1. i + d \in 1..Len(l) /\ r[i] = l[i + d] /\ i + d < j + d
          BY <1>1, <1>4, <1>5, <1>7, <3>4, SMTT(30)
        <4>. QED  BY <3>1, <4>1, SMTT(30) DEF Sorted
      <3>. QED  BY <3>3, <3>4
    <2>. QED  BY <2>1, <2>2
  <1>. QED  BY <1>5, <1>6, <1>7 DEF r, Sorted

(* pop_front.                                                              *)
LEMMA PoppedFacts ==
    ASSUME NEW l \in Seq(Nat), Sorted(l), l # <<>>
    PROVE  /\ Head(l) \in ToSet(l)
           /\ Tail(l) \in Seq(Nat) /\ Sorted(Tail(l))
           /\ ToSet(Tail(l)) = ToSet(l) \ {Head(l)}
  <1>1. Len(l) \in Nat /\ Len(l) >= 1 /\ Head(l) = l[1]
    BY EmptySeq
  <1>2. /\ Tail(l) \in Seq(Nat) /\ Len(Tail(l)) = Len(l) - 1
        /\ \A i \in 1..(Len(l) - 1) : Tail(l)[i] = l[i + 1]
    BY <1>1
  <1>3. Head(l) \in ToSet(l)
    BY <1>1, ElementsOf
  <1>4. ASSUME NEW x PROVE x \in ToSet(Tail(l)) <=> x \in ToSet(l) \ {Head(l)}
    <2>1. ASSUME x \in ToSet(Tail(l)) PROVE x \in ToSet(l) \ {Head(l)}
      <3>1. PICK i \in 1..Len(Tail(l)) : Tail(l)[i] = x
        BY <1>2, <2>1, ElementsOf
      <3>2. i + 1 \in 1..Len(l) /\ 1 \in 1..Len(l) /\ 1 < i + 1 /\ l[i + 1] = x
        BY <1>1, <1>2, <3>1
      <3>3. l[1] < l[i + 1] /\ l[1] \in Nat /\ l[i + 1] \in Nat
        BY <3>2 DEF Sorted
      <3>. QED  BY <1>1, <3>2, <3>3, ElementsOf
    <2>2. ASSUME x \in ToSet(l), x # Head(l) PROVE x \in ToSet(Tail(l))
      <3>1. PICK i \in 1..Len(l) : l[i] = x
        BY <2>2, ElementsOf
      <3>2. i # 1
        BY <1>1, <2>2, <3>1
      <3>3. i - 1 \in 1..Len(Tail(l)) /\ Tail(l)[i - 1] = x
        BY <1>1, <1>2, <3>1, <3>2
      <3>. QED  BY <1>2, <3>3, ElementsOf
    <2>. QED  BY <2>1, <2>2
  <1>5. Sorted(Tail(l))
    <2>1. ASSUME NEW i \in 1..Len(Tail(l)), NEW j \in 1..Len(Tail(l)), i < j
          PROVE  Tail(l)[i] < Tail(l)[j]
      <3>1. /\ i + 1 \in 1..Len(l) /\ j + 1 \in 1..Len(l) /\ i + 1 < j + 1
            /\ Tail(l)[i] = l[i + 1] /\ Tail(l)[j] = l[j + 1]
        BY <1>1, <1>2, <2>1
      <3>. QED  BY <3>1 DEF Sorted
    <2>. QED  BY <2>1 DEF Sorted
  <1>. QED  BY <1>2, <1>3, <1>4, <1>5

-----------------------------------------------------------------------------
(* What one round of splitting and of joining does to the headers.         *)

(* The fields of the heap.                                                 *)
IsHeap(h) ==
    h = [meta |-> h.meta, freed |-> h.freed, mmaps |-> h.mmaps,
         mapped |-> h.mapped, fault |-> h.fault]

(* An assignment to one field of the heap.                                 *)
LEMMA HeapUpdates ==
    ASSUME NEW h, IsHeap(h), NEW x
    PROVE  /\ [h EXCEPT !.meta = x] =
                [meta |-> x, freed |-> h.freed, mmaps |-> h.mmaps,
                 mapped |-> h.mapped, fault |-> h.fault]
           /\ [h EXCEPT !.freed = x] =
                [meta |-> h.meta, freed |-> x, mmaps |-> h.mmaps,
                 mapped |-> h.mapped, fault |-> h.fault]
           /\ [h EXCEPT !.fault = x] =
                [meta |-> h.meta, freed |-> h.freed, mmaps |-> h.mmaps,
                 mapped |-> h.mapped, fault |-> x]
  BY DEF IsHeap

(* An assignment to the headers and the lists.                             *)
LEMMA HeapUpdated ==
    ASSUME NEW h, IsHeap(h), NEW x, NEW y
    PROVE  [h EXCEPT !.meta = x, !.freed = y] =
                [meta |-> x, freed |-> y, mmaps |-> h.mmaps,
                 mapped |-> h.mapped, fault |-> h.fault]
  <1>1. PICK g : g = [h EXCEPT !.meta = x]
    OBVIOUS
  <1>2. g = [meta |-> x, freed |-> h.freed, mmaps |-> h.mmaps,
             mapped |-> h.mapped, fault |-> h.fault]
    BY <1>1, HeapUpdates
  <1>3. /\ IsHeap(g) /\ g.meta = x /\ g.mmaps = h.mmaps
        /\ g.mapped = h.mapped /\ g.fault = h.fault
    BY <1>2 DEF IsHeap
  <1>4. [h EXCEPT !.meta = x, !.freed = y] = [g EXCEPT !.freed = y]
    BY <1>1
  <1>5. [g EXCEPT !.freed = y] =
            [meta |-> g.meta, freed |-> y, mmaps |-> g.mmaps,
             mapped |-> g.mapped, fault |-> g.fault]
    BY <1>3, HeapUpdates
  <1>. QED  BY <1>3, <1>4, <1>5

(* The fields of a header.                                                 *)
Header4 == [order : Nat, is_free : BOOLEAN, next : Int, prev : Int]

(* An assignment to one field of a header.                                 *)
LEMMA HeaderUpdates ==
    ASSUME NEW m \in Header4, NEW x
    PROVE  /\ [m EXCEPT !.order = x] =
                [order |-> x, is_free |-> m.is_free, next |-> m.next,
                 prev |-> m.prev]
           /\ [m EXCEPT !.is_free = x] =
                [order |-> m.order, is_free |-> x, next |-> m.next,
                 prev |-> m.prev]
           /\ [m EXCEPT !.next = x] =
                [order |-> m.order, is_free |-> m.is_free, next |-> x,
                 prev |-> m.prev]
           /\ [m EXCEPT !.prev = x] =
                [order |-> m.order, is_free |-> m.is_free, next |-> m.next,
                 prev |-> x]
  BY DEF Header4

(* Setting prev changes no other field.                                    *)
LEMMA SetPrevFacts ==
    ASSUME NEW M, M \in [DOMAIN M -> Header4], NEW x, NEW p \in Int
    PROVE  /\ DOMAIN SetPrev(M, x, p) = DOMAIN M
           /\ SetPrev(M, x, p) \in [DOMAIN M -> Header4]
           /\ \A c \in DOMAIN M :
                /\ SetPrev(M, x, p)[c].order = M[c].order
                /\ SetPrev(M, x, p)[c].is_free = M[c].is_free
                /\ SetPrev(M, x, p)[c].next = M[c].next
                /\ SetPrev(M, x, p)[c].prev = IF c = x THEN p ELSE M[c].prev
  <1>. DEFINE S == SetPrev(M, x, p)
  <1>1. CASE x \notin DOMAIN M
    <2>1. S = M
      BY <1>1 DEF SetPrev
    <2>. QED  BY <1>1, <2>1
  <1>2. CASE x \in DOMAIN M
    <2>1. S = [M EXCEPT ![x] = [M[x] EXCEPT !.prev = p]]
      BY <1>2 DEF SetPrev
    <2>2. M[x] \in Header4
      BY <1>2
    <2>3. [M[x] EXCEPT !.prev = p] =
            [order |-> M[x].order, is_free |-> M[x].is_free,
             next |-> M[x].next, prev |-> p]
      BY <2>2, HeaderUpdates
    <2>4. [M[x] EXCEPT !.prev = p] \in Header4
      BY <2>2, <2>3 DEF Header4
    <2>5. S \in [DOMAIN M -> Header4] /\ DOMAIN S = DOMAIN M
      BY <2>1, <2>4
    <2>6. ASSUME NEW c \in DOMAIN M
          PROVE  /\ S[c].order = M[c].order /\ S[c].is_free = M[c].is_free
                 /\ S[c].next = M[c].next
                 /\ S[c].prev = IF c = x THEN p ELSE M[c].prev
      <3>1. CASE c = x
        <4>1. S[c] = [order |-> M[x].order, is_free |-> M[x].is_free,
                      next |-> M[x].next, prev |-> p]
          BY <2>1, <2>3, <3>1, <1>2
        <4>. HIDE DEF S
        <4>. QED  BY <3>1, <4>1
      <3>2. CASE c # x
        <4>1. S[c] = M[c]
          BY <2>1, <3>2
        <4>. HIDE DEF S
        <4>. QED  BY <3>2, <4>1
      <3>. QED  BY <3>1, <3>2
    <2>. QED  BY <2>5, <2>6
  <1>. QED  BY <1>1, <1>2

(* j is the heap h after the buddies a and b were joined.                  *)
IsJoined(h, a, b, j) ==
    LET M == h.meta
        lo == Lower(a, b)
        hi == Higher(a, b)
    IN  /\ IsHeap(j) /\ Headers(j.meta)
        /\ DOMAIN j.meta = DOMAIN M \ {hi} /\ lo \in DOMAIN j.meta
        /\ \A c \in DOMAIN M \ {lo, hi} :
              /\ j.meta[c].order = M[c].order
              /\ j.meta[c].is_free = M[c].is_free
              /\ j.meta[c].next = M[c].next
              /\ j.meta[c].prev = IF c = M[hi].next THEN lo ELSE M[c].prev
        /\ j.meta[lo].order = M[lo].order + 1
        /\ j.meta[lo].is_free
        /\ j.meta[lo].next = M[hi].next
        /\ lo # M[hi].next => j.meta[lo].prev = M[lo].prev
        /\ j.freed = [h.freed EXCEPT ![M[b].order] = Removed(Removed(@, b), a)]
        /\ j.mmaps = h.mmaps /\ j.mapped = h.mapped
        /\ M[a].order = M[b].order => j.fault = h.fault
        /\ M[a].order # M[b].order /\ h.fault \in {"none", "joined_unequal"} =>
              j.fault = "joined_unequal"

(* What one round of the joining loops does to the headers and the lists,  *)
(* whatever the orders of the two blocks.                                  *)
LEMMA JoinedFacts ==
    ASSUME NEW h, IsHeap(h), Headers(h.meta),
           NEW a \in DOMAIN h.meta, NEW b \in DOMAIN h.meta, a # b
    PROVE  IsJoined(h, a, b, Joined(h, a, b))
  <1>. DEFINE M == h.meta
              lo == Lower(a, b)
              hi == Higher(a, b)
              next == M[hi].next
              new == [M[lo] EXCEPT !.next = next, !.order = M[lo].order + 1,
                                   !.is_free = TRUE]
              meta == [c \in DOMAIN M \ {hi} |-> IF c = lo THEN new ELSE M[c]]
              all == SetPrev(meta, next, lo)
              freed == [h.freed EXCEPT ![M[b].order] = Removed(Removed(@, b), a)]
              joined == [h EXCEPT !.meta = all, !.freed = freed]
              j == Joined(h, a, b)
  <1>1. a \in Nat /\ b \in Nat
    BY HeaderFields
  <1>2. lo \in DOMAIN M /\ hi \in DOMAIN M /\ lo # hi /\ hi # 0 /\ lo \in Int
    BY <1>1 DEF Lower, Higher
  <1>3. j = IF M[a].order = M[b].order THEN joined
            ELSE Fault(joined, "joined_unequal")
    BY DEF Joined, Lower, Higher
  <1>4. /\ M \in [DOMAIN M -> Header4]
        /\ DOMAIN M \subseteq 0..(Units - 1) /\ 0 \in DOMAIN M
    BY DEF Headers, Header4
  <1>5. joined = [meta |-> all, freed |-> freed, mmaps |-> h.mmaps,
                  mapped |-> h.mapped, fault |-> h.fault]
    <2>. HIDE DEF all, freed
    <2>. QED  BY HeapUpdated
  <1>6. /\ IsHeap(joined) /\ joined.meta = all /\ joined.freed = freed
        /\ joined.mmaps = h.mmaps /\ joined.mapped = h.mapped
        /\ joined.fault = h.fault
    <2>. HIDE DEF all, freed, joined
    <2>. QED  BY <1>5 DEF IsHeap
  <1>7. /\ IsHeap(j) /\ j.meta = all /\ j.freed = freed
        /\ j.mmaps = h.mmaps /\ j.mapped = h.mapped
        /\ M[a].order = M[b].order => j.fault = h.fault
        /\ M[a].order # M[b].order /\ h.fault \in {"none", "joined_unequal"} =>
              j.fault = "joined_unequal"
    <2>1. CASE M[a].order = M[b].order
      <3>1. j = joined
        BY <1>3, <2>1
      <3>. QED  BY <1>6, <2>1, <3>1
    <2>2. CASE M[a].order # M[b].order
      <3>. DEFINE f == IF joined.fault = "none" THEN "joined_unequal"
                       ELSE joined.fault
      <3>1. j = [joined EXCEPT !.fault = f]
        BY <1>3, <2>2 DEF Fault
      <3>2. h.fault \in {"none", "joined_unequal"} => f = "joined_unequal"
        BY <1>6
      <3>. HIDE DEF joined, j, f
      <3>3. j = [meta |-> joined.meta, freed |-> joined.freed,
                 mmaps |-> joined.mmaps, mapped |-> joined.mapped, fault |-> f]
        <4>1. IsHeap(joined)
          BY <1>6
        <4>. QED  BY <3>1, <4>1, HeapUpdates
      <3>4. /\ IsHeap(j) /\ j.meta = joined.meta /\ j.freed = joined.freed
            /\ j.mmaps = joined.mmaps /\ j.mapped = joined.mapped
            /\ j.fault = f
        BY <3>3 DEF IsHeap
      <3>. QED  BY <1>6, <2>2, <3>2, <3>4
    <2>. QED  BY <2>1, <2>2
  <1>8. M[lo] \in Header4 /\ M[hi] \in Header4
    BY <1>2, <1>4
  <1>10. next \in Int /\ M[lo].order + 1 \in Nat
    BY <1>8 DEF Header4
  <1>11. /\ new \in Header4 /\ new.order = M[lo].order + 1 /\ new.is_free
         /\ new.next = next /\ new.prev = M[lo].prev
    <2>. HIDE DEF lo, hi, next, M
    <2>1. PICK m \in Header4 : m = M[lo]
      BY <1>8
    <2>2. PICK o \in Nat : o = M[lo].order + 1
      BY <1>10
    <2>3. new = [m EXCEPT !.next = next, !.order = o, !.is_free = TRUE]
      BY <2>1, <2>2
    <2>. HIDE DEF new
    <2>4. new \in Header4
      BY <1>10, <2>3 DEF Header4
    <2>5. new.order = o /\ new.is_free /\ new.next = next /\ new.prev = m.prev
      BY <1>10, <2>3 DEF Header4
    <2>. QED  BY <2>1, <2>2, <2>4, <2>5
  <1>12. /\ DOMAIN meta = DOMAIN M \ {hi}
         /\ meta \in [DOMAIN meta -> Header4]
         /\ meta[lo] = new
         /\ \A c \in DOMAIN M \ {lo, hi} : meta[c] = M[c]
    <2>. HIDE DEF new
    <2>. QED  BY <1>2, <1>4, <1>11
  <1>. HIDE DEF meta
  <1>13. /\ DOMAIN all = DOMAIN meta /\ all \in [DOMAIN meta -> Header4]
         /\ \A c \in DOMAIN meta :
               /\ all[c].order = meta[c].order
               /\ all[c].is_free = meta[c].is_free
               /\ all[c].next = meta[c].next
               /\ all[c].prev = IF c = next THEN lo ELSE meta[c].prev
    BY <1>2, <1>12, SetPrevFacts
  <1>. HIDE DEF all
  <1>14. Headers(all)
    BY <1>2, <1>4, <1>12, <1>13 DEF Headers, Header4
  <1>15. ASSUME NEW c \in DOMAIN M \ {lo, hi}
         PROVE  /\ all[c].order = M[c].order /\ all[c].is_free = M[c].is_free
                /\ all[c].next = M[c].next
                /\ all[c].prev = IF c = next THEN lo ELSE M[c].prev
    <2>1. c \in DOMAIN meta /\ meta[c] = M[c]
      BY <1>12
    <2>. QED  BY <1>13, <2>1
  <1>17. /\ all[lo].order = M[lo].order + 1 /\ all[lo].is_free
         /\ all[lo].next = next
         /\ lo # next => all[lo].prev = M[lo].prev
    <2>1. lo \in DOMAIN meta /\ meta[lo] = new
      BY <1>2, <1>12
    <2>. HIDE DEF new
    <2>. QED  BY <1>11, <1>13, <2>1
  <1>18. DOMAIN all = DOMAIN M \ {hi} /\ lo \in DOMAIN all
    BY <1>2, <1>12, <1>13
  <1>. HIDE DEF joined, new
  <1>19. \A c \in DOMAIN M \ {lo, hi} :
            /\ j.meta[c].order = M[c].order /\ j.meta[c].is_free = M[c].is_free
            /\ j.meta[c].next = M[c].next
            /\ j.meta[c].prev = IF c = next THEN lo ELSE M[c].prev
    <2>. HIDE DEF freed, j, lo, hi, next, M
    <2>. QED BY <1>7, <1>15
  <1>20. /\ IsHeap(j) /\ Headers(j.meta) /\ DOMAIN j.meta = DOMAIN M \ {hi}
         /\ lo \in DOMAIN j.meta
         /\ j.meta[lo].order = M[lo].order + 1 /\ j.meta[lo].is_free
         /\ j.meta[lo].next = next
         /\ lo # next => j.meta[lo].prev = M[lo].prev
    <2>. HIDE DEF freed, j, lo, hi, next, M
    <2>. QED BY <1>7, <1>14, <1>17, <1>18
  <1>21. /\ j.freed = freed /\ j.mmaps = h.mmaps /\ j.mapped = h.mapped
         /\ M[a].order = M[b].order => j.fault = h.fault
         /\ M[a].order # M[b].order /\ h.fault \in {"none", "joined_unequal"} =>
               j.fault = "joined_unequal"
    <2>. HIDE DEF freed, j, lo, hi, next, M
    <2>. QED BY <1>7
  <1>. QED  BY <1>19, <1>20, <1>21 DEF IsJoined

(* AddToFreeOrder changes one free list.                                   *)
LEMMA AddedFacts ==
    ASSUME NEW h, IsHeap(h), NEW a, NEW o \in Orders
    PROVE  LET j == AddToFreeOrder(h, a, o)
           IN  /\ IsHeap(j) /\ j.meta = h.meta
               /\ j.freed = [h.freed EXCEPT ![o] = Inserted(@, a)]
               /\ j.mmaps = h.mmaps /\ j.mapped = h.mapped /\ j.fault = h.fault
  <1>. DEFINE f == [h.freed EXCEPT ![o] = Inserted(@, a)]
              j == AddToFreeOrder(h, a, o)
  <1>1. j = [h EXCEPT !.freed = f]
    BY DEF AddToFreeOrder
  <1>. HIDE DEF f, j
  <1>2. j = [meta |-> h.meta, freed |-> f, mmaps |-> h.mmaps,
             mapped |-> h.mapped, fault |-> h.fault]
    BY <1>1, HeapUpdates
  <1>3. /\ IsHeap(j) /\ j.meta = h.meta /\ j.freed = f
        /\ j.mmaps = h.mmaps /\ j.mapped = h.mapped /\ j.fault = h.fault
    BY <1>2 DEF IsHeap
  <1>. QED  BY <1>3 DEF f, j

(* j is the heap h after the block at a, of order o + 1, was halved and    *)
(* the half at b became free.                                              *)
IsHalved(h, a, o, b, j) ==
    LET M == h.meta
    IN  /\ IsHeap(j) /\ Headers(j.meta)
        /\ DOMAIN j.meta = DOMAIN M \cup {b}
        /\ \A c \in DOMAIN M \ {a} :
              /\ j.meta[c].order = M[c].order
              /\ j.meta[c].is_free = M[c].is_free
              /\ j.meta[c].next = M[c].next
              /\ j.meta[c].prev = IF c = M[a].next THEN b ELSE M[c].prev
        /\ j.meta[a].order = o /\ j.meta[b].order = o
        /\ j.meta[b].is_free
        /\ j.meta[a].next = b /\ j.meta[b].next = M[a].next
        /\ a # M[a].next => j.meta[a].prev = M[a].prev
        /\ b # M[a].next => j.meta[b].prev = a
        /\ j.freed = [h.freed EXCEPT ![o] = Inserted(@, b)]
        /\ j.mmaps = h.mmaps /\ j.mapped = h.mapped /\ j.fault = h.fault

(* What one round of SplitIfPossible does to the headers and the lists.    *)
LEMMA HalvedFacts ==
    ASSUME NEW h, IsHeap(h), Headers(h.meta), NEW a \in DOMAIN h.meta,
           NEW o \in Orders, h.meta[a].order = o + 1,
           NEW b \in 0..(Units - 1), b = Buddy(a, o), b \notin DOMAIN h.meta
    PROVE  IsHalved(h, a, o, b, Halved(h, a))
  <1>. DEFINE M == h.meta
              m == M[a]
              half == [order |-> o, is_free |-> TRUE, next |-> m.next, prev |-> a]
              new == [m EXCEPT !.order = o, !.next = b]
              meta == [c \in DOMAIN M \cup {b} |->
                        IF c = b THEN half ELSE IF c = a THEN new ELSE M[c]]
              all == SetPrev(meta, m.next, b)
              mid == [h EXCEPT !.meta = all]
              j == Halved(h, a)
  <1>1. o \in Nat /\ (o + 1) - 1 = o /\ m.order - 1 = o
    BY UnitsFacts
  <1>2. j = AddToFreeOrder(mid, b, o)
    BY <1>1 DEF Halved
  <1>3. mid = [meta |-> all, freed |-> h.freed, mmaps |-> h.mmaps,
               mapped |-> h.mapped, fault |-> h.fault]
    <2>. HIDE DEF all
    <2>. QED  BY HeapUpdates
  <1>. HIDE DEF mid, all
  <1>4. /\ IsHeap(mid) /\ mid.meta = all /\ mid.freed = h.freed
        /\ mid.mmaps = h.mmaps /\ mid.mapped = h.mapped /\ mid.fault = h.fault
    BY <1>3 DEF IsHeap
  <1>5. /\ IsHeap(j) /\ j.meta = all
        /\ j.freed = [h.freed EXCEPT ![o] = Inserted(@, b)]
        /\ j.mmaps = h.mmaps /\ j.mapped = h.mapped /\ j.fault = h.fault
    <2>. HIDE DEF j
    <2>. QED  BY <1>2, <1>4, AddedFacts
  <1>6. M \in [DOMAIN M -> Header4] /\ DOMAIN M \subseteq 0..(Units - 1)
        /\ 0 \in DOMAIN M
    BY DEF Headers, Header4
  <1>7. a \in Int /\ b \in Int /\ b # a
    BY UnitsFacts, HeaderFields
  <1>8. m \in Header4 /\ m.next \in Int
    BY <1>6 DEF Header4
  <1>9. /\ half \in Header4 /\ half.order = o /\ half.is_free
        /\ half.next = m.next /\ half.prev = a
    <2>1. half \in Header4
      BY <1>1, <1>7, <1>8 DEF Header4
    <2>. QED  BY <2>1
  <1>10. /\ new \in Header4 /\ new.order = o
         /\ new.next = b /\ new.prev = m.prev
    <2>. HIDE DEF m
    <2>1. new \in Header4
      BY <1>1, <1>7, <1>8 DEF Header4
    <2>. QED  BY <1>8, <2>1 DEF Header4
  <1>11. /\ DOMAIN meta = DOMAIN M \cup {b}
         /\ meta \in [DOMAIN meta -> Header4]
         /\ meta[a] = new /\ meta[b] = half
         /\ \A c \in DOMAIN M \ {a} : meta[c] = M[c]
    <2>. HIDE DEF new, half
    <2>. QED  BY <1>6, <1>7, <1>9, <1>10
  <1>. HIDE DEF meta
  <1>12. /\ DOMAIN all = DOMAIN meta /\ all \in [DOMAIN meta -> Header4]
         /\ \A c \in DOMAIN meta :
               /\ all[c].order = meta[c].order
               /\ all[c].is_free = meta[c].is_free
               /\ all[c].next = meta[c].next
               /\ all[c].prev = IF c = m.next THEN b ELSE meta[c].prev
    BY <1>7, <1>11, SetPrevFacts DEF all
  <1>13. Headers(all)
    BY <1>6, <1>11, <1>12 DEF Headers, Header4
  <1>14. ASSUME NEW c \in DOMAIN M \ {a}
         PROVE  /\ all[c].order = M[c].order /\ all[c].is_free = M[c].is_free
                /\ all[c].next = M[c].next
                /\ all[c].prev = IF c = m.next THEN b ELSE M[c].prev
    <2>1. c \in DOMAIN meta /\ meta[c] = M[c]
      BY <1>11
    <2>. QED  BY <1>12, <2>1
  <1>15. /\ all[a].order = o /\ all[a].next = b
         /\ a # m.next => all[a].prev = m.prev
    <2>1. a \in DOMAIN meta /\ meta[a] = new
      BY <1>11
    <2>. HIDE DEF new
    <2>. QED  BY <1>10, <1>12, <2>1
  <1>16. /\ all[b].order = o /\ all[b].is_free /\ all[b].next = m.next
         /\ b # m.next => all[b].prev = a
    <2>1. b \in DOMAIN meta /\ meta[b] = half
      BY <1>11
    <2>. HIDE DEF half
    <2>. QED  BY <1>9, <1>12, <2>1
  <1>17. /\ IsHeap(j) /\ Headers(j.meta)
         /\ DOMAIN j.meta = DOMAIN M \cup {b}
    BY <1>5, <1>11, <1>12, <1>13
  <1>18. \A c \in DOMAIN M \ {a} :
           /\ j.meta[c].order = M[c].order /\ j.meta[c].is_free = M[c].is_free
           /\ j.meta[c].next = M[c].next
           /\ j.meta[c].prev = IF c = m.next THEN b ELSE M[c].prev
    <2>. HIDE DEF j
    <2>. QED  BY <1>5, <1>14
  <1>19. /\ j.meta[a].order = o /\ j.meta[b].order = o /\ j.meta[b].is_free
         /\ j.meta[a].next = b /\ j.meta[b].next = m.next
         /\ a # m.next => j.meta[a].prev = m.prev
         /\ b # m.next => j.meta[b].prev = a
    <2>. HIDE DEF j
    <2>. QED  BY <1>5, <1>15, <1>16
  <1>. QED  BY <1>5, <1>17, <1>18, <1>19 DEF IsHalved

-----------------------------------------------------------------------------
(* A heap that is consistent but for one block, the one at addr, which the *)
(* loops split or join; at NULL there is none, and the heap is consistent. *)

Laid(M) ==
    Headers(M) /\ Tiles(M) /\ \A a \in DOMAIN M : M[a].order \in Orders

(* The lists hold the free blocks but for the one at addr.                 *)
ListsFreeBut(h, addr) ==
    /\ h.freed \in [Orders -> Seq(Nat)]
    /\ \A o \in Orders :
          /\ Sorted(h.freed[o])
          /\ ToSet(h.freed[o]) = {a \in DOMAIN h.meta \ {addr} :
                                    h.meta[a].is_free /\ h.meta[a].order = o}

(* Two free blocks that should have been joined.                           *)
AreBuddies(M, a, b) ==
    /\ M[a].is_free /\ M[b].is_free /\ M[a].order = M[b].order
    /\ M[a].order < MAX_ORDER /\ b = Buddy(a, M[a].order)

JoinedBut(M, addr) == \A a, b \in DOMAIN M \ {addr} : ~ AreBuddies(M, a, b)

(* The blocks in use but for the one at addr.                              *)
UsedBut(M, addr) == {a \in DOMAIN M \ {addr} : ~ M[a].is_free}

(* All of it.                                                              *)
Around(h, addr, used) ==
    /\ IsHeap(h) /\ Laid(h.meta) /\ ListsFreeBut(h, addr)
    /\ JoinedBut(h.meta, addr) /\ UsedBut(h.meta, addr) = used

(* The block at addr was joined with a smaller buddy.  It has taken the    *)
(* place of one half, or claims it, of a block of order o + 1 at r, and u  *)
(* is a block in use there: no tiling of the heap has both.                *)
Damaged(M, addr) ==
    \E r, o, u \in Nat :
        /\ Aligned(r, o + 1) /\ r + pow2[o + 1] <= Units /\ addr <= r
        /\ \A a \in DOMAIN M \ {addr} : ~ Covers(M, a, r + pow2[o])
        /\ u \in DOMAIN M \ {addr} /\ ~ M[u].is_free
        /\ r <= u /\ u < r + pow2[o + 1]

(* Damaged headers do not tile the heap.                                   *)
LEMMA DamagedNotTiled ==
    ASSUME NEW M, Headers(M), NEW addr \in DOMAIN M, Damaged(M, addr)
    PROVE  ~ Tiles(M)
  <1>. SUFFICES ASSUME Tiles(M) PROVE FALSE
    OBVIOUS
  <1>1. PICK r \in Nat, o \in Nat, u \in Nat :
          /\ Aligned(r, o + 1) /\ r + pow2[o + 1] <= Units /\ addr <= r
          /\ \A a \in DOMAIN M \ {addr} : ~ Covers(M, a, r + pow2[o])
          /\ u \in DOMAIN M \ {addr}
          /\ r <= u /\ u < r + pow2[o + 1]
    BY DEF Damaged
  <1>2. /\ pow2[o] \in Nat /\ pow2[o] >= 1 /\ pow2[o + 1] = 2 * pow2[o]
        /\ o + 1 \in Nat
    BY Pow2Type, Pow2Steps
  <1>. DEFINE mid == r + pow2[o]
              q == M[addr].order
  <1>3. mid \in Nat /\ mid < Units
    BY <1>1, <1>2, UnitsFacts
  <1>4. Covers(M, addr, mid)
    BY <1>1, <1>3, Covered
  <1>5. addr \in Nat /\ q \in Nat /\ Aligned(addr, q) /\ pow2[q] \in Nat
    BY HeaderFields, TilesPlaced DEF Placed
  <1>6. addr <= mid /\ mid < addr + pow2[q]
    BY <1>4 DEF Covers
  <1>7. Aligned(r, o) /\ Aligned(mid, o)
    <2>1. Aligned(r, o)
      BY <1>1, <1>2, AlignedDown
    <2>2. r % pow2[o] = 0
      BY <2>1 DEF Aligned
    <2>3. (r + pow2[o]) % pow2[o] = 0
      BY <1>2, <2>2, Multiples
    <2>. QED  BY <2>1, <2>3 DEF Aligned
  <1>. HIDE DEF mid, q
  <1>8. CASE q <= o
    <2>1. addr < mid
      BY <1>1, <1>2, <1>5 DEF mid
    <2>2. addr + pow2[q] <= mid
      BY <1>3, <1>5, <1>7, <1>8, <2>1, Nested
    <2>. QED  BY <1>3, <1>5, <1>6, <2>2
  <1>9. CASE o < q
    <2>1. o + 1 <= q
      BY <1>5, <1>9
    <2>2. r < addr + pow2[q]
      BY <1>2, <1>5, <1>6 DEF mid
    <2>3. r + pow2[o + 1] <= addr + pow2[q]
      BY <1>1, <1>2, <1>5, <2>1, <2>2, Nested
    <2>4. Covers(M, addr, u)
      BY <1>1, <1>2, <1>5, <2>3 DEF Covers, q
    <2>. QED  BY <1>1, <2>4, TilesPlaced DEF Placed
  <1>. QED  BY <1>5, <1>8, <1>9

(* Joining a damaged block further repairs nothing.                        *)
LEMMA DamageStays ==
    ASSUME NEW h, IsHeap(h), Headers(h.meta), NEW a \in DOMAIN h.meta,
           NEW b \in DOMAIN h.meta, a # b, h.meta[b].is_free,
           Damaged(h.meta, a)
    PROVE  Damaged(Joined(h, a, b).meta, Lower(a, b))
  <1>. DEFINE M == h.meta
              N == Joined(h, a, b).meta
              lo == Lower(a, b)
              hi == Higher(a, b)
  <1>1. PICK r \in Nat, o \in Nat, u \in Nat :
          /\ Aligned(r, o + 1) /\ r + pow2[o + 1] <= Units /\ a <= r
          /\ \A c \in DOMAIN M \ {a} : ~ Covers(M, c, r + pow2[o])
          /\ u \in DOMAIN M \ {a} /\ ~ M[u].is_free
          /\ r <= u /\ u < r + pow2[o + 1]
    BY DEF Damaged
  <1>2. /\ DOMAIN N = DOMAIN M \ {hi}
        /\ \A c \in DOMAIN M \ {lo, hi} :
              N[c].order = M[c].order /\ N[c].is_free = M[c].is_free
    <2>1. IsJoined(h, a, b, Joined(h, a, b))
      BY JoinedFacts
    <2>. QED  BY <2>1 DEF IsJoined
  <1>3. a \in Nat /\ b \in Nat
    BY HeaderFields
  <1>4. {lo, hi} = {a, b} /\ lo <= a
    BY <1>3 DEF Lower, Higher
  <1>. HIDE DEF N, lo, hi
  <1>5. lo <= r
    BY <1>1, <1>3, <1>4
  <1>6. ASSUME NEW c \in DOMAIN N \ {lo} PROVE ~ Covers(N, c, r + pow2[o])
    <2>1. c \in DOMAIN M \ {a} /\ N[c].order = M[c].order
      BY <1>2, <1>4
    <2>. QED  BY <1>1, <2>1 DEF Covers
  <1>7. u \in DOMAIN M \ {lo, hi}
    BY <1>1, <1>4
  <1>8. u \in DOMAIN N \ {lo} /\ ~ N[u].is_free
    BY <1>1, <1>2, <1>7
  <1>9. Damaged(N, lo)
    BY <1>1, <1>5, <1>6, <1>8 DEF Damaged
  <1>. QED  BY <1>9 DEF N, lo

(* A half whose first block is free and smaller than the half has a block  *)
(* in use: otherwise its smallest block and that one's buddy were free.    *)
LEMMA UsedInHalf ==
    ASSUME NEW M, Laid(M), NEW a, JoinedBut(M, a),
           NEW y \in DOMAIN M, NEW o \in Orders, Aligned(y, o), M[y].order < o,
           \A c \in DOMAIN M : y <= c /\ c < y + pow2[o] => c # a
    PROVE  \E u \in DOMAIN M : y <= u /\ u < y + pow2[o] /\ ~ M[u].is_free
  <1>. SUFFICES ASSUME \A u \in DOMAIN M : y <= u /\ u < y + pow2[o] => M[u].is_free
                PROVE  FALSE
    OBVIOUS
  <1>0. Headers(M) /\ Tiles(M) /\ \A c \in DOMAIN M : M[c].order \in Orders
    BY DEF Laid
  <1>. DEFINE In(c) == y <= c /\ c < y + pow2[o]
              S == {q \in Nat : \E c \in DOMAIN M : In(c) /\ M[c].order = q}
  <1>1. y \in Nat /\ o \in Nat /\ M[y].order \in Nat /\ pow2[o] \in Nat /\ pow2[o] >= 1
    BY <1>0, HeaderFields, UnitsFacts, Pow2Type
  <1>2. M[y].order \in S
    BY <1>1
  <1>3. PICK q \in S : \A j \in S : q <= j
    <2>1. S \in SUBSET Nat /\ S # {}
      BY <1>2
    <2>. HIDE DEF S
    <2>. QED  BY <2>1, LeastNumber
  <1>4. PICK c \in DOMAIN M : In(c) /\ M[c].order = q
    OBVIOUS
  <1>5. q < o /\ q \in Orders /\ q \in Nat /\ q + 1 <= o /\ q < MAX_ORDER
        /\ q + 1 \in Nat
    <2>1. q <= M[y].order
      BY <1>2, <1>3
    <2>2. q \in Nat /\ q < o
      BY <1>1, <2>1
    <2>. QED  BY <1>1, <2>2, SizesAssumption DEF Orders
  <1>6. c \in Nat /\ c < Units /\ Aligned(c, q)
    BY <1>0, <1>4, HeaderFields, TilesPlaced DEF Placed
  <1>. DEFINE d == Buddy(c, q)
              lo == Lower(c, d)
  <1>7. d \in DOMAIN M /\ M[d].order <= q
    BY <1>0, <1>4, <1>5, <1>6, BuddyIsBlock
  <1>8. /\ d \in Nat /\ d # c
        /\ lo \in Nat /\ Higher(c, d) = lo + pow2[q]
        /\ Aligned(lo, q + 1) /\ pow2[q + 1] = 2 * pow2[q]
        /\ pow2[q] \in Nat /\ pow2[q] >= 1
    BY <1>5, <1>6, BuddyInHeap
  <1>9. (c = lo /\ d = lo + pow2[q]) \/ (d = lo /\ c = lo + pow2[q])
    BY <1>6, <1>8 DEF Lower, Higher
  <1>. HIDE DEF d, lo
  <1>10. lo < y => lo + pow2[q + 1] <= y
    BY <1>1, <1>5, <1>8, Nested
  <1>11. y <= lo
    BY <1>1, <1>4, <1>6, <1>8, <1>9, <1>10
  <1>12. lo < y + pow2[o]
    BY <1>1, <1>4, <1>6, <1>8, <1>9
  <1>13. lo + pow2[q + 1] <= y + pow2[o]
    BY <1>1, <1>5, <1>8, <1>11, <1>12, Nested
  <1>14. In(d)
    BY <1>1, <1>8, <1>9, <1>11, <1>13
  <1>15. M[d].order \in Nat
    BY <1>0, <1>7, HeaderFields
  <1>16. M[d].order = q
    <2>1. M[d].order \in S
      BY <1>7, <1>14, <1>15
    <2>. QED  BY <1>3, <1>5, <1>7, <1>15, <2>1
  <1>17. c # a /\ d # a /\ M[c].is_free /\ M[d].is_free
    BY <1>4, <1>7, <1>14
  <1>18. AreBuddies(M, c, d)
    BY <1>4, <1>5, <1>16, <1>17 DEF AreBuddies, d
  <1>. QED  BY <1>4, <1>7, <1>17, <1>18 DEF JoinedBut

(* Joining a block with a smaller buddy damages the heap: the rest of the  *)
(* buddy has a block in use.                                               *)
LEMMA DamageDone ==
    ASSUME NEW h, NEW a \in DOMAIN h.meta, NEW used, Around(h, a, used),
           NEW b \in DOMAIN h.meta, b = Buddy(a, h.meta[a].order),
           h.meta[b].is_free, h.meta[b].order # h.meta[a].order
    PROVE  Damaged(Joined(h, a, b).meta, Lower(a, b))
  <1>. DEFINE M == h.meta
              N == Joined(h, a, b).meta
              o == M[a].order
              lo == Lower(a, b)
              hi == Higher(a, b)
  <1>1. IsHeap(h) /\ Laid(M) /\ JoinedBut(M, a)
    BY DEF Around
  <1>2. Headers(M) /\ Tiles(M) /\ o \in Orders /\ M[b].order \in Orders
    BY <1>1 DEF Laid
  <1>3. a \in Nat /\ a < Units /\ o \in Nat /\ M[b].order \in Nat /\ Aligned(a, o)
    BY <1>2, HeaderFields, TilesPlaced DEF Placed
  <1>4. /\ b \in Nat /\ b # a /\ Aligned(b, o)
        /\ lo \in Nat /\ hi = lo + pow2[o]
        /\ Aligned(lo, o + 1) /\ pow2[o + 1] = 2 * pow2[o]
        /\ lo + pow2[o + 1] <= Units /\ pow2[o] \in Nat /\ pow2[o] >= 1
    BY <1>2, <1>3, BuddyInHeap
  <1>5. M[b].order <= o
    BY <1>2, <1>3, BuddyIsBlock
  <1>6. M[b].order < o
    BY <1>3, <1>5
  <1>7. (a = lo /\ b = hi) \/ (b = lo /\ a = hi)
    BY <1>3, <1>4 DEF Lower, Higher
  <1>8. \A c \in DOMAIN M : b <= c /\ c < b + pow2[o] => c # a
    BY <1>3, <1>4, <1>7
  <1>9. PICK u \in DOMAIN M : b <= u /\ u < b + pow2[o] /\ ~ M[u].is_free
    BY <1>1, <1>2, <1>4, <1>6, <1>8, UsedInHalf
  <1>10. u # b /\ u # a /\ u \in Nat
    BY <1>2, <1>8, <1>9, HeaderFields
  <1>11. /\ DOMAIN N = DOMAIN M \ {hi}
         /\ \A c \in DOMAIN M \ {lo, hi} :
               N[c].order = M[c].order /\ N[c].is_free = M[c].is_free
    <2>1. IsJoined(h, a, b, Joined(h, a, b))
      BY <1>1, <1>2, <1>4, JoinedFacts
    <2>. HIDE DEF N, lo, hi, M
    <2>. QED  BY <2>1 DEF IsJoined, N, lo, hi, M
  <1>. HIDE DEF N, lo, hi, o
  <1>12. ASSUME NEW c \in DOMAIN N \ {lo} PROVE ~ Covers(N, c, lo + pow2[o])
    <2>1. c \in DOMAIN M /\ c # hi /\ hi \in DOMAIN M /\ N[c].order = M[c].order
      BY <1>7, <1>11
    <2>2. ~ Covers(M, c, hi)
      BY <1>2, <2>1, TilesPlaced DEF Placed
    <2>. QED  BY <1>4, <2>1, <2>2 DEF Covers
  <1>13. u \in DOMAIN N \ {lo} /\ ~ N[u].is_free
    BY <1>7, <1>9, <1>10, <1>11
  <1>14. lo <= u /\ u < lo + pow2[o + 1] /\ lo <= lo
    BY <1>3, <1>4, <1>7, <1>9, <1>10
  <1>15. Damaged(N, lo)
    BY <1>3, <1>4, <1>10, <1>12, <1>13, <1>14 DEF Damaged
  <1>. QED  BY <1>15 DEF N, lo

(* Joining two blocks of one order.                                        *)
LEMMA JoinedLaid ==
    ASSUME NEW h, IsHeap(h), Laid(h.meta), NEW a \in DOMAIN h.meta,
           NEW o \in Orders, h.meta[a].order = o, o < MAX_ORDER,
           NEW b \in DOMAIN h.meta, b = Buddy(a, o), h.meta[b].order = o,
           NEW j, IsJoined(h, a, b, j)
    PROVE  Laid(j.meta)
  <1>. DEFINE M == h.meta
              N == j.meta
              lo == Lower(a, b)
              hi == Higher(a, b)
              end == lo + pow2[o + 1]
  <1>1. Headers(M) /\ Tiles(M) /\ \A c \in DOMAIN M : M[c].order \in Orders
    BY DEF Laid
  <1>2. a \in Nat /\ a < Units /\ Aligned(a, o) /\ o \in Nat
    BY <1>1, HeaderFields, TilesPlaced DEF Placed
  <1>3. /\ b \in Nat /\ b # a
        /\ lo \in Nat /\ hi = lo + pow2[o]
        /\ Aligned(lo, o + 1) /\ pow2[o + 1] = 2 * pow2[o]
        /\ lo + pow2[o + 1] <= Units /\ pow2[o] \in Nat /\ pow2[o] >= 1
    BY <1>2, BuddyInHeap
  <1>4. /\ (a = lo /\ b = hi) \/ (b = lo /\ a = hi)
        /\ lo \in DOMAIN M /\ hi \in DOMAIN M
        /\ M[lo].order = o /\ M[hi].order = o
    BY <1>2, <1>3 DEF Lower, Higher
  <1>5. /\ Headers(N) /\ DOMAIN N = DOMAIN M \ {hi} /\ lo \in DOMAIN N
        /\ \A c \in DOMAIN M \ {lo, hi} :
              /\ N[c].order = M[c].order /\ N[c].next = M[c].next
              /\ N[c].prev = IF c = M[hi].next THEN lo ELSE M[c].prev
        /\ N[lo].order = o + 1 /\ N[lo].next = M[hi].next
        /\ lo # M[hi].next => N[lo].prev = M[lo].prev
    BY <1>4 DEF IsJoined
  <1>. HIDE DEF lo, hi, N
  <1>6. hi + pow2[o] = end /\ end \in Nat
    BY <1>3
  <1>7. /\ M[hi].next = IF end = Units THEN NULL ELSE end
        /\ end # Units => end \in DOMAIN M /\ M[end].prev = hi
        /\ \A c \in DOMAIN M \ {hi} : ~ Covers(M, hi, c)
    BY <1>1, <1>4, <1>6, TilesPlaced DEF Placed
  <1>8. end # lo /\ end # hi /\ M[hi].next # lo /\ M[hi].next # hi
    <2>1. end # lo /\ end # hi
      BY <1>3
    <2>. QED  BY <1>3, <1>7, <2>1 DEF NULL
  <1>. HIDE DEF end
  <1>9. Placed(N, lo)
    <2>1. lo + pow2[N[lo].order] = end
      BY <1>5 DEF end
    <2>2. end # Units => end \in DOMAIN N /\ N[end].prev = lo
      BY <1>5, <1>7, <1>8
    <2>3. ASSUME NEW c \in DOMAIN N \ {lo} PROVE ~ Covers(N, lo, c)
      <3>1. c \in DOMAIN M \ {lo, hi} /\ c \in Nat
        BY <1>1, <1>5, HeaderFields
      <3>2. ~ Covers(M, lo, c) /\ ~ Covers(M, hi, c)
        BY <1>1, <1>4, <1>7, <3>1, TilesPlaced DEF Placed
      <3>3. ~ (lo <= c /\ c < lo + pow2[o]) /\ ~ (hi <= c /\ c < hi + pow2[o])
        BY <1>4, <3>2 DEF Covers
      <3>4. ~ (lo <= c /\ c < end)
        BY <1>3, <1>6, <3>1, <3>3
      <3>. QED  BY <2>1, <3>4 DEF Covers
    <2>. QED  BY <1>3, <1>5, <1>7, <2>1, <2>2, <2>3 DEF Placed
  <1>10. ASSUME NEW c \in DOMAIN N \ {lo} PROVE Placed(N, c)
    <2>1. c \in DOMAIN M \ {lo, hi} /\ c \in Nat
      BY <1>1, <1>5, HeaderFields
    <2>. DEFINE e == c + pow2[M[c].order]
    <2>2. N[c].order = M[c].order /\ N[c].next = M[c].next
      BY <1>5, <2>1
    <2>3. /\ Aligned(c, M[c].order) /\ M[c].next = IF e = Units THEN NULL ELSE e
          /\ e # Units => e \in DOMAIN M /\ M[e].prev = c
          /\ \A d \in DOMAIN M \ {c} : ~ Covers(M, c, d)
      BY <1>1, <2>1, TilesPlaced DEF Placed
    <2>4. ASSUME e # Units PROVE e \in DOMAIN N /\ N[e].prev = c
      <3>1. e \in DOMAIN M /\ M[e].prev = c
        BY <2>3, <2>4
      <3>2. M[hi].prev = lo
        <4>1. lo + pow2[M[lo].order] = hi
          BY <1>3, <1>4
        <4>2. hi # Units
          BY <1>1, <1>4, HeaderFields, UnitsFacts
        <4>3. Placed(M, lo)
          BY <1>1, <1>4, TilesPlaced
        <4>. QED  BY <4>1, <4>2, <4>3 DEF Placed
      <3>3. e # hi
        BY <2>1, <3>1, <3>2
      <3>4. e # M[hi].next
        BY <1>7, <2>1, <3>1, <3>3, UnitsFacts, HeaderFields, <1>1 DEF NULL
      <3>. HIDE DEF e
      <3>5. CASE e = lo
        BY <1>5, <1>8, <3>1, <3>5
      <3>6. CASE e # lo
        BY <1>5, <3>1, <3>3, <3>4, <3>6
      <3>. QED  BY <3>5, <3>6
    <2>5. ASSUME NEW d \in DOMAIN N \ {c} PROVE ~ Covers(N, c, d)
      BY <1>5, <2>2, <2>3 DEF Covers
    <2>. QED  BY <2>2, <2>3, <2>4, <2>5 DEF Placed
  <1>11. Tiles(N)
    BY <1>5, <1>9, <1>10, TilesPlaced
  <1>12. ASSUME NEW c \in DOMAIN N PROVE N[c].order \in Orders
    <2>1. o + 1 \in Orders
      BY <1>2, SizesAssumption DEF Orders
    <2>. QED  BY <1>1, <1>5, <2>1
  <1>. QED  BY <1>5, <1>11, <1>12 DEF Laid, N

(* Only the joined block is left to be dealt with.                         *)
LEMMA JoinedAround ==
    ASSUME NEW h, NEW a \in DOMAIN h.meta, NEW used, Around(h, a, used),
           NEW o \in Orders, h.meta[a].order = o, o < MAX_ORDER,
           NEW b \in DOMAIN h.meta, b = Buddy(a, o), h.meta[b].order = o,
           h.meta[b].is_free
    PROVE  LET j == Joined(h, a, b)
           IN  /\ Around(j, Lower(a, b), used)
               /\ Lower(a, b) \in DOMAIN j.meta
               /\ DOMAIN j.meta = DOMAIN h.meta \ {Higher(a, b)}
               /\ j.mmaps = h.mmaps /\ j.mapped = h.mapped /\ j.fault = h.fault
  <1>. DEFINE M == h.meta
              j == Joined(h, a, b)
              N == j.meta
              lo == Lower(a, b)
              hi == Higher(a, b)
  <1>1. IsHeap(h) /\ Laid(M) /\ ListsFreeBut(h, a) /\ JoinedBut(M, a)
        /\ UsedBut(M, a) = used
    BY DEF Around
  <1>2. Headers(M) /\ Tiles(M)
    BY <1>1 DEF Laid
  <1>3. a \in Nat /\ b \in Nat /\ a < Units /\ Aligned(a, o)
    BY <1>2, HeaderFields, TilesPlaced DEF Placed
  <1>4. a # b
    BY <1>3, BuddyInHeap
  <1>5. IsJoined(h, a, b, j)
    BY <1>1, <1>2, <1>4, JoinedFacts
  <1>. HIDE DEF j
  <1>6. Laid(N)
    BY <1>1, <1>5, JoinedLaid
  <1>7. {lo, hi} = {a, b} /\ lo # hi
    BY <1>3, <1>4 DEF Lower, Higher
  <1>8. /\ IsHeap(j) /\ DOMAIN N = DOMAIN M \ {hi} /\ lo \in DOMAIN N
        /\ \A c \in DOMAIN M \ {lo, hi} :
              N[c].order = M[c].order /\ N[c].is_free = M[c].is_free
    BY <1>5 DEF IsJoined
  <1>9. /\ j.freed = [h.freed EXCEPT ![o] = Removed(Removed(@, b), a)]
        /\ j.mmaps = h.mmaps /\ j.mapped = h.mapped /\ j.fault = h.fault
    BY <1>5 DEF IsJoined
  <1>. HIDE DEF N, lo, hi, M
  <1>10. DOMAIN N \ {lo} = DOMAIN M \ {a, b}
    BY <1>7, <1>8
  <1>10a. /\ \A c \in DOMAIN N \ {lo} : N[c].order = M[c].order
          /\ \A c \in DOMAIN N \ {lo} : N[c].is_free = M[c].is_free
    BY <1>7, <1>8, <1>10
  <1>11. /\ h.freed \in [Orders -> Seq(Nat)]
         /\ \A x \in Orders :
              /\ Sorted(h.freed[x])
              /\ ToSet(h.freed[x]) =
                    {c \in DOMAIN M \ {a} : M[c].is_free /\ M[c].order = x}
    BY <1>1 DEF ListsFreeBut, M
  <1>12. PICK l : l = Removed(h.freed[o], b)
    OBVIOUS
  <1>13. l \in Seq(Nat) /\ Sorted(l) /\ ToSet(l) = ToSet(h.freed[o]) \ {b}
    BY <1>3, <1>11, <1>12, RemovedFacts
  <1>14. PICK k : k = Removed(l, a)
    OBVIOUS
  <1>15. k \in Seq(Nat) /\ Sorted(k) /\ ToSet(k) = ToSet(l) \ {a}
    BY <1>3, <1>13, <1>14, RemovedFacts
  <1>16. j.freed \in [Orders -> Seq(Nat)] /\ j.freed[o] = k
         /\ \A x \in Orders \ {o} : j.freed[x] = h.freed[x]
    BY <1>9, <1>11, <1>12, <1>14, <1>15
  <1>17. ASSUME NEW x \in Orders
         PROVE  /\ Sorted(j.freed[x])
                /\ ToSet(j.freed[x]) =
                     {c \in DOMAIN N \ {lo} : N[c].is_free /\ N[c].order = x}
    <2>1. {c \in DOMAIN N \ {lo} : N[c].is_free /\ N[c].order = x} =
            {c \in DOMAIN M \ {a, b} : M[c].is_free /\ M[c].order = x}
      BY <1>10, <1>10a
    <2>2. CASE x = o
      BY <1>11, <1>13, <1>15, <1>16, <2>1, <2>2
    <2>3. CASE x # o
      <3>1. M[b].order # x
        BY <2>3 DEF M
      <3>2. {c \in DOMAIN M \ {a, b} : M[c].is_free /\ M[c].order = x} =
              {c \in DOMAIN M \ {a} : M[c].is_free /\ M[c].order = x}
        BY <3>1
      <3>3. j.freed[x] = h.freed[x]
        BY <1>16, <2>3
      <3>. QED  BY <1>11, <2>1, <3>2, <3>3
    <2>. QED  BY <2>2, <2>3
  <1>18. ListsFreeBut(j, lo)
    BY <1>16, <1>17 DEF ListsFreeBut, N
  <1>19. JoinedBut(N, lo)
    <2>. SUFFICES ASSUME NEW c \in DOMAIN N \ {lo}, NEW d \in DOMAIN N \ {lo},
                         AreBuddies(N, c, d)
                  PROVE  FALSE
      BY DEF JoinedBut
    <2>1. AreBuddies(M, c, d)
      BY <1>10a DEF AreBuddies
    <2>2. c \in DOMAIN M \ {a} /\ d \in DOMAIN M \ {a}
      BY <1>10
    <2>. QED  BY <1>1, <2>1, <2>2 DEF JoinedBut, M
  <1>20. UsedBut(N, lo) = used
    <2>1. UsedBut(N, lo) = {c \in DOMAIN M \ {a, b} : ~ M[c].is_free}
      BY <1>10, <1>10a DEF UsedBut
    <2>2. M[b].is_free
      BY DEF M
    <2>3. {c \in DOMAIN M \ {a, b} : ~ M[c].is_free} = UsedBut(M, a)
      BY <2>2 DEF UsedBut
    <2>. QED  BY <1>1, <2>1, <2>3 DEF M
  <1>21. Around(j, lo, used)
    BY <1>6, <1>8, <1>18, <1>19, <1>20 DEF Around, N
  <1>. QED  BY <1>8, <1>9, <1>21 DEF j, N, M, lo, hi

(* Halving a block: the buddy is its upper half.                           *)
LEMMA UpperHalf ==
    ASSUME NEW M, Laid(M), NEW a \in DOMAIN M, NEW o \in Orders,
           M[a].order = o + 1
    PROVE  /\ a \in Nat /\ Aligned(a, o) /\ Aligned(a, o + 1) /\ o \in Nat
           /\ Buddy(a, o) = a + pow2[o] /\ Aligned(a + pow2[o], o)
           /\ Buddy(a + pow2[o], o) = a
           /\ pow2[o] \in Nat /\ pow2[o] >= 1 /\ pow2[o + 1] = 2 * pow2[o]
           /\ a + pow2[o] \in 0..(Units - 1) /\ a + pow2[o] \notin DOMAIN M
  <1>. DEFINE b == Buddy(a, o)
  <1>1. Headers(M) /\ Tiles(M)
    BY DEF Laid
  <1>2. /\ o \in Nat /\ o + 1 \in Nat /\ a \in Nat /\ a < Units
        /\ Aligned(a, o + 1) /\ \A c \in DOMAIN M \ {a} : ~ Covers(M, a, c)
    BY <1>1, UnitsFacts, HeaderFields, TilesPlaced DEF Placed
  <1>3. Aligned(a, o)
    BY <1>2, AlignedDown
  <1>4. /\ b \in Nat /\ b # a /\ b < Units /\ Aligned(b, o) /\ Buddy(b, o) = a
        /\ pow2[o] \in Nat /\ pow2[o] >= 1 /\ pow2[o + 1] = 2 * pow2[o]
    BY <1>2, <1>3, BuddyInHeap
  <1>5. \/ b = a + pow2[o]
        \/ a = b + pow2[o] /\ Aligned(b, o + 1)
    BY <1>2, <1>3, BuddyFacts
  <1>. HIDE DEF b
  <1>6. ~ (a = b + pow2[o] /\ Aligned(b, o + 1))
    <2>. SUFFICES ASSUME a = b + pow2[o], Aligned(b, o + 1) PROVE FALSE
      OBVIOUS
    <2>1. b < a
      BY <1>4
    <2>2. b + pow2[o + 1] <= a
      BY <1>2, <1>4, <2>1, Nested
    <2>. QED  BY <1>4, <2>2
  <1>7. b = a + pow2[o]
    BY <1>5, <1>6
  <1>8. Covers(M, a, b)
    BY <1>2, <1>4, <1>7 DEF Covers
  <1>9. b \notin DOMAIN M
    BY <1>2, <1>4, <1>8
  <1>10. b \in 0..(Units - 1)
    BY <1>4, UnitsFacts
  <1>. QED  BY <1>2, <1>3, <1>4, <1>7, <1>9, <1>10 DEF b

(* The headers still tile the heap.                                        *)
LEMMA HalvedLaid ==
    ASSUME NEW h, IsHeap(h), Laid(h.meta), NEW a \in DOMAIN h.meta,
           NEW o \in Orders, h.meta[a].order = o + 1,
           NEW b, b = Buddy(a, o), NEW j, IsHalved(h, a, o, b, j)
    PROVE  Laid(j.meta)
  <1>. DEFINE M == h.meta
              N == j.meta
              end == a + pow2[o + 1]
  <1>1. Headers(M) /\ Tiles(M) /\ \A c \in DOMAIN M : M[c].order \in Orders
    BY DEF Laid
  <1>2. /\ a \in Nat /\ Aligned(a, o) /\ o \in Nat
        /\ b = a + pow2[o] /\ Aligned(b, o)
        /\ pow2[o] \in Nat /\ pow2[o] >= 1 /\ pow2[o + 1] = 2 * pow2[o]
        /\ b \in 0..(Units - 1) /\ b \notin DOMAIN M
    BY UpperHalf
  <1>3. /\ Headers(N) /\ DOMAIN N = DOMAIN M \cup {b}
        /\ \A c \in DOMAIN M \ {a} :
              /\ N[c].order = M[c].order /\ N[c].next = M[c].next
              /\ N[c].prev = IF c = M[a].next THEN b ELSE M[c].prev
        /\ N[a].order = o /\ N[b].order = o
        /\ N[a].next = b /\ N[b].next = M[a].next
        /\ a # M[a].next => N[a].prev = M[a].prev
        /\ b # M[a].next => N[b].prev = a
    BY DEF IsHalved
  <1>4. b \in Nat /\ b + pow2[o] = end /\ end \in Nat /\ b # Units
        /\ end # a /\ end # b
    BY <1>2, UnitsFacts
  <1>5. /\ M[a].next = IF end = Units THEN NULL ELSE end
        /\ end # Units => end \in DOMAIN M /\ M[end].prev = a
        /\ \A c \in DOMAIN M \ {a} : ~ Covers(M, a, c)
    BY <1>1, TilesPlaced DEF Placed
  <1>6. M[a].next # a /\ M[a].next # b
    BY <1>2, <1>4, <1>5 DEF NULL
  <1>. HIDE DEF N, end
  <1>7. ASSUME NEW c \in DOMAIN M \ {a}
        PROVE  c \in Nat /\ ~ (a <= c /\ c < end)
    <2>1. c \in Nat /\ ~ Covers(M, a, c)
      BY <1>1, <1>5, HeaderFields
    <2>. QED  BY <2>1 DEF Covers, end
  <1>8. Placed(N, a)
    <2>1. a + pow2[N[a].order] = b
      BY <1>2, <1>3
    <2>2. b \in DOMAIN N /\ N[b].prev = a
      BY <1>3, <1>6
    <2>3. ASSUME NEW c \in DOMAIN N \ {a} PROVE ~ Covers(N, a, c)
      <3>1. c = b \/ c \in DOMAIN M \ {a}
        BY <1>3
      <3>2. ~ (a <= c /\ c < b)
        BY <1>2, <1>4, <1>7, <3>1
      <3>. QED  BY <2>1, <3>2 DEF Covers
    <2>. QED  BY <1>2, <1>3, <1>4, <2>1, <2>2, <2>3 DEF Placed
  <1>9. Placed(N, b)
    <2>1. b + pow2[N[b].order] = end
      BY <1>3, <1>4
    <2>2. end # Units => end \in DOMAIN N /\ N[end].prev = b
      BY <1>3, <1>4, <1>5
    <2>3. ASSUME NEW c \in DOMAIN N \ {b} PROVE ~ Covers(N, b, c)
      <3>1. c = a \/ c \in DOMAIN M \ {a}
        BY <1>3
      <3>2. ~ (b <= c /\ c < end)
        BY <1>2, <1>4, <1>7, <3>1
      <3>. QED  BY <2>1, <3>2 DEF Covers
    <2>. QED  BY <1>2, <1>3, <1>5, <2>1, <2>2, <2>3 DEF Placed
  <1>10. ASSUME NEW c \in DOMAIN M \ {a} PROVE Placed(N, c)
    <2>. DEFINE e == c + pow2[M[c].order]
    <2>1. c \in Nat /\ pow2[M[c].order] \in Nat /\ c # b
      BY <1>1, <1>2, HeaderFields
    <2>2. N[c].order = M[c].order /\ N[c].next = M[c].next
      BY <1>3
    <2>3. /\ Aligned(c, M[c].order) /\ M[c].next = IF e = Units THEN NULL ELSE e
          /\ e # Units => e \in DOMAIN M /\ M[e].prev = c
          /\ \A d \in DOMAIN M \ {c} : ~ Covers(M, c, d)
      BY <1>1, TilesPlaced DEF Placed
    <2>4. ASSUME e # Units PROVE e \in DOMAIN N /\ N[e].prev = c
      <3>1. e \in DOMAIN M /\ M[e].prev = c
        BY <2>3, <2>4
      <3>2. e # M[a].next
        <4>1. e \in Nat
          BY <2>1
        <4>. QED  BY <1>5, <3>1, <4>1 DEF NULL
      <3>. HIDE DEF e
      <3>3. CASE e = a
        BY <1>3, <1>6, <3>1, <3>3
      <3>4. CASE e # a
        BY <1>3, <3>1, <3>2, <3>4
      <3>. QED  BY <3>3, <3>4
    <2>5. ASSUME NEW d \in DOMAIN N \ {c} PROVE ~ Covers(N, c, d)
      <3>1. CASE d # b
        BY <1>3, <2>2, <2>3, <3>1 DEF Covers
      <3>2. CASE d = b
        <4>1. ~ Covers(M, c, a)
          BY <2>3
        <4>2. c < a \/ c >= end
          BY <1>2, <1>4, <1>7, <2>1
        <4>3. ~ (c <= b /\ b < e)
          <5>1. c < a => e <= a
            BY <1>2, <2>1, <4>1 DEF Covers
          <5>. QED  BY <1>2, <1>4, <2>1, <4>2, <5>1
        <4>. QED  BY <2>2, <3>2, <4>3 DEF Covers
      <3>. QED  BY <3>1, <3>2
    <2>. QED  BY <2>2, <2>3, <2>4, <2>5 DEF Placed
  <1>11. Tiles(N)
    BY <1>3, <1>8, <1>9, <1>10, TilesPlaced
  <1>12. ASSUME NEW c \in DOMAIN N PROVE N[c].order \in Orders
    BY <1>1, <1>3
  <1>. QED  BY <1>3, <1>11, <1>12 DEF Laid, N

(* The upper half is a free block that is listed, and the lower half is    *)
(* left to be dealt with.                                                  *)
LEMMA HalvedAround ==
    ASSUME NEW h, NEW a \in DOMAIN h.meta, NEW used, Around(h, a, used),
           NEW o \in Orders, h.meta[a].order = o + 1
    PROVE  LET j == Halved(h, a)
           IN  /\ Around(j, a, used) /\ a \in DOMAIN j.meta
               /\ j.meta[a].order = o
               /\ j.mmaps = h.mmaps /\ j.mapped = h.mapped /\ j.fault = h.fault
  <1>. DEFINE M == h.meta
              j == Halved(h, a)
              N == j.meta
              b == Buddy(a, o)
  <1>1. IsHeap(h) /\ Laid(M) /\ ListsFreeBut(h, a) /\ JoinedBut(M, a)
        /\ UsedBut(M, a) = used
    BY DEF Around
  <1>2. Headers(M) /\ Tiles(M)
    BY <1>1 DEF Laid
  <1>3. /\ a \in Nat /\ b \in 0..(Units - 1) /\ b \notin DOMAIN M
        /\ Buddy(b, o) = a /\ b \in Nat
    BY <1>1, UpperHalf, UnitsFacts
  <1>4. IsHalved(h, a, o, b, j)
    BY <1>1, <1>2, <1>3, HalvedFacts
  <1>. HIDE DEF j
  <1>5. Laid(N)
    BY <1>1, <1>4, HalvedLaid
  <1>6. /\ IsHeap(j) /\ DOMAIN N = DOMAIN M \cup {b}
        /\ \A c \in DOMAIN M \ {a} : N[c].order = M[c].order
        /\ \A c \in DOMAIN M \ {a} : N[c].is_free = M[c].is_free
        /\ N[a].order = o /\ N[b].order = o /\ N[b].is_free
    BY <1>4 DEF IsHalved
  <1>7. /\ j.freed = [h.freed EXCEPT ![o] = Inserted(@, b)]
        /\ j.mmaps = h.mmaps /\ j.mapped = h.mapped /\ j.fault = h.fault
    BY <1>4 DEF IsHalved
  <1>. HIDE DEF N, M, b
  <1>7a. a \in DOMAIN M
    BY DEF M
  <1>8. DOMAIN N \ {a} = (DOMAIN M \ {a}) \cup {b}
    BY <1>3, <1>6, <1>7a
  <1>9. /\ h.freed \in [Orders -> Seq(Nat)]
        /\ \A x \in Orders :
              /\ Sorted(h.freed[x])
              /\ ToSet(h.freed[x]) =
                    {c \in DOMAIN M \ {a} : M[c].is_free /\ M[c].order = x}
    BY <1>1 DEF ListsFreeBut, M
  <1>10. PICK l : l = Inserted(h.freed[o], b)
    OBVIOUS
  <1>11. b \notin ToSet(h.freed[o])
    BY <1>3, <1>9
  <1>12. l \in Seq(Nat) /\ Sorted(l) /\ ToSet(l) = ToSet(h.freed[o]) \cup {b}
    BY <1>3, <1>9, <1>10, <1>11, InsertedFacts
  <1>13. j.freed \in [Orders -> Seq(Nat)] /\ j.freed[o] = l
         /\ \A x \in Orders \ {o} : j.freed[x] = h.freed[x]
    BY <1>7, <1>9, <1>10, <1>12
  <1>14. ASSUME NEW x \in Orders
         PROVE  /\ Sorted(j.freed[x])
                /\ ToSet(j.freed[x]) =
                     {c \in DOMAIN N \ {a} : N[c].is_free /\ N[c].order = x}
    <2>1. CASE x = o
      <3>1. {c \in DOMAIN N \ {a} : N[c].is_free /\ N[c].order = x} =
              {c \in DOMAIN M \ {a} : M[c].is_free /\ M[c].order = x} \cup {b}
        BY <1>3, <1>6, <1>8, <2>1
      <3>. QED  BY <1>9, <1>12, <1>13, <2>1, <3>1
    <2>2. CASE x # o
      <3>1. {c \in DOMAIN N \ {a} : N[c].is_free /\ N[c].order = x} =
              {c \in DOMAIN M \ {a} : M[c].is_free /\ M[c].order = x}
        BY <1>3, <1>6, <1>8, <2>2
      <3>. QED  BY <1>9, <1>13, <2>2, <3>1
    <2>. QED  BY <2>1, <2>2
  <1>15. ListsFreeBut(j, a)
    BY <1>13, <1>14 DEF ListsFreeBut, N
  <1>16. JoinedBut(N, a)
    <2>. SUFFICES ASSUME NEW c \in DOMAIN N \ {a}, NEW d \in DOMAIN N \ {a},
                         AreBuddies(N, c, d)
                  PROVE  FALSE
      BY DEF JoinedBut
    <2>1. CASE c = b
      <3>1. d = Buddy(b, o)
        BY <1>6, <2>1 DEF AreBuddies
      <3>. QED  BY <1>3, <3>1
    <2>2. CASE c # b /\ d = b
      <3>1. c \in DOMAIN M /\ N[c].order = o /\ b = Buddy(c, o)
        BY <1>6, <1>8, <2>2 DEF AreBuddies
      <3>2. Headers(N) /\ Tiles(N)
        BY <1>5 DEF Laid
      <3>3. c \in Nat /\ Aligned(c, o) /\ o \in Nat
        BY <3>1, <3>2, HeaderFields, TilesPlaced, UnitsFacts DEF Placed
      <3>4. Buddy(b, o) = c
        BY <3>1, <3>3, BuddyFacts
      <3>. QED  BY <1>3, <3>4
    <2>3. CASE c # b /\ d # b
      <3>1. c \in DOMAIN M \ {a} /\ d \in DOMAIN M \ {a}
        BY <1>8, <2>3
      <3>2. AreBuddies(M, c, d)
        BY <1>6, <3>1 DEF AreBuddies
      <3>. QED  BY <1>1, <3>1, <3>2 DEF JoinedBut, M
    <2>. QED  BY <2>1, <2>2, <2>3
  <1>17. UsedBut(N, a) = used
    <2>1. UsedBut(N, a) = UsedBut(M, a)
      BY <1>3, <1>6, <1>8 DEF UsedBut
    <2>. QED  BY <1>1, <2>1 DEF M
  <1>18. Around(j, a, used)
    BY <1>5, <1>6, <1>15, <1>16, <1>17 DEF Around, N
  <1>19. a \in DOMAIN N
    BY <1>6, <1>7a
  <1>. QED  BY <1>6, <1>7, <1>18, <1>19 DEF j, N

-----------------------------------------------------------------------------
(* The end of the loops, which sets is_free.                               *)

(* N has the headers of M, but for is_free at a.                           *)
SameBut(M, N, a) ==
    /\ Headers(N) /\ DOMAIN N = DOMAIN M
    /\ \A c \in DOMAIN M : /\ N[c].order = M[c].order
                           /\ N[c].next = M[c].next /\ N[c].prev = M[c].prev
    /\ \A c \in DOMAIN M \ {a} : N[c].is_free = M[c].is_free

(* A header changes in is_free only.                                       *)
LEMMA MarkedHeaders ==
    ASSUME NEW M, Headers(M), NEW a \in DOMAIN M, NEW x \in Header4,
           x.order = M[a].order, x.next = M[a].next, x.prev = M[a].prev,
           NEW N, N = [M EXCEPT ![a] = x]
    PROVE  SameBut(M, N, a) /\ N[a] = x
  <1>1. DOMAIN N = DOMAIN M /\ N[a] = x /\ \A c \in DOMAIN M \ {a} : N[c] = M[c]
    OBVIOUS
  <1>2. Headers(N)
    <2>1. M \in [DOMAIN M -> Header4]
      BY DEF Headers, Header4
    <2>2. N \in [DOMAIN N -> Header4]
      BY <2>1
    <2>. QED  BY <1>1, <2>2 DEF Headers, Header4
  <1>3. ASSUME NEW c \in DOMAIN M
        PROVE  /\ N[c].order = M[c].order
               /\ N[c].next = M[c].next /\ N[c].prev = M[c].prev
    <2>1. CASE c = a
      BY <1>1, <2>1
    <2>2. CASE c # a
      BY <1>1, <2>2
    <2>. QED  BY <2>1, <2>2
  <1>4. \A c \in DOMAIN M \ {a} : N[c].is_free = M[c].is_free
    BY <1>1
  <1>. QED  BY <1>1, <1>2, <1>3, <1>4 DEF SameBut

(* j is h with is_free set at a.                                           *)
IsMarked(h, a, j) ==
    /\ IsHeap(j) /\ SameBut(h.meta, j.meta, a) /\ j.freed = h.freed
    /\ j.mmaps = h.mmaps /\ j.mapped = h.mapped /\ j.fault = h.fault

(* is_free = false.                                                        *)
LEMMA MarkedNo ==
    ASSUME NEW h, IsHeap(h), Headers(h.meta), NEW a \in DOMAIN h.meta,
           NEW j, j = [h EXCEPT !.meta[a].is_free = FALSE]
    PROVE  IsMarked(h, a, j) /\ ~ j.meta[a].is_free
  <1>. DEFINE M == h.meta
              x == [M[a] EXCEPT !.is_free = FALSE]
              N == [M EXCEPT ![a] = x]
  <1>1. M[a] \in Header4
    BY DEF Headers, Header4
  <1>2. /\ x \in Header4 /\ x.order = M[a].order /\ x.next = M[a].next
        /\ x.prev = M[a].prev /\ ~ x.is_free
    <2>1. PICK m \in Header4 : m = M[a]
      BY <1>1
    <2>2. x = [m EXCEPT !.is_free = FALSE]
      BY <2>1
    <2>. HIDE DEF x, M
    <2>3. x \in Header4
      BY <2>2 DEF Header4
    <2>4. /\ x.order = m.order /\ x.next = m.next /\ x.prev = m.prev
          /\ ~ x.is_free
      BY <2>2 DEF Header4
    <2>. QED  BY <2>1, <2>3, <2>4
  <1>. HIDE DEF x
  <1>3. SameBut(M, N, a) /\ N[a] = x
    BY <1>2, MarkedHeaders
  <1>4. j = [h EXCEPT !.meta = N]
    BY DEF x
  <1>. HIDE DEF N
  <1>5. j = [meta |-> N, freed |-> h.freed, mmaps |-> h.mmaps,
             mapped |-> h.mapped, fault |-> h.fault]
    BY <1>4, HeapUpdates
  <1>6. /\ IsHeap(j) /\ j.meta = N /\ j.freed = h.freed
        /\ j.mmaps = h.mmaps /\ j.mapped = h.mapped /\ j.fault = h.fault
    <2>. DEFINE g == [meta |-> N, freed |-> h.freed, mmaps |-> h.mmaps,
                      mapped |-> h.mapped, fault |-> h.fault]
    <2>1. /\ IsHeap(g) /\ g.meta = N /\ g.freed = h.freed
          /\ g.mmaps = h.mmaps /\ g.mapped = h.mapped /\ g.fault = h.fault
      BY DEF IsHeap
    <2>2. j = g
      BY <1>5
    <2>. HIDE DEF g
    <2>. QED  BY <2>1, <2>2
  <1>. QED  BY <1>2, <1>3, <1>6 DEF IsMarked

(* is_free = true.                                                         *)
LEMMA MarkedYes ==
    ASSUME NEW h, IsHeap(h), Headers(h.meta), NEW a \in DOMAIN h.meta,
           NEW j, j = [h EXCEPT !.meta[a].is_free = TRUE]
    PROVE  IsMarked(h, a, j) /\ j.meta[a].is_free
  <1>. DEFINE M == h.meta
              x == [M[a] EXCEPT !.is_free = TRUE]
              N == [M EXCEPT ![a] = x]
  <1>1. M[a] \in Header4
    BY DEF Headers, Header4
  <1>2. /\ x \in Header4 /\ x.order = M[a].order /\ x.next = M[a].next
        /\ x.prev = M[a].prev /\ x.is_free
    <2>1. PICK m \in Header4 : m = M[a]
      BY <1>1
    <2>2. x = [m EXCEPT !.is_free = TRUE]
      BY <2>1
    <2>. HIDE DEF x, M
    <2>3. x \in Header4
      BY <2>2 DEF Header4
    <2>4. /\ x.order = m.order /\ x.next = m.next /\ x.prev = m.prev
          /\ x.is_free
      BY <2>2 DEF Header4
    <2>. QED  BY <2>1, <2>3, <2>4
  <1>. HIDE DEF x
  <1>3. SameBut(M, N, a) /\ N[a] = x
    BY <1>2, MarkedHeaders
  <1>4. j = [h EXCEPT !.meta = N]
    BY DEF x
  <1>. HIDE DEF N
  <1>5. j = [meta |-> N, freed |-> h.freed, mmaps |-> h.mmaps,
             mapped |-> h.mapped, fault |-> h.fault]
    BY <1>4, HeapUpdates
  <1>6. /\ IsHeap(j) /\ j.meta = N /\ j.freed = h.freed
        /\ j.mmaps = h.mmaps /\ j.mapped = h.mapped /\ j.fault = h.fault
    <2>. DEFINE g == [meta |-> N, freed |-> h.freed, mmaps |-> h.mmaps,
                      mapped |-> h.mapped, fault |-> h.fault]
    <2>1. /\ IsHeap(g) /\ g.meta = N /\ g.freed = h.freed
          /\ g.mmaps = h.mmaps /\ g.mapped = h.mapped /\ g.fault = h.fault
      BY DEF IsHeap
    <2>2. j = g
      BY <1>5
    <2>. HIDE DEF g
    <2>. QED  BY <2>1, <2>2
  <1>. QED  BY <1>2, <1>3, <1>6 DEF IsMarked

(* The tiling does not depend on is_free.                                  *)
LEMMA SameLaid ==
    ASSUME NEW M, Laid(M), NEW a, NEW N, SameBut(M, N, a)
    PROVE  Laid(N)
  <1>1. Headers(M) /\ Tiles(M) /\ \A c \in DOMAIN M : M[c].order \in Orders
    BY DEF Laid
  <1>2. /\ Headers(N) /\ DOMAIN N = DOMAIN M
        /\ \A c \in DOMAIN M : /\ N[c].order = M[c].order
                               /\ N[c].next = M[c].next /\ N[c].prev = M[c].prev
    BY DEF SameBut
  <1>3. ASSUME NEW c \in DOMAIN N PROVE Placed(N, c)
    <2>1. Placed(M, c)
      BY <1>1, <1>2, TilesPlaced
    <2>. QED  BY <1>2, <2>1 DEF Placed, Covers
  <1>4. Tiles(N)
    BY <1>2, <1>3, TilesPlaced
  <1>. QED  BY <1>1, <1>2, <1>4 DEF Laid

(* The block becomes one in use.                                           *)
LEMMA MarkedUsed ==
    ASSUME NEW h, NEW a \in DOMAIN h.meta, NEW used, Around(h, a, used)
    PROVE  LET j == [h EXCEPT !.meta[a].is_free = FALSE]
           IN  /\ Around(j, NULL, used \cup {a})
               /\ j.mmaps = h.mmaps /\ j.mapped = h.mapped /\ j.fault = h.fault
  <1>. DEFINE M == h.meta
              j == [h EXCEPT !.meta[a].is_free = FALSE]
              N == j.meta
  <1>1. IsHeap(h) /\ Laid(M) /\ ListsFreeBut(h, a) /\ JoinedBut(M, a)
        /\ UsedBut(M, a) = used /\ Headers(M)
    BY DEF Around, Laid
  <1>2. /\ IsHeap(j) /\ SameBut(M, N, a) /\ ~ N[a].is_free
        /\ j.freed = h.freed /\ j.mmaps = h.mmaps /\ j.mapped = h.mapped
        /\ j.fault = h.fault
    <2>1. IsMarked(h, a, j) /\ ~ N[a].is_free
      BY <1>1, MarkedNo
    <2>. QED  BY <2>1 DEF IsMarked
  <1>. HIDE DEF j
  <1>3. Laid(N)
    BY <1>1, <1>2, SameLaid
  <1>4. /\ DOMAIN N = DOMAIN M /\ NULL \notin DOMAIN M
        /\ \A c \in DOMAIN M : N[c].order = M[c].order
        /\ \A c \in DOMAIN M \ {a} : N[c].is_free = M[c].is_free
    BY <1>1, <1>2 DEF SameBut, Headers, NULL
  <1>. HIDE DEF N, M
  <1>5. ListsFreeBut(j, NULL)
    <2>1. \A x \in Orders :
            {c \in DOMAIN N \ {NULL} : N[c].is_free /\ N[c].order = x} =
              {c \in DOMAIN M \ {a} : M[c].is_free /\ M[c].order = x}
      BY <1>2, <1>4
    <2>. QED  BY <1>1, <1>2, <2>1 DEF ListsFreeBut, N, M
  <1>6. JoinedBut(N, NULL)
    <2>. SUFFICES ASSUME NEW c \in DOMAIN N, NEW d \in DOMAIN N,
                         AreBuddies(N, c, d)
                  PROVE  FALSE
      BY DEF JoinedBut
    <2>1. c # a /\ d # a
      BY <1>2 DEF AreBuddies
    <2>2. AreBuddies(M, c, d) /\ c \in DOMAIN M \ {a} /\ d \in DOMAIN M \ {a}
      BY <1>4, <2>1 DEF AreBuddies
    <2>. QED  BY <1>1, <2>2 DEF JoinedBut
  <1>7. UsedBut(N, NULL) = used \cup {a}
    <2>1. UsedBut(N, NULL) = UsedBut(M, a) \cup {a}
      <3>1. a \in DOMAIN M
        BY DEF M
      <3>. QED  BY <1>2, <1>4, <3>1 DEF UsedBut
    <2>. QED  BY <1>1, <2>1
  <1>8. Around(j, NULL, used \cup {a})
    BY <1>2, <1>3, <1>5, <1>6, <1>7 DEF Around, N
  <1>. QED  BY <1>2, <1>8 DEF j

(* The block becomes a free one, in its list; its buddy is not free, or    *)
(* not a whole.                                                            *)
LEMMA MarkedFree ==
    ASSUME NEW h, NEW a \in DOMAIN h.meta, NEW used, Around(h, a, used),
           ~ Joinable(h, Buddy(a, h.meta[a].order))
    PROVE  LET m == [h EXCEPT !.meta[a].is_free = TRUE]
               j == AddToFreeOrder(m, a, h.meta[a].order)
           IN  /\ Around(j, NULL, used) /\ SameBut(h.meta, j.meta, a)
               /\ j.meta[a].is_free
               /\ j.mmaps = h.mmaps /\ j.mapped = h.mapped /\ j.fault = h.fault
  <1>. DEFINE M == h.meta
              o == M[a].order
              b == Buddy(a, o)
              m == [h EXCEPT !.meta[a].is_free = TRUE]
              j == AddToFreeOrder(m, a, o)
              N == j.meta
  <1>1. IsHeap(h) /\ Laid(M) /\ ListsFreeBut(h, a) /\ JoinedBut(M, a)
        /\ UsedBut(M, a) = used /\ Headers(M) /\ Tiles(M) /\ o \in Orders
    BY DEF Around, Laid
  <1>2. /\ IsHeap(m) /\ SameBut(M, m.meta, a) /\ m.meta[a].is_free
        /\ m.freed = h.freed /\ m.mmaps = h.mmaps /\ m.mapped = h.mapped
        /\ m.fault = h.fault
    <2>1. IsMarked(h, a, m) /\ m.meta[a].is_free
      BY <1>1, MarkedYes
    <2>. QED  BY <2>1 DEF IsMarked
  <1>. HIDE DEF m
  <1>3. /\ IsHeap(j) /\ N = m.meta
        /\ j.freed = [m.freed EXCEPT ![o] = Inserted(@, a)]
        /\ j.mmaps = m.mmaps /\ j.mapped = m.mapped /\ j.fault = m.fault
    BY <1>1, <1>2, AddedFacts
  <1>. HIDE DEF j, N
  <1>4. SameBut(M, N, a) /\ N[a].is_free /\ Laid(N)
    BY <1>1, <1>2, <1>3, SameLaid
  <1>5. /\ DOMAIN N = DOMAIN M /\ NULL \notin DOMAIN M
        /\ \A c \in DOMAIN M : N[c].order = M[c].order
        /\ \A c \in DOMAIN M \ {a} : N[c].is_free = M[c].is_free
    BY <1>1, <1>4 DEF SameBut, Headers, NULL
  <1>6. a \in Nat /\ a < Units /\ Aligned(a, o) /\ o \in Nat
    BY <1>1, HeaderFields, TilesPlaced DEF Placed
  <1>7. b \in DOMAIN M /\ b # a
    <2>1. o <= o
      BY <1>6
    <2>. QED  BY <1>1, <1>6, <2>1, BuddyIsBlock, BuddyInHeap
  <1>8. ~ (M[b].is_free /\ M[b].order < MAX_ORDER)
    BY <1>7 DEF Joinable, Header
  <1>9. \A c \in DOMAIN M : M[c].order = o /\ a = Buddy(c, o) => c = b
    <2>1. ASSUME NEW c \in DOMAIN M, M[c].order = o, a = Buddy(c, o)
          PROVE  c = b
      <3>1. c \in Nat /\ Aligned(c, o)
        BY <1>1, <2>1, HeaderFields, TilesPlaced DEF Placed
      <3>. QED  BY <1>6, <2>1, <3>1, BuddyFacts
    <2>. QED  BY <2>1
  <1>. HIDE DEF M, o, b
  <1>10. a \in DOMAIN M /\ M[a].order = o /\ b = Buddy(a, o)
    BY DEF M, o, b
  <1>11. /\ h.freed \in [Orders -> Seq(Nat)]
         /\ \A x \in Orders :
              /\ Sorted(h.freed[x])
              /\ ToSet(h.freed[x]) =
                    {c \in DOMAIN M \ {a} : M[c].is_free /\ M[c].order = x}
    BY <1>1 DEF ListsFreeBut, M
  <1>12. PICK l : l = Inserted(h.freed[o], a)
    OBVIOUS
  <1>13. l \in Seq(Nat) /\ Sorted(l) /\ ToSet(l) = ToSet(h.freed[o]) \cup {a}
    <2>1. a \notin ToSet(h.freed[o])
      BY <1>1, <1>11
    <2>. QED  BY <1>1, <1>6, <1>11, <1>12, <2>1, InsertedFacts
  <1>14. j.freed \in [Orders -> Seq(Nat)] /\ j.freed[o] = l
         /\ \A x \in Orders \ {o} : j.freed[x] = h.freed[x]
    BY <1>1, <1>2, <1>3, <1>11, <1>12, <1>13
  <1>15. ASSUME NEW x \in Orders
         PROVE  /\ Sorted(j.freed[x])
                /\ ToSet(j.freed[x]) =
                     {c \in DOMAIN N \ {NULL} : N[c].is_free /\ N[c].order = x}
    <2>1. CASE x = o
      <3>1. {c \in DOMAIN N \ {NULL} : N[c].is_free /\ N[c].order = x} =
              {c \in DOMAIN M \ {a} : M[c].is_free /\ M[c].order = x} \cup {a}
        BY <1>4, <1>5, <1>10, <2>1
      <3>. QED  BY <1>11, <1>13, <1>14, <2>1, <3>1
    <2>2. CASE x # o
      <3>1. {c \in DOMAIN N \ {NULL} : N[c].is_free /\ N[c].order = x} =
              {c \in DOMAIN M \ {a} : M[c].is_free /\ M[c].order = x}
        BY <1>5, <1>10, <2>2
      <3>. QED  BY <1>11, <1>14, <2>2, <3>1
    <2>. QED  BY <2>1, <2>2
  <1>16. ListsFreeBut(j, NULL)
    BY <1>14, <1>15 DEF ListsFreeBut, N
  <1>17. JoinedBut(N, NULL)
    <2>. SUFFICES ASSUME NEW c \in DOMAIN N, NEW d \in DOMAIN N,
                         AreBuddies(N, c, d)
                  PROVE  FALSE
      BY DEF JoinedBut
    <2>1. CASE c = a
      <3>1. d = b
        BY <1>5, <1>10, <2>1 DEF AreBuddies
      <3>2. N[b].is_free /\ N[b].order < MAX_ORDER
        BY <3>1 DEF AreBuddies
      <3>. QED  BY <1>5, <1>7, <1>8, <3>2
    <2>2. CASE c # a /\ d = a
      <3>1. M[c].order = o /\ a = Buddy(c, o)
        BY <1>5, <1>10, <2>2 DEF AreBuddies
      <3>2. c = b
        BY <1>5, <1>9, <3>1
      <3>3. N[b].is_free /\ N[b].order < MAX_ORDER
        BY <3>2 DEF AreBuddies
      <3>. QED  BY <1>5, <1>7, <1>8, <3>3
    <2>3. CASE c # a /\ d # a
      <3>1. c \in DOMAIN M \ {a} /\ d \in DOMAIN M \ {a}
        BY <1>5, <2>3
      <3>2. AreBuddies(M, c, d)
        BY <1>5, <3>1 DEF AreBuddies
      <3>. QED  BY <1>1, <3>1, <3>2 DEF JoinedBut, M
    <2>. QED  BY <2>1, <2>2, <2>3
  <1>18. UsedBut(N, NULL) = used
    <2>1. UsedBut(N, NULL) = UsedBut(M, a)
      BY <1>4, <1>5 DEF UsedBut
    <2>. QED  BY <1>1, <2>1 DEF M
  <1>19. Around(j, NULL, used)
    BY <1>3, <1>4, <1>16, <1>17, <1>18 DEF Around, N
  <1>. QED  BY <1>2, <1>3, <1>4, <1>19 DEF j, N, m, M, o

-----------------------------------------------------------------------------
(* The loop of SplitIfPossible.                                            *)

(* The regions and the fault are the same.                                 *)
SameRest(h, j) ==
    j.mmaps = h.mmaps /\ j.mapped = h.mapped /\ j.fault = h.fault

(* The equation of the rounds, up to n.                                    *)
SplitRounds(h, addr, size, n, f) ==
    f = [i \in 0..n |-> IF i = 0 THEN h ELSE SplitRound(f[i - 1], addr, size)]

(* The rounds of the loop are defined.                                     *)
LEMMA SplitRoundsExist ==
    ASSUME NEW h, NEW addr, NEW size
    PROVE  \A n \in Nat : \E f : SplitRounds(h, addr, size, n, f)
  <1>. DEFINE S == {n \in Nat : \E f : SplitRounds(h, addr, size, n, f)}
  <1>1. 0 \in S
    <2>1. SplitRounds(h, addr, size, 0, [i \in 0..0 |-> h])
      BY DEF SplitRounds
    <2>. QED  BY <2>1
  <1>2. ASSUME NEW n \in Nat, n \in S PROVE n + 1 \in S
    <2>1. PICK f : SplitRounds(h, addr, size, n, f)
      BY <1>2
    <2>. DEFINE last == SplitRound(f[n], addr, size)
                g == [i \in 0..(n + 1) |-> IF i = n + 1 THEN last ELSE f[i]]
    <2>2. ASSUME NEW i \in 0..(n + 1)
          PROVE  g[i] = IF i = 0 THEN h ELSE SplitRound(g[i - 1], addr, size)
      <3>1. CASE i = n + 1
        <4>1. i # 0 /\ i - 1 = n /\ n \in 0..(n + 1) /\ n # n + 1
          BY <3>1
        <4>2. g[i] = last /\ g[i - 1] = f[n]
          BY <3>1, <4>1
        <4>. QED  BY <4>1, <4>2
      <3>2. CASE i # n + 1
        <4>1. i \in 0..n /\ (i # 0 => i - 1 \in 0..(n + 1) /\ i - 1 # n + 1)
          BY <3>2
        <4>2. f[i] = IF i = 0 THEN h ELSE SplitRound(f[i - 1], addr, size)
          BY <4>1, <2>1 DEF SplitRounds
        <4>3. g[i] = f[i] /\ (i # 0 => g[i - 1] = f[i - 1])
          BY <3>2, <4>1
        <4>. QED  BY <4>2, <4>3
      <3>. QED  BY <3>1, <3>2
    <2>3. SplitRounds(h, addr, size, n + 1, g)
      <3>1. g = [i \in 0..(n + 1) |-> g[i]]
        OBVIOUS
      <3>. HIDE DEF g
      <3>. QED  BY <3>1, <2>2 DEF SplitRounds
    <2>. QED  BY <2>3
  <1>. HIDE DEF S
  <1>3. \A n \in Nat : n \in S
    BY <1>1, <1>2, AllNumbers
  <1>. QED  BY <1>3 DEF S

(* A round leaves only the block to be dealt with.                         *)
LEMMA SplitRoundKeeps ==
    ASSUME NEW h, NEW a \in DOMAIN h.meta, NEW used, Around(h, a, used),
           NEW size
    PROVE  LET j == SplitRound(h, a, size)
           IN  Around(j, a, used) /\ a \in DOMAIN j.meta /\ SameRest(h, j)
  <1>1. CASE ~ Splits(h, a, size)
    BY <1>1 DEF SplitRound, SameRest
  <1>2. CASE Splits(h, a, size)
    <2>1. h.meta[a].order \in Orders /\ h.meta[a].order > 0
      BY <1>2 DEF Splits, Around, Laid
    <2>2. PICK o \in Orders : h.meta[a].order = o + 1
      <3>1. /\ h.meta[a].order - 1 \in Orders
            /\ h.meta[a].order = (h.meta[a].order - 1) + 1
        BY <2>1, SizesAssumption DEF Orders
      <3>. QED  BY <3>1
    <2>3. SplitRound(h, a, size) = Halved(h, a)
      BY <1>2 DEF SplitRound
    <2>. QED  BY <2>2, <2>3, HalvedAround DEF SameRest
  <1>. QED  BY <1>1, <1>2

(* SplitIfPossible ends with a consistent heap in which the block is in    *)
(* use.                                                                    *)
LEMMA SplitFacts ==
    ASSUME NEW h, NEW a \in DOMAIN h.meta, NEW used, Around(h, a, used),
           NEW size
    PROVE  LET j == SplitIfPossible(h, a, size)
           IN  Around(j, NULL, used \cup {a}) /\ SameRest(h, j)
  <1>. DEFINE n == h.meta[a].order
              f == CHOOSE f : SplitRounds(h, a, size, n, f)
              Good(j) == Around(j, a, used) /\ a \in DOMAIN j.meta /\ SameRest(h, j)
              S == {i \in Nat : i <= n => Good(f[i])}
  <1>1. n \in Nat
    BY UnitsFacts DEF Around, Laid
  <1>2. SplitRounds(h, a, size, n, f)
    BY <1>1, SplitRoundsExist
  <1>3. SplitIfPossible(h, a, size) = [f[n] EXCEPT !.meta[a].is_free = FALSE]
    BY DEF SplitIfPossible, SplitRounds
  <1>. HIDE DEF f, n
  <1>4. /\ f[0] = h
        /\ \A i \in Nat : i + 1 <= n => f[i + 1] = SplitRound(f[i], a, size)
    <2>1. \A i \in 0..n : f[i] = IF i = 0 THEN h
                                 ELSE SplitRound(f[i - 1], a, size)
      BY <1>2 DEF SplitRounds
    <2>2. ASSUME NEW i \in Nat, i + 1 <= n
          PROVE  i + 1 \in 0..n /\ i + 1 # 0 /\ (i + 1) - 1 = i
      BY <1>1, <2>2
    <2>. QED  BY <1>1, <2>1, <2>2
  <1>5. 0 \in S
    BY <1>4 DEF SameRest
  <1>6. ASSUME NEW i \in Nat, i \in S PROVE i + 1 \in S
    <2>. SUFFICES ASSUME i + 1 <= n PROVE Good(f[i + 1])
      OBVIOUS
    <2>1. Good(f[i])
      BY <1>1, <1>6
    <2>2. PICK g : g = f[i]
      OBVIOUS
    <2>3. PICK j : j = SplitRound(g, a, size)
      OBVIOUS
    <2>4. Around(j, a, used) /\ a \in DOMAIN j.meta /\ SameRest(g, j)
      BY <2>1, <2>2, <2>3, SplitRoundKeeps
    <2>5. f[i + 1] = j
      BY <1>4, <2>2, <2>3
    <2>. QED  BY <2>1, <2>2, <2>4, <2>5 DEF SameRest
  <1>. HIDE DEF S
  <1>7. n \in S
    BY <1>1, <1>5, <1>6, AllNumbers
  <1>8. Good(f[n])
    BY <1>1, <1>7 DEF S
  <1>9. PICK g : g = f[n]
    OBVIOUS
  <1>. QED  BY <1>3, <1>8, <1>9, MarkedUsed DEF SameRest

-----------------------------------------------------------------------------
(* The loop of UnionIfPossible and of SreallocUnion.                       *)

(* The equation of the rounds, up to n.                                    *)
UnionRounds(s, enough, n, f) ==
    f = [i \in 0..n |-> IF i = 0 THEN s ELSE UnionRound(f[i - 1], enough)]

(* The rounds of the loop are defined.                                     *)
LEMMA UnionRoundsExist ==
    ASSUME NEW s, NEW enough
    PROVE  \A n \in Nat : \E f : UnionRounds(s, enough, n, f)
  <1>. DEFINE S == {n \in Nat : \E f : UnionRounds(s, enough, n, f)}
  <1>1. 0 \in S
    <2>1. UnionRounds(s, enough, 0, [i \in 0..0 |-> s])
      BY DEF UnionRounds
    <2>. QED  BY <2>1
  <1>2. ASSUME NEW n \in Nat, n \in S PROVE n + 1 \in S
    <2>1. PICK f : UnionRounds(s, enough, n, f)
      BY <1>2
    <2>. DEFINE last == UnionRound(f[n], enough)
                g == [i \in 0..(n + 1) |-> IF i = n + 1 THEN last ELSE f[i]]
    <2>2. ASSUME NEW i \in 0..(n + 1)
          PROVE  g[i] = IF i = 0 THEN s ELSE UnionRound(g[i - 1], enough)
      <3>1. CASE i = n + 1
        <4>1. i # 0 /\ i - 1 = n /\ n \in 0..(n + 1) /\ n # n + 1
          BY <3>1
        <4>2. g[i] = last /\ g[i - 1] = f[n]
          BY <3>1, <4>1
        <4>. QED  BY <4>1, <4>2
      <3>2. CASE i # n + 1
        <4>1. i \in 0..n /\ (i # 0 => i - 1 \in 0..(n + 1) /\ i - 1 # n + 1)
          BY <3>2
        <4>2. f[i] = IF i = 0 THEN s ELSE UnionRound(f[i - 1], enough)
          BY <4>1, <2>1 DEF UnionRounds
        <4>3. g[i] = f[i] /\ (i # 0 => g[i - 1] = f[i - 1])
          BY <3>2, <4>1
        <4>. QED  BY <4>2, <4>3
      <3>. QED  BY <3>1, <3>2
    <2>3. UnionRounds(s, enough, n + 1, g)
      <3>1. g = [i \in 0..(n + 1) |-> g[i]]
        OBVIOUS
      <3>. HIDE DEF g
      <3>. QED  BY <3>1, <2>2 DEF UnionRounds
    <2>. QED  BY <2>3
  <1>. HIDE DEF S
  <1>3. \A n \in Nat : n \in S
    BY <1>1, <1>2, AllNumbers
  <1>. QED  BY <1>3 DEF S

(* The rounds, for as many as United takes.                                *)
LEMMA UnitedRounds ==
    ASSUME NEW h, NEW a, NEW enough, Headers(h.meta)
    PROVE  \E f : LET n == Cardinality(DOMAIN h.meta)
                  IN  /\ n \in Nat /\ f[0] = [heap |-> h, addr |-> a]
                      /\ \A i \in Nat : i + 1 <= n =>
                            f[i + 1] = UnionRound(f[i], enough)
                      /\ United(h, a, enough) = f[n]
  <1>. DEFINE n == Cardinality(DOMAIN h.meta)
              s == [heap |-> h, addr |-> a]
              f == CHOOSE f : UnionRounds(s, enough, n, f)
  <1>1. n \in Nat
    <2>1. IsFiniteSet(0..(Units - 1))
      BY UnitsFacts, FS_Interval
    <2>2. IsFiniteSet(DOMAIN h.meta)
      BY <2>1, FS_Subset DEF Headers
    <2>. QED  BY <2>2, FS_CardinalityType
  <1>2. UnionRounds(s, enough, n, f)
    <2>. HIDE DEF n, s
    <2>. QED  BY <1>1, UnionRoundsExist
  <1>3. United(h, a, enough) = f[n]
    BY DEF United, UnionRounds
  <1>. HIDE DEF f, n, s
  <1>4. \A i \in 0..n : f[i] = IF i = 0 THEN s ELSE UnionRound(f[i - 1], enough)
    BY <1>2 DEF UnionRounds
  <1>5. f[0] = s
    BY <1>1, <1>4
  <1>6. ASSUME NEW i \in Nat, i + 1 <= n
        PROVE  f[i + 1] = UnionRound(f[i], enough)
    <2>1. i + 1 \in 0..n /\ i + 1 # 0 /\ (i + 1) - 1 = i
      BY <1>1, <1>6
    <2>. QED  BY <1>4, <2>1
  <1>. QED  BY <1>1, <1>3, <1>5, <1>6 DEF n, s

(* Where the loop for the block at p in h can be: all joins were of equal  *)
(* blocks, or one was not.  A header at p is the one of the block.         *)
CleanAt(s, h, p, used) ==
    /\ s.addr \in DOMAIN s.heap.meta /\ Around(s.heap, s.addr, used)
    /\ SameRest(h, s.heap) /\ h.fault = "none"
    /\ p \in DOMAIN s.heap.meta => s.addr = p

DamagedAt(s, p) ==
    /\ s.addr \in DOMAIN s.heap.meta
    /\ IsHeap(s.heap) /\ Headers(s.heap.meta)
    /\ Damaged(s.heap.meta, s.addr) /\ s.heap.fault = "joined_unequal"
    /\ p \in DOMAIN s.heap.meta => s.addr = p

(* A round that joins: the block, its buddy and the result.                *)
LEMMA UnitesFacts ==
    ASSUME NEW s, s.addr \in DOMAIN s.heap.meta, IsHeap(s.heap),
           Headers(s.heap.meta), NEW enough, Unites(s, enough)
    PROVE  LET a == s.addr
               b == BuddyOf(s)
               M == s.heap.meta
               t == UnionRound(s, enough)
           IN  /\ a \in Nat /\ b \in DOMAIN M /\ b # a
               /\ b = Buddy(a, M[a].order)
               /\ M[b].is_free /\ M[b].order < MAX_ORDER
               /\ t.heap = Joined(s.heap, a, b) /\ t.addr = Lower(a, b)
               /\ Lower(a, b) \in DOMAIN M /\ Higher(a, b) \in DOMAIN M
               /\ {Lower(a, b), Higher(a, b)} = {a, b}
               /\ IsJoined(s.heap, a, b, t.heap)
  <1>. DEFINE a == s.addr
              b == BuddyOf(s)
              M == s.heap.meta
              t == UnionRound(s, enough)
  <1>1. Joinable(s.heap, b)
    BY DEF Unites
  <1>2. b \in DOMAIN M /\ M[b].is_free /\ M[b].order < MAX_ORDER
    BY <1>1 DEF Joinable, Header
  <1>3. b = Buddy(a, M[a].order)
    BY DEF BuddyOf
  <1>4. a \in Nat /\ b \in Nat /\ pow2[M[a].order] \in Nat /\ pow2[M[a].order] >= 1
    BY <1>2, HeaderFields
  <1>5. b # a
    <2>1. b = a + pow2[M[a].order] \/ b = a - pow2[M[a].order]
      BY <1>3 DEF Buddy
    <2>. HIDE DEF b
    <2>. QED  BY <1>4, <2>1
  <1>6. t = [heap |-> Joined(s.heap, a, b), addr |-> Lower(a, b)]
    BY DEF UnionRound, Lower
  <1>7. t.heap = Joined(s.heap, a, b) /\ t.addr = Lower(a, b)
    <2>. HIDE DEF t
    <2>. QED  BY <1>6
  <1>8. /\ Lower(a, b) \in DOMAIN M /\ Higher(a, b) \in DOMAIN M
        /\ {Lower(a, b), Higher(a, b)} = {a, b}
    BY <1>2, <1>4, <1>5 DEF Lower, Higher
  <1>9. IsJoined(s.heap, a, b, Joined(s.heap, a, b))
    BY <1>2, <1>5, JoinedFacts
  <1>. QED  BY <1>2, <1>3, <1>4, <1>5, <1>7, <1>8, <1>9

(* A round leaves a damaged heap damaged.                                  *)
LEMMA DamagedRound ==
    ASSUME NEW s, NEW p, DamagedAt(s, p), NEW enough
    PROVE  DamagedAt(UnionRound(s, enough), p)
  <1>1. CASE ~ Unites(s, enough)
    BY <1>1 DEF UnionRound
  <1>2. CASE Unites(s, enough)
    <2>. DEFINE a == s.addr
                b == BuddyOf(s)
                M == s.heap.meta
                t == UnionRound(s, enough)
    <2>1. /\ a \in DOMAIN M /\ IsHeap(s.heap) /\ Headers(M)
          /\ Damaged(M, a) /\ s.heap.fault = "joined_unequal"
          /\ p \in DOMAIN M => a = p
      BY DEF DamagedAt
    <2>2. /\ b \in DOMAIN M /\ b # a /\ M[b].is_free
          /\ t.heap = Joined(s.heap, a, b) /\ t.addr = Lower(a, b)
          /\ {Lower(a, b), Higher(a, b)} = {a, b}
          /\ IsJoined(s.heap, a, b, t.heap)
      BY <1>2, <2>1, UnitesFacts
    <2>3. Damaged(t.heap.meta, t.addr)
      BY <2>1, <2>2, DamageStays
    <2>. HIDE DEF t, a, b
    <2>4. /\ IsHeap(t.heap) /\ Headers(t.heap.meta)
          /\ t.heap.fault = "joined_unequal"
          /\ t.addr \in DOMAIN t.heap.meta
          /\ DOMAIN t.heap.meta = DOMAIN M \ {Higher(a, b)}
      BY <2>1, <2>2 DEF IsJoined
    <2>5. p \in DOMAIN t.heap.meta => t.addr = p
      BY <2>1, <2>2, <2>4
    <2>. QED  BY <2>3, <2>4, <2>5 DEF DamagedAt, t
  <1>. QED  BY <1>1, <1>2

(* A round leaves only the joined block to be dealt with, or it damages    *)
(* the heap; and there is a header less.                                   *)
LEMMA CleanRound ==
    ASSUME NEW s, NEW h, NEW p, NEW used, CleanAt(s, h, p, used),
           NEW enough, Unites(s, enough)
    PROVE  LET t == UnionRound(s, enough)
           IN  /\ CleanAt(t, h, p, used) \/ DamagedAt(t, p)
               /\ \E hi \in DOMAIN s.heap.meta :
                     DOMAIN t.heap.meta = DOMAIN s.heap.meta \ {hi}
  <1>. DEFINE a == s.addr
              b == BuddyOf(s)
              M == s.heap.meta
              o == M[a].order
              t == UnionRound(s, enough)
  <1>1. /\ a \in DOMAIN M /\ Around(s.heap, a, used) /\ SameRest(h, s.heap)
        /\ h.fault = "none"
        /\ p \in DOMAIN M => a = p
    BY DEF CleanAt
  <1>2. IsHeap(s.heap) /\ Headers(M) /\ o \in Orders
    BY <1>1 DEF Around, Laid
  <1>3. /\ b \in DOMAIN M /\ b # a /\ b = Buddy(a, o)
        /\ M[b].is_free /\ M[b].order < MAX_ORDER
        /\ t.heap = Joined(s.heap, a, b) /\ t.addr = Lower(a, b)
        /\ Higher(a, b) \in DOMAIN M /\ {Lower(a, b), Higher(a, b)} = {a, b}
        /\ IsJoined(s.heap, a, b, t.heap)
    BY <1>1, <1>2, UnitesFacts
  <1>. HIDE DEF t, a, b
  <1>4. /\ IsHeap(t.heap) /\ Headers(t.heap.meta)
        /\ t.addr \in DOMAIN t.heap.meta
        /\ DOMAIN t.heap.meta = DOMAIN M \ {Higher(a, b)}
        /\ M[a].order # M[b].order => t.heap.fault = "joined_unequal"
    BY <1>1, <1>3 DEF IsJoined, SameRest
  <1>5. p \in DOMAIN t.heap.meta => t.addr = p
    BY <1>1, <1>3, <1>4
  <1>6. CASE M[b].order = o
    <2>1. PICK j : j = Joined(s.heap, a, b)
      OBVIOUS
    <2>2. Around(j, Lower(a, b), used) /\ SameRest(s.heap, j)
      BY <1>1, <1>2, <1>3, <1>6, <2>1, JoinedAround DEF SameRest
    <2>3. CleanAt(t, h, p, used)
      BY <1>1, <1>3, <1>4, <1>5, <2>1, <2>2 DEF CleanAt, SameRest
    <2>. QED  BY <1>3, <1>4, <2>3 DEF t
  <1>7. CASE M[b].order # o
    <2>1. Damaged(t.heap.meta, t.addr)
      BY <1>1, <1>3, <1>7, DamageDone
    <2>2. DamagedAt(t, p)
      BY <1>4, <1>5, <1>7, <2>1 DEF DamagedAt
    <2>. QED  BY <1>3, <1>4, <2>2 DEF t
  <1>. QED  BY <1>6, <1>7

(* A damaged heap stays damaged.                                           *)
LEMMA UnitedDamaged ==
    ASSUME NEW h, NEW a, NEW p, NEW enough,
           DamagedAt([heap |-> h, addr |-> a], p)
    PROVE  DamagedAt(United(h, a, enough), p)
  <1>1. Headers(h.meta)
    BY DEF DamagedAt
  <1>. DEFINE n == Cardinality(DOMAIN h.meta)
  <1>2. PICK f : /\ n \in Nat /\ f[0] = [heap |-> h, addr |-> a]
                 /\ \A i \in Nat : i + 1 <= n =>
                       f[i + 1] = UnionRound(f[i], enough)
                 /\ United(h, a, enough) = f[n]
    BY <1>1, UnitedRounds
  <1>. DEFINE S == {i \in Nat : i <= n => DamagedAt(f[i], p)}
  <1>. HIDE DEF n
  <1>3. 0 \in S
    BY <1>2
  <1>4. ASSUME NEW i \in Nat, i \in S PROVE i + 1 \in S
    <2>. SUFFICES ASSUME i + 1 <= n PROVE DamagedAt(f[i + 1], p)
      OBVIOUS
    <2>1. DamagedAt(f[i], p)
      BY <1>2, <1>4
    <2>. QED  BY <1>2, <2>1, DamagedRound
  <1>. HIDE DEF S
  <1>5. n \in S
    BY <1>2, <1>3, <1>4, AllNumbers
  <1>. QED  BY <1>2, <1>5 DEF S

(* From a consistent heap the loop ends because nothing is left to join,   *)
(* or it joined blocks of different orders.                                *)
LEMMA UnitedFacts ==
    ASSUME NEW h, NEW p \in DOMAIN h.meta, NEW used, Around(h, p, used),
           h.fault = "none", NEW enough
    PROVE  LET s == United(h, p, enough)
           IN  \/ DamagedAt(s, p)
               \/ CleanAt(s, h, p, used) /\ ~ Unites(s, enough)
  <1>1. Headers(h.meta)
    BY DEF Around, Laid
  <1>. DEFINE n == Cardinality(DOMAIN h.meta)
  <1>2. PICK f : /\ n \in Nat /\ f[0] = [heap |-> h, addr |-> p]
                 /\ \A i \in Nat : i + 1 <= n =>
                       f[i + 1] = UnionRound(f[i], enough)
                 /\ United(h, p, enough) = f[n]
    BY <1>1, UnitedRounds
  <1>. DEFINE D(i) == DOMAIN f[i].heap.meta
              Ok(i) == \/ DamagedAt(f[i], p)
                       \/ /\ CleanAt(f[i], h, p, used)
                          /\ \/ ~ Unites(f[i], enough)
                             \/ i + Cardinality(D(i)) <= n
              S == {i \in Nat : i <= n => Ok(i)}
  <1>. HIDE DEF n
  <1>3. \A i : CleanAt(f[i], h, p, used) => IsFiniteSet(D(i))
    <2>1. IsFiniteSet(0..(Units - 1))
      BY UnitsFacts, FS_Interval
    <2>. QED  BY <2>1, FS_Subset DEF CleanAt, Around, Laid, Headers
  <1>4. 0 \in S
    <2>1. CleanAt(f[0], h, p, used)
      BY <1>2 DEF CleanAt, SameRest
    <2>2. 0 + Cardinality(D(0)) <= n
      BY <1>2 DEF n
    <2>. QED  BY <2>1, <2>2
  <1>5. ASSUME NEW i \in Nat, i \in S PROVE i + 1 \in S
    <2>. SUFFICES ASSUME i + 1 <= n PROVE Ok(i + 1)
      OBVIOUS
    <2>1. Ok(i) /\ f[i + 1] = UnionRound(f[i], enough)
      BY <1>2, <1>5
    <2>2. CASE DamagedAt(f[i], p)
      BY <2>1, <2>2, DamagedRound
    <2>3. CASE CleanAt(f[i], h, p, used) /\ ~ Unites(f[i], enough)
      <3>1. f[i + 1] = f[i]
        BY <2>1, <2>3 DEF UnionRound
      <3>. QED  BY <2>3, <3>1
    <2>4. CASE /\ CleanAt(f[i], h, p, used) /\ Unites(f[i], enough)
               /\ i + Cardinality(D(i)) <= n
      <3>1. /\ CleanAt(f[i + 1], h, p, used) \/ DamagedAt(f[i + 1], p)
            /\ \E hi \in D(i) : D(i + 1) = D(i) \ {hi}
        BY <2>1, <2>4, CleanRound
      <3>2. PICK hi \in D(i) : D(i + 1) = D(i) \ {hi}
        BY <3>1
      <3>3. IsFiniteSet(D(i))
        BY <1>3, <2>4
      <3>4. /\ Cardinality(D(i)) \in Nat
            /\ Cardinality(D(i + 1)) = Cardinality(D(i)) - 1
        <4>. HIDE DEF D
        <4>. QED  BY <3>2, <3>3, FS_CardinalityType, FS_RemoveElement
      <3>5. (i + 1) + Cardinality(D(i + 1)) <= n
        <4>. HIDE DEF D
        <4>. QED  BY <1>2, <2>4, <3>4
      <3>. QED  BY <3>1, <3>5
    <2>. QED  BY <2>1, <2>2, <2>3, <2>4
  <1>6. n \in S
    <2>. HIDE DEF S
    <2>. QED  BY <1>2, <1>4, <1>5, AllNumbers
  <1>7. Ok(n)
    BY <1>2, <1>6
  <1>8. CleanAt(f[n], h, p, used) => ~ (n + Cardinality(D(n)) <= n)
    <2>. SUFFICES ASSUME CleanAt(f[n], h, p, used)
                  PROVE  ~ (n + Cardinality(D(n)) <= n)
      OBVIOUS
    <2>1. IsFiniteSet(D(n)) /\ D(n) # {}
      BY <1>3 DEF CleanAt
    <2>2. Cardinality(D(n)) \in Nat /\ Cardinality(D(n)) # 0
      <3>. HIDE DEF D
      <3>. QED  BY <2>1, FS_CardinalityType, FS_EmptySet
    <2>. HIDE DEF D
    <2>. QED  BY <1>2, <2>2
  <1>. QED  BY <1>2, <1>7, <1>8

-----------------------------------------------------------------------------
(* What UnionIfPossible leaves.                                            *)

(* A loop with nothing to join changes nothing.                            *)
LEMMA UnitedStops ==
    ASSUME NEW h, NEW a, NEW enough, Headers(h.meta),
           ~ Unites([heap |-> h, addr |-> a], enough)
    PROVE  United(h, a, enough) = [heap |-> h, addr |-> a]
  <1>. DEFINE n == Cardinality(DOMAIN h.meta)
              s == [heap |-> h, addr |-> a]
  <1>1. PICK f : /\ n \in Nat /\ f[0] = s
                 /\ \A i \in Nat : i + 1 <= n =>
                       f[i + 1] = UnionRound(f[i], enough)
                 /\ United(h, a, enough) = f[n]
    BY UnitedRounds
  <1>2. ~ Unites(s, enough)
    OBVIOUS
  <1>. DEFINE S == {i \in Nat : i <= n => f[i] = s}
  <1>. HIDE DEF n, s
  <1>3. 0 \in S
    BY <1>1
  <1>4. ASSUME NEW i \in Nat, i \in S PROVE i + 1 \in S
    <2>. SUFFICES ASSUME i + 1 <= n PROVE f[i + 1] = s
      OBVIOUS
    <2>1. f[i] = s
      BY <1>1, <1>4
    <2>. QED  BY <1>1, <1>2, <2>1 DEF UnionRound
  <1>. HIDE DEF S
  <1>5. n \in S
    BY <1>1, <1>3, <1>4, AllNumbers
  <1>. QED  BY <1>1, <1>5 DEF S, s

(* Marking a block and listing addresses repairs no damage.                *)
LEMMA DamagedMarked ==
    ASSUME NEW s, NEW p, DamagedAt(s, p), NEW j, IsHeap(j),
           SameBut(s.heap.meta, j.meta, s.addr), j.fault = "joined_unequal"
    PROVE  DamagedAt([heap |-> j, addr |-> s.addr], p)
  <1>. DEFINE M == s.heap.meta
              N == j.meta
              a == s.addr
              t == [heap |-> j, addr |-> a]
  <1>1. /\ a \in DOMAIN M /\ Headers(M) /\ Damaged(M, a)
        /\ p \in DOMAIN M => a = p
    BY DEF DamagedAt
  <1>2. /\ Headers(N) /\ DOMAIN N = DOMAIN M
        /\ \A c \in DOMAIN M : N[c].order = M[c].order
        /\ \A c \in DOMAIN M \ {a} : N[c].is_free = M[c].is_free
    BY DEF SameBut
  <1>3. Damaged(N, a)
    <2>. HIDE DEF M, N, a
    <2>1. PICK r \in Nat, o \in Nat, u \in Nat :
          /\ Aligned(r, o + 1) /\ r + pow2[o + 1] <= Units /\ a <= r
          /\ \A c \in DOMAIN M \ {a} : ~ Covers(M, c, r + pow2[o])
          /\ u \in DOMAIN M \ {a} /\ ~ M[u].is_free
          /\ r <= u /\ u < r + pow2[o + 1]
      BY <1>1 DEF Damaged
    <2>2. \A c \in DOMAIN N \ {a} : ~ Covers(N, c, r + pow2[o])
      BY <1>2, <2>1 DEF Covers
    <2>3. u \in DOMAIN N \ {a} /\ ~ N[u].is_free
      BY <1>2, <2>1
    <2>. QED  BY <2>1, <2>2, <2>3 DEF Damaged
  <1>4. t.heap = j /\ t.addr = a
    OBVIOUS
  <1>. HIDE DEF t
  <1>5. DamagedAt(t, p)
    BY <1>1, <1>2, <1>3, <1>4 DEF DamagedAt
  <1>. QED  BY <1>5 DEF t

(* AddToFreeOrder, for the orders there are and for others.                *)
LEMMA AddedKeeps ==
    ASSUME NEW h, IsHeap(h), NEW a, NEW o
    PROVE  LET j == AddToFreeOrder(h, a, o)
           IN  IsHeap(j) /\ j.meta = h.meta /\ SameRest(h, j)
  <1>1. CASE o \in Orders
    <2>. DEFINE j == AddToFreeOrder(h, a, o)
    <2>1. /\ IsHeap(j) /\ j.meta = h.meta
          /\ j.freed = [h.freed EXCEPT ![o] = Inserted(@, a)]
          /\ j.mmaps = h.mmaps /\ j.mapped = h.mapped /\ j.fault = h.fault
      BY <1>1, AddedFacts
    <2>. HIDE DEF j
    <2>. QED  BY <2>1 DEF SameRest, j
  <1>2. CASE o \notin Orders
    <2>1. AddToFreeOrder(h, a, o) = h
      BY <1>2 DEF AddToFreeOrder
    <2>. QED  BY <2>1 DEF SameRest
  <1>. QED  BY <1>1, <1>2

(* The end of UnionIfPossible, from a loop that has damaged the heap.      *)
LEMMA DamagedEnd ==
    ASSUME NEW s, NEW p, DamagedAt(s, p),
           NEW j, j = AddToFreeOrder([s.heap EXCEPT !.meta[s.addr].is_free = TRUE],
                                     s.addr, s.heap.meta[s.addr].order)
    PROVE  DamagedAt([heap |-> j, addr |-> s.addr], p)
  <1>1. PICK m : m = [s.heap EXCEPT !.meta[s.addr].is_free = TRUE]
    OBVIOUS
  <1>2. /\ IsHeap(s.heap) /\ Headers(s.heap.meta)
        /\ s.addr \in DOMAIN s.heap.meta /\ s.heap.fault = "joined_unequal"
    BY DEF DamagedAt
  <1>3. IsMarked(s.heap, s.addr, m)
    BY <1>1, <1>2, MarkedYes
  <1>4. IsHeap(j) /\ j.meta = m.meta /\ SameRest(m, j)
    <2>1. IsHeap(m) /\ j = AddToFreeOrder(m, s.addr, s.heap.meta[s.addr].order)
      BY <1>1, <1>3 DEF IsMarked
    <2>. QED  BY <2>1, AddedKeeps
  <1>5. SameBut(s.heap.meta, j.meta, s.addr) /\ j.fault = "joined_unequal"
    BY <1>2, <1>3, <1>4 DEF IsMarked, SameRest
  <1>. QED  BY <1>4, <1>5, DamagedMarked

(* Freed(h, j, p, used): the block at p was freed in h, and j is           *)
(* consistent; if p is a block of j its buddy is not free, or not whole.   *)
Freed(h, j, p, used) ==
    /\ Around(j, NULL, used) /\ SameRest(h, j)
    /\ p \in DOMAIN j.meta =>
          /\ j.meta[p].is_free
          /\ ~ Joinable(j, Buddy(p, j.meta[p].order))

(* UnionIfPossible frees the block, or joins blocks of different orders.   *)
LEMMA UnionFacts ==
    ASSUME NEW h, NEW p \in DOMAIN h.meta, NEW used, Around(h, p, used),
           h.fault = "none", NEW j, j = UnionIfPossible(h, p)
    PROVE  \/ Freed(h, j, p, used)
           \/ \E a : DamagedAt([heap |-> j, addr |-> a], p)
  <1>1. PICK s : s = United(h, p, {})
    OBVIOUS
  <1>2. j = AddToFreeOrder([s.heap EXCEPT !.meta[s.addr].is_free = TRUE],
                           s.addr, s.heap.meta[s.addr].order)
    BY <1>1 DEF UnionIfPossible
  <1>3. DamagedAt(s, p) \/ (CleanAt(s, h, p, used) /\ ~ Unites(s, {}))
    BY <1>1, UnitedFacts
  <1>4. CASE DamagedAt(s, p)
    BY <1>2, <1>4, DamagedEnd
  <1>5. CASE CleanAt(s, h, p, used) /\ ~ Unites(s, {})
    <2>. DEFINE a == s.addr
                g == s.heap
                b == Buddy(a, g.meta[a].order)
    <2>1. /\ a \in DOMAIN g.meta /\ Around(g, a, used) /\ SameRest(h, g)
          /\ p \in DOMAIN g.meta => a = p
      BY <1>5 DEF CleanAt
    <2>2. ~ Joinable(g, b)
      BY <1>5 DEF Unites, BuddyOf
    <2>3. /\ Around(j, NULL, used) /\ SameBut(g.meta, j.meta, a)
          /\ j.meta[a].is_free /\ SameRest(g, j)
      <3>1. PICK k : k = g
        OBVIOUS
      <3>2. PICK d : d = a
        OBVIOUS
      <3>3. j = AddToFreeOrder([k EXCEPT !.meta[d].is_free = TRUE], d,
                               k.meta[d].order)
        BY <1>2, <3>1, <3>2
      <3>4. /\ d \in DOMAIN k.meta /\ Around(k, d, used)
            /\ ~ Joinable(k, Buddy(d, k.meta[d].order))
        BY <2>1, <2>2, <3>1, <3>2
      <3>5. /\ Around(j, NULL, used) /\ SameBut(k.meta, j.meta, d)
            /\ j.meta[d].is_free
            /\ j.mmaps = k.mmaps /\ j.mapped = k.mapped /\ j.fault = k.fault
        BY <3>3, <3>4, MarkedFree
      <3>. QED  BY <3>1, <3>2, <3>5 DEF SameRest
    <2>4. b # a
      <3>1. a \in Nat /\ g.meta[a].order \in Nat /\ Aligned(a, g.meta[a].order)
        BY <2>1, HeaderFields, TilesPlaced DEF Around, Laid, Placed
      <3>. QED  BY <3>1, BuddyFacts
    <2>5. ~ Joinable(j, b) /\ j.meta[a].order = g.meta[a].order
          /\ DOMAIN j.meta = DOMAIN g.meta
      <3>. HIDE DEF g, a, b
      <3>1. j.meta[a].order = g.meta[a].order /\ DOMAIN j.meta = DOMAIN g.meta
        BY <2>1, <2>3 DEF SameBut
      <3>2. b \in DOMAIN g.meta => /\ j.meta[b].order = g.meta[b].order
                                   /\ j.meta[b].is_free = g.meta[b].is_free
        BY <2>3, <2>4 DEF SameBut
      <3>. QED  BY <2>2, <3>1, <3>2 DEF Joinable, Header
    <2>. HIDE DEF g, a
    <2>. QED  BY <2>1, <2>3, <2>5 DEF Freed, SameRest
  <1>. QED  BY <1>3, <1>4, <1>5

-----------------------------------------------------------------------------
(* The three faults.                                                       *)

(* The two parts of Consistent that a fault breaks.                        *)
Sound(h) == Tiles(h.meta) /\ ListsFree(h)

(* With the orders there are, AddToFreeOrder stays within the lists.       *)
LEMMA LaidInBounds ==
    ASSUME NEW h, Laid(h.meta)
    PROVE  ~ Overruns(h)
  <1>. SUFFICES ASSUME NEW a \in DOMAIN h.meta PROVE ~ (h.meta[a].order > MAX_ORDER)
    BY DEF Overruns
  <1>1. h.meta[a].order \in 0..MAX_ORDER
    BY DEF Laid, Orders
  <1>. QED  BY <1>1, SizesAssumption

(* To free a block in use starts from a heap that is consistent but for    *)
(* it.                                                                     *)
LEMMA Released ==
    ASSUME NEW h, NEW used, Around(h, NULL, used), NEW p \in used
    PROVE  p \in DOMAIN h.meta /\ ~ h.meta[p].is_free /\ Around(h, p, used \ {p})
  <1>. DEFINE M == h.meta
  <1>1. /\ IsHeap(h) /\ Laid(M) /\ ListsFreeBut(h, NULL) /\ JoinedBut(M, NULL)
        /\ UsedBut(M, NULL) = used /\ Headers(M)
    BY DEF Around, Laid
  <1>2. NULL \notin DOMAIN M
    BY <1>1 DEF Headers, NULL
  <1>3. p \in DOMAIN M /\ ~ M[p].is_free
    BY <1>1 DEF UsedBut
  <1>. HIDE DEF M
  <1>4. ListsFreeBut(h, p)
    <2>1. \A o \in Orders :
            {a \in DOMAIN M \ {NULL} : M[a].is_free /\ M[a].order = o} =
              {a \in DOMAIN M \ {p} : M[a].is_free /\ M[a].order = o}
      BY <1>2, <1>3
    <2>. QED  BY <1>1, <2>1 DEF ListsFreeBut, M
  <1>5. JoinedBut(M, p)
    BY <1>1, <1>2 DEF JoinedBut
  <1>6. UsedBut(M, p) = used \ {p}
    BY <1>1, <1>2 DEF UsedBut
  <1>. QED  BY <1>1, <1>3, <1>4, <1>5, <1>6 DEF Around, M

(* A consistent heap is sound.                                             *)
LEMMA AroundSound ==
    ASSUME NEW h, NEW used, Around(h, NULL, used)
    PROVE  Sound(h)
  <1>1. Tiles(h.meta) /\ ListsFreeBut(h, NULL) /\ NULL \notin DOMAIN h.meta
    BY DEF Around, Laid, Headers, NULL
  <1>2. DOMAIN h.meta \ {NULL} = DOMAIN h.meta
    BY <1>1
  <1>. QED  BY <1>1, <1>2 DEF Sound, ListsFree, ListsFreeBut, Sorted

(* A list of free blocks takes no further address.                         *)
LEMMA ListedTwice ==
    ASSUME NEW h, IsHeap(h), NULL \notin DOMAIN h.meta, ListsFreeBut(h, NULL),
           NEW b \in Nat, NEW o \in Orders, NEW j, j = AddToFreeOrder(h, b, o)
    PROVE  ~ ListsFree(j)
  <1>. SUFFICES ASSUME ListsFree(j) PROVE FALSE
    OBVIOUS
  <1>1. j.meta = h.meta /\ j.freed = [h.freed EXCEPT ![o] = Inserted(@, b)]
    BY AddedFacts
  <1>2. /\ h.freed \in [Orders -> Seq(Nat)] /\ Sorted(h.freed[o])
        /\ ToSet(h.freed[o]) = {a \in DOMAIN h.meta \ {NULL} :
                                  h.meta[a].is_free /\ h.meta[a].order = o}
    BY DEF ListsFreeBut
  <1>3. PICK l \in Seq(Nat) : l = h.freed[o]
    BY <1>2
  <1>4. j.freed[o] = Inserted(l, b)
    BY <1>1, <1>2, <1>3
  <1>5. /\ Sorted(Inserted(l, b))
        /\ ToSet(Inserted(l, b)) = {a \in DOMAIN h.meta :
                                      h.meta[a].is_free /\ h.meta[a].order = o}
    BY <1>1, <1>4 DEF ListsFree, Sorted
  <1>6. ToSet(Inserted(l, b)) = ToSet(l)
    <2>1. DOMAIN h.meta \ {NULL} = DOMAIN h.meta
      OBVIOUS
    <2>. QED  BY <1>2, <1>3, <1>5, <2>1
  <1>7. /\ ToSet(Inserted(l, b)) = ToSet(l) \cup {b}
        /\ b \notin ToSet(l)
    BY <1>2, <1>3, <1>5, InsertedFacts
  <1>. QED  BY <1>6, <1>7

(* A fault changes no header and no list.                                  *)
LEMMA FaultFacts ==
    ASSUME NEW h, IsHeap(h), NEW what, what # "none",
           NEW j, j = Fault(h, what)
    PROVE  /\ IsHeap(j) /\ j.meta = h.meta /\ j.freed = h.freed
           /\ j.mmaps = h.mmaps /\ j.fault # "none"
           /\ j.fault = IF h.fault = "none" THEN what ELSE h.fault
  <1>1. PICK w : w = IF h.fault = "none" THEN what ELSE h.fault
    OBVIOUS
  <1>2. w # "none"
    BY <1>1
  <1>3. j = [h EXCEPT !.fault = w]
    BY <1>1 DEF Fault
  <1>4. j = [meta |-> h.meta, freed |-> h.freed, mmaps |-> h.mmaps,
             mapped |-> h.mapped, fault |-> w]
    BY <1>3, HeapUpdates
  <1>. QED  BY <1>1, <1>2, <1>4 DEF IsHeap

(* A heap that the loop has damaged is not sound.                          *)
LEMMA DamagedUnsound ==
    ASSUME NEW j, NEW a, NEW p, DamagedAt([heap |-> j, addr |-> a], p)
    PROVE  IsHeap(j) /\ ~ Sound(j) /\ j.fault = "joined_unequal"
  <1>1. PICK t : t = [heap |-> j, addr |-> a]
    OBVIOUS
  <1>2. t.heap = j /\ t.addr = a
    BY <1>1
  <1>3. /\ a \in DOMAIN j.meta /\ IsHeap(j) /\ Headers(j.meta)
        /\ Damaged(j.meta, a) /\ j.fault = "joined_unequal"
    BY <1>1, <1>2 DEF DamagedAt
  <1>. QED  BY <1>3, DamagedNotTiled DEF Sound

(* Freeing a block twice in a row damages the heap, or lists it twice.     *)
LEMMA FreedTwice ==
    ASSUME NEW h, NEW p \in DOMAIN h.meta, NEW used, Around(h, p, used),
           h.fault = "none",
           NEW j, j = UnionIfPossible(h, p), p \in DOMAIN j.meta,
           NEW k, k = UnionIfPossible(j, p)
    PROVE  IsHeap(k) /\ ~ Sound(k)
  <1>1. k = AddToFreeOrder(
               [United(j, p, {}).heap EXCEPT
                  !.meta[United(j, p, {}).addr].is_free = TRUE],
               United(j, p, {}).addr,
               United(j, p, {}).heap.meta[United(j, p, {}).addr].order)
    BY DEF UnionIfPossible
  <1>2. \/ Freed(h, j, p, used)
        \/ \E a : DamagedAt([heap |-> j, addr |-> a], p)
    BY UnionFacts
  <1>3. CASE \E a : DamagedAt([heap |-> j, addr |-> a], p)
    <2>1. PICK a : DamagedAt([heap |-> j, addr |-> a], p)
      BY <1>3
    <2>2. a = p
      <3>1. PICK t : t = [heap |-> j, addr |-> a]
        OBVIOUS
      <3>. QED  BY <2>1, <3>1 DEF DamagedAt
    <2>3. PICK s : s = United(j, p, {})
      OBVIOUS
    <2>4. DamagedAt(s, p)
      BY <2>1, <2>2, <2>3, UnitedDamaged
    <2>5. DamagedAt([heap |-> k, addr |-> s.addr], p)
      BY <1>1, <2>3, <2>4, DamagedEnd
    <2>. QED  BY <2>5, DamagedUnsound
  <1>4. CASE Freed(h, j, p, used)
    <2>. DEFINE o == j.meta[p].order
    <2>1. /\ Around(j, NULL, used) /\ j.meta[p].is_free
          /\ ~ Joinable(j, Buddy(p, o))
      BY <1>4 DEF Freed
    <2>2. /\ IsHeap(j) /\ Headers(j.meta) /\ ListsFreeBut(j, NULL)
          /\ NULL \notin DOMAIN j.meta /\ p \in Nat /\ o \in Orders
      BY <2>1, HeaderFields DEF Around, Laid, Headers, NULL
    <2>3. United(j, p, {}) = [heap |-> j, addr |-> p]
      <3>1. PICK t : t = [heap |-> j, addr |-> p]
        OBVIOUS
      <3>2. ~ Unites(t, {})
        BY <2>1, <3>1 DEF Unites, BuddyOf
      <3>. QED  BY <2>2, <3>1, <3>2, UnitedStops
    <2>4. PICK m : m = [j EXCEPT !.meta[p].is_free = TRUE]
      OBVIOUS
    <2>5. k = AddToFreeOrder(m, p, o)
      <3>1. PICK t : t = United(j, p, {})
        OBVIOUS
      <3>2. t.heap = j /\ t.addr = p
        BY <2>3, <3>1
      <3>3. k = AddToFreeOrder([t.heap EXCEPT !.meta[t.addr].is_free = TRUE],
                               t.addr, t.heap.meta[t.addr].order)
        BY <1>1, <3>1
      <3>. QED  BY <2>4, <3>2, <3>3
    <2>6. IsMarked(j, p, m) /\ m.meta[p].is_free
      BY <2>2, <2>4, MarkedYes
    <2>7. /\ IsHeap(m) /\ m.freed = j.freed /\ DOMAIN m.meta = DOMAIN j.meta
          /\ \A c \in DOMAIN j.meta : m.meta[c].order = j.meta[c].order
          /\ \A c \in DOMAIN j.meta \ {p} : m.meta[c].is_free = j.meta[c].is_free
      BY <2>6 DEF IsMarked, SameBut
    <2>8. ListsFreeBut(m, NULL)
      <3>1. \A x \in Orders :
              {c \in DOMAIN m.meta \ {NULL} : m.meta[c].is_free /\ m.meta[c].order = x}
            = {c \in DOMAIN j.meta \ {NULL} : j.meta[c].is_free /\ j.meta[c].order = x}
        BY <2>1, <2>6, <2>7
      <3>. QED  BY <2>2, <2>7, <3>1 DEF ListsFreeBut
    <2>. HIDE DEF o
    <2>9. ~ ListsFree(k)
      BY <2>2, <2>5, <2>7, <2>8, ListedTwice
    <2>10. IsHeap(k)
      BY <2>5, <2>7, AddedKeeps
    <2>. QED  BY <2>9, <2>10 DEF Sound
  <1>. QED  BY <1>2, <1>3, <1>4

(* SreallocUnion damages the heap, or lists a buddy that is not free or is *)
(* listed already.                                                         *)
LEMMA ListedBuddy ==
    ASSUME NEW h, NEW p \in DOMAIN h.meta, NEW used, Around(h, p, used),
           h.fault = "none", NEW size, NEW g, g = SreallocUnion(h, p, size)
    PROVE  /\ g.heap.fault # "none" /\ ~ Sound(g.heap)
           /\ Overruns(g.heap) => g.heap.fault = "joined_unequal"
  <1>. DEFINE enough == {o \in Nat : Size(o) >= size}
  <1>1. PICK s : s = United(h, p, enough)
    OBVIOUS
  <1>. DEFINE a == s.addr
              o == s.heap.meta[a].order
              m == [s.heap EXCEPT !.meta[a].is_free = FALSE]
              k == AddToFreeOrder(m, BuddyOf(s), o)
  <1>2. g.heap = Fault(k, "listed_buddy")
    BY <1>1 DEF SreallocUnion
  <1>3. DamagedAt(s, p) \/ CleanAt(s, h, p, used)
    <2>. HIDE DEF enough
    <2>. QED  BY <1>1, UnitedFacts
  <1>4. /\ IsHeap(s.heap) /\ Headers(s.heap.meta) /\ a \in DOMAIN s.heap.meta
    BY <1>3 DEF DamagedAt, CleanAt, Around, Laid
  <1>5. IsMarked(s.heap, a, m)
    BY <1>4, MarkedNo
  <1>. HIDE DEF m
  <1>6. IsHeap(m) /\ SameBut(s.heap.meta, m.meta, a) /\ SameRest(s.heap, m)
    BY <1>5 DEF IsMarked, SameRest
  <1>7. IsHeap(k) /\ k.meta = m.meta /\ SameRest(m, k)
    BY <1>6, AddedKeeps
  <1>. HIDE DEF k
  <1>8. /\ g.heap.fault # "none" /\ g.heap.meta = k.meta
        /\ g.heap.freed = k.freed /\ (k.fault # "none" => g.heap.fault = k.fault)
    BY <1>2, <1>7, FaultFacts
  <1>9. ~ Sound(k) /\ (k.fault = "joined_unequal" \/ ~ Overruns(k))
    <2>1. CASE DamagedAt(s, p)
      <3>1. k.fault = "joined_unequal"
        BY <1>6, <1>7, <2>1 DEF DamagedAt, SameRest
      <3>2. DamagedAt([heap |-> k, addr |-> a], p)
        BY <1>6, <1>7, <2>1, <3>1, DamagedMarked
      <3>. QED  BY <3>1, <3>2, DamagedUnsound
    <2>2. CASE CleanAt(s, h, p, used)
      <3>1. Around(s.heap, a, used)
        BY <2>2 DEF CleanAt
      <3>2. Around(m, NULL, used \cup {a})
        <4>1. PICK q : q = s.heap
          OBVIOUS
        <4>. QED  BY <1>4, <3>1, <4>1, MarkedUsed DEF m
      <3>3. ListsFreeBut(m, NULL) /\ NULL \notin DOMAIN m.meta
        BY <3>2 DEF Around, Laid, Headers, NULL
      <3>4. o \in Orders /\ BuddyOf(s) \in Nat
        <4>1. a \in Nat /\ o \in Nat /\ o \in Orders /\ Aligned(a, o)
          BY <1>4, <3>1, HeaderFields, TilesPlaced DEF Around, Laid, Placed
        <4>. QED  BY <4>1, BuddyFacts DEF BuddyOf
      <3>. HIDE DEF o
      <3>5. ~ ListsFree(k)
        BY <1>6, <3>3, <3>4, ListedTwice DEF k
      <3>6. ~ Overruns(k)
        BY <1>7, <3>2, LaidInBounds DEF Around, Overruns
      <3>. QED  BY <3>5, <3>6 DEF Sound
    <2>. QED  BY <1>3, <2>1, <2>2
  <1>. QED  BY <1>8, <1>9 DEF Sound, ListsFree, Overruns

-----------------------------------------------------------------------------
(* The first call: the heap as it is laid out.                             *)

(* There are at least two blocks of the largest order.                     *)
LEMMA BlocksType == Blocks \in Nat /\ Blocks >= 2
  <1>1. PICK k \in 1..5 : Blocks = pow2[k]
    BY SizesAssumption
  <1>2. /\ k - 1 \in Nat /\ (k - 1) + 1 = k
    OBVIOUS
  <1>3. pow2[k] = 2 * pow2[k - 1]
    BY <1>2, Pow2Steps
  <1>4. pow2[k - 1] \in Nat /\ pow2[k - 1] >= 1
    BY <1>2, Pow2Type
  <1>. QED  BY <1>1, <1>3, <1>4

(* The starts of the blocks of the largest order.                          *)
LEMMA StartsFacts ==
    LET P == pow2[MAX_ORDER]
    IN  /\ Starts \in Seq(Nat) /\ Sorted(Starts) /\ 0 \in ToSet(Starts)
        /\ \A a \in ToSet(Starts) :
              /\ a \in 0..(Units - 1) /\ Aligned(a, MAX_ORDER)
              /\ a + P = Units <=> a = Starts[Blocks]
              /\ a + P # Units => a + P \in ToSet(Starts)
        /\ \A a, b \in ToSet(Starts) : a < b => a + P <= b
  <1>. DEFINE P == pow2[MAX_ORDER]
  <1>1. P \in Nat /\ P >= 1 /\ MAX_ORDER \in Nat
    BY SizesAssumption, Pow2Type
  <1>2. Blocks \in Nat /\ Blocks >= 2
    BY BlocksType
  <1>3. Units = Blocks * P
    BY DEF Units
  <1>4. Starts = [k \in 1..Blocks |-> (k - 1) * P]
    BY DEF Starts
  <1>. HIDE DEF P
  <1>5. \A k \in 1..Blocks :
           /\ Starts[k] = (k - 1) * P /\ Starts[k] \in Nat
           /\ Starts[k] % P = 0 /\ Starts[k] + P = k * P
    <2>1. ASSUME NEW k \in 1..Blocks
          PROVE  /\ Starts[k] = (k - 1) * P /\ Starts[k] \in Nat
                 /\ Starts[k] % P = 0 /\ Starts[k] + P = k * P
      <3>1. k - 1 \in Nat
        BY <1>2
      <3>2. Starts[k] = (k - 1) * P
        BY <1>4
      <3>3. (k - 1) * P \in Nat /\ ((k - 1) * P) % P = 0
        BY <1>1, <3>1, Times
      <3>4. (k - 1) * P + P = k * P
        BY <1>1, <3>1
      <3>. QED  BY <3>2, <3>3, <3>4
    <2>. QED  BY <2>1
  <1>6. \A i \in Nat : \A k \in Nat : i < k => i * P + P <= k * P
    <2>1. ASSUME NEW i \in Nat, NEW k \in Nat, i < k
          PROVE  i * P + P <= k * P
      <3>1. PICK d \in Nat : k = i + 1 + d
        <4>1. k - i - 1 \in Nat /\ k = i + 1 + (k - i - 1)
          BY <2>1
        <4>. QED  BY <4>1
      <3>2. k * P = i * P + P + d * P
        BY <1>1, <3>1
      <3>3. d * P \in Nat /\ i * P \in Nat
        BY <1>1, Times
      <3>. QED  BY <1>1, <3>2, <3>3
    <2>. QED  BY <2>1
  <1>7. Starts \in Seq(Nat) /\ Len(Starts) = Blocks /\ DOMAIN Starts = 1..Blocks
    <2>1. Starts \in [1..Blocks -> Nat]
      BY <1>4, <1>5
    <2>2. Starts \in Seq(Nat)
      BY <1>2, <2>1
    <2>. QED  BY <1>2, <2>1, <2>2
  <1>8. Sorted(Starts)
    <2>. SUFFICES ASSUME NEW i \in 1..Len(Starts), NEW k \in 1..Len(Starts), i < k
                  PROVE  Starts[i] < Starts[k]
      BY DEF Sorted
    <2>1. i \in 1..Blocks /\ k \in 1..Blocks /\ i - 1 \in Nat /\ k - 1 \in Nat
          /\ i - 1 < k - 1
      BY <1>2, <1>7
    <2>2. (i - 1) * P + P <= (k - 1) * P
      BY <1>6, <2>1
    <2>3. Starts[i] = (i - 1) * P /\ Starts[k] = (k - 1) * P
          /\ Starts[i] \in Nat /\ Starts[k] \in Nat
      BY <1>5, <2>1
    <2>. QED  BY <1>1, <2>2, <2>3
  <1>9. \A a \in ToSet(Starts) : \E k \in 1..Blocks : a = Starts[k]
    BY <1>7 DEF ToSet
  <1>10. \A k \in 1..Blocks : Starts[k] \in ToSet(Starts)
    BY <1>7 DEF ToSet
  <1>11. 0 \in ToSet(Starts)
    <2>1. 1 \in 1..Blocks
      BY <1>2
    <2>2. Starts[1] = (1 - 1) * P
      BY <1>5, <2>1
    <2>3. Starts[1] = 0
      BY <1>1, <2>2
    <2>. QED  BY <1>10, <2>1, <2>3
  <1>12. ASSUME NEW a \in ToSet(Starts)
         PROVE  /\ a \in 0..(Units - 1) /\ a % P = 0
                /\ a + P = Units <=> a = Starts[Blocks]
                /\ a + P # Units => a + P \in ToSet(Starts)
    <2>1. PICK k \in 1..Blocks : a = Starts[k]
      BY <1>9
    <2>2. a = (k - 1) * P /\ a \in Nat /\ a % P = 0 /\ a + P = k * P
      BY <1>5, <2>1
    <2>3. k = Blocks => a + P = Units /\ a = Starts[Blocks]
      BY <1>3, <2>1, <2>2
    <2>4. CASE k = Blocks
      BY <1>1, <2>2, <2>3, <2>4
    <2>5. CASE k # Blocks
      <3>1. k \in Nat /\ k < Blocks /\ k + 1 \in 1..Blocks /\ (k + 1) - 1 = k
        BY <1>2, <2>5
      <3>2. k * P + P <= Blocks * P
        BY <1>2, <1>6, <3>1
      <3>3. a + P + P <= Units
        BY <1>3, <2>2, <3>2
      <3>4. Starts[k + 1] = k * P
        BY <1>5, <3>1
      <3>5. a + P \in ToSet(Starts)
        BY <1>10, <2>2, <3>1, <3>4
      <3>6. Blocks \in 1..Blocks
        BY <1>2
      <3>7. Starts[Blocks] \in Nat /\ Starts[Blocks] + P = Units
        BY <1>3, <1>5, <3>6
      <3>8. Units \in Nat
        BY UnitsFacts
      <3>. QED  BY <1>1, <2>2, <3>3, <3>5, <3>7, <3>8
    <2>. QED  BY <2>4, <2>5
  <1>13. ASSUME NEW a \in ToSet(Starts), NEW b \in ToSet(Starts), a < b
         PROVE  a + P <= b
    <2>1. a \in Nat /\ b \in Nat /\ a % P = 0 /\ b % P = 0
      BY <1>12
    <2>. QED  BY <1>1, <1>13, <2>1, Multiples
  <1>. QED  BY <1>7, <1>8, <1>11, <1>12, <1>13 DEF P, Aligned

(* The heap before the first call.                                         *)
Unlaid(h) ==
    IsHeap(h) /\ h.meta = <<>> /\ h.freed = [o \in Orders |-> <<>>]

(* The first call lays out a consistent heap of free blocks.               *)
LEMMA PreparedFacts ==
    ASSUME NEW h, Unlaid(h), NEW j, j = Prepared(h)
    PROVE  Around(j, NULL, {}) /\ SameRest(h, j)
  <1>. DEFINE P == pow2[MAX_ORDER]
              D == ToSet(Starts)
              M == [a \in D |->
                     [order |-> MAX_ORDER, is_free |-> TRUE,
                      next |-> IF a = Starts[Blocks] THEN NULL ELSE a + P,
                      prev |-> IF a = 0 THEN NULL ELSE a - P]]
              F == [h.freed EXCEPT ![MAX_ORDER] = Starts]
  <1>1. P \in Nat /\ P >= 1 /\ MAX_ORDER \in Nat /\ MAX_ORDER \in Orders
    BY SizesAssumption, Pow2Type DEF Orders
  <1>2. ~ HasHead(h)
    BY DEF Unlaid, HasHead
  <1>3. j = [h EXCEPT !.meta = M, !.freed = F]
    BY <1>2 DEF Prepared
  <1>4. Starts \in Seq(Nat) /\ Sorted(Starts) /\ 0 \in D
    BY StartsFacts
  <1>5. \A a \in D :
          /\ a \in 0..(Units - 1) /\ Aligned(a, MAX_ORDER)
          /\ a + P = Units <=> a = Starts[Blocks]
          /\ a + P # Units => a + P \in D
    BY StartsFacts
  <1>6. \A a, b \in D : a < b => a + P <= b
    BY StartsFacts
  <1>7. j = [meta |-> M, freed |-> F, mmaps |-> h.mmaps,
             mapped |-> h.mapped, fault |-> h.fault]
    <2>. HIDE DEF M, F
    <2>. QED  BY <1>3, HeapUpdated DEF Unlaid
  <1>8. /\ IsHeap(j) /\ j.meta = M /\ j.freed = F /\ SameRest(h, j)
    <2>. DEFINE g == [meta |-> M, freed |-> F, mmaps |-> h.mmaps,
                      mapped |-> h.mapped, fault |-> h.fault]
    <2>. HIDE DEF M, F
    <2>1. IsHeap(g) /\ g.meta = M /\ g.freed = F /\ SameRest(h, g)
      BY DEF IsHeap, SameRest
    <2>2. j = g
      BY <1>7
    <2>. HIDE DEF g
    <2>. QED  BY <2>1, <2>2
  <1>. HIDE DEF D, P
  <1>9. DOMAIN M = D
    OBVIOUS
  <1>10. ASSUME NEW a \in D
         PROVE  /\ M[a].order = MAX_ORDER /\ M[a].is_free
                /\ M[a].next = IF a + P = Units THEN NULL ELSE a + P
                /\ M[a].prev = IF a = 0 THEN NULL ELSE a - P
                /\ M[a] \in [order : Nat, is_free : BOOLEAN,
                             next : Int, prev : Int]
    <2>. DEFINE x == IF a = Starts[Blocks] THEN NULL ELSE a + P
                y == IF a = 0 THEN NULL ELSE a - P
    <2>1. M[a] = [order |-> MAX_ORDER, is_free |-> TRUE, next |-> x, prev |-> y]
      OBVIOUS
    <2>2. x = IF a + P = Units THEN NULL ELSE a + P
      BY <1>5
    <2>3. x \in Int /\ y \in Int
      BY <1>1, <1>5 DEF NULL
    <2>. HIDE DEF M, x, y
    <2>4. M[a].order = MAX_ORDER /\ M[a].is_free /\ M[a].next = x /\ M[a].prev = y
      BY <2>1
    <2>5. M[a] \in [order : Nat, is_free : BOOLEAN, next : Int, prev : Int]
      BY <1>1, <2>1, <2>3
    <2>. QED  BY <2>2, <2>4, <2>5 DEF y
  <1>11. M = [a \in D |-> M[a]]
    OBVIOUS
  <1>. HIDE DEF M
  <1>12. Headers(M)
    <2>1. M \in [D -> [order : Nat, is_free : BOOLEAN, next : Int, prev : Int]]
      BY <1>10, <1>11
    <2>. QED  BY <1>4, <1>5, <1>9, <2>1 DEF Headers
  <1>13. ASSUME NEW a \in D PROVE Placed(M, a)
    <2>1. M[a].order = MAX_ORDER /\ pow2[M[a].order] = P /\ a \in Nat
      BY <1>5, <1>10 DEF P
    <2>2. Aligned(a, M[a].order)
      BY <1>5, <2>1
    <2>3. a + P # Units => a + P \in D /\ M[a + P].prev = a
      <3>. SUFFICES ASSUME a + P # Units PROVE a + P \in D /\ M[a + P].prev = a
        OBVIOUS
      <3>1. a + P \in D
        BY <1>5
      <3>2. M[a + P].prev = IF a + P = 0 THEN NULL ELSE (a + P) - P
        BY <1>10, <3>1
      <3>. QED  BY <1>1, <2>1, <3>1, <3>2
    <2>4. ASSUME NEW b \in D \ {a} PROVE ~ Covers(M, a, b)
      <3>1. b \in Nat
        BY <1>5
      <3>. QED  BY <1>1, <1>6, <2>1, <3>1 DEF Covers
    <2>5. M[a].next = IF a + P = Units THEN NULL ELSE a + P
      BY <1>10
    <2>6. \A b \in DOMAIN M \ {a} : ~ Covers(M, a, b)
      BY <1>9, <2>4
    <2>7. a + pow2[M[a].order] = a + P
      BY <2>1
    <2>. QED  BY <1>9, <2>2, <2>3, <2>5, <2>6, <2>7 DEF Placed
  <1>14. Laid(M)
    BY <1>1, <1>9, <1>10, <1>12, <1>13, TilesPlaced DEF Laid
  <1>15. ListsFreeBut(j, NULL)
    <2>1. F \in [Orders -> Seq(Nat)] /\ F[MAX_ORDER] = Starts
          /\ \A o \in Orders \ {MAX_ORDER} : F[o] = <<>>
      <3>1. h.freed = [o \in Orders |-> <<>>]
        BY DEF Unlaid
      <3>2. PICK e \in Seq(Nat) : e = <<>>
        <4>1. <<>> \in Seq(Nat)
          BY EmptySeq
        <4>. QED  BY <4>1, Zenon
      <3>3. h.freed \in [Orders -> Seq(Nat)] /\ \A o \in Orders : h.freed[o] = e
        BY <3>1, <3>2
      <3>. QED  BY <1>1, <1>4, <3>2, <3>3
    <2>. HIDE DEF F
    <2>2. ASSUME NEW o \in Orders
          PROVE  /\ Sorted(F[o])
                 /\ ToSet(F[o]) = {a \in DOMAIN M \ {NULL} :
                                     M[a].is_free /\ M[a].order = o}
      <3>1. CASE o = MAX_ORDER
        <4>1. NULL \notin D
          BY <1>5 DEF NULL
        <4>2. {a \in DOMAIN M \ {NULL} : M[a].is_free /\ M[a].order = o} = D
          BY <1>9, <1>10, <3>1, <4>1
        <4>. QED  BY <1>4, <2>1, <3>1, <4>2 DEF D
      <3>2. CASE o # MAX_ORDER
        <4>1. {a \in DOMAIN M \ {NULL} : M[a].is_free /\ M[a].order = o} = {}
          BY <1>9, <1>10, <3>2
        <4>2. F[o] = <<>>
          BY <2>1, <3>2
        <4>3. Len(<<>>) = 0 /\ ToSet(<<>>) = {}
          BY DEF ToSet
        <4>4. Sorted(<<>>)
          BY <4>3 DEF Sorted
        <4>. QED  BY <4>1, <4>2, <4>3, <4>4
      <3>. QED  BY <3>1, <3>2
    <2>. QED  BY <1>8, <2>1, <2>2 DEF ListsFreeBut
  <1>16. JoinedBut(M, NULL)
    BY <1>1, <1>9, <1>10 DEF JoinedBut, AreBuddies
  <1>17. UsedBut(M, NULL) = {}
    BY <1>9, <1>10 DEF UsedBut
  <1>. QED  BY <1>8, <1>14, <1>15, <1>16, <1>17 DEF Around

-----------------------------------------------------------------------------
(* Malloc from the heap.                                                   *)

(* GetFreeBlock takes a free block out of its list.                        *)
LEMMA GetFreeBlockFacts ==
    ASSUME NEW h, NEW used, Around(h, NULL, used), NEW size,
           OrdersFor(h, size) # {}, NEW r, r = GetFreeBlock(h, size)
    PROVE  /\ r.addr \in DOMAIN r.heap.meta /\ Around(r.heap, r.addr, used)
           /\ r.addr \notin used /\ SameRest(h, r.heap)
  <1>. DEFINE M == h.meta
              o == Min(OrdersFor(h, size))
  <1>1. /\ IsHeap(h) /\ Laid(M) /\ ListsFreeBut(h, NULL) /\ JoinedBut(M, NULL)
        /\ UsedBut(M, NULL) = used /\ NULL \notin DOMAIN M
    BY DEF Around, Laid, Headers, NULL
  <1>2. o \in Orders /\ h.freed[o] # <<>>
    <2>1. OrdersFor(h, size) \in SUBSET Nat
      BY UnitsFacts DEF OrdersFor
    <2>2. o \in OrdersFor(h, size)
      BY <2>1, MinFacts
    <2>. QED  BY <2>2 DEF OrdersFor
  <1>3. r = [addr |-> Head(h.freed[o]), heap |-> [h EXCEPT !.freed[o] = Tail(@)]]
    BY DEF GetFreeBlock
  <1>. HIDE DEF o, M
  <1>4. /\ h.freed \in [Orders -> Seq(Nat)]
        /\ \A x \in Orders :
              /\ Sorted(h.freed[x])
              /\ ToSet(h.freed[x]) = {a \in DOMAIN M \ {NULL} :
                                        M[a].is_free /\ M[a].order = x}
    BY <1>1 DEF ListsFreeBut, M
  <1>5. PICK l \in Seq(Nat) : l = h.freed[o]
    BY <1>2, <1>4
  <1>6. PICK f : f = [h.freed EXCEPT ![o] = Tail(l)]
    OBVIOUS
  <1>7. PICK a : a = Head(l)
    OBVIOUS
  <1>8. r.addr = a /\ r.heap = [h EXCEPT !.freed = f]
    BY <1>3, <1>5, <1>6, <1>7
  <1>9. PICK j : j = r.heap
    OBVIOUS
  <1>10. /\ IsHeap(j) /\ j.meta = M /\ j.freed = f /\ SameRest(h, j)
    <2>1. j = [meta |-> M, freed |-> f, mmaps |-> h.mmaps,
               mapped |-> h.mapped, fault |-> h.fault]
      BY <1>1, <1>8, <1>9, HeapUpdates DEF M
    <2>. QED  BY <2>1 DEF IsHeap, SameRest
  <1>11. /\ a \in ToSet(l) /\ Tail(l) \in Seq(Nat) /\ Sorted(Tail(l))
         /\ ToSet(Tail(l)) = ToSet(l) \ {a}
    BY <1>2, <1>4, <1>5, <1>7, PoppedFacts
  <1>12. a \in DOMAIN M /\ M[a].is_free /\ M[a].order = o
    BY <1>2, <1>4, <1>5, <1>11
  <1>13. /\ f \in [Orders -> Seq(Nat)] /\ f[o] = Tail(l)
         /\ \A x \in Orders \ {o} : f[x] = h.freed[x]
    BY <1>2, <1>4, <1>6, <1>11
  <1>14. ASSUME NEW x \in Orders
         PROVE  /\ Sorted(f[x])
                /\ ToSet(f[x]) = {c \in DOMAIN M \ {a} :
                                    M[c].is_free /\ M[c].order = x}
    <2>1. CASE x = o
      <3>1. {c \in DOMAIN M \ {a} : M[c].is_free /\ M[c].order = x} =
              {c \in DOMAIN M \ {NULL} : M[c].is_free /\ M[c].order = x} \ {a}
        BY <1>1 DEF M
      <3>. QED  BY <1>4, <1>5, <1>11, <1>13, <2>1, <3>1
    <2>2. CASE x # o
      <3>1. {c \in DOMAIN M \ {a} : M[c].is_free /\ M[c].order = x} =
              {c \in DOMAIN M \ {NULL} : M[c].is_free /\ M[c].order = x}
        BY <1>1, <1>12, <2>2 DEF M
      <3>. QED  BY <1>4, <1>13, <2>2, <3>1
    <2>. QED  BY <2>1, <2>2
  <1>15. ListsFreeBut(j, a)
    BY <1>10, <1>13, <1>14 DEF ListsFreeBut
  <1>16. JoinedBut(M, a)
    BY <1>1 DEF JoinedBut, M
  <1>17. UsedBut(M, a) = used /\ a \notin used
    BY <1>1, <1>12 DEF UsedBut, M
  <1>18. Around(j, a, used)
    BY <1>1, <1>10, <1>15, <1>16, <1>17 DEF Around, M
  <1>. QED  BY <1>8, <1>9, <1>10, <1>12, <1>17, <1>18

-----------------------------------------------------------------------------
(* The mapped regions.                                                     *)

(* The addresses in the list of regions.                                   *)
Addrs(l) == {l[i].addr : i \in 1..Len(l)}

(* The list has each of the regions once, and they are mapped.             *)
Regions(h, maps) ==
    /\ h.mmaps \in Seq([addr : Maps, size : Nat])
    /\ \A i, k \in 1..Len(h.mmaps) : h.mmaps[i].addr = h.mmaps[k].addr => i = k
    /\ Addrs(h.mmaps) = maps /\ maps \subseteq h.mapped

(* Two heaps with the same regions.                                        *)
LEMMA SameRegions ==
    ASSUME NEW h, NEW j, SameRest(h, j), NEW maps, Regions(h, maps)
    PROVE  Regions(j, maps)
  BY DEF SameRest, Regions

(* Mapped fails, or appends a region that was not in the list.             *)
LEMMA MappedFacts ==
    ASSUME NEW h, NEW used, Around(h, NULL, used), NEW maps, Regions(h, maps),
           NEW size \in Nat, NEW r, r = Mapped(h, size)
    PROVE  \/ r.p = NULL /\ r.heap = h
           \/ /\ r.p \in Maps /\ r.p \notin maps
              /\ Around(r.heap, NULL, used)
              /\ Regions(r.heap, maps \cup {r.p}) /\ r.heap.fault = h.fault
  <1>1. CASE Maps \subseteq h.mapped
    BY <1>1 DEF Mapped
  <1>2. CASE ~ (Maps \subseteq h.mapped)
    <2>. DEFINE m == CHOOSE m \in Maps : m \notin h.mapped
                T == [addr : Maps, size : Nat]
    <2>1. m \in Maps /\ m \notin h.mapped
      BY <1>2
    <2>. DEFINE e == [addr |-> m, size |-> size]
                l == Append(h.mmaps, e)
                W == h.mapped \cup {m}
    <2>2. r = [p |-> m, heap |-> [h EXCEPT !.mapped = W, !.mmaps = l]]
      BY <1>2 DEF Mapped
    <2>. HIDE DEF m, l, W
    <2>3. IsHeap(h)
      BY DEF Around
    <2>4. PICK j : j = r.heap
      OBVIOUS
    <2>5. r.p = m /\ j = [meta |-> h.meta, freed |-> h.freed, mmaps |-> l,
                          mapped |-> W, fault |-> h.fault]
      <3>1. PICK g : g = [h EXCEPT !.mapped = W]
        OBVIOUS
      <3>2. g = [meta |-> h.meta, freed |-> h.freed, mmaps |-> h.mmaps,
                 mapped |-> W, fault |-> h.fault]
        BY <2>3, <3>1 DEF IsHeap
      <3>3. [h EXCEPT !.mapped = W, !.mmaps = l] = [g EXCEPT !.mmaps = l]
        BY <3>1
      <3>4. [g EXCEPT !.mmaps = l] =
              [meta |-> h.meta, freed |-> h.freed, mmaps |-> l,
               mapped |-> W, fault |-> h.fault]
        BY <3>2
      <3>. QED  BY <2>2, <2>4, <3>3, <3>4
    <2>6. /\ IsHeap(j) /\ j.meta = h.meta /\ j.freed = h.freed
          /\ j.mmaps = l /\ j.mapped = W /\ j.fault = h.fault
      BY <2>5 DEF IsHeap
    <2>7. Around(j, NULL, used)
      BY <2>6 DEF Around, ListsFreeBut
    <2>8. /\ h.mmaps \in Seq(T) /\ Addrs(h.mmaps) = maps /\ maps \subseteq h.mapped
          /\ \A i, k \in 1..Len(h.mmaps) :
                h.mmaps[i].addr = h.mmaps[k].addr => i = k
      BY DEF Regions
    <2>9. m \notin maps
      BY <2>1, <2>8
    <2>10. PICK x \in T : x = e /\ x.addr = m
      <3>1. e \in T /\ e.addr = m
        BY <2>1
      <3>. QED  BY <3>1
    <2>11. PICK s \in Seq(T) : s = h.mmaps
      BY <2>8
    <2>12. PICK n \in Nat : n = Len(s)
      BY <2>11
    <2>. HIDE DEF T, e
    <2>13. /\ l \in Seq(T) /\ Len(l) = n + 1 /\ l[n + 1] = x
           /\ \A i \in 1..n : l[i] = s[i]
      BY <2>10, <2>11, <2>12 DEF l
    <2>14. \A i \in 1..n : s[i].addr \in maps
      BY <2>8, <2>11, <2>12 DEF Addrs
    <2>15. \A i \in 1..(n + 1) : i \in 1..n \/ i = n + 1
      BY <2>12
    <2>16. ASSUME NEW i \in 1..(n + 1), NEW k \in 1..(n + 1), l[i].addr = l[k].addr
           PROVE  i = k
      <3>1. CASE i \in 1..n /\ k \in 1..n
        BY <2>8, <2>11, <2>12, <2>13, <2>16, <3>1
      <3>2. CASE i \in 1..n /\ k = n + 1
        BY <2>9, <2>10, <2>13, <2>14, <2>16, <3>2
      <3>3. CASE i = n + 1 /\ k \in 1..n
        BY <2>9, <2>10, <2>13, <2>14, <2>16, <3>3
      <3>. QED  BY <2>15, <3>1, <3>2, <3>3
    <2>17. Addrs(l) = maps \cup {m}
      <3>1. n + 1 \in 1..(n + 1) /\ \A i \in 1..n : i \in 1..(n + 1)
        BY <2>12
      <3>2. Addrs(l) = {l[i].addr : i \in 1..(n + 1)}
        BY <2>13 DEF Addrs
      <3>3. maps = {s[i].addr : i \in 1..n}
        BY <2>8, <2>11, <2>12 DEF Addrs
      <3>. QED  BY <2>10, <2>13, <2>15, <3>1, <3>2, <3>3
    <2>18. Regions(j, maps \cup {m})
      BY <2>6, <2>8, <2>13, <2>16, <2>17 DEF Regions, W, T
    <2>. QED  BY <2>1, <2>4, <2>5, <2>6, <2>7, <2>9, <2>18
  <1>. QED  BY <1>1, <1>2

(* list::remove at a position.                                             *)
LEMMA RemovedAt ==
    ASSUME NEW T, NEW s \in Seq(T), NEW i \in 1..Len(s)
    PROVE  LET r == RemoveAt(s, i)
           IN  /\ r \in Seq(T) /\ Len(r) = Len(s) - 1
               /\ \A k \in 1..(Len(s) - 1) : r[k] = IF k < i THEN s[k] ELSE s[k + 1]
  <1>. DEFINE n == Len(s)
              u == SubSeq(s, 1, i - 1)
              v == SubSeq(s, i + 1, n)
              r == RemoveAt(s, i)
  <1>1. n \in Nat /\ i \in Nat /\ i >= 1 /\ i <= n
    OBVIOUS
  <1>2. u \in Seq(T) /\ Len(u) = i - 1 /\ \A k \in 1..(i - 1) : u[k] = s[k]
    BY <1>1
  <1>3. v \in Seq(T) /\ Len(v) = n - i /\ \A k \in 1..(n - i) : v[k] = s[i + k]
    BY <1>1
  <1>4. r = u \o v
    BY DEF RemoveAt
  <1>. HIDE DEF u, v, r, n
  <1>0. /\ u \o v \in Seq(T) /\ Len(u \o v) = Len(u) + Len(v)
        /\ \A k \in 1..(Len(u) + Len(v)) :
              (u \o v)[k] = IF k <= Len(u) THEN u[k] ELSE v[k - Len(u)]
    BY <1>2, <1>3, ConcatProperties
  <1>5. r \in Seq(T) /\ Len(r) = n - 1
    BY <1>1, <1>2, <1>3, <1>4, <1>0
  <1>6. ASSUME NEW k \in 1..(n - 1)
        PROVE  r[k] = IF k < i THEN s[k] ELSE s[k + 1]
    <2>1. CASE k < i
      BY <1>1, <1>2, <1>3, <1>4, <1>0, <2>1
    <2>2. CASE ~ (k < i)
      <3>1. k - (i - 1) \in 1..(n - i) /\ k > i - 1 /\ i + (k - (i - 1)) = k + 1
        BY <1>1, <2>2
      <3>2. r[k] = v[k - (i - 1)]
        <4>1. k \in 1..(Len(u) + Len(v)) /\ ~ (k <= Len(u)) /\ Len(u) = i - 1
          BY <1>1, <1>2, <1>3, <3>1
        <4>. QED  BY <1>4, <1>0, <4>1
      <3>. QED  BY <1>3, <2>2, <3>1, <3>2
    <2>. QED  BY <2>1, <2>2
  <1>. QED  BY <1>5, <1>6 DEF n, r

(* Unmapped takes the region out of the list.                              *)
LEMMA UnmappedFacts ==
    ASSUME NEW h, IsHeap(h), NEW maps, Regions(h, maps), NEW p \in maps,
           NEW j, j = Unmapped(h, p)
    PROVE  /\ IsHeap(j) /\ j.meta = h.meta /\ j.freed = h.freed
           /\ j.fault = h.fault /\ Regions(j, maps \ {p})
  <1>. DEFINE T == [addr : Maps, size : Nat]
              i == CHOOSE i \in 1..Len(h.mmaps) : h.mmaps[i].addr = p
              l == RemoveAt(h.mmaps, i)
              W == IF i = 1 THEN h.mapped ELSE h.mapped \ {p}
  <1>1. /\ h.mmaps \in Seq(T) /\ Addrs(h.mmaps) = maps /\ maps \subseteq h.mapped
        /\ \A x, y \in 1..Len(h.mmaps) :
              h.mmaps[x].addr = h.mmaps[y].addr => x = y
    BY DEF Regions
  <1>2. i \in 1..Len(h.mmaps) /\ h.mmaps[i].addr = p
    BY <1>1 DEF Addrs
  <1>3. j = [h EXCEPT !.mmaps = l, !.mapped = W]
    BY DEF Unmapped
  <1>. HIDE DEF i, T
  <1>4. PICK s \in Seq(T) : s = h.mmaps
    BY <1>1
  <1>5. PICK n \in Nat : n = Len(s)
    BY <1>4
  <1>6. /\ l \in Seq(T) /\ Len(l) = n - 1
        /\ \A k \in 1..(n - 1) : l[k] = IF k < i THEN s[k] ELSE s[k + 1]
    BY <1>2, <1>4, <1>5, RemovedAt
  <1>7. i \in 1..n /\ s[i].addr = p
    BY <1>2, <1>4, <1>5
  <1>8. \A x, y \in 1..n : s[x].addr = s[y].addr => x = y
    BY <1>1, <1>4, <1>5
  <1>9. maps = {s[x].addr : x \in 1..n} /\ maps \subseteq h.mapped
    BY <1>1, <1>4, <1>5 DEF Addrs
  <1>. HIDE DEF l, W
  <1>10. /\ IsHeap(j) /\ j.meta = h.meta /\ j.freed = h.freed
         /\ j.fault = h.fault /\ j.mmaps = l /\ j.mapped = W
    <2>1. PICK g : g = [h EXCEPT !.mmaps = l]
      OBVIOUS
    <2>2. g = [meta |-> h.meta, freed |-> h.freed, mmaps |-> l,
               mapped |-> h.mapped, fault |-> h.fault]
      BY <2>1 DEF IsHeap
    <2>3. j = [g EXCEPT !.mapped = W]
      BY <1>3, <2>1
    <2>4. j = [meta |-> h.meta, freed |-> h.freed, mmaps |-> l,
               mapped |-> W, fault |-> h.fault]
      BY <2>2, <2>3
    <2>. QED  BY <2>4 DEF IsHeap
  <1>11. PICK f \in [1..(n - 1) -> 1..n] :
            /\ \A k \in 1..(n - 1) : l[k] = s[f[k]] /\ f[k] # i
            /\ \A x, y \in 1..(n - 1) : f[x] = f[y] => x = y
            /\ \A x \in 1..n \ {i} : \E k \in 1..(n - 1) : f[k] = x
    <2>. DEFINE f == [k \in 1..(n - 1) |-> IF k < i THEN k ELSE k + 1]
    <2>1. f \in [1..(n - 1) -> 1..n]
      BY <1>5, <1>7
    <2>2. ASSUME NEW k \in 1..(n - 1) PROVE l[k] = s[f[k]] /\ f[k] # i
      BY <1>6, <1>7
    <2>3. ASSUME NEW x \in 1..(n - 1), NEW y \in 1..(n - 1), f[x] = f[y]
          PROVE  x = y
      BY <1>7, <2>3
    <2>4. ASSUME NEW x \in 1..n \ {i} PROVE \E k \in 1..(n - 1) : f[k] = x
      <3>1. CASE x < i
        <4>1. x \in 1..(n - 1)
          BY <1>5, <1>7, <3>1
        <4>2. f[x] = x
          BY <3>1, <4>1
        <4>. QED  BY <4>1, <4>2
      <3>2. CASE ~ (x < i)
        <4>1. x - 1 \in 1..(n - 1) /\ ~ (x - 1 < i) /\ (x - 1) + 1 = x
          BY <1>5, <1>7, <3>2
        <4>2. f[x - 1] = x
          BY <4>1
        <4>. QED  BY <4>1, <4>2
      <3>. QED  BY <3>1, <3>2
    <2>. HIDE DEF f
    <2>. QED  BY <2>1, <2>2, <2>3, <2>4
  <1>12. ASSUME NEW x \in 1..(n - 1), NEW y \in 1..(n - 1), l[x].addr = l[y].addr
         PROVE  x = y
    <2>1. f[x] \in 1..n /\ f[y] \in 1..n /\ s[f[x]].addr = s[f[y]].addr
      BY <1>11, <1>12
    <2>2. f[x] = f[y]
      BY <1>8, <2>1
    <2>. QED  BY <1>11, <2>2
  <1>13. Addrs(l) = maps \ {p}
    <2>1. Addrs(l) = {l[k].addr : k \in 1..(n - 1)}
      BY <1>6 DEF Addrs
    <2>2. ASSUME NEW k \in 1..(n - 1) PROVE l[k].addr \in maps \ {p}
      <3>1. f[k] \in 1..n /\ f[k] # i /\ l[k] = s[f[k]]
        BY <1>11
      <3>2. s[f[k]].addr # p
        BY <1>7, <1>8, <3>1
      <3>. QED  BY <1>9, <3>1, <3>2
    <2>3. ASSUME NEW q \in maps \ {p}
          PROVE  \E k \in 1..(n - 1) : q = l[k].addr
      <3>1. PICK x \in 1..n : q = s[x].addr
        BY <1>9
      <3>2. x # i
        BY <1>7, <3>1
      <3>3. PICK k \in 1..(n - 1) : f[k] = x
        BY <1>11, <3>2
      <3>4. l[k] = s[x]
        BY <1>11, <3>3
      <3>. QED  BY <3>1, <3>4
    <2>. QED  BY <2>1, <2>2, <2>3
  <1>14. maps \ {p} \subseteq W
    BY <1>9 DEF W
  <1>15. Regions(j, maps \ {p})
    BY <1>6, <1>10, <1>12, <1>13, <1>14 DEF Regions, T
  <1>. QED  BY <1>10, <1>15

-----------------------------------------------------------------------------
(* Malloc and Free, for the heap and the regions together.                 *)

(* h is consistent, and held are the blocks and the regions in use.        *)
Tended(h, held) ==
    /\ \/ Unlaid(h) /\ held \ Maps = {}
       \/ Around(h, NULL, held \ Maps)
    /\ Regions(h, held \cap Maps) /\ h.fault = "none"

(* The addresses of regions are no addresses of the heap.                  *)
LEMMA MapsNegative == \A m \in Maps : m \in Int /\ m < -1
  BY MapsAssumption

(* The heap after the first call of Malloc.                                *)
LEMMA PreparedTended ==
    ASSUME NEW h, NEW held, Tended(h, held), NEW j, j = Prepared(h)
    PROVE  /\ Around(j, NULL, held \ Maps) /\ Regions(j, held \cap Maps)
           /\ j.fault = "none" /\ Prepared(j) = j
  <1>1. CASE Unlaid(h) /\ held \ Maps = {}
    <2>1. Around(j, NULL, {}) /\ SameRest(h, j)
      BY <1>1, PreparedFacts
    <2>2. HasHead(j)
      BY <2>1 DEF Around, Laid, Headers, HasHead
    <2>3. Prepared(j) = j
      BY <2>2 DEF Prepared
    <2>. QED  BY <1>1, <2>1, <2>3, SameRegions DEF Tended, SameRest
  <1>2. CASE Around(h, NULL, held \ Maps)
    <2>1. HasHead(h)
      BY <1>2 DEF Around, Laid, Headers, HasHead
    <2>2. j = h /\ Prepared(h) = h
      BY <2>1 DEF Prepared
    <2>. QED  BY <1>2, <2>2 DEF Tended
  <1>. QED  BY <1>1, <1>2 DEF Tended

(* Malloc fails, or gives a block or a region that nobody holds.           *)
LEMMA MallocFacts ==
    ASSUME NEW h0, NEW held, Tended(h0, held), NULL \notin held,
           NEW size \in Nat, NEW r, r = Malloc(h0, size)
    PROVE  \/ r.p = NULL /\ Tended(r.heap, held)
           \/ /\ r.p # NULL /\ r.p \notin held /\ r.p \in Int
              /\ Tended(r.heap, held \cup {r.p})
  <1>1. PICK h : h = Prepared(h0)
    OBVIOUS
  <1>. DEFINE used == held \ Maps
              maps == held \cap Maps
              f == GetFreeBlock(h, size)
  <1>2. Around(h, NULL, used) /\ Regions(h, maps) /\ h.fault = "none"
    BY <1>1, PreparedTended
  <1>3. r = IF size = 0 \/ size > MAX_SIZE_TO_ALLOCATE THEN [p |-> NULL, heap |-> h]
            ELSE IF size >= MAX_SIZE THEN Mapped(h, size)
            ELSE IF OrdersFor(h, size) = {} THEN [p |-> NULL, heap |-> h]
            ELSE [p |-> f.addr, heap |-> SplitIfPossible(f.heap, f.addr, size)]
    BY <1>1 DEF Malloc
  <1>. HIDE DEF f
  <1>4. Tended(h, held)
    BY <1>2 DEF Tended
  <1>5. CASE r = [p |-> NULL, heap |-> h]
    BY <1>4, <1>5
  <1>6. CASE r = Mapped(h, size)
    <2>1. \/ r.p = NULL /\ r.heap = h
          \/ /\ r.p \in Maps /\ r.p \notin maps
             /\ Around(r.heap, NULL, used)
             /\ Regions(r.heap, maps \cup {r.p}) /\ r.heap.fault = h.fault
      BY <1>2, <1>6, MappedFacts
    <2>2. CASE r.p = NULL /\ r.heap = h
      BY <1>4, <2>2
    <2>3. CASE /\ r.p \in Maps /\ r.p \notin maps
               /\ Around(r.heap, NULL, used)
               /\ Regions(r.heap, maps \cup {r.p}) /\ r.heap.fault = h.fault
      <3>1. r.p \in Int /\ r.p # NULL
        BY <2>3, MapsNegative DEF NULL
      <3>2. /\ (held \cup {r.p}) \ Maps = used
            /\ (held \cup {r.p}) \cap Maps = maps \cup {r.p}
        BY <2>3
      <3>3. Tended(r.heap, held \cup {r.p})
        <4>. HIDE DEF used, maps
        <4>. QED  BY <1>2, <2>3, <3>2 DEF Tended
      <3>. QED  BY <2>3, <3>1, <3>3
    <2>. QED  BY <2>1, <2>2, <2>3
  <1>7. CASE /\ OrdersFor(h, size) # {}
             /\ r = [p |-> f.addr, heap |-> SplitIfPossible(f.heap, f.addr, size)]
    <2>1. PICK g : g = f
      OBVIOUS
    <2>2. /\ g.addr \in DOMAIN g.heap.meta /\ Around(g.heap, g.addr, used)
          /\ g.addr \notin used /\ SameRest(h, g.heap)
      BY <1>2, <1>7, <2>1, GetFreeBlockFacts DEF f
    <2>3. PICK a : a = g.addr
      OBVIOUS
    <2>4. PICK k : k = g.heap
      OBVIOUS
    <2>5. PICK j : j = SplitIfPossible(k, a, size)
      OBVIOUS
    <2>6. Around(j, NULL, used \cup {a}) /\ SameRest(k, j)
      <3>. HIDE DEF used
      <3>. QED  BY <2>2, <2>3, <2>4, <2>5, SplitFacts
    <2>7. r.p = a /\ r.heap = j
      BY <1>7, <2>1, <2>3, <2>4, <2>5
    <2>8. SameRest(h, j)
      BY <2>2, <2>4, <2>6 DEF SameRest
    <2>9. a \in Nat
      BY <2>2, <2>3, HeaderFields DEF Around, Laid
    <2>10. a # NULL /\ a \notin Maps /\ a \in Int
      BY <2>9, MapsNegative DEF NULL
    <2>11. /\ (held \cup {a}) \ Maps = used \cup {a}
           /\ (held \cup {a}) \cap Maps = maps /\ a \notin held
      BY <2>2, <2>3, <2>10
    <2>12. Regions(j, maps)
      BY <1>2, <2>8, SameRegions
    <2>13. Tended(j, held \cup {a})
      <3>. HIDE DEF used, maps
      <3>. QED  BY <1>2, <2>6, <2>8, <2>11, <2>12 DEF Tended, SameRest
    <2>. QED  BY <2>7, <2>10, <2>11, <2>13
  <1>. QED  BY <1>3, <1>5, <1>6, <1>7

(* Free gives the block or the region back, or it damages the heap.        *)
LEMMA FreeFacts ==
    ASSUME NEW h, NEW held, Tended(h, held), NEW p \in held,
           NEW j, j = Free(h, p)
    PROVE  \/ Tended(j, held \ {p})
           \/ j.fault = "joined_unequal" /\ ~ Sound(j)
  <1>. DEFINE used == held \ Maps
              maps == held \cap Maps
  <1>1. IsHeap(h) /\ Regions(h, maps) /\ h.fault = "none"
    BY DEF Tended, Unlaid, Around
  <1>2. CASE p \in Maps
    <2>1. j = Unmapped(h, p) /\ p \in maps
      BY <1>2 DEF Free
    <2>2. /\ IsHeap(j) /\ j.meta = h.meta /\ j.freed = h.freed
          /\ j.fault = h.fault /\ Regions(j, maps \ {p})
      BY <1>1, <2>1, UnmappedFacts
    <2>3. (held \ {p}) \ Maps = used /\ (held \ {p}) \cap Maps = maps \ {p}
      BY <1>2
    <2>4. (Unlaid(h) /\ used = {}) \/ Around(h, NULL, used)
      BY DEF Tended
    <2>. HIDE DEF used, maps
    <2>5. (Unlaid(j) /\ used = {}) \/ Around(j, NULL, used)
      BY <2>2, <2>4 DEF Unlaid, Around, ListsFreeBut
    <2>. QED  BY <1>1, <2>2, <2>3, <2>5 DEF Tended
  <1>3. CASE p \notin Maps
    <2>1. j = UnionIfPossible(h, p) /\ p \in used
      BY <1>3 DEF Free
    <2>2. Around(h, NULL, used)
      BY <2>1 DEF Tended
    <2>3. p \in DOMAIN h.meta /\ Around(h, p, used \ {p})
      BY <2>1, <2>2, Released
    <2>4. \/ Freed(h, j, p, used \ {p})
          \/ \E a : DamagedAt([heap |-> j, addr |-> a], p)
      <3>. HIDE DEF used
      <3>. QED  BY <1>1, <2>1, <2>3, UnionFacts
    <2>5. CASE Freed(h, j, p, used \ {p})
      <3>1. (held \ {p}) \ Maps = used \ {p} /\ (held \ {p}) \cap Maps = maps
        BY <1>3
      <3>2. Around(j, NULL, used \ {p}) /\ SameRest(h, j)
        BY <2>5 DEF Freed
      <3>3. Regions(j, maps)
        BY <1>1, <3>2, SameRegions
      <3>. HIDE DEF used, maps
      <3>. QED  BY <1>1, <3>1, <3>2, <3>3 DEF Tended, SameRest
    <2>6. CASE \E a : DamagedAt([heap |-> j, addr |-> a], p)
      BY <2>6, DamagedUnsound
    <2>. QED  BY <2>4, <2>5, <2>6
  <1>. QED  BY <1>2, <1>3

-----------------------------------------------------------------------------
(* The loop of CheckIfUnionIsPossible.                                     *)

(* The equation of the rounds, up to n.                                    *)
ChecksFrom(h, addr, size, n, f) ==
    f = [i \in 0..n |-> IF i = 0 THEN At(addr, addr, h.meta[addr].order)
                        ELSE CheckRound(h, addr, size, f[i - 1])]

(* The rounds of the loop are defined.                                     *)
LEMMA ChecksExist ==
    ASSUME NEW h, NEW addr, NEW size
    PROVE  \A n \in Nat : \E f : ChecksFrom(h, addr, size, n, f)
  <1>. DEFINE at == At(addr, addr, h.meta[addr].order)
              S == {n \in Nat : \E f : ChecksFrom(h, addr, size, n, f)}
  <1>1. 0 \in S
    <2>1. ChecksFrom(h, addr, size, 0, [i \in 0..0 |-> at])
      BY DEF ChecksFrom
    <2>. QED  BY <2>1
  <1>2. ASSUME NEW n \in Nat, n \in S PROVE n + 1 \in S
    <2>1. PICK f : ChecksFrom(h, addr, size, n, f)
      BY <1>2
    <2>. DEFINE last == CheckRound(h, addr, size, f[n])
                g == [i \in 0..(n + 1) |-> IF i = n + 1 THEN last ELSE f[i]]
    <2>2. ASSUME NEW i \in 0..(n + 1)
          PROVE  g[i] = IF i = 0 THEN at ELSE CheckRound(h, addr, size, g[i - 1])
      <3>1. CASE i = n + 1
        <4>1. i # 0 /\ i - 1 = n /\ n \in 0..(n + 1) /\ n # n + 1
          BY <3>1
        <4>2. g[i] = last /\ g[i - 1] = f[n]
          BY <3>1, <4>1
        <4>. QED  BY <4>1, <4>2
      <3>2. CASE i # n + 1
        <4>1. i \in 0..n /\ (i # 0 => i - 1 \in 0..(n + 1) /\ i - 1 # n + 1)
          BY <3>2
        <4>2. f[i] = IF i = 0 THEN at ELSE CheckRound(h, addr, size, f[i - 1])
          BY <4>1, <2>1 DEF ChecksFrom
        <4>3. g[i] = f[i] /\ (i # 0 => g[i - 1] = f[i - 1])
          BY <3>2, <4>1
        <4>. QED  BY <4>2, <4>3
      <3>. QED  BY <3>1, <3>2
    <2>3. ChecksFrom(h, addr, size, n + 1, g)
      <3>1. g = [i \in 0..(n + 1) |-> g[i]]
        OBVIOUS
      <3>. HIDE DEF g
      <3>. QED  BY <3>1, <2>2 DEF ChecksFrom
    <2>. QED  BY <2>3
  <1>. HIDE DEF S
  <1>3. \A n \in Nat : n \in S
    BY <1>1, <1>2, AllNumbers
  <1>. QED  BY <1>3 DEF S

(* srealloc meets no free buddy that is below its block or of another      *)
(* order.                                                                  *)
Regular(h, p) ==
    \A o \in Orders :
        LET b == Buddy(p, o)
        IN  Joinable(h, b) => ~ (b < p \/ Header(h, b).order # o)

(* Where the loop is then: at the block, with the order that was counted.  *)
Counted(h, p, at) ==
    /\ at.addr = p /\ at.order \in Orders /\ at.buddy = Buddy(p, at.order)
    /\ Aligned(p, at.order) /\ h.meta[p].order <= at.order

(* A round that goes on counts the order up and stays at the block.        *)
LEMMA CheckRoundCounts ==
    ASSUME NEW h, NEW used, Around(h, NULL, used), NEW p \in DOMAIN h.meta,
           Regular(h, p), NEW size, NEW at, Counted(h, p, at),
           Checks(h, at, size), NEW t, t = CheckRound(h, p, size, at)
    PROVE  Counted(h, p, t) /\ t.order = at.order + 1
  <1>. DEFINE o == at.order
              b == Buddy(p, o)
  <1>1. /\ at.addr = p /\ o \in Orders /\ at.buddy = b
        /\ Aligned(p, o) /\ h.meta[p].order <= o
    BY DEF Counted
  <1>2. p \in Nat /\ o \in Nat /\ h.meta[p].order \in Nat
    BY <1>1, HeaderFields, UnitsFacts DEF Around, Laid
  <1>3. Joinable(h, b)
    BY <1>1 DEF Checks
  <1>4. ~ (b < p) /\ Header(h, b).order = o /\ Header(h, b).order < MAX_ORDER
    BY <1>1, <1>3 DEF Regular, Joinable
  <1>5. /\ b \in Nat /\ b # p /\ pow2[o] \in Nat /\ pow2[o] >= 1
        /\ \/ b = p + pow2[o] /\ Aligned(p, o + 1)
           \/ p = b + pow2[o]
    BY <1>1, <1>2, BuddyFacts, Pow2Type
  <1>. HIDE DEF b
  <1>6. b > p /\ Aligned(p, o + 1)
    BY <1>2, <1>4, <1>5
  <1>7. o + 1 \in Orders
    BY <1>1, <1>2, <1>4, SizesAssumption DEF Orders
  <1>8. t = At(p, p, o + 1)
    BY <1>1, <1>6 DEF CheckRound, b
  <1>9. t.addr = p /\ t.order = o + 1 /\ t.buddy = Buddy(p, o + 1)
    BY <1>8 DEF At
  <1>10. h.meta[p].order <= o + 1
    BY <1>1, <1>2
  <1>. QED  BY <1>6, <1>7, <1>9, <1>10 DEF Counted

(* With regular buddies CheckIfUnionIsPossible ends, inside the heap.      *)
LEMMA CheckFacts ==
    ASSUME NEW h, NEW used, Around(h, NULL, used), NEW p \in DOMAIN h.meta,
           Regular(h, p), NEW size \in Nat
    PROVE  CheckIfUnionIsPossible(h, p, size) \subseteq {"yes", "no"}
  <1>. DEFINE K == CheckRounds
              q == h.meta[p].order
              f == CHOOSE f : ChecksFrom(h, p, size, K, f)
              Good(i) == /\ Counted(h, p, f[i])
                         /\ Checks(h, f[i], size) => f[i].order = q + i
              S == {i \in Nat : i <= K => Good(i)}
  <1>1. K \in Nat /\ K > MAX_ORDER /\ MAX_ORDER \in Nat
    BY SizesAssumption DEF CheckRounds
  <1>2. ChecksFrom(h, p, size, K, f)
    <2>. HIDE DEF K
    <2>. QED  BY <1>1, ChecksExist
  <1>3. CheckIfUnionIsPossible(h, p, size) =
          IF Size(f[K].order) >= size
          THEN {"yes"} \cup (IF f[K].buddy < Units THEN {} ELSE {"exits"})
          ELSE IF f[K].buddy \notin DOMAIN h.meta
          THEN {"no", "exits"}
                 \cup (IF f[K].addr = p THEN {"yes"} ELSE {"loops"})
          ELSE IF Joinable(h, f[K].buddy) THEN {"loops"} ELSE {"no"}
    BY DEF CheckIfUnionIsPossible, ChecksFrom
  <1>4. /\ Headers(h.meta) /\ Tiles(h.meta) /\ q \in Orders /\ q \in Nat
        /\ p \in Nat /\ p < Units /\ Aligned(p, q)
    BY HeaderFields, TilesPlaced DEF Around, Laid, Placed
  <1>. HIDE DEF f, K
  <1>5. /\ f[0] = At(p, p, q)
        /\ \A i \in Nat : i + 1 <= K => f[i + 1] = CheckRound(h, p, size, f[i])
    <2>1. \A i \in 0..K : f[i] = IF i = 0 THEN At(p, p, q)
                                 ELSE CheckRound(h, p, size, f[i - 1])
      BY <1>2 DEF ChecksFrom
    <2>2. ASSUME NEW i \in Nat, i + 1 <= K
          PROVE  i + 1 \in 0..K /\ i + 1 # 0 /\ (i + 1) - 1 = i
      BY <1>1, <2>2
    <2>. QED  BY <1>1, <2>1, <2>2
  <1>. HIDE DEF q
  <1>6. 0 \in S
    <2>1. f[0].addr = p /\ f[0].order = q /\ f[0].buddy = Buddy(p, q)
      BY <1>5 DEF At
    <2>2. q <= q /\ q = q + 0
      BY <1>4
    <2>3. Good(0)
      BY <1>4, <2>1, <2>2 DEF Counted, q
    <2>. QED  BY <2>3
  <1>7. ASSUME NEW i \in Nat, i \in S PROVE i + 1 \in S
    <2>. SUFFICES ASSUME i + 1 <= K PROVE Good(i + 1)
      OBVIOUS
    <2>1. Good(i)
      BY <1>1, <1>7
    <2>2. PICK at : at = f[i]
      OBVIOUS
    <2>3. PICK t : t = CheckRound(h, p, size, at)
      OBVIOUS
    <2>4. f[i + 1] = t
      BY <1>5, <2>2, <2>3
    <2>5. CASE ~ Checks(h, at, size)
      <3>1. t = at
        BY <2>3, <2>5 DEF CheckRound
      <3>. QED  BY <2>1, <2>2, <2>4, <2>5, <3>1
    <2>6. CASE Checks(h, at, size)
      <3>1. Counted(h, p, t) /\ t.order = at.order + 1
        BY <2>1, <2>2, <2>3, <2>6, CheckRoundCounts
      <3>2. at.order = q + i
        BY <2>1, <2>2, <2>6
      <3>3. t.order = q + (i + 1)
        BY <1>4, <3>1, <3>2
      <3>. QED  BY <2>4, <3>1, <3>3
    <2>. QED  BY <2>5, <2>6
  <1>. HIDE DEF S
  <1>8. K \in S
    BY <1>1, <1>6, <1>7, AllNumbers
  <1>9. Good(K)
    BY <1>1, <1>8 DEF S
  <1>10. PICK at : at = f[K]
    OBVIOUS
  <1>11. /\ at.order \in Orders /\ at.buddy = Buddy(p, at.order)
         /\ Aligned(p, at.order) /\ q <= at.order
    BY <1>9, <1>10 DEF Counted, q
  <1>12. ~ Checks(h, at, size)
    <2>. SUFFICES ASSUME Checks(h, at, size) PROVE FALSE
      OBVIOUS
    <2>1. at.order = q + K
      BY <1>9, <1>10
    <2>2. at.order <= MAX_ORDER
      BY <1>11 DEF Orders
    <2>. QED  BY <1>1, <1>4, <2>1, <2>2
  <1>13. at.buddy < Units /\ at.buddy \in DOMAIN h.meta
    BY <1>4, <1>11, BuddyInHeap, BuddyIsBlock DEF q
  <1>14. CASE Size(at.order) >= size
    BY <1>3, <1>10, <1>13, <1>14
  <1>15. CASE ~ (Size(at.order) >= size)
    <2>1. Size(at.order) < size
      <3>1. pow2[at.order] \in Nat
        BY <1>11, UnitsFacts, Pow2Type
      <3>2. pow2[at.order] * START_SIZE \in Int
        BY <3>1, SizesAssumption
      <3>3. Size(at.order) \in Int
        BY <3>2, SizesAssumption DEF Size
      <3>. QED  BY <1>15, <3>3
    <2>2. ~ Joinable(h, at.buddy)
      BY <1>12, <2>1 DEF Checks
    <2>3. CheckIfUnionIsPossible(h, p, size) = {"no"}
      BY <1>3, <1>10, <1>13, <1>15, <2>2
    <2>. QED  BY <2>3
  <1>. QED  BY <1>14, <1>15

-----------------------------------------------------------------------------
(* The inductive invariant.  Until a fault the heap is consistent and has  *)
(* no free buddies, and the regions in the list are different ones; after  *)
(* it the heap is not consistent.                                          *)

IInv ==
    /\ heap.fault = "none" =>
          /\ ptr \in [Clients -> Int] /\ OneHolder
          /\ Tended(heap, Held)
    /\ heap.fault # "none" => ~ Consistent
    /\ StopsOnly

(* A client's pointer changes, to one that nobody holds or to NULL.        *)
LEMMA HeldChanges ==
    ASSUME ptr \in [Clients -> Int], OneHolder, NEW c \in Clients, NEW q \in Int,
           q # NULL => q \notin Held, ptr' = [ptr EXCEPT ![c] = q]
    PROVE  /\ ptr' \in [Clients -> Int] /\ OneHolder'
           /\ q # NULL => Held' = (Held \ {ptr[c]}) \cup {q}
           /\ q = NULL => Held' = Held \ {ptr[c]}
  <1>1. /\ ptr'[c] = q /\ \A d \in Clients \ {c} : ptr'[d] = ptr[d]
        /\ ptr' \in [Clients -> Int]
    OBVIOUS
  <1>2. \A d \in Clients \ {c} : ptr[d] # NULL => ptr[d] \in Held /\ ptr[d] # ptr[c]
    BY DEF Held, OneHolder
  <1>3. OneHolder'
    BY <1>1, <1>2 DEF OneHolder
  <1>4. Held' = {ptr'[d] : d \in Clients} \ {NULL}
    BY DEF Held
  <1>5. \A x : x \in Held' <=> \/ x = q /\ q # NULL
                               \/ x \in Held \ {ptr[c]}
    BY <1>1, <1>2, <1>4 DEF Held
  <1>6. q # NULL => Held' = (Held \ {ptr[c]}) \cup {q}
    BY <1>5
  <1>7. q = NULL => Held' = Held \ {ptr[c]}
    BY <1>5
  <1>. QED  BY <1>1, <1>3, <1>6, <1>7

(* A process that runs has not stopped.                                    *)
LEMMA RunningKeeps == prog' = "running" => StopsOnly'
  BY DEF StopsOnly

(* A heap that does not tile or whose lists are wrong is not consistent.   *)
LEMMA UnsoundKeeps == ~ Sound(heap') => ~ Consistent'
  BY DEF Sound, Consistent, ListsFree, Tiles

(* A tended heap has only the orders there are lists for.                  *)
LEMMA TendedRuns ==
    ASSUME NEW h, NEW held, Tended(h, held)
    PROVE  After(h) = "running"
  <1>1. CASE Unlaid(h)
    <2>1. DOMAIN h.meta = {}
      BY <1>1 DEF Unlaid
    <2>. QED  BY <2>1 DEF After, Overruns
  <1>2. CASE Laid(h.meta)
    BY <1>2, LaidInBounds DEF After
  <1>. QED  BY <1>1, <1>2 DEF Tended, Around

(* A call that damages the heap crashes only with an order that is too     *)
(* large, from blocks of different orders.                                 *)
LEMMA DamagedStops ==
    ASSUME prog' = After(heap'), Overruns(heap') => heap'.fault = "joined_unequal"
    PROVE  StopsOnly'
  <1>1. CASE ~ Overruns(heap')
    BY <1>1, RunningKeeps DEF After
  <1>2. CASE Overruns(heap')
    <2>1. prog' = "crashed" /\ heap'.fault = "joined_unequal" /\ Overruns(heap')
      BY <1>2 DEF After
    <2>. QED  BY <2>1 DEF StopsOnly, Overruns
  <1>. QED  BY <1>1, <1>2

(* The list of regions, as a set.                                          *)
LEMMA RegionAddrs ==
    ASSUME NEW h, NEW maps, Regions(h, maps)
    PROVE  {m.addr : m \in ToSet(h.mmaps)} = maps
  <1>1. h.mmaps \in Seq([addr : Maps, size : Nat]) /\ Addrs(h.mmaps) = maps
    BY DEF Regions
  <1>2. DOMAIN h.mmaps = 1..Len(h.mmaps)
    BY <1>1
  <1>3. {m.addr : m \in ToSet(h.mmaps)} = Addrs(h.mmaps)
    BY <1>2 DEF ToSet, Addrs
  <1>. QED  BY <1>1, <1>3

(* smalloc, scalloc and srealloc(NULL, size).                              *)
LEMMA CallKeeps ==
    ASSUME IInv, NEW c \in Clients, NEW size \in Nat, Call(c, size)
    PROVE  IInv'
  <1>1. /\ prog = "running" /\ heap.fault = "none" /\ ptr[c] = NULL
        /\ brk' = brk
    BY DEF Call, Usable
  <1>2. ptr \in [Clients -> Int] /\ OneHolder /\ Tended(heap, Held)
    BY <1>1 DEF IInv
  <1>3. CASE /\ ~ HasHead(heap) /\ brk # "free"
             /\ prog' = "crashed" /\ heap' = heap /\ ptr' = ptr
    <2>1. StopsOnly'
      <3>1. prog' = "crashed" /\ brk' # "free" /\ ~ HasHead(heap')
        BY <1>1, <1>3
      <3>. QED  BY <3>1 DEF StopsOnly, HasHead
    <2>2. Held' = Held /\ OneHolder'
      BY <1>2, <1>3 DEF Held, OneHolder
    <2>. QED  BY <1>1, <1>2, <1>3, <2>1, <2>2 DEF IInv
  <1>4. CASE /\ heap' = Malloc(heap, size).heap
             /\ ptr' = [ptr EXCEPT ![c] = Malloc(heap, size).p]
             /\ prog' = prog
    <2>1. PICK r : r = Malloc(heap, size)
      OBVIOUS
    <2>2. NULL \notin Held /\ NULL \in Int
      BY DEF Held, NULL
    <2>3. \/ r.p = NULL /\ Tended(r.heap, Held)
          \/ /\ r.p # NULL /\ r.p \notin Held /\ r.p \in Int
             /\ Tended(r.heap, Held \cup {r.p})
      BY <1>2, <2>1, <2>2, MallocFacts
    <2>4. PICK q \in Int : q = r.p
      BY <2>2, <2>3
    <2>5. ptr' = [ptr EXCEPT ![c] = q] /\ heap' = r.heap
      BY <1>4, <2>1, <2>4
    <2>6. /\ ptr' \in [Clients -> Int] /\ OneHolder'
          /\ q # NULL => Held' = (Held \ {ptr[c]}) \cup {q}
          /\ q = NULL => Held' = Held \ {ptr[c]}
      BY <1>2, <2>3, <2>4, <2>5, HeldChanges
    <2>7. Tended(heap', Held')
      <3>1. Held \ {ptr[c]} = Held
        BY <1>1, <2>2
      <3>. QED  BY <2>3, <2>4, <2>5, <2>6, <3>1
    <2>8. heap'.fault = "none"
      BY <2>7 DEF Tended
    <2>. QED  BY <1>1, <1>4, <2>6, <2>7, <2>8, RunningKeeps DEF IInv
  <1>. QED  BY <1>3, <1>4 DEF Call

(* sfree.                                                                  *)
LEMMA FreeKeeps ==
    ASSUME IInv, NEW c \in Clients, sfree(c)
    PROVE  IInv'
  <1>1. /\ prog = "running" /\ heap.fault = "none" /\ ptr[c] # NULL
        /\ heap' = Free(heap, ptr[c]) /\ ptr' = [ptr EXCEPT ![c] = NULL]
        /\ prog' = After(heap')
    BY DEF sfree, Usable
  <1>2. ptr \in [Clients -> Int] /\ OneHolder /\ Tended(heap, Held)
    BY <1>1 DEF IInv
  <1>3. ptr[c] \in Held /\ NULL \in Int
    BY <1>1 DEF Held, NULL
  <1>4. \/ Tended(heap', Held \ {ptr[c]})
        \/ heap'.fault = "joined_unequal" /\ ~ Sound(heap')
    BY <1>1, <1>2, <1>3, FreeFacts
  <1>5. ptr' \in [Clients -> Int] /\ OneHolder' /\ Held' = Held \ {ptr[c]}
    BY <1>1, <1>2, <1>3, HeldChanges
  <1>6. CASE Tended(heap', Held \ {ptr[c]})
    <2>1. StopsOnly'
      BY <1>1, <1>6, TendedRuns, RunningKeeps
    <2>. QED  BY <1>5, <1>6, <2>1 DEF IInv, Tended
  <1>7. CASE heap'.fault = "joined_unequal" /\ ~ Sound(heap')
    <2>1. StopsOnly'
      BY <1>1, <1>7, DamagedStops
    <2>. QED  BY <1>7, <2>1, UnsoundKeeps DEF IInv
  <1>. QED  BY <1>4, <1>6, <1>7

(* A second sfree of a pointer to a block.                                 *)
LEMMA BlockAgainKeeps ==
    ASSUME IInv, NEW c \in Clients, Usable, NEW p, p = ptr[c],
           NEW j, j = Free(heap, p), NEW k, k = Free(j, p),
           p \in DOMAIN heap.meta, p \in DOMAIN j.meta,
           heap' = Fault(k, "freed_twice"), prog' = prog
    PROVE  IInv'
  <1>1. prog = "running" /\ heap.fault = "none"
    BY DEF Usable
  <1>2. ptr \in [Clients -> Int] /\ Tended(heap, Held)
    BY <1>1 DEF IInv
  <1>3. Around(heap, NULL, Held \ Maps)
    <2>1. ~ Unlaid(heap)
      BY DEF Unlaid
    <2>. QED  BY <1>2, <2>1 DEF Tended
  <1>4. p \in Nat
    BY <1>3, HeaderFields DEF Around, Laid
  <1>5. p \notin Maps /\ p # NULL
    BY <1>4, MapsNegative DEF NULL
  <1>6. p \in Held \ Maps
    BY <1>5 DEF Held
  <1>7. Around(heap, p, (Held \ Maps) \ {p})
    BY <1>3, <1>6, Released
  <1>8. j = UnionIfPossible(heap, p) /\ k = UnionIfPossible(j, p)
    BY <1>5 DEF Free
  <1>9. IsHeap(k) /\ ~ Sound(k)
    <2>1. PICK used : Around(heap, p, used)
      BY <1>7
    <2>. QED  BY <1>1, <1>8, <2>1, FreedTwice
  <1>10. heap'.fault # "none" /\ heap'.meta = k.meta /\ heap'.freed = k.freed
    BY <1>9, FaultFacts
  <1>11. ~ Sound(heap')
    BY <1>9, <1>10 DEF Sound, ListsFree
  <1>. QED  BY <1>1, <1>10, <1>11, RunningKeeps, UnsoundKeeps DEF IInv

(* A second sfree of a pointer to a region: the list has lost it while the *)
(* client still holds it.                                                  *)
LEMMA RegionAgainKeeps ==
    ASSUME IInv, NEW c \in Clients, Usable, NEW p \in Maps, p = ptr[c],
           heap' = Fault(Free(heap, p), "freed_twice"), prog' = "crashed",
           ptr' = ptr
    PROVE  IInv'
  <1>1. prog = "running" /\ heap.fault = "none"
    BY DEF Usable
  <1>2. Tended(heap, Held)
    BY <1>1 DEF IInv
  <1>3. p # NULL
    BY MapsNegative DEF NULL
  <1>4. p \in Held \cap Maps /\ Held' = Held
    BY <1>3 DEF Held
  <1>5. IsHeap(heap) /\ Regions(heap, Held \cap Maps)
    BY <1>2 DEF Tended, Unlaid, Around
  <1>6. PICK j : j = Unmapped(heap, p)
    OBVIOUS
  <1>7. IsHeap(j) /\ j.fault = heap.fault /\ Regions(j, (Held \cap Maps) \ {p})
    BY <1>4, <1>5, <1>6, UnmappedFacts
  <1>8. heap' = Fault(j, "freed_twice")
    BY <1>6 DEF Free
  <1>9. heap'.mmaps = j.mmaps /\ heap'.fault = "freed_twice"
    BY <1>1, <1>7, <1>8, FaultFacts
  <1>10. {m.addr : m \in ToSet(heap'.mmaps)} = (Held \cap Maps) \ {p}
    BY <1>7, <1>9, RegionAddrs
  <1>11. ~ Consistent'
    <2>1. ~ IsHeld(heap', Held')
      BY <1>4, <1>10 DEF IsHeld
    <2>. QED  BY <2>1 DEF Consistent, IsHeld
  <1>12. \A m \in ToSet(heap'.mmaps) : m.addr # p
    BY <1>10
  <1>13. StopsOnly'
    <2>1. \E x \in Held' \cap Maps : \A m \in ToSet(heap'.mmaps) : m.addr # x
      BY <1>4, <1>12
    <2>. QED  BY <1>9, <2>1 DEF StopsOnly
  <1>. QED  BY <1>9, <1>11, <1>13 DEF IInv

(* A second sfree of the same pointer.                                     *)
LEMMA FreeAgainKeeps ==
    ASSUME IInv, NEW c \in Clients, sfreeAgain(c)
    PROVE  IInv'
  <1>1. PICK p : p = ptr[c]
    OBVIOUS
  <1>2. PICK j : j = Free(heap, p)
    OBVIOUS
  <1>3. /\ Usable
        /\ \/ /\ p \in DOMAIN heap.meta /\ p \in DOMAIN j.meta
              /\ heap' = Fault(Free(j, p), "freed_twice") /\ prog' = prog
           \/ /\ p \in Maps /\ heap' = Fault(j, "freed_twice")
              /\ prog' = "crashed" /\ ptr' = ptr
    BY <1>1, <1>2 DEF sfreeAgain
  <1>. QED  BY <1>1, <1>2, <1>3, BlockAgainKeeps, RegionAgainKeeps

(* srealloc, in its four outcomes.                                         *)
LEMMA ReallocKeeps ==
    ASSUME IInv, NEW c \in Clients, NEW size \in Nat, srealloc(c, size)
    PROVE  IInv'
  <1>. DEFINE p == ptr[c]
              checks == IF p \in Maps THEN {"no"}
                        ELSE CheckIfUnionIsPossible(heap, p, size)
  <1>1. /\ prog = "running" /\ heap.fault = "none" /\ p # NULL
        /\ brk' = brk
    BY DEF srealloc, Usable
  <1>2. ptr \in [Clients -> Int] /\ OneHolder /\ Tended(heap, Held)
    BY <1>1 DEF IInv
  <1>3. p \in Held /\ NULL \notin Held
    BY <1>1 DEF Held
  <1>4. p \notin Maps => /\ Around(heap, NULL, Held \ Maps)
                         /\ p \in DOMAIN heap.meta
                         /\ Around(heap, p, (Held \ Maps) \ {p})
    <2>. SUFFICES ASSUME p \notin Maps
                  PROVE  /\ Around(heap, NULL, Held \ Maps)
                         /\ p \in DOMAIN heap.meta
                         /\ Around(heap, p, (Held \ Maps) \ {p})
      OBVIOUS
    <2>1. p \in Held \ Maps
      BY <1>3
    <2>2. Around(heap, NULL, Held \ Maps)
      BY <1>2, <2>1 DEF Tended
    <2>. QED  BY <2>1, <2>2, Released
  <1>5. CASE /\ "loops" \in checks \/ "exits" \in checks
             /\ heap' = heap /\ ptr' = ptr
    <2>1. p \notin Maps /\ ~ (checks \subseteq {"yes", "no"})
      BY <1>5
    <2>2. ~ Regular(heap, p)
      <3>1. checks = CheckIfUnionIsPossible(heap, p, size)
        BY <2>1
      <3>2. PICK used : Around(heap, NULL, used)
        BY <1>4, <2>1
      <3>3. p \in DOMAIN heap.meta
        BY <1>4, <2>1
      <3>. HIDE DEF checks, p
      <3>. QED  BY <2>1, <3>1, <3>2, <3>3, CheckFacts
    <2>3. \E o \in Orders :
            LET b == Buddy(p, o)
            IN  Joinable(heap, b) /\ (b < p \/ Header(heap, b).order # o)
      BY <2>2 DEF Regular
    <2>4. Held' = Held /\ OneHolder' /\ p \in Held' \cap DOMAIN heap'.meta
      BY <1>2, <1>3, <1>4, <1>5, <2>1 DEF Held, OneHolder
    <2>. HIDE DEF p
    <2>5. \E a \in Held' \cap DOMAIN heap'.meta, o \in Orders :
            LET b == Buddy(a, o)
            IN  Joinable(heap', b) /\ (b < a \/ Header(heap', b).order # o)
      BY <1>5, <2>3, <2>4
    <2>6. StopsOnly'
      BY <2>5 DEF StopsOnly
    <2>. QED  BY <1>1, <1>2, <1>5, <2>4, <2>6 DEF IInv
  <1>6. CASE /\ "yes" \in checks
             /\ heap' = SreallocUnion(heap, p, size).heap
             /\ prog' = After(heap')
    <2>1. p \notin Maps
      BY <1>6
    <2>2. PICK g : g = SreallocUnion(heap, p, size)
      OBVIOUS
    <2>3. /\ g.heap.fault # "none" /\ ~ Sound(g.heap)
          /\ Overruns(g.heap) => g.heap.fault = "joined_unequal"
      <3>1. PICK used : Around(heap, p, used)
        BY <1>4, <2>1
      <3>2. p \in DOMAIN heap.meta
        BY <1>4, <2>1
      <3>. HIDE DEF p
      <3>. QED  BY <1>1, <2>2, <3>1, <3>2, ListedBuddy
    <2>4. heap' = g.heap
      BY <1>6, <2>2
    <2>5. StopsOnly'
      BY <1>6, <2>3, <2>4, DamagedStops
    <2>. QED  BY <2>3, <2>4, <2>5, UnsoundKeeps DEF IInv
  <1>7. CASE /\ Malloc(heap, size).p # NULL
             /\ heap' = Free(Malloc(heap, size).heap, p)
             /\ ptr' = [ptr EXCEPT ![c] = Malloc(heap, size).p]
             /\ prog' = After(heap')
    <2>1. PICK r : r = Malloc(heap, size)
      OBVIOUS
    <2>2. /\ r.p # NULL /\ r.p \notin Held /\ r.p \in Int
          /\ Tended(r.heap, Held \cup {r.p})
      BY <1>2, <1>3, <1>7, <2>1, MallocFacts
    <2>3. PICK q \in Int : q = r.p
      BY <2>2
    <2>4. PICK h : h = r.heap
      OBVIOUS
    <2>5. heap' = Free(h, p) /\ ptr' = [ptr EXCEPT ![c] = q]
      BY <1>7, <2>1, <2>3, <2>4
    <2>6. /\ ptr' \in [Clients -> Int] /\ OneHolder'
          /\ Held' = (Held \ {p}) \cup {q}
      BY <1>2, <2>2, <2>3, <2>5, HeldChanges
    <2>7. Held' = (Held \cup {q}) \ {p}
      BY <1>3, <2>2, <2>3, <2>6
    <2>8. \/ Tended(heap', Held')
          \/ heap'.fault = "joined_unequal" /\ ~ Sound(heap')
      <3>1. PICK all : all = Held \cup {q}
        OBVIOUS
      <3>2. Tended(h, all) /\ p \in all /\ Held' = all \ {p}
        BY <1>3, <2>2, <2>3, <2>4, <2>7, <3>1
      <3>. HIDE DEF p
      <3>. QED  BY <2>5, <3>2, FreeFacts
    <2>9. CASE Tended(heap', Held')
      <3>1. StopsOnly'
        BY <1>7, <2>9, TendedRuns, RunningKeeps
      <3>. QED  BY <2>6, <2>9, <3>1 DEF IInv, Tended
    <2>10. CASE heap'.fault = "joined_unequal" /\ ~ Sound(heap')
      <3>1. StopsOnly'
        BY <1>7, <2>10, DamagedStops
      <3>. QED  BY <2>10, <3>1, UnsoundKeeps DEF IInv
    <2>. QED  BY <2>8, <2>9, <2>10
  <1>. QED  BY <1>5, <1>6, <1>7 DEF srealloc

(* The number of bytes that scalloc passes on.                             *)
LEMMA ProductType ==
    ASSUME NEW num \in Nat, NEW size \in Nat
    PROVE  (num * size) % SIZE_T \in Nat
  <1>1. SIZE_T \in Nat /\ SIZE_T >= 1
    BY SizesAssumption
  <1>2. num * size \in Nat
    OBVIOUS
  <1>3. PICK x \in Nat : x = num * size
    BY <1>2
  <1>. QED  BY <1>1, <1>3

(* MemList() makes a heap with nothing in it.                              *)
LEMMA InitKeeps == Init => IInv
  <1>. SUFFICES ASSUME Init PROVE IInv
    OBVIOUS
  <1>. DEFINE g == [meta |-> <<>>, freed |-> [o \in Orders |-> <<>>],
                    mmaps |-> <<>>, mapped |-> {}, fault |-> "none"]
  <1>1. heap = g /\ ptr = [c \in Clients |-> NULL] /\ prog = "running"
    BY DEF Init
  <1>2. /\ IsHeap(g) /\ g.meta = <<>> /\ g.freed = [o \in Orders |-> <<>>]
        /\ g.mmaps = <<>> /\ g.mapped = {} /\ g.fault = "none"
    BY DEF IsHeap
  <1>. HIDE DEF g
  <1>3. Held = {} /\ OneHolder
    BY <1>1 DEF Held, OneHolder
  <1>4. ptr \in [Clients -> Int]
    BY <1>1 DEF NULL
  <1>5. Unlaid(heap)
    BY <1>1, <1>2 DEF Unlaid
  <1>6. Regions(heap, {})
    <2>1. <<>> \in Seq([addr : Maps, size : Nat]) /\ Len(<<>>) = 0
      BY EmptySeq
    <2>2. 1..0 = {}
      OBVIOUS
    <2>3. Addrs(<<>>) = {}
      BY <2>1, <2>2 DEF Addrs
    <2>. QED  BY <1>1, <1>2, <2>1, <2>2, <2>3 DEF Regions
  <1>7. Tended(heap, Held)
    <2>1. Held \ Maps = {} /\ Held \cap Maps = {}
      BY <1>3
    <2>. QED  BY <1>1, <1>2, <1>5, <1>6, <2>1 DEF Tended
  <1>. QED  BY <1>1, <1>2, <1>3, <1>4, <1>7 DEF IInv, StopsOnly

(* Every call keeps the invariant.                                         *)
LEMMA NextKeeps == IInv /\ [Next]_vars => IInv'
  <1>. SUFFICES ASSUME IInv, [Next]_vars PROVE IInv'
    OBVIOUS
  <1>1. ASSUME NEW c \in Clients, NEW size \in Requests,
               smalloc(c, size) \/ srealloc(c, size)
        PROVE  IInv'
    <2>1. size \in Nat
      BY SizesAssumption
    <2>. QED  BY <1>1, <2>1, CallKeeps, ReallocKeeps DEF smalloc
  <1>2. ASSUME NEW c \in Clients, NEW num \in Requests, NEW size \in Requests,
               scalloc(c, num, size)
        PROVE  IInv'
    <2>1. (num * size) % SIZE_T \in Nat
      BY SizesAssumption, ProductType
    <2>2. PICK n \in Nat : n = (num * size) % SIZE_T
      BY <2>1
    <2>3. Call(c, n)
      BY <1>2, <2>2 DEF scalloc
    <2>. QED  BY <2>3, CallKeeps
  <1>3. ASSUME NEW c \in Clients, sfree(c) \/ sfreeAgain(c)
        PROVE  IInv'
    BY <1>3, FreeKeeps, FreeAgainKeeps
  <1>4. CASE UNCHANGED vars
    <2>1. heap' = heap /\ ptr' = ptr /\ brk' = brk /\ prog' = prog
      BY <1>4 DEF vars
    <2>2. Held' = Held /\ OneHolder' = OneHolder
      BY <2>1 DEF Held, OneHolder
    <2>3. StopsOnly'
      BY <2>1, <2>2 DEF IInv, StopsOnly
    <2>4. Consistent' = Consistent
      BY <2>1, <2>2 DEF Consistent
    <2>. QED  BY <2>1, <2>2, <2>3, <2>4 DEF IInv
  <1>. QED  BY <1>1, <1>2, <1>3, <1>4 DEF Next

(* The invariant holds in every behaviour.                                 *)
LEMMA Invariance == Spec => []IInv
  BY InitKeeps, NextKeeps, PTL DEF Spec

(* A tended heap is consistent.                                            *)
LEMMA TendedConsistent == IInv => ConsistentExactlyUntil
  <1>. SUFFICES ASSUME IInv PROVE ConsistentExactlyUntil
    OBVIOUS
  <1>1. CASE heap.fault # "none"
    BY <1>1 DEF IInv, ConsistentExactlyUntil
  <1>2. CASE heap.fault = "none"
    <2>1. OneHolder /\ Tended(heap, Held)
      BY <1>2 DEF IInv
    <2>2. Sound(heap) /\ {a \in DOMAIN heap.meta : ~ heap.meta[a].is_free} = Held \ Maps
      <3>1. CASE Unlaid(heap) /\ Held \ Maps = {}
        <4>1. DOMAIN heap.meta = {} /\ \A o \in Orders : heap.freed[o] = <<>>
          BY <3>1 DEF Unlaid
        <4>2. Tiles(heap.meta)
          BY <4>1 DEF Tiles
        <4>3. Len(<<>>) = 0 /\ ToSet(<<>>) = {} /\ 1..0 = {}
          BY DEF ToSet
        <4>4. ListsFree(heap)
          BY <4>1, <4>3 DEF ListsFree
        <4>. QED  BY <3>1, <4>1, <4>2, <4>4 DEF Sound
      <3>2. CASE Around(heap, NULL, Held \ Maps)
        <4>1. Sound(heap)
          BY <3>2, AroundSound
        <4>2. UsedBut(heap.meta, NULL) = Held \ Maps /\ NULL \notin DOMAIN heap.meta
          BY <3>2 DEF Around, Laid, Headers, NULL
        <4>. QED  BY <4>1, <4>2 DEF UsedBut
      <3>. QED  BY <2>1, <3>1, <3>2 DEF Tended
    <2>3. /\ {m.addr : m \in ToSet(heap.mmaps)} = Held \cap Maps
          /\ Held \cap Maps \subseteq heap.mapped
      <3>1. Regions(heap, Held \cap Maps)
        BY <2>1 DEF Tended
      <3>. QED  BY <3>1, RegionAddrs DEF Regions
    <2>4. IsHeld(heap, Held)
      BY <2>2, <2>3 DEF IsHeld
    <2>. QED  BY <1>2, <2>1, <2>2, <2>4 DEF Sound, ConsistentExactlyUntil, Consistent
  <1>. QED  BY <1>1, <1>2

(* A tended heap has no free buddies.                                      *)
LEMMA TendedJoined == IInv => FullyJoined
  <1>. SUFFICES ASSUME IInv, heap.fault = "none",
                       NEW a \in DOMAIN heap.meta, NEW b \in DOMAIN heap.meta
                PROVE  ~ (/\ heap.meta[a].is_free /\ heap.meta[b].is_free
                          /\ heap.meta[a].order < MAX_ORDER
                          /\ heap.meta[b].order = heap.meta[a].order
                          /\ b = Buddy(a, heap.meta[a].order))
    BY DEF FullyJoined
  <1>1. Tended(heap, Held)
    BY DEF IInv
  <1>2. ~ Unlaid(heap)
    BY DEF Unlaid
  <1>3. JoinedBut(heap.meta, NULL) /\ NULL \notin DOMAIN heap.meta
    BY <1>1, <1>2 DEF Tended, Around, Laid, Headers, NULL
  <1>. QED  BY <1>3 DEF JoinedBut, AreBuddies

(* The heap is consistent through every sequence of smalloc, scalloc,      *)
(* sfree and srealloc, for every number of clients and orders, until       *)
(* UnionIfPossible joins blocks of different orders, SreallocUnion lists a *)
(* buddy, or a block or region is freed twice; and from then on it is not. *)
THEOREM ConsistentUntil == Spec => []ConsistentExactlyUntil
  BY Invariance, TendedConsistent, PTL

(* UnionIfPossible leaves no two free buddies of one order below MAX_ORDER *)
(* as long as the heap is consistent.                                      *)
THEOREM NoFreeBuddies == Spec => []FullyJoined
  BY Invariance, TendedJoined, PTL

(* The process crashes or hangs only where the first call found the break  *)
(* aligned or sbrk failed, where CheckIfUnionIsPossible met a free buddy   *)
(* that is below its block or has another order, where blocks of different *)
(* orders were joined to an order that AddToFreeOrder has no list for, or  *)
(* where a region was freed twice.                                         *)
THEOREM StopsOnlyThere == Spec => []StopsOnly
  <1>1. IInv => StopsOnly
    BY DEF IInv
  <1>. QED  BY <1>1, Invariance, PTL
=============================================================================
