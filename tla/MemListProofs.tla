--------------------------- MODULE MemListProofs ---------------------------
(***************************************************************************)
(* Proofs about the list allocator, for any clients, any sizes of headers, *)
(* requests and heap.                                                      *)
(***************************************************************************)
EXTENDS MemList, SequenceTheorems, FiniteSetTheorems, WellFoundedInduction,
        TLAPS

Block == [addr : Nat, size : Nat, is_free : BOOLEAN]

(* The blocks of l lie behind each other below b.                          *)
Apart(l, b) ==
    /\ \A i \in 1..Len(l) : End(l[i]) <= b
    /\ \A i, j \in 1..Len(l) : i < j => End(l[i]) <= l[j].addr

(* A block of l in use has its payload at p, and at least n bytes.         *)
Holds(l, p, n) ==
    \E i \in 1..Len(l) : Payload(l[i]) = p /\ ~l[i].is_free /\ n <= l[i].size

(* What every call keeps.  A block belongs to its client only because the  *)
(* blocks do not overlap and a block in use is not handed out; the bytes   *)
(* of a client are its own only because they are in its block.             *)
MemInv ==
    /\ TypeOK
    /\ Apart(list, brk)
    /\ \A c \in Clients : ptr[c] = NULL => asked[c] = 0 /\ written[c] = 0
    /\ \A c \in Clients : ptr[c] # NULL =>
          /\ asked[c] # 0
          /\ Holds(list, ptr[c], written[c])
          /\ asked[c] < SIZE_T => Holds(list, ptr[c], asked[c])
    /\ \A c, d \in Clients : ptr[c] # NULL /\ ptr[c] = ptr[d] => c = d
    /\ \A c \in Clients : \A k \in 0..(written[c] - 1) : mem[ptr[c] + k] = c

-----------------------------------------------------------------------------
(* Lists of blocks.                                                        *)

(* The fields of a block and what is computed from them.                   *)
LEMMA BlockFields ==
    ASSUME NEW l \in Seq(Block), NEW i \in 1..Len(l)
    PROVE  /\ l[i].addr \in Nat /\ l[i].size \in Nat /\ l[i].is_free \in BOOLEAN
           /\ Payload(l[i]) \in Nat /\ Payload(l[i]) # NULL
           /\ Payload(l[i]) = l[i].addr + META
           /\ End(l[i]) = l[i].addr + META + l[i].size
           /\ End(l[i]) \in Nat /\ l[i].addr < End(l[i])
  <1>1. l[i] \in Block
    BY ElementOfSeq
  <1>2. l[i].addr \in Nat /\ l[i].size \in Nat /\ l[i].is_free \in BOOLEAN
    BY <1>1 DEF Block
  <1>3. META \in Nat /\ META > 0
    BY SizesAssumption
  <1>. QED  BY <1>2, <1>3 DEF Payload, End, NULL

(* Two different blocks do not overlap.                                    *)
LEMMA BlocksApart ==
    ASSUME NEW l \in Seq(Block), NEW b \in Nat, Apart(l, b),
           NEW i \in 1..Len(l), NEW j \in 1..Len(l), i # j
    PROVE  \/ Payload(l[i]) + l[i].size < Payload(l[j])
           \/ Payload(l[j]) + l[j].size < Payload(l[i])
  <1>1. i < j \/ j < i
    BY LenProperties
  <1>2. End(l[i]) <= l[j].addr \/ End(l[j]) <= l[i].addr
    BY <1>1 DEF Apart
  <1>3. ASSUME NEW x \in Nat, NEW s \in Nat, NEW y \in Nat, NEW t \in Nat,
               x + META + s <= y \/ y + META + t <= x
        PROVE  (x + META) + s < y + META \/ (y + META) + t < x + META
    BY <1>3, SizesAssumption
  <1>4. l[i].addr + META + l[i].size <= l[j].addr
        \/ l[j].addr + META + l[j].size <= l[i].addr
    BY <1>2, BlockFields
  <1>5. /\ l[i].addr \in Nat /\ l[i].size \in Nat
        /\ l[j].addr \in Nat /\ l[j].size \in Nat
        /\ Payload(l[i]) = l[i].addr + META /\ Payload(l[j]) = l[j].addr + META
    BY BlockFields
  <1>. QED  BY <1>3, <1>4, <1>5

(* So a pointer has one block.                                             *)
LEMMA OneBlock ==
    ASSUME NEW l \in Seq(Block), NEW b \in Nat, Apart(l, b),
           NEW i \in 1..Len(l), NEW j \in 1..Len(l),
           Payload(l[i]) = Payload(l[j])
    PROVE  i = j
  <1>1. /\ Payload(l[i]) \in Nat /\ l[i].size \in Nat
        /\ Payload(l[j]) \in Nat /\ l[j].size \in Nat
    BY BlockFields
  <1>2. ASSUME NEW x \in Nat, NEW s \in Nat, NEW t \in Nat
        PROVE  ~ (x + s < x \/ x + t < x)
    OBVIOUS
  <1>. QED  BY <1>1, <1>2, BlocksApart

(* Payloads in use at different places do not overlap, and end below b.    *)
LEMMA HoldersApart ==
    ASSUME NEW l \in Seq(Block), NEW b \in Nat, Apart(l, b),
           NEW p, NEW n \in Nat, Holds(l, p, n)
    PROVE  /\ p \in Nat /\ p # NULL /\ p + n <= b
           /\ \A q : \A m \in Nat :
                 Holds(l, q, m) /\ q # p => p + n <= q \/ q + m <= p
  <1>1. PICK i \in 1..Len(l) :
           Payload(l[i]) = p /\ ~l[i].is_free /\ n <= l[i].size
    BY DEF Holds
  <1>2. p \in Nat /\ p # NULL /\ l[i].size \in Nat /\ l[i].addr \in Nat
    BY <1>1, BlockFields
  <1>3. p + l[i].size <= b
    <2>1. End(l[i]) <= b
      BY DEF Apart
    <2>. QED  BY <1>1, <2>1, BlockFields
  <1>4. ASSUME NEW q, NEW m \in Nat, Holds(l, q, m), q # p
        PROVE  p + n <= q \/ q + m <= p
    <2>1. PICK j \in 1..Len(l) : Payload(l[j]) = q /\ m <= l[j].size
      BY <1>4 DEF Holds
    <2>2. q \in Nat /\ l[j].size \in Nat
      BY <2>1, BlockFields
    <2>3. p + l[i].size < q \/ q + l[j].size < p
      BY <1>1, <1>4, <2>1, BlocksApart
    <2>. QED  BY <1>1, <1>2, <2>1, <2>2, <2>3, SMTT(30)
  <1>. QED  BY <1>1, <1>2, <1>3, <1>4

(* What IndexOf finds.                                                     *)
LEMMA IndexFinds ==
    ASSUME list \in Seq(Block), brk \in Nat, Apart(list, brk),
           NEW p, NEW m \in Nat, Holds(list, p, m)
    PROVE  LET i == IndexOf(p)
           IN  /\ i \in 1..Len(list) /\ Payload(list[i]) = p
               /\ list[i].size \in Nat /\ m <= list[i].size
               /\ ~list[i].is_free
               /\ \A n \in Nat : n <= list[i].size => Holds(list, p, n)
  <1>1. PICK j \in 1..Len(list) :
           Payload(list[j]) = p /\ ~list[j].is_free /\ m <= list[j].size
    BY DEF Holds
  <1>2. IndexOf(p) \in 1..Len(list) /\ Payload(list[IndexOf(p)]) = p
    BY <1>1 DEF IndexOf
  <1>3. IndexOf(p) = j
    BY <1>1, <1>2, OneBlock
  <1>4. list[j].size \in Nat
    BY BlockFields
  <1>. QED  BY <1>1, <1>3, <1>4 DEF Holds

(* Marking a block leaves all else.                                        *)
Mark(l, i, f) == [l EXCEPT ![i].is_free = f]

(* What marking does to a list of blocks.                                  *)
LEMMA Marked ==
    ASSUME NEW l \in Seq(Block), NEW b \in Nat, Apart(l, b),
           NEW i \in 1..Len(l), NEW f \in BOOLEAN
    PROVE  LET k == Mark(l, i, f)
           IN  /\ k \in Seq(Block) /\ Len(k) = Len(l)
               /\ \A j \in 1..Len(l) : j # i => k[j] = l[j]
               /\ k[i].addr = l[i].addr /\ k[i].size = l[i].size
               /\ k[i].is_free = f
               /\ Payload(k[i]) = Payload(l[i])
               /\ Apart(k, b)
  <1>. DEFINE e == [l[i] EXCEPT !.is_free = f]
              k == [l EXCEPT ![i] = e]
  <1>1. l[i] \in Block
    BY ElementOfSeq
  <1>2. /\ e \in Block
        /\ e.addr = l[i].addr /\ e.size = l[i].size /\ e.is_free = f
    BY <1>1 DEF Block
  <1>3. /\ k \in Seq(Block) /\ Len(k) = Len(l)
        /\ \A j \in 1..Len(l) : k[j] = IF j = i THEN e ELSE l[j]
    BY <1>2, ExceptSeq
  <1>. HIDE DEF e, k
  <1>4. Payload(k[i]) = Payload(l[i]) /\ End(k[i]) = End(l[i])
    BY <1>2, <1>3 DEF Payload, End
  <1>5. \A j \in 1..Len(l) : End(k[j]) = End(l[j]) /\ k[j].addr = l[j].addr
    BY <1>2, <1>3, <1>4
  <1>6. Apart(k, b)
    BY <1>3, <1>5 DEF Apart
  <1>7. k = Mark(l, i, f)
    BY DEF k, e, Mark
  <1>. QED  BY <1>2, <1>3, <1>4, <1>6, <1>7

-----------------------------------------------------------------------------
(* Malloc.                                                                 *)

(* A nonempty set of indices has a least one.                              *)
LEMMA LeastIndex ==
    ASSUME NEW S \in SUBSET Nat, S # {}
    PROVE  \E i \in S : \A j \in S : i <= j
  <1>1. PICK i \in S : \A j \in S : ~ (<<j, i>> \in OpToRel(<, Nat))
    BY WFMin, NatLessThanWellFounded
  <1>2. \A j \in S : ~ (j < i)
    BY <1>1 DEF OpToRel
  <1>. QED  BY <1>2

(* The block FirstFit picks is free and large enough.                      *)
LEMMA FirstFitFits ==
    ASSUME list \in Seq(Block), NEW size \in Nat, Fits(list, size) # {}
    PROVE  /\ FirstFit(list, size) \in 1..Len(list)
           /\ list[FirstFit(list, size)].is_free
           /\ size <= list[FirstFit(list, size)].size
  <1>1. Fits(list, size) \in SUBSET Nat
    BY LenProperties DEF Fits
  <1>2. \E i \in Fits(list, size) : \A j \in Fits(list, size) : i <= j
    BY <1>1, LeastIndex
  <1>3. FirstFit(list, size) \in Fits(list, size)
    BY <1>2 DEF FirstFit
  <1>. QED  BY <1>3 DEF Fits

(* The block r that a call got: it has size bytes, its place in the list   *)
(* stays that of the blocks before, and it was in nobody's hands.          *)
Got(r, size) ==
    /\ r.list \in Seq(Block) /\ r.brk \in 0..HeapLimit
    /\ Apart(r.list, r.brk)
    /\ \A j \in 1..Len(list) :
          j \in 1..Len(r.list) /\ Payload(r.list[j]) = Payload(list[j])
    /\ Holds(r.list, r.p, size)
    /\ \A q : \A m \in Nat : Holds(list, q, m) => Holds(r.list, q, m) /\ q # r.p

(* Malloc that reuses a free block.                                        *)
LEMMA ReuseGot ==
    ASSUME list \in Seq(Block), brk \in 0..HeapLimit, Apart(list, brk),
           NEW size \in Nat,
           NEW i \in 1..Len(list), list[i].is_free, size <= list[i].size
    PROVE  Got([list |-> [list EXCEPT ![i].is_free = FALSE], brk |-> brk,
                p |-> Payload(list[i])], size)
  <1>. DEFINE k == Mark(list, i, FALSE)
              r == [list |-> k, brk |-> brk, p |-> Payload(list[i])]
  <1>0. brk \in Nat
    BY SizesAssumption
  <1>1. /\ k \in Seq(Block) /\ Len(k) = Len(list)
        /\ \A j \in 1..Len(list) : j # i => k[j] = list[j]
        /\ k[i].size = list[i].size /\ ~k[i].is_free
        /\ Payload(k[i]) = Payload(list[i])
        /\ Apart(k, brk)
    BY <1>0, Marked
  <1>2. r.list = k /\ r.brk = brk /\ r.p = Payload(list[i])
    OBVIOUS
  <1>. HIDE DEF k, r
  <1>3. Holds(k, Payload(list[i]), size)
    BY <1>1 DEF Holds
  <1>4. ASSUME NEW q, NEW m \in Nat, Holds(list, q, m)
        PROVE  Holds(k, q, m) /\ q # Payload(list[i])
    <2>1. PICK j \in 1..Len(list) :
             Payload(list[j]) = q /\ ~list[j].is_free /\ m <= list[j].size
      BY <1>4 DEF Holds
    <2>2. j # i
      BY <2>1
    <2>3. Holds(k, q, m)
      BY <1>1, <2>1, <2>2 DEF Holds
    <2>4. q # Payload(list[i])
      BY <1>0, <2>1, <2>2, OneBlock
    <2>. QED  BY <2>3, <2>4
  <1>5. \A j \in 1..Len(list) : Payload(k[j]) = Payload(list[j])
    BY <1>1
  <1>6. Got(r, size)
    BY <1>1, <1>2, <1>3, <1>4, <1>5 DEF Got
  <1>. QED  BY <1>6 DEF r, k, Mark

(* Malloc that takes a new block from the break.                           *)
LEMMA NewGot ==
    ASSUME list \in Seq(Block), brk \in 0..HeapLimit, Apart(list, brk),
           NEW size \in Nat, End(MallocMetadata(brk, size)) <= HeapLimit
    PROVE  LET block == MallocMetadata(brk, size)
           IN  Got([list |-> Append(list, block), brk |-> End(block),
                    p |-> Payload(block)], size)
  <1>. DEFINE e == MallocMetadata(brk, size)
              k == Append(list, e)
              r == [list |-> k, brk |-> End(e), p |-> Payload(e)]
              n == Len(list)
  <1>0. brk \in Nat /\ META \in Nat /\ META > 0 /\ HeapLimit \in Nat /\ n \in Nat
    BY SizesAssumption, LenProperties
  <1>1. e.addr = brk /\ e.size = size /\ e.is_free = FALSE /\ e \in Block
    BY <1>0 DEF MallocMetadata, Block
  <1>2. Payload(e) = brk + META /\ End(e) = brk + META + size
    BY <1>1 DEF Payload, End
  <1>3. End(e) \in 0..HeapLimit /\ brk <= End(e)
    BY <1>0, <1>2
  <1>. HIDE DEF e
  <1>4. /\ k \in Seq(Block) /\ Len(k) = n + 1
        /\ \A j \in 1..n : k[j] = list[j]
        /\ k[n + 1] = e
    BY <1>1, AppendProperties
  <1>5. r.list = k /\ r.brk = End(e) /\ r.p = Payload(e)
    OBVIOUS
  <1>. HIDE DEF k, r
  <1>6. ASSUME NEW j \in 1..(n + 1)
        PROVE  j \in 1..n \/ j = n + 1
    BY <1>0
  <1>7. \A j \in 1..n : End(list[j]) <= brk /\ End(list[j]) \in Nat
    BY BlockFields DEF Apart
  <1>8. Apart(k, End(e))
    <2>1. ASSUME NEW j \in 1..(n + 1)
          PROVE  End(k[j]) <= End(e)
      <3>1. CASE j \in 1..n
        BY <1>0, <1>3, <1>4, <1>7, <3>1
      <3>2. CASE j = n + 1
        BY <1>0, <1>3, <1>4, <3>2
      <3>. QED  BY <1>6, <3>1, <3>2
    <2>2. ASSUME NEW h \in 1..(n + 1), NEW j \in 1..(n + 1), h < j
          PROVE  End(k[h]) <= k[j].addr
      <3>1. h \in 1..n
        BY <1>0, <2>2
      <3>2. CASE j \in 1..n
        BY <1>4, <2>2, <3>1, <3>2 DEF Apart
      <3>3. CASE j = n + 1
        BY <1>1, <1>4, <1>7, <3>1, <3>3
      <3>. QED  BY <1>6, <3>2, <3>3
    <2>. QED  BY <1>4, <2>1, <2>2 DEF Apart
  <1>9. Holds(k, Payload(e), size)
    <2>1. n + 1 \in 1..Len(k)
      BY <1>0, <1>4
    <2>. QED  BY <1>1, <1>4, <2>1 DEF Holds
  <1>10. ASSUME NEW q, NEW m \in Nat, Holds(list, q, m)
         PROVE  Holds(k, q, m) /\ q # Payload(e)
    <2>1. PICK j \in 1..n :
             Payload(list[j]) = q /\ ~list[j].is_free /\ m <= list[j].size
      BY <1>10 DEF Holds
    <2>2. j \in 1..Len(k)
      BY <1>0, <1>4
    <2>3. Holds(k, q, m)
      BY <1>4, <2>1, <2>2 DEF Holds
    <2>4. q \in Nat /\ q + m <= brk
      BY <1>0, <1>10, HoldersApart
    <2>. QED  BY <1>0, <1>2, <2>3, <2>4
  <1>11. \A j \in 1..n : j \in 1..Len(k) /\ Payload(k[j]) = Payload(list[j])
    BY <1>0, <1>4
  <1>12. Got(r, size)
    BY <1>3, <1>4, <1>5, <1>8, <1>9, <1>10, <1>11 DEF Got
  <1>. QED  BY <1>12 DEF r, k, e

(* Malloc fails and changes nothing, or gets a block.                      *)
LEMMA MallocGot ==
    ASSUME list \in Seq(Block), brk \in 0..HeapLimit, Apart(list, brk),
           NEW size \in Nat
    PROVE  \/ Malloc(size) = [list |-> list, brk |-> brk, p |-> NULL]
           \/ Got(Malloc(size), size)
  <1>1. CASE Fits(list, size) # {}
    BY <1>1, FirstFitFits, ReuseGot DEF Malloc
  <1>2. CASE Fits(list, size) = {} /\ End(MallocMetadata(brk, size)) <= HeapLimit
    BY <1>2, NewGot DEF Malloc
  <1>3. CASE Fits(list, size) = {} /\ ~(End(MallocMetadata(brk, size)) <= HeapLimit)
    BY <1>3 DEF Malloc
  <1>. QED  BY <1>1, <1>2, <1>3

(* Freeing a block leaves the others in use.                               *)
LEMMA FreedAt ==
    ASSUME NEW l \in Seq(Block), NEW b \in Nat, Apart(l, b),
           NEW i \in 1..Len(l)
    PROVE  LET k == Mark(l, i, TRUE)
           IN  /\ k \in Seq(Block)
               /\ Apart(k, b)
               /\ \A q : \A n \in Nat :
                     q # Payload(l[i]) /\ Holds(l, q, n) => Holds(k, q, n)
  <1>. DEFINE k == Mark(l, i, TRUE)
  <1>1. /\ k \in Seq(Block) /\ Len(k) = Len(l)
        /\ \A j \in 1..Len(l) : j # i => k[j] = l[j]
        /\ Apart(k, b)
    <2>1. \A f \in BOOLEAN :
             /\ Mark(l, i, f) \in Seq(Block) /\ Len(Mark(l, i, f)) = Len(l)
             /\ \A j \in 1..Len(l) : j # i => Mark(l, i, f)[j] = l[j]
             /\ Apart(Mark(l, i, f), b)
      BY Marked
    <2>. QED  BY <2>1, Zenon
  <1>. HIDE DEF k
  <1>2. ASSUME NEW q, NEW n \in Nat, q # Payload(l[i]), Holds(l, q, n)
        PROVE  Holds(k, q, n)
    <2>1. PICK j \in 1..Len(l) :
             Payload(l[j]) = q /\ ~l[j].is_free /\ n <= l[j].size
      BY <1>2 DEF Holds
    <2>2. j # i
      BY <1>2, <2>1
    <2>. QED  BY <1>1, <2>1, <2>2 DEF Holds
  <1>3. /\ k \in Seq(Block)
        /\ Apart(k, b)
        /\ \A q : \A n \in Nat :
              q # Payload(l[i]) /\ Holds(l, q, n) => Holds(k, q, n)
    BY <1>1, <1>2
  <1>. QED  BY <1>3 DEF k

(* sfree of the pointer p, in a list that begins with the blocks of list.  *)
LEMMA FreeKeeps ==
    ASSUME list \in Seq(Block), brk \in Nat, Apart(list, brk),
           NEW l \in Seq(Block), NEW b \in Nat, Apart(l, b),
           \A j \in 1..Len(list) :
              j \in 1..Len(l) /\ Payload(l[j]) = Payload(list[j]),
           NEW p, NEW m \in Nat, Holds(list, p, m)
    PROVE  /\ Free(l, p) \in Seq(Block)
           /\ Apart(Free(l, p), b)
           /\ \A q : \A n \in Nat :
                 q # p /\ Holds(l, q, n) => Holds(Free(l, p), q, n)
  <1>1. PICK i \in 1..Len(list) : i = IndexOf(p) /\ Payload(list[i]) = p
    BY IndexFinds
  <1>2. i \in 1..Len(l) /\ Payload(l[i]) = p
    BY <1>1
  <1>3. Free(l, p) = Mark(l, i, TRUE)
    BY <1>1 DEF Free, Mark
  <1>. QED  BY <1>2, <1>3, FreedAt

-----------------------------------------------------------------------------
(* Every call keeps the invariant.                                         *)

(* num * size and what is left of it in a size_t.                          *)
LEMMA Product ==
    ASSUME NEW num \in Nat, NEW size \in Nat, num # 0, size # 0
    PROVE  /\ num * size \in Nat /\ num * size # 0
           /\ (num * size) % SIZE_T \in Nat
           /\ num * size < SIZE_T => (num * size) % SIZE_T = num * size
  <1>1. num * size \in Nat /\ num * size # 0
    OBVIOUS
  <1>2. SIZE_T \in Nat /\ SIZE_T > 0
    BY SizesAssumption
  <1>3. ASSUME NEW a \in Nat, NEW n \in Nat, n > 0
        PROVE  a % n \in Nat /\ (a < n => a % n = a)
    BY <1>3
  <1>. QED  BY <1>1, <1>2, <1>3

(* A block with n bytes has fewer, too.                                    *)
LEMMA HoldsLess ==
    ASSUME NEW l \in Seq(Block), NEW p, NEW n \in Nat, Holds(l, p, n),
           NEW m \in Nat, m <= n
    PROVE  Holds(l, p, m)
  <1>1. PICK i \in 1..Len(l) :
           Payload(l[i]) = p /\ ~l[i].is_free /\ n <= l[i].size
    BY DEF Holds
  <1>2. m <= l[i].size
    BY <1>1, BlockFields
  <1>. QED  BY <1>1, <1>2 DEF Holds

(* The ranges of the variables, as the proofs below use them.              *)
LEMMA Types ==
    ASSUME MemInv
    PROVE  /\ list \in Seq(Block) /\ brk \in 0..HeapLimit /\ brk \in Nat
           /\ Apart(list, brk)
           /\ HeapLimit \in Nat /\ SIZE_T \in Nat
           /\ ptr \in [Clients -> Nat]
           /\ asked \in [Clients -> Nat] /\ written \in [Clients -> Nat]
           /\ mem \in [0..(HeapLimit - 1) -> Clients \cup {Nobody}]
           /\ foreign \subseteq 0..(HeapLimit - 1)
           /\ Requests \subseteq Nat
  BY SizesAssumption DEF MemInv, TypeOK, Block

(* The bytes a client has written are in the heap.                         *)
LEMMA BytesInHeap ==
    ASSUME MemInv, NEW c \in Clients, NEW k \in 0..(written[c] - 1)
    PROVE  ptr[c] # NULL /\ ptr[c] + k \in 0..(HeapLimit - 1)
  <1>1. written[c] \in Nat /\ written[c] # 0 /\ k \in Nat /\ k < written[c]
    BY Types
  <1>2. ptr[c] # NULL
    BY <1>1 DEF MemInv
  <1>3. Holds(list, ptr[c], written[c])
    BY <1>2 DEF MemInv
  <1>4. ptr[c] \in Nat /\ ptr[c] + written[c] <= brk
    BY <1>1, <1>3, Types, HoldersApart
  <1>. QED  BY <1>1, <1>2, <1>4, Types

(* Bytes of payloads that lie apart are different.                         *)
LEMMA ApartBytes ==
    ASSUME NEW p \in Nat, NEW n \in Nat, NEW q \in Nat, NEW m \in Nat,
           p + n <= q \/ q + m <= p, NEW k \in 0..(m - 1)
    PROVE  q + k \notin p..(p + n - 1)
  OBVIOUS

(* A step that changes nothing keeps the invariant.                        *)
LEMMA NothingChanges ==
    ASSUME MemInv,
           list' = list /\ brk' = brk /\ foreign' = foreign /\ mem' = mem,
           ptr' = ptr /\ asked' = asked /\ written' = written
    PROVE  MemInv'
  BY DEF MemInv, TypeOK, Apart, Holds, End, Payload, NULL

(* A client without a block gets the one that Malloc found, whatever the   *)
(* call does with the bytes of that block.                                 *)
LEMMA GiveKeeps ==
    ASSUME MemInv, NEW c \in Clients, ptr[c] = NULL,
           NEW size \in Nat, NEW n \in Nat, n # 0, n < SIZE_T => n = size,
           Give(c, Malloc(size), n),
           mem' \in [0..(HeapLimit - 1) -> Clients \cup {Nobody}],
           \A a \in 0..(HeapLimit - 1) :
              \/ /\ a \in Malloc(size).p..(Malloc(size).p + size - 1)
                 /\ Malloc(size).p # NULL
              \/ mem'[a] = mem[a]
    PROVE  MemInv'
  <1>. DEFINE r == Malloc(size)
  <1>. USE Types
  <1>1. /\ list' = r.list /\ brk' = r.brk
        /\ ptr' = [ptr EXCEPT ![c] = r.p]
        /\ asked' = [asked EXCEPT ![c] = IF r.p = NULL THEN 0 ELSE n]
        /\ foreign' = foreign /\ written' = written
    BY DEF Give
  <1>2. asked[c] = 0 /\ written[c] = 0
    BY DEF MemInv
  <1>3. CASE r = [list |-> list, brk |-> brk, p |-> NULL]
    <2>1. list' = list /\ brk' = brk /\ r.p = NULL
      BY <1>1, <1>3
    <2>2. ptr' = ptr /\ asked' = asked
      BY <1>1, <1>2, <2>1
    <2>3. mem' = mem
      BY <2>1
    <2>. QED  BY <1>1, <2>1, <2>2, <2>3, NothingChanges
  <1>4. CASE Got(r, size)
    <2>. HIDE DEF r
    <2>1. /\ list' \in Seq(Block) /\ brk' \in 0..HeapLimit /\ brk' \in Nat
          /\ Apart(list', brk')
          /\ Holds(list', r.p, size)
          /\ \A q : \A m \in Nat :
                Holds(list, q, m) => Holds(list', q, m) /\ q # r.p
      BY <1>1, <1>4 DEF Got
    <2>2. r.p \in Nat /\ r.p # NULL
      BY <2>1, HoldersApart
    <2>3. TypeOK'
      BY <1>1, <2>1, <2>2 DEF TypeOK, Block
    <2>4. /\ ptr'[c] = r.p /\ asked'[c] = n /\ written'[c] = 0
          /\ \A d \in Clients : d # c =>
                /\ ptr'[d] = ptr[d] /\ asked'[d] = asked[d]
                /\ written'[d] = written[d]
      BY <1>1, <1>2, <2>2
    <2>5. ASSUME NEW d \in Clients, ptr'[d] = NULL
          PROVE  asked'[d] = 0 /\ written'[d] = 0
      BY <2>2, <2>4, <2>5 DEF MemInv
    <2>6. ASSUME NEW d \in Clients, ptr'[d] # NULL
          PROVE  /\ asked'[d] # 0
                 /\ Holds(list', ptr'[d], written'[d])
                 /\ asked'[d] < SIZE_T => Holds(list', ptr'[d], asked'[d])
      <3>1. CASE d = c
        <4>1. Holds(list', r.p, 0)
          BY <2>1, HoldsLess
        <4>. QED  BY <2>1, <2>4, <3>1, <4>1
      <3>2. CASE d # c
        <4>1. /\ asked[d] # 0 /\ Holds(list, ptr[d], written[d])
              /\ asked[d] < SIZE_T => Holds(list, ptr[d], asked[d])
              /\ written[d] \in Nat /\ asked[d] \in Nat
          BY <2>4, <2>6, <3>2 DEF MemInv
        <4>. QED  BY <2>1, <2>4, <3>2, <4>1
      <3>. QED  BY <3>1, <3>2
    <2>7. ASSUME NEW d \in Clients, d # c, ptr[d] # NULL
          PROVE  ptr[d] # r.p
      <3>1. Holds(list, ptr[d], written[d]) /\ written[d] \in Nat
        BY <2>7 DEF MemInv
      <3>. QED  BY <2>1, <3>1
    <2>8. ASSUME NEW d \in Clients, NEW e \in Clients,
                 ptr'[d] # NULL, ptr'[d] = ptr'[e]
          PROVE  d = e
      BY <2>2, <2>4, <2>7, <2>8, SMTT(30) DEF MemInv
    <2>9. ASSUME NEW d \in Clients, NEW k \in 0..(written'[d] - 1)
          PROVE  mem'[ptr'[d] + k] = d
      <3>1. d # c
        BY <2>4
      <3>2. k \in 0..(written[d] - 1) /\ mem[ptr[d] + k] = d
        BY <2>4, <3>1 DEF MemInv
      <3>3. ptr[d] # NULL /\ ptr[d] + k \in 0..(HeapLimit - 1)
        BY <3>2, BytesInHeap
      <3>4. Holds(list', ptr[d], written[d]) /\ ptr[d] # r.p
        BY <2>4, <2>6, <2>7, <3>1, <3>3
      <3>5. /\ ptr[d] \in Nat /\ written[d] \in Nat
            /\ r.p + size <= ptr[d] \/ ptr[d] + written[d] <= r.p
        BY <2>1, <3>4, HoldersApart
      <3>6. ptr[d] + k \notin r.p..(r.p + size - 1)
        BY <2>2, <3>2, <3>5, ApartBytes
      <3>7. mem'[ptr[d] + k] = mem[ptr[d] + k]
        BY <3>3, <3>6 DEF r
      <3>. QED  BY <2>4, <3>1, <3>2, <3>7
    <2>. QED  BY <2>1, <2>3, <2>5, <2>6, <2>8, <2>9 DEF MemInv
  <1>. QED  BY <1>3, <1>4, MallocGot

(* smalloc keeps the invariant.                                            *)
LEMMA SmallocKeeps ==
    ASSUME MemInv, NEW c \in Clients, NEW size \in Requests, smalloc(c, size)
    PROVE  MemInv'
  <1>1. size \in Nat
    BY Types
  <1>2. /\ ptr[c] = NULL /\ size # 0 /\ Give(c, Malloc(size), size)
        /\ mem' = mem
    BY DEF smalloc
  <1>. QED  BY <1>1, <1>2, Types, GiveKeeps

(* scalloc keeps the invariant, although num * size may wrap around.       *)
LEMMA ScallocKeeps ==
    ASSUME MemInv, NEW c \in Clients, NEW num \in Requests, NEW size \in Requests,
           scalloc(c, num, size)
    PROVE  MemInv'
  <1>. DEFINE n == num * size
              total == n % SIZE_T
              p == Malloc(total).p
  <1>1. /\ ptr[c] = NULL /\ num # 0 /\ size # 0 /\ Give(c, Malloc(total), n)
        /\ mem' = IF p = NULL THEN mem ELSE Filled(p, total, Nobody)
    BY DEF scalloc
  <1>2. num \in Nat /\ size \in Nat
    BY Types
  <1>3. /\ n \in Nat /\ n # 0 /\ total \in Nat
        /\ n < SIZE_T => n = total
    BY <1>1, <1>2, Product
  <1>. HIDE DEF n, total
  <1>4. mem' \in [0..(HeapLimit - 1) -> Clients \cup {Nobody}]
    BY <1>1, Types DEF Filled
  <1>5. ASSUME NEW a \in 0..(HeapLimit - 1)
        PROVE  (a \in p..(p + total - 1) /\ p # NULL) \/ mem'[a] = mem[a]
    BY <1>1, Types DEF Filled
  <1>. QED  BY <1>1, <1>3, <1>4, <1>5, GiveKeeps

(* sfree keeps the invariant.                                              *)
LEMMA SfreeKeeps ==
    ASSUME MemInv, NEW c \in Clients, sfree(c)
    PROVE  MemInv'
  <1>1. /\ ptr[c] # NULL /\ list' = Free(list, ptr[c])
        /\ ptr' = [ptr EXCEPT ![c] = NULL]
        /\ asked' = [asked EXCEPT ![c] = 0]
        /\ written' = [written EXCEPT ![c] = 0]
        /\ brk' = brk /\ foreign' = foreign /\ mem' = mem
    BY DEF sfree
  <1>2. Holds(list, ptr[c], written[c]) /\ written[c] \in Nat
    BY <1>1, Types DEF MemInv
  <1>3. /\ list' \in Seq(Block) /\ Apart(list', brk')
        /\ \A q : \A n \in Nat :
              q # ptr[c] /\ Holds(list, q, n) => Holds(list', q, n)
    BY <1>1, <1>2, Types, FreeKeeps
  <1>4. TypeOK'
    BY <1>1, <1>3, Types DEF TypeOK, Block, NULL
  <1>5. /\ ptr'[c] = NULL /\ asked'[c] = 0 /\ written'[c] = 0
        /\ \A d \in Clients : d # c =>
              /\ ptr'[d] = ptr[d] /\ asked'[d] = asked[d]
              /\ written'[d] = written[d]
    BY <1>1, Types
  <1>6. ASSUME NEW d \in Clients, ptr'[d] = NULL
        PROVE  asked'[d] = 0 /\ written'[d] = 0
    BY <1>5, <1>6 DEF MemInv
  <1>7. ASSUME NEW d \in Clients, ptr'[d] # NULL
        PROVE  /\ asked'[d] # 0
               /\ Holds(list', ptr'[d], written'[d])
               /\ asked'[d] < SIZE_T => Holds(list', ptr'[d], asked'[d])
    <2>1. d # c /\ ptr[d] # NULL
      BY <1>5, <1>7
    <2>2. ptr[d] # ptr[c]
      BY <1>1, <2>1 DEF MemInv
    <2>3. /\ asked[d] # 0 /\ Holds(list, ptr[d], written[d])
          /\ asked[d] < SIZE_T => Holds(list, ptr[d], asked[d])
          /\ written[d] \in Nat /\ asked[d] \in Nat
      BY <2>1, Types DEF MemInv
    <2>. QED  BY <1>3, <1>5, <2>1, <2>2, <2>3
  <1>8. ASSUME NEW d \in Clients, NEW e \in Clients,
               ptr'[d] # NULL, ptr'[d] = ptr'[e]
        PROVE  d = e
    BY <1>5, <1>8 DEF MemInv
  <1>9. ASSUME NEW d \in Clients, NEW k \in 0..(written'[d] - 1)
        PROVE  mem'[ptr'[d] + k] = d
    <2>1. d # c
      BY <1>5
    <2>. QED  BY <1>1, <1>5, <2>1 DEF MemInv
  <1>. QED  BY <1>3, <1>4, <1>6, <1>7, <1>8, <1>9 DEF MemInv

(* What BlockOf finds for a client that holds a block.                     *)
LEMMA BlockOfHolds ==
    ASSUME MemInv, NEW c \in Clients, ptr[c] # NULL
    PROVE  /\ BlockOf(c).size \in Nat /\ written[c] <= BlockOf(c).size
           /\ asked[c] < SIZE_T => asked[c] <= BlockOf(c).size
           /\ \A n \in Nat :
                 n <= BlockOf(c).size => Holds(list, ptr[c], n)
  <1>1. /\ Holds(list, ptr[c], written[c]) /\ written[c] \in Nat
        /\ asked[c] < SIZE_T => Holds(list, ptr[c], asked[c])
        /\ asked[c] \in Nat
    BY Types DEF MemInv
  <1>2. asked[c] < SIZE_T => asked[c] <= list[IndexOf(ptr[c])].size
    BY <1>1, Types, IndexFinds
  <1>. QED  BY <1>1, <1>2, Types, IndexFinds DEF BlockOf

(* srealloc keeps the invariant when the block stays.                      *)
LEMMA InPlaceKeeps ==
    ASSUME MemInv, NEW c \in Clients, NEW size \in Requests,
           sreallocInPlace(c, size)
    PROVE  MemInv'
  <1>. DEFINE w == IF written[c] <= size THEN written[c] ELSE size
  <1>1. /\ ptr[c] # NULL /\ size # 0 /\ size <= BlockOf(c).size
        /\ asked' = [asked EXCEPT ![c] = size]
        /\ written' = [written EXCEPT ![c] = w]
        /\ list' = list /\ brk' = brk /\ foreign' = foreign
        /\ ptr' = ptr /\ mem' = mem
    BY DEF sreallocInPlace
  <1>2. size \in Nat /\ written[c] \in Nat
    BY Types
  <1>3. w \in Nat /\ w <= size /\ w <= written[c]
    BY <1>2
  <1>. HIDE DEF w
  <1>4. Holds(list, ptr[c], size)
    BY <1>1, <1>2, BlockOfHolds
  <1>5. Holds(list, ptr[c], w)
    BY <1>2, <1>3, <1>4, Types, HoldsLess
  <1>6. TypeOK'
    BY <1>1, <1>2, <1>3, Types DEF TypeOK, Block
  <1>7. /\ asked'[c] = size /\ written'[c] = w
        /\ \A d \in Clients : d # c =>
              asked'[d] = asked[d] /\ written'[d] = written[d]
    BY <1>1, Types
  <1>8. ASSUME NEW d \in Clients, ptr'[d] = NULL
        PROVE  asked'[d] = 0 /\ written'[d] = 0
    BY <1>1, <1>7, <1>8 DEF MemInv
  <1>9. ASSUME NEW d \in Clients, ptr'[d] # NULL
        PROVE  /\ asked'[d] # 0
               /\ Holds(list', ptr'[d], written'[d])
               /\ asked'[d] < SIZE_T => Holds(list', ptr'[d], asked'[d])
    <2>1. CASE d = c
      BY <1>1, <1>4, <1>5, <1>7, <2>1
    <2>2. CASE d # c
      BY <1>1, <1>7, <1>9, <2>2 DEF MemInv
    <2>. QED  BY <2>1, <2>2
  <1>10. ASSUME NEW d \in Clients, NEW k \in 0..(written'[d] - 1)
         PROVE  mem'[ptr'[d] + k] = d
    <2>1. k \in 0..(written[d] - 1)
      BY <1>2, <1>3, <1>7
    <2>. QED  BY <1>1, <2>1 DEF MemInv
  <1>11. Apart(list', brk')
    BY <1>1 DEF MemInv
  <1>12. \A d, e \in Clients : ptr'[d] # NULL /\ ptr'[d] = ptr'[e] => d = e
    BY <1>1 DEF MemInv
  <1>. QED  BY <1>6, <1>8, <1>9, <1>10, <1>11, <1>12 DEF MemInv

(* Bytes that the call writes into the block of c, with n of them in use,  *)
(* are not those of another client.                                        *)
LEMMA OthersKeepBytes ==
    ASSUME MemInv, NEW l \in Seq(Block), NEW b \in 0..HeapLimit, Apart(l, b),
           NEW p, NEW n \in Nat, Holds(l, p, n),
           NEW d \in Clients, Holds(l, ptr[d], written[d]), ptr[d] # p,
           NEW k \in 0..(written[d] - 1)
    PROVE  /\ ptr[d] + k \in 0..(HeapLimit - 1)
           /\ ptr[d] + k \notin p..(p + n - 1)
  <1>1. b \in Nat /\ written[d] \in Nat /\ ptr[d] \in Nat
    BY Types
  <1>2. p \in Nat /\ (p + n <= ptr[d] \/ ptr[d] + written[d] <= p)
    BY <1>1, HoldersApart
  <1>3. ptr[d] + k \in 0..(HeapLimit - 1)
    BY BytesInHeap
  <1>. QED  BY <1>1, <1>2, <1>3, ApartBytes

(* The byte a of a block of n bytes copied from p to q.                    *)
LEMMA CopiedByte ==
    ASSUME NEW p \in Nat, NEW q \in Nat, NEW n \in Nat, NEW top \in Nat,
           p + n <= top, NEW a \in q..(q + n - 1)
    PROVE  p + (a - q) \in 0..(top - 1)
  OBVIOUS

(* srealloc keeps the invariant when the block moves.                      *)
LEMMA MoveKeeps ==
    ASSUME MemInv, NEW c \in Clients, NEW size \in Requests,
           sreallocMove(c, size)
    PROVE  MemInv'
  <1>. DEFINE r == Malloc(size)
              old == BlockOf(c).size
  <1>1. /\ ptr[c] # NULL /\ old < size /\ r.p # NULL
        /\ list' = Free(r.list, ptr[c]) /\ brk' = r.brk
        /\ ptr' = [ptr EXCEPT ![c] = r.p]
        /\ mem' = Copied(ptr[c], r.p, old)
        /\ asked' = [asked EXCEPT ![c] = size]
        /\ foreign' = foreign /\ written' = written
    BY DEF sreallocMove
  <1>2. size \in Nat /\ written[c] \in Nat /\ ptr[c] \in Nat
    BY Types
  <1>3. old \in Nat /\ written[c] <= old /\ Holds(list, ptr[c], old)
    BY <1>1, BlockOfHolds
  <1>. HIDE DEF old
  <1>4. Got(r, size)
    <2>1. r # [list |-> list, brk |-> brk, p |-> NULL]
      BY <1>1
    <2>. QED  BY <1>2, <2>1, Types, MallocGot
  <1>. HIDE DEF r
  <1>5. /\ r.list \in Seq(Block) /\ r.brk \in 0..HeapLimit /\ r.brk \in Nat
        /\ Apart(r.list, r.brk)
        /\ \A j \in 1..Len(list) :
              j \in 1..Len(r.list) /\ Payload(r.list[j]) = Payload(list[j])
        /\ Holds(r.list, r.p, size)
        /\ \A q : \A m \in Nat :
              Holds(list, q, m) => Holds(r.list, q, m) /\ q # r.p
    <2>1. r.brk \in 0..HeapLimit
      BY <1>4 DEF Got
    <2>2. r.brk \in Nat
      BY <2>1, Types
    <2>. QED  BY <1>4, <2>1, <2>2, Zenon DEF Got
  <1>6. r.p \in Nat /\ r.p + size <= r.brk /\ r.p # ptr[c]
    BY <1>2, <1>3, <1>5, HoldersApart
  <1>7. /\ list' \in Seq(Block) /\ Apart(list', brk')
        /\ \A q : \A n \in Nat :
              q # ptr[c] /\ Holds(r.list, q, n) => Holds(list', q, n)
    BY <1>1, <1>3, <1>5, Types, FreeKeeps
  <1>8. ASSUME NEW a \in 0..(HeapLimit - 1)
        PROVE  mem'[a] = IF a \in r.p..(r.p + old - 1)
                         THEN mem[ptr[c] + (a - r.p)] ELSE mem[a]
    BY <1>1, Types DEF Copied
  <1>9. mem' \in [0..(HeapLimit - 1) -> Clients \cup {Nobody}]
    <2>1. ptr[c] + old <= HeapLimit
      <3>1. ptr[c] + old <= brk
        BY <1>3, Types, HoldersApart
      <3>. QED  BY <1>2, <1>3, <3>1, Types
    <2>2. ASSUME NEW a \in r.p..(r.p + old - 1)
          PROVE  ptr[c] + (a - r.p) \in 0..(HeapLimit - 1)
      BY <1>2, <1>3, <1>6, <2>1, Types, CopiedByte
    <2>3. ASSUME NEW a \in 0..(HeapLimit - 1)
          PROVE  mem'[a] \in Clients \cup {Nobody}
      BY <1>8, <2>2, Types
    <2>4. mem' = [a \in 0..(HeapLimit - 1) |-> mem'[a]]
      BY <1>1, Types DEF Copied
    <2>. QED  BY <2>3, <2>4
  <1>10. TypeOK'
    BY <1>1, <1>2, <1>5, <1>6, <1>7, <1>9, Types DEF TypeOK, Block
  <1>11. /\ ptr'[c] = r.p /\ asked'[c] = size /\ written' = written
         /\ \A d \in Clients : d # c =>
               ptr'[d] = ptr[d] /\ asked'[d] = asked[d]
    BY <1>1, Types
  <1>12. ASSUME NEW d \in Clients, d # c, ptr[d] # NULL
         PROVE  /\ ptr[d] # ptr[c] /\ ptr[d] # r.p /\ asked[d] # 0
                /\ Holds(r.list, ptr[d], written[d])
                /\ Holds(list', ptr[d], written[d])
                /\ asked[d] < SIZE_T => Holds(list', ptr[d], asked[d])
    <2>1. ptr[d] # ptr[c]
      BY <1>1, <1>12 DEF MemInv
    <2>2. /\ Holds(list, ptr[d], written[d]) /\ asked[d] # 0
          /\ asked[d] < SIZE_T => Holds(list, ptr[d], asked[d])
          /\ written[d] \in Nat /\ asked[d] \in Nat
      BY <1>12, Types DEF MemInv
    <2>. QED  BY <1>5, <1>7, <2>1, <2>2
  <1>13. Holds(list', r.p, size) /\ Holds(list', r.p, written[c])
    <2>1. Holds(list', r.p, size)
      BY <1>2, <1>5, <1>6, <1>7
    <2>2. written[c] <= size
      BY <1>1, <1>2, <1>3
    <2>. QED  BY <1>2, <1>7, <2>1, <2>2, HoldsLess
  <1>14. ASSUME NEW d \in Clients, ptr'[d] = NULL
         PROVE  asked'[d] = 0 /\ written'[d] = 0
    BY <1>1, <1>11, <1>14 DEF MemInv
  <1>15. ASSUME NEW d \in Clients, ptr'[d] # NULL
         PROVE  /\ asked'[d] # 0
                /\ Holds(list', ptr'[d], written'[d])
                /\ asked'[d] < SIZE_T => Holds(list', ptr'[d], asked'[d])
    <2>1. CASE d = c
      BY <1>1, <1>2, <1>3, <1>11, <1>13, <2>1
    <2>2. CASE d # c
      BY <1>11, <1>12, <1>15, <2>2
    <2>. QED  BY <2>1, <2>2
  <1>16. ASSUME NEW d \in Clients, NEW e \in Clients,
                ptr'[d] # NULL, ptr'[d] = ptr'[e]
         PROVE  d = e
    BY <1>1, <1>11, <1>12, <1>16 DEF MemInv
  <1>17. ASSUME NEW d \in Clients, NEW k \in 0..(written'[d] - 1)
         PROVE  mem'[ptr'[d] + k] = d
    <2>1. mem[ptr[d] + k] = d /\ k \in 0..(written[d] - 1) /\ ptr[d] # NULL
      BY <1>11, BytesInHeap DEF MemInv
    <2>2. CASE d = c
      <3>1. /\ r.p + k \in 0..(HeapLimit - 1)
            /\ r.p + k \in r.p..(r.p + old - 1)
            /\ ptr[c] + ((r.p + k) - r.p) = ptr[c] + k
        <4>1. PICK q \in Nat, o \in Nat, w \in Nat, b \in 0..HeapLimit :
                 q = r.p /\ o = old /\ w = written[c] /\ b = r.brk
          BY <1>2, <1>3, <1>5, <1>6
        <4>2. /\ q + size <= b /\ o < size /\ w <= o
              /\ k \in 0..(w - 1)
          BY <1>1, <1>3, <1>6, <2>1, <2>2, <4>1
        <4>3. /\ q + k \in 0..(HeapLimit - 1) /\ q + k \in q..(q + o - 1)
              /\ ptr[c] + ((q + k) - q) = ptr[c] + k
          BY <1>2, <4>2, SizesAssumption
        <4>. QED  BY <4>1, <4>3
      <3>2. mem'[r.p + k] = mem[ptr[c] + ((r.p + k) - r.p)]
        BY <1>8, <3>1
      <3>. QED  BY <1>11, <2>1, <2>2, <3>1, <3>2
    <2>3. CASE d # c
      <3>1. Holds(r.list, r.p, old)
        BY <1>1, <1>2, <1>3, <1>5, HoldsLess
      <3>2. Holds(r.list, ptr[d], written[d]) /\ ptr[d] # r.p
        BY <1>12, <2>1, <2>3
      <3>3. /\ ptr[d] + k \in 0..(HeapLimit - 1)
            /\ ptr[d] + k \notin r.p..(r.p + old - 1)
        BY <1>3, <1>5, <2>1, <3>1, <3>2, OthersKeepBytes
      <3>. QED  BY <1>8, <1>11, <2>1, <2>3, <3>3
    <2>. QED  BY <2>2, <2>3
  <1>. QED  BY <1>7, <1>10, <1>14, <1>15, <1>16, <1>17 DEF MemInv

(* A client that writes to its block keeps the invariant.                  *)
LEMMA WriteKeeps ==
    ASSUME MemInv, NEW c \in Clients, Write(c)
    PROVE  MemInv'
  <1>1. /\ ptr[c] # NULL /\ asked[c] <= BlockOf(c).size
        /\ mem' = Filled(ptr[c], asked[c], c)
        /\ written' = [written EXCEPT ![c] = asked[c]]
        /\ list' = list /\ brk' = brk /\ foreign' = foreign
        /\ ptr' = ptr /\ asked' = asked
    BY DEF Write
  <1>2. asked[c] \in Nat /\ ptr[c] \in Nat
    BY Types
  <1>3. Holds(list, ptr[c], asked[c])
    BY <1>1, <1>2, BlockOfHolds
  <1>4. /\ mem' \in [0..(HeapLimit - 1) -> Clients \cup {Nobody}]
        /\ \A a \in 0..(HeapLimit - 1) :
              mem'[a] = IF a \in ptr[c]..(ptr[c] + asked[c] - 1) THEN c ELSE mem[a]
    BY <1>1, Types DEF Filled
  <1>5. TypeOK'
    BY <1>1, <1>2, <1>4, Types DEF TypeOK, Block
  <1>6. /\ written'[c] = asked[c]
        /\ \A d \in Clients : d # c => written'[d] = written[d]
    BY <1>1, Types
  <1>7. ASSUME NEW d \in Clients, ptr'[d] = NULL
        PROVE  asked'[d] = 0 /\ written'[d] = 0
    BY <1>1, <1>6, <1>7 DEF MemInv
  <1>8. ASSUME NEW d \in Clients, ptr'[d] # NULL
        PROVE  /\ asked'[d] # 0
               /\ Holds(list', ptr'[d], written'[d])
               /\ asked'[d] < SIZE_T => Holds(list', ptr'[d], asked'[d])
    <2>1. CASE d = c
      BY <1>1, <1>3, <1>6, <1>8, <2>1 DEF MemInv
    <2>2. CASE d # c
      BY <1>1, <1>6, <1>8, <2>2 DEF MemInv
    <2>. QED  BY <2>1, <2>2
  <1>9. ASSUME NEW d \in Clients, NEW k \in 0..(written'[d] - 1)
        PROVE  mem'[ptr'[d] + k] = d
    <2>1. CASE d = c
      <3>1. ptr[c] + asked[c] <= brk
        BY <1>2, <1>3, Types, HoldersApart
      <3>2. /\ ptr[c] + k \in 0..(HeapLimit - 1)
            /\ ptr[c] + k \in ptr[c]..(ptr[c] + asked[c] - 1)
        BY <1>2, <1>6, <2>1, <3>1, Types
      <3>. QED  BY <1>1, <1>4, <2>1, <3>2
    <2>2. CASE d # c
      <3>1. mem[ptr[d] + k] = d /\ k \in 0..(written[d] - 1)
        BY <1>6, <2>2 DEF MemInv
      <3>2. ptr[d] # NULL
        BY <3>1, BytesInHeap
      <3>3. ptr[d] # ptr[c] /\ Holds(list, ptr[d], written[d])
        BY <1>1, <2>2, <3>2 DEF MemInv
      <3>4. /\ ptr[d] + k \in 0..(HeapLimit - 1)
            /\ ptr[d] + k \notin ptr[c]..(ptr[c] + asked[c] - 1)
        BY <1>2, <1>3, <3>1, <3>3, Types, OthersKeepBytes
      <3>. QED  BY <1>1, <1>4, <3>1, <3>4
    <2>. QED  BY <2>1, <2>2
  <1>10. Apart(list', brk')
    BY <1>1 DEF MemInv
  <1>11. \A d, e \in Clients : ptr'[d] # NULL /\ ptr'[d] = ptr'[e] => d = e
    BY <1>1 DEF MemInv
  <1>. QED  BY <1>5, <1>7, <1>8, <1>9, <1>10, <1>11 DEF MemInv

(* Another caller of sbrk keeps the invariant.                             *)
LEMMA SbrkKeeps ==
    ASSUME MemInv, NEW n \in Requests, OtherSbrk(n)
    PROVE  MemInv'
  <1>1. /\ n # 0 /\ brk + n <= HeapLimit
        /\ foreign' = foreign \cup (brk..(brk + n - 1)) /\ brk' = brk + n
        /\ list' = list /\ ptr' = ptr /\ asked' = asked
        /\ written' = written /\ mem' = mem
    BY DEF OtherSbrk, clientVars
  <1>2. n \in Nat /\ brk \in Nat /\ HeapLimit \in Nat
    BY Types
  <1>3. brk' \in 0..HeapLimit /\ foreign' \subseteq 0..(HeapLimit - 1)
    BY <1>1, <1>2, Types
  <1>4. TypeOK'
    BY <1>1, <1>3, Types DEF TypeOK, Block
  <1>5. Apart(list, brk')
    <2>1. ASSUME NEW i \in 1..Len(list)
          PROVE  End(list[i]) <= brk'
      <3>1. End(list[i]) <= brk /\ End(list[i]) \in Nat
        BY Types, BlockFields DEF Apart
      <3>. QED  BY <1>1, <1>2, <3>1
    <2>. QED  BY <2>1, Types DEF Apart
  <1>. QED  BY <1>1, <1>4, <1>5 DEF MemInv

-----------------------------------------------------------------------------
(* The theorems.                                                           *)

(* The invariant holds when the first call is made.                        *)
LEMMA InitMemInv == Init => MemInv
  <1>. SUFFICES ASSUME Init PROVE MemInv
    OBVIOUS
  <1>1. list = <<>> /\ Len(list) = 0 /\ list \in Seq(Block)
    BY EmptySeq DEF Init
  <1>2. TypeOK
    BY <1>1, SizesAssumption DEF Init, TypeOK, Block, NULL
  <1>3. Apart(list, brk)
    BY <1>1 DEF Apart
  <1>. QED  BY <1>2, <1>3 DEF Init, MemInv

(* Every step keeps the invariant.                                         *)
LEMMA NextMemInv == MemInv /\ [Next]_vars => MemInv'
  <1>. SUFFICES ASSUME MemInv, [Next]_vars PROVE MemInv'
    OBVIOUS
  <1>1. CASE UNCHANGED vars
    BY <1>1, NothingChanges DEF vars
  <1>2. ASSUME NEW c \in Clients, NEW size \in Requests,
               smalloc(c, size) \/ sreallocInPlace(c, size)
                 \/ sreallocMove(c, size)
        PROVE  MemInv'
    BY <1>2, SmallocKeeps, InPlaceKeeps, MoveKeeps
  <1>3. ASSUME NEW c \in Clients, NEW num \in Requests, NEW size \in Requests,
               scalloc(c, num, size)
        PROVE  MemInv'
    BY <1>3, ScallocKeeps
  <1>4. ASSUME NEW c \in Clients, sfree(c) \/ Write(c)
        PROVE  MemInv'
    BY <1>4, SfreeKeeps, WriteKeeps
  <1>5. ASSUME NEW n \in Requests, OtherSbrk(n)
        PROVE  MemInv'
    BY <1>5, SbrkKeeps
  <1>. QED  BY <1>1, <1>2, <1>3, <1>4, <1>5 DEF Next

(* The invariant always holds.                                             *)
LEMMA MemInvHolds == Spec => []MemInv
  BY InitMemInv, NextMemInv, PTL DEF Spec

(* Every header, pointer and byte stays in its range, in particular below  *)
(* the limit of sbrk, whatever the clients of malloc_2.cpp call.           *)
THEOREM ListTyped == Spec => []TypeOK
  <1>1. MemInv => TypeOK
    BY DEF MemInv
  <1>. QED  BY <1>1, MemInvHolds, PTL

(* smalloc, scalloc and srealloc of malloc_2.cpp never hand out a block    *)
(* that overlaps another one or that somebody still holds, and the block   *)
(* is large enough unless num * size has wrapped around.                   *)
THEOREM BlocksStaySafe == Spec => []BlocksSafe
  <1>1. MemInv => BlocksSafe
    <2>. SUFFICES ASSUME MemInv PROVE BlocksSafe
      OBVIOUS
    <2>1. LaidOut
      BY Types DEF LaidOut, Apart
    <2>2. OneHolder
      BY DEF MemInv, OneHolder, Holds
    <2>3. ASSUME NEW c \in Clients, ptr[c] # NULL
          PROVE  asked[c] <= BlockOf(c).size \/ asked[c] >= SIZE_T
      <3>1. asked[c] < SIZE_T \/ asked[c] >= SIZE_T
        BY Types
      <3>. QED  BY <2>3, <3>1, BlockOfHolds
    <2>. QED  BY <2>1, <2>2, <2>3 DEF BlocksSafe
  <1>. QED  BY <1>1, MemInvHolds, PTL

(* All bytes a client has written are kept.                                *)
LEMMA AllKept ==
    ASSUME NEW w \in [Clients -> Nat], NEW p, NEW m,
           \A c \in Clients : \A k \in 0..(w[c] - 1) : m[p[c] + k] = c
    PROVE  [c \in Clients |->
              Cardinality({k \in 0..(w[c] - 1) : m[p[c] + k] = c})] = w
  <1>1. ASSUME NEW c \in Clients
        PROVE  Cardinality({k \in 0..(w[c] - 1) : m[p[c] + k] = c}) = w[c]
    <2>1. {k \in 0..(w[c] - 1) : m[p[c] + k] = c} = 0..(w[c] - 1)
      OBVIOUS
    <2>2. w[c] \in Nat /\ w[c] - 1 \in Int /\ 0 \in Int
      OBVIOUS
    <2>3. Cardinality(0..(w[c] - 1)) =
             IF 0 > w[c] - 1 THEN 0 ELSE (w[c] - 1) - 0 + 1
      BY <2>2, FS_Interval
    <2>4. Cardinality(0..(w[c] - 1)) = w[c]
      BY <2>2, <2>3
    <2>. QED  BY <2>1, <2>4
  <1>. QED  BY <1>1

(* In the terms of the refinement mapping.                                 *)
LEMMA KeptIsWritten ==
    ASSUME MemInv
    PROVE  Kept = written
  <1>1. /\ written \in [Clients -> Nat]
        /\ \A c \in Clients : \A k \in 0..(written[c] - 1) :
              mem[ptr[c] + k] = c
    BY Types DEF MemInv
  <1>. QED  BY <1>1, AllKept DEF Kept

(* A call that hands out a block, or fails.                                *)
LEMMA GiveAllocates ==
    ASSUME MemInv, NEW c \in Clients, ptr[c] = NULL,
           NEW r, NEW n \in Nat, n # 0, Give(c, r, n)
    PROVE  /\ written' = written
           /\ \/ asked' = asked
              \/ /\ asked[c] = 0 /\ asked'[c] \in Nat \ {0}
                 /\ asked' = [asked EXCEPT ![c] = asked'[c]]
  <1>1. asked[c] = 0 /\ asked \in [Clients -> Nat]
    BY Types DEF MemInv
  <1>. QED  BY <1>1 DEF Give

(* Every step is one of Allocator, or leaves it as it is.                  *)
LEMMA StepImplements ==
    ASSUME MemInv, MemInv', [Next]_vars
    PROVE  [Promise!Next]_<<asked, Kept>>
  <1>1. Kept = written
    BY KeptIsWritten
  <1>2. Kept' = written'
    <2>1. /\ written' \in [Clients -> Nat]
          /\ \A c \in Clients : \A k \in 0..(written'[c] - 1) :
                mem'[ptr'[c] + k] = c
      BY DEF MemInv, TypeOK
    <2>. QED  BY <2>1, AllKept DEF Kept
  <1>. HIDE DEF Kept
  <1>3. CASE UNCHANGED vars
    BY <1>1, <1>2, <1>3 DEF vars
  <1>4. ASSUME NEW c \in Clients, NEW size \in Requests, smalloc(c, size)
        PROVE  [Promise!Next]_<<asked, Kept>>
    <2>1. size \in Nat /\ size # 0 /\ ptr[c] = NULL /\ Give(c, Malloc(size), size)
      BY <1>4, Types DEF smalloc
    <2>. QED  BY <1>1, <1>2, <2>1, GiveAllocates
              DEF Promise!Next, Promise!Allocate, Promise!Ask
  <1>5. ASSUME NEW c \in Clients, NEW num \in Requests, NEW size \in Requests,
               scalloc(c, num, size)
        PROVE  [Promise!Next]_<<asked, Kept>>
    <2>1. /\ num \in Nat /\ size \in Nat /\ num # 0 /\ size # 0 /\ ptr[c] = NULL
          /\ Give(c, Malloc((num * size) % SIZE_T), num * size)
      BY <1>5, Types DEF scalloc
    <2>2. num * size \in Nat /\ num * size # 0
      BY <2>1, Product
    <2>. QED  BY <1>1, <1>2, <2>1, <2>2, GiveAllocates
              DEF Promise!Next, Promise!Allocate, Promise!Ask
  <1>6. ASSUME NEW c \in Clients, sfree(c)
        PROVE  [Promise!Next]_<<asked, Kept>>
    BY <1>1, <1>2, <1>6 DEF sfree, Promise!Next, Promise!Release
  <1>7. ASSUME NEW c \in Clients, NEW size \in Requests,
               sreallocInPlace(c, size)
        PROVE  [Promise!Next]_<<asked, Kept>>
    <2>1. asked[c] # 0 /\ size \in Nat \ {0} /\ asked'[c] = size
      BY <1>7, Types DEF sreallocInPlace, MemInv
    <2>2. Promise!Reallocate(c)
      BY <1>1, <1>2, <1>7, <2>1 DEF sreallocInPlace, Promise!Reallocate, Promise!Ask
    <2>. QED  BY <2>2 DEF Promise!Next
  <1>8. ASSUME NEW c \in Clients, NEW size \in Requests, sreallocMove(c, size)
        PROVE  [Promise!Next]_<<asked, Kept>>
    <2>1. /\ ptr[c] # NULL /\ BlockOf(c).size < size /\ size \in Nat
          /\ asked' = [asked EXCEPT ![c] = size] /\ written' = written
      BY <1>8, Types DEF sreallocMove
    <2>2. written[c] \in Nat /\ written[c] <= size /\ size # 0
      BY <2>1, BlockOfHolds, Types
    <2>3. asked[c] # 0 /\ asked'[c] = size
      BY <2>1, Types DEF MemInv
    <2>4. written' = [written EXCEPT ![c] =
                        IF written[c] <= size THEN written[c] ELSE size]
      BY <2>1, <2>2, Types
    <2>5. Promise!Reallocate(c)
      BY <1>1, <1>2, <2>1, <2>2, <2>3, <2>4 DEF Promise!Reallocate, Promise!Ask
    <2>. QED  BY <2>5 DEF Promise!Next
  <1>9. ASSUME NEW c \in Clients, Write(c)
        PROVE  [Promise!Next]_<<asked, Kept>>
    BY <1>1, <1>2, <1>9 DEF Write, Promise!Next, Promise!Write
  <1>10. ASSUME NEW n \in Requests, OtherSbrk(n)
         PROVE  [Promise!Next]_<<asked, Kept>>
    BY <1>1, <1>2, <1>10 DEF OtherSbrk, clientVars
  <1>. QED  BY <1>3, <1>4, <1>5, <1>6, <1>7, <1>8, <1>9, <1>10 DEF Next

(* The list of blocks implements Allocator: a client always finds in its   *)
(* block what it wrote, whatever the others call, and srealloc of          *)
(* malloc_2.cpp carries all of it over.                                    *)
THEOREM ListImplementsAllocator == Spec => ImplementsAllocator
  <1>1. Init => Promise!Init
    <2>. SUFFICES ASSUME Init PROVE Promise!Init
      OBVIOUS
    <2>1. MemInv
      BY InitMemInv
    <2>2. Kept = written
      BY <2>1, KeptIsWritten
    <2>. QED  BY <2>2 DEF Init, Promise!Init
  <1>2. MemInv /\ MemInv' /\ [Next]_vars => [Promise!Next]_<<asked, Kept>>
    BY StepImplements
  <1>. QED  BY <1>1, <1>2, MemInvHolds, PTL DEF Spec, ImplementsAllocator, Promise!Spec

-----------------------------------------------------------------------------
(* The statistics.                                                         *)

(* The bytes below b are those of the blocks and those other callers of    *)
(* sbrk took, none of them both.                                           *)
Tiled(l, b, taken) ==
    /\ taken \subseteq 0..(b - 1)
    /\ \A a \in 0..(b - 1) :
          a \in taken <=> ~ \E i \in 1..Len(l) : a \in l[i].addr..(End(l[i]) - 1)

(* Every block in use is in the hands of a client.                         *)
InHands(l, p) ==
    \A i \in 1..Len(l) :
        ~l[i].is_free => \E c \in Clients : p[c] = Payload(l[i])

StatsInv == Tiled(list, brk, foreign) /\ InHands(list, ptr)

(* bytes_count after n blocks.                                             *)
Counts(l, S, n, f) ==
    f = [i \in 0..n |->
            IF i = 0 THEN 0
            ELSE f[i - 1] + (IF i \in S THEN l[i].size ELSE 0)]

(* The loop ends with a count after every number of blocks: the least      *)
(* number without one would have the counts before it and one more.        *)
LEMMA CountsExist ==
    ASSUME NEW l, NEW S, Len(l) \in Nat
    PROVE  \E f : Counts(l, S, Len(l), f)
  <1>. DEFINE Bad == {n \in Nat : ~ \E f : Counts(l, S, n, f)}
  <1>. SUFFICES ASSUME Bad # {} PROVE FALSE
    OBVIOUS
  <1>1. PICK n \in Bad : \A j \in Bad : n <= j
    <2>1. Bad \in SUBSET Nat
      OBVIOUS
    <2>. HIDE DEF Bad
    <2>. QED  BY <2>1, LeastIndex
  <1>2. n # 0
    <2>1. Counts(l, S, 0, [i \in 0..0 |-> 0])
      BY DEF Counts
    <2>. QED  BY <2>1
  <1>3. n - 1 \in Nat /\ n - 1 \notin Bad
    <2>1. n \in Nat
      OBVIOUS
    <2>2. n - 1 \in Nat /\ ~ (n <= n - 1)
      BY <2>1, <1>2
    <2>. QED  BY <2>2, <1>1
  <1>4. PICK f : Counts(l, S, n - 1, f)
    BY <1>3
  <1>. DEFINE last == f[n - 1] + (IF n \in S THEN l[n].size ELSE 0)
              g == [i \in 0..n |-> IF i = n THEN last ELSE f[i]]
  <1>5. ASSUME NEW i \in 0..n
        PROVE  g[i] = IF i = 0 THEN 0
                      ELSE g[i - 1] + (IF i \in S THEN l[i].size ELSE 0)
    <2>1. n \in Nat /\ i \in Nat /\ i <= n
      OBVIOUS
    <2>2. CASE i = n
      <3>1. i # 0 /\ i - 1 \in 0..n /\ i - 1 # n
        BY <2>1, <2>2, <1>2
      <3>2. g[i - 1] = f[i - 1] /\ g[i] = last
        BY <3>1, <2>2
      <3>. QED  BY <3>1, <3>2, <2>2
    <2>3. CASE i # n
      <3>1. i \in 0..(n - 1) /\ (i # 0 => i - 1 \in 0..n /\ i - 1 # n)
        BY <2>1, <2>3
      <3>2. g[i] = f[i] /\ (i # 0 => g[i - 1] = f[i - 1])
        BY <3>1, <2>3
      <3>3. f[i] = IF i = 0 THEN 0
                   ELSE f[i - 1] + (IF i \in S THEN l[i].size ELSE 0)
        BY <3>1, <1>4 DEF Counts
      <3>. QED  BY <3>2, <3>3
    <2>. QED  BY <2>2, <2>3
  <1>6. Counts(l, S, n, g)
    BY <1>5 DEF Counts
  <1>. QED  BY <1>6

(* What the loop counts.                                                   *)
Running(l, S, f) ==
    /\ f \in [0..Len(l) -> Nat] /\ f[0] = 0
    /\ \A n \in 1..Len(l) :
          f[n] = f[n - 1] + (IF n \in S THEN l[n].size ELSE 0)
    /\ SizeSum(l, S) = f[Len(l)]

LEMMA SumRuns ==
    ASSUME NEW l \in Seq(Block), NEW S
    PROVE  \E f : Running(l, S, f)
  <1>1. Len(l) \in Nat
    BY LenProperties
  <1>2. \E f : Counts(l, S, Len(l), f)
    BY <1>1, CountsExist
  <1>. DEFINE h == CHOOSE f : Counts(l, S, Len(l), f)
  <1>3. Counts(l, S, Len(l), h)
    BY <1>2
  <1>4. SizeSum(l, S) = h[Len(l)]
    BY DEF SizeSum, Counts
  <1>. HIDE DEF h
  <1>5. /\ h[0] = 0 /\ DOMAIN h = 0..Len(l)
        /\ h = [i \in 0..Len(l) |-> h[i]]
        /\ \A n \in 1..Len(l) :
              h[n] = h[n - 1] + (IF n \in S THEN l[n].size ELSE 0)
    BY <1>1, <1>3 DEF Counts
  <1>. DEFINE Bad == {n \in 0..Len(l) : h[n] \notin Nat}
  <1>6. Bad = {}
    <2>. SUFFICES ASSUME Bad # {} PROVE FALSE
      OBVIOUS
    <2>1. PICK n \in Bad : \A j \in Bad : n <= j
      <3>1. Bad \in SUBSET Nat
        OBVIOUS
      <3>. HIDE DEF Bad
      <3>. QED  BY <3>1, LeastIndex
    <2>2. n # 0 /\ n \in 0..Len(l)
      BY <1>5
    <2>3. n \in 1..Len(l) /\ n - 1 \in 0..Len(l) /\ ~ (n <= n - 1)
      BY <2>2, <1>1
    <2>4. h[n - 1] \in Nat
      BY <2>1, <2>3
    <2>5. l[n].size \in Nat
      BY <2>3, BlockFields
    <2>6. h[n] = h[n - 1] + (IF n \in S THEN l[n].size ELSE 0)
      BY <2>3, <1>5
    <2>7. h[n] \in Nat
      <3>. HIDE DEF Bad
      <3>. QED  BY <2>4, <2>5, <2>6
    <2>. QED  BY <2>7
  <1>7. h \in [0..Len(l) -> Nat]
    BY <1>5, <1>6
  <1>. QED  BY <1>4, <1>5, <1>7 DEF Running

(* The sizes of two parts of the list add up.                              *)
LEMMA SumParts ==
    ASSUME NEW l \in Seq(Block), NEW S
    PROVE  /\ SizeSum(l, 1..Len(l)) = SizeSum(l, S) + SizeSum(l, (1..Len(l)) \ S)
           /\ SizeSum(l, S) \in Nat /\ SizeSum(l, (1..Len(l)) \ S) \in Nat
  <1>. DEFINE U == (1..Len(l)) \ S
  <1>1. Len(l) \in Nat
    BY LenProperties
  <1>2. PICK f : Running(l, 1..Len(l), f)
    BY SumRuns
  <1>3. PICK g : Running(l, S, g)
    BY SumRuns
  <1>4. PICK h : Running(l, U, h)
    BY SumRuns
  <1>5. f \in [0..Len(l) -> Nat] /\ g \in [0..Len(l) -> Nat] /\ h \in [0..Len(l) -> Nat]
    BY <1>2, <1>3, <1>4 DEF Running
  <1>6. ASSUME NEW n \in 1..Len(l)
        PROVE  /\ f[n] = f[n - 1] + l[n].size
               /\ g[n] = g[n - 1] + (IF n \in S THEN l[n].size ELSE 0)
               /\ h[n] = h[n - 1] + (IF n \in S THEN 0 ELSE l[n].size)
               /\ l[n].size \in Nat
    BY <1>2, <1>3, <1>4, BlockFields DEF Running
  <1>. DEFINE Bad == {n \in 0..Len(l) : f[n] # g[n] + h[n]}
  <1>7. Bad = {}
    <2>. SUFFICES ASSUME Bad # {} PROVE FALSE
      OBVIOUS
    <2>1. PICK n \in Bad : \A j \in Bad : n <= j
      <3>1. Bad \in SUBSET Nat
        OBVIOUS
      <3>. HIDE DEF Bad
      <3>. QED  BY <3>1, LeastIndex
    <2>2. n # 0 /\ n \in 0..Len(l)
      <3>1. f[0] = 0 /\ g[0] = 0 /\ h[0] = 0
        BY <1>2, <1>3, <1>4 DEF Running
      <3>. QED  BY <3>1
    <2>3. n \in 1..Len(l) /\ n - 1 \in 0..Len(l) /\ ~ (n <= n - 1)
      BY <2>2, <1>1
    <2>4. f[n - 1] = g[n - 1] + h[n - 1]
      BY <2>1, <2>3
    <2>5. f[n] = g[n] + h[n]
      <3>1. f[n - 1] \in Nat /\ g[n - 1] \in Nat /\ h[n - 1] \in Nat
        BY <2>3, <1>5
      <3>2. /\ f[n] = f[n - 1] + l[n].size
            /\ g[n] = g[n - 1] + (IF n \in S THEN l[n].size ELSE 0)
            /\ h[n] = h[n - 1] + (IF n \in S THEN 0 ELSE l[n].size)
            /\ l[n].size \in Nat
        BY <2>3, <1>6
      <3>. HIDE DEF Bad
      <3>. QED  BY <2>4, <3>1, <3>2
    <2>. QED  BY <2>5
  <1>8. Len(l) \in 0..Len(l)
    BY <1>1
  <1>9. f[Len(l)] = g[Len(l)] + h[Len(l)]
    BY <1>7, <1>8
  <1>. QED  BY <1>2, <1>3, <1>4, <1>5, <1>8, <1>9 DEF Running

(* A set of numbers below k is finite.                                     *)
LEMMA FiniteBelow ==
    ASSUME NEW B, NEW k \in Nat, B \subseteq 0..(k - 1)
    PROVE  IsFiniteSet(B) /\ Cardinality(B) \in Nat
  <1>1. 0 \in Int /\ k - 1 \in Int
    OBVIOUS
  <1>2. IsFiniteSet(0..(k - 1))
    BY <1>1, FS_Interval
  <1>3. IsFiniteSet(B)
    BY <1>2, FS_Subset
  <1>. QED  BY <1>3, FS_CardinalityType

(* A set of numbers below m, and the interval that begins at m.            *)
LEMMA CutAt ==
    ASSUME NEW B, NEW k \in Nat, B \subseteq 0..(k - 1),
           NEW m \in Nat, NEW e \in Nat, m <= e, \A a \in B : a < m
    PROVE  /\ IsFiniteSet(B \cup (m..(e - 1)))
           /\ Cardinality(B \cup (m..(e - 1))) = Cardinality(B) + (e - m)
  <1>1. IsFiniteSet(B) /\ Cardinality(B) \in Nat
    BY FiniteBelow
  <1>2. IsFiniteSet(m..(e - 1)) /\ Cardinality(m..(e - 1)) = e - m
    <2>1. m \in Int /\ e - 1 \in Int
      OBVIOUS
    <2>2. /\ IsFiniteSet(m..(e - 1))
          /\ Cardinality(m..(e - 1)) = IF m > e - 1 THEN 0 ELSE (e - 1) - m + 1
      BY <2>1, FS_Interval
    <2>. QED  BY <2>2
  <1>3. B \cap (m..(e - 1)) = {}
    OBVIOUS
  <1>4. Cardinality(B \cap (m..(e - 1))) = 0
    BY <1>3, FS_EmptySet
  <1>5. /\ IsFiniteSet(B \cup (m..(e - 1)))
        /\ Cardinality(B \cup (m..(e - 1))) =
             Cardinality(B) + Cardinality(m..(e - 1))
               - Cardinality(B \cap (m..(e - 1)))
    BY <1>1, <1>2, FS_Union
  <1>. QED  BY <1>1, <1>2, <1>4, <1>5

(* The bytes taken behind the first header and before e.                   *)
Between(l, taken, e) == {a \in taken : l[1].addr < a /\ a < e}

(* No byte of a block was taken.                                           *)
LEMMA NotTaken ==
    ASSUME NEW l \in Seq(Block), NEW b \in Nat, Apart(l, b), NEW taken,
           Tiled(l, b, taken), NEW i \in 1..Len(l), NEW a \in taken
    PROVE  a < l[i].addr \/ End(l[i]) <= a
  <1>1. a \in 0..(b - 1) /\ a \in Nat
    BY DEF Tiled
  <1>2. a \notin l[i].addr..(End(l[i]) - 1)
    BY <1>1 DEF Tiled
  <1>3. l[i].addr \in Nat /\ End(l[i]) \in Nat
    BY BlockFields
  <1>. QED  BY <1>1, <1>2, <1>3

(* A byte before an interval or after it.                                  *)
LEMMA Outside ==
    \A x, y, a \in Nat : a < x \/ y <= a => a \notin x..(y - 1)
  OBVIOUS

(* What lies between two blocks that follow each other was taken.          *)
LEMMA GapTaken ==
    ASSUME NEW l \in Seq(Block), NEW b \in Nat, Apart(l, b), NEW taken,
           Tiled(l, b, taken), NEW n \in 1..Len(l), n + 1 \in 1..Len(l)
    PROVE  Between(l, taken, End(l[n + 1]))
             = Between(l, taken, End(l[n])) \cup (End(l[n])..(l[n + 1].addr - 1))
  <1>1. Len(l) \in Nat /\ 1 \in 1..Len(l) /\ n \in Nat
    BY LenProperties
  <1>2. /\ l[1].addr \in Nat /\ End(l[1]) \in Nat /\ l[1].addr < End(l[1])
        /\ l[n].addr \in Nat /\ End(l[n]) \in Nat
        /\ l[n + 1].addr \in Nat /\ End(l[n + 1]) \in Nat
        /\ l[n + 1].addr < End(l[n + 1]) /\ l[n].addr < End(l[n])
    BY <1>1, BlockFields, SizesAssumption
  <1>3. /\ End(l[n]) <= l[n + 1].addr /\ End(l[n + 1]) <= b
        /\ l[1].addr <= l[n].addr
    <2>1. End(l[n]) <= l[n + 1].addr /\ End(l[n + 1]) <= b
      BY <1>1 DEF Apart
    <2>2. n # 1 => End(l[1]) <= l[n].addr
      BY <1>1 DEF Apart
    <2>. QED  BY <1>2, <2>1, <2>2
  <1>4. ASSUME NEW a \in End(l[n])..(l[n + 1].addr - 1)
        PROVE  a \in taken
    <2>1. a \in Nat /\ a \in 0..(b - 1) /\ End(l[n]) <= a /\ a < l[n + 1].addr
      BY <1>2, <1>3
    <2>2. ASSUME NEW i \in 1..Len(l)
          PROVE  a \notin l[i].addr..(End(l[i]) - 1)
      <3>1. l[i].addr \in Nat /\ End(l[i]) \in Nat /\ i \in Nat
        BY BlockFields, SMTT(30)
      <3>2. CASE i = n \/ i = n + 1
        BY <1>2, <2>1, <3>1, <3>2
      <3>3. CASE i < n
        <4>1. End(l[i]) <= l[n].addr
          BY <3>3 DEF Apart
        <4>2. End(l[i]) <= a
          BY <1>2, <2>1, <3>1, <4>1, SMTT(30)
        <4>. QED  BY <2>1, <3>1, <4>2, Outside
      <3>4. CASE n + 1 < i
        <4>1. End(l[n + 1]) <= l[i].addr
          BY <3>4 DEF Apart
        <4>2. a < l[i].addr
          BY <1>2, <2>1, <3>1, <4>1, SMTT(30)
        <4>. QED  BY <2>1, <3>1, <4>2, Outside
      <3>. QED  BY <1>1, <3>1, <3>2, <3>3, <3>4
    <2>. QED  BY <2>1, <2>2 DEF Tiled
  <1>5. ASSUME NEW a \in Between(l, taken, End(l[n + 1]))
        PROVE  a \in Between(l, taken, End(l[n])) \cup (End(l[n])..(l[n + 1].addr - 1))
    <2>1. a \in taken /\ a \in Nat /\ l[1].addr < a /\ a < End(l[n + 1])
      BY DEF Between, Tiled
    <2>2. a < l[n + 1].addr
      BY <2>1, <1>2, NotTaken
    <2>. QED  BY <1>2, <2>1, <2>2 DEF Between
  <1>6. ASSUME NEW a \in Between(l, taken, End(l[n])) \cup (End(l[n])..(l[n + 1].addr - 1))
        PROVE  a \in Between(l, taken, End(l[n + 1]))
    <2>1. CASE a \in Between(l, taken, End(l[n]))
      <3>1. a \in taken /\ a \in Nat /\ l[1].addr < a /\ a < End(l[n])
        BY <2>1 DEF Between, Tiled
      <3>2. a < End(l[n + 1])
        BY <3>1, <1>2, <1>3
      <3>. QED  BY <3>1, <3>2 DEF Between
    <2>2. CASE a \in End(l[n])..(l[n + 1].addr - 1)
      <3>1. a \in taken
        BY <2>2, <1>4
      <3>2. l[1].addr < a /\ a < End(l[n + 1])
        BY <2>2, <1>2, <1>3, SMTT(30)
      <3>. QED  BY <3>1, <3>2 DEF Between
    <2>. QED  BY <2>1, <2>2
  <1>. QED  BY <1>5, <1>6

(* The extent grows by a gap, a header and a payload.                      *)
LEMMA Grows ==
    ASSUME NEW first \in Nat, NEW end \in Nat, NEW sum \in Nat,
           NEW x \in Nat, NEW k \in Nat, NEW at \in Nat, NEW size \in Nat,
           NEW h \in Nat, end - first = sum + x + k
    PROVE  (at + h + size) - first = (sum + size) + (x + h) + (k + (at - end))
  OBVIOUS

(* From the first header to the end of the list there are the headers, the *)
(* payloads and what was taken in between.                                 *)
LEMMA Extent ==
    ASSUME NEW l \in Seq(Block), NEW b \in Nat, Apart(l, b), NEW taken,
           Tiled(l, b, taken), l # <<>>
    PROVE  LET e == End(l[Len(l)])
           IN  /\ IsFiniteSet(Between(l, taken, e))
               /\ Cardinality(Between(l, taken, e)) \in Nat
               /\ e - l[1].addr = SizeSum(l, 1..Len(l)) + META * Len(l)
                                    + Cardinality(Between(l, taken, e))
  <1>1. Len(l) \in Nat /\ Len(l) # 0 /\ 1 \in 1..Len(l)
    BY LenProperties, EmptySeq
  <1>2. PICK f : Running(l, 1..Len(l), f)
    BY SumRuns
  <1>3. f \in [0..Len(l) -> Nat] /\ f[0] = 0 /\ SizeSum(l, 1..Len(l)) = f[Len(l)]
    BY <1>2 DEF Running
  <1>4. \A n \in 1..Len(l) : f[n] = f[n - 1] + l[n].size
    BY <1>2 DEF Running
  <1>5. taken \in SUBSET Nat /\ taken \subseteq 0..(b - 1)
    BY DEF Tiled
  <1>6. \A n \in 1..Len(l) : /\ IsFiniteSet(Between(l, taken, End(l[n])))
                             /\ Cardinality(Between(l, taken, End(l[n]))) \in Nat
    <2>. SUFFICES ASSUME NEW n \in 1..Len(l)
                  PROVE  /\ IsFiniteSet(Between(l, taken, End(l[n])))
                         /\ Cardinality(Between(l, taken, End(l[n]))) \in Nat
      OBVIOUS
    <2>1. /\ Between(l, taken, End(l[n])) \in SUBSET Nat
          /\ Between(l, taken, End(l[n])) \subseteq 0..(b - 1)
      BY <1>5 DEF Between
    <2>. QED  BY <2>1, FiniteBelow
  <1>. DEFINE P(n) == End(l[n]) - l[1].addr =
                        f[n] + META * n + Cardinality(Between(l, taken, End(l[n])))
              Bad == {n \in 1..Len(l) : ~P(n)}
  <1>7. P(1)
    <2>1. Between(l, taken, End(l[1])) = {}
      <3>1. ASSUME NEW a \in Between(l, taken, End(l[1])) PROVE FALSE
        <4>1. a \in taken /\ a \in Nat /\ l[1].addr < a /\ a < End(l[1])
          BY <1>5 DEF Between
        <4>2. a < l[1].addr \/ End(l[1]) <= a
          BY <4>1, <1>1, NotTaken
        <4>3. l[1].addr \in Nat /\ End(l[1]) \in Nat
          BY <1>1, BlockFields
        <4>. QED  BY <4>1, <4>2, <4>3
      <3>. QED  BY <3>1
    <2>2. Cardinality(Between(l, taken, End(l[1]))) = 0
      BY <2>1, FS_EmptySet
    <2>3. f[1] = l[1].size
      <3>1. f[1] = f[1 - 1] + l[1].size
        BY <1>1, <1>4
      <3>2. l[1].size \in Nat
        BY <1>1, BlockFields
      <3>. QED  BY <1>3, <3>1, <3>2
    <2>4. /\ End(l[1]) = l[1].addr + META + l[1].size
          /\ l[1].addr \in Nat /\ l[1].size \in Nat /\ META \in Nat
      BY <1>1, BlockFields, SizesAssumption
    <2>5. META * 1 = META
      BY <2>4
    <2>. QED  BY <2>2, <2>3, <2>4, <2>5
  <1>8. ASSUME NEW n \in 1..Len(l), n + 1 \in 1..Len(l), P(n)
        PROVE  P(n + 1)
    <2>. DEFINE B == Between(l, taken, End(l[n]))
                C == Between(l, taken, End(l[n + 1]))
    <2>1. B \in SUBSET Nat /\ B \subseteq 0..(b - 1) /\ \A a \in B : a < End(l[n])
      BY <1>5 DEF Between
    <2>2. /\ l[n + 1].addr \in Nat /\ l[n + 1].size \in Nat
          /\ End(l[n + 1]) = l[n + 1].addr + META + l[n + 1].size
          /\ End(l[n]) \in Nat /\ l[1].addr \in Nat /\ META \in Nat
      BY <1>1, <1>8, BlockFields, SizesAssumption
    <2>3. End(l[n]) <= l[n + 1].addr
      BY <1>8 DEF Apart
    <2>4. C = B \cup (End(l[n])..(l[n + 1].addr - 1))
      BY <1>8, GapTaken
    <2>5. Cardinality(C) = Cardinality(B) + (l[n + 1].addr - End(l[n]))
      <3>. HIDE DEF B, C
      <3>. QED  BY <2>1, <2>2, <2>3, <2>4, CutAt
    <2>6. Cardinality(B) \in Nat
      BY <1>6
    <2>7. f[n + 1] = f[n] + l[n + 1].size /\ f[n] \in Nat
      <3>1. n + 1 - 1 = n /\ n \in 0..Len(l)
        BY <1>1
      <3>2. f[n + 1] = f[n + 1 - 1] + l[n + 1].size
        BY <1>4, <1>8
      <3>. QED  BY <1>3, <3>1, <3>2
    <2>8. META * (n + 1) = META * n + META /\ META * n \in Nat
      BY <2>2
    <2>9. End(l[n]) - l[1].addr = f[n] + META * n + Cardinality(B)
      BY <1>8
    <2>10. End(l[n + 1]) - l[1].addr = f[n + 1] + META * (n + 1) + Cardinality(C)
      <3>. HIDE DEF B, C
      <3>1. PICK first \in Nat, end \in Nat, at \in Nat, size \in Nat :
               /\ first = l[1].addr /\ end = End(l[n])
               /\ at = l[n + 1].addr /\ size = l[n + 1].size
        BY <2>2
      <3>2. PICK sum \in Nat, x \in Nat, k \in Nat, h \in Nat :
               /\ sum = f[n] /\ x = META * n /\ k = Cardinality(B) /\ h = META
        BY <2>2, <2>6, <2>7, <2>8
      <3>3. end - first = sum + x + k
        BY <2>9, <3>1, <3>2
      <3>4. (at + h + size) - first = (sum + size) + (x + h) + (k + (at - end))
        BY <3>3, Grows
      <3>5. /\ End(l[n + 1]) = at + h + size /\ f[n + 1] = sum + size
            /\ META * (n + 1) = x + h /\ Cardinality(C) = k + (at - end)
        BY <2>2, <2>5, <2>7, <2>8, <3>1, <3>2
      <3>. QED  BY <3>1, <3>4, <3>5
    <2>. QED  BY <2>10
  <1>. HIDE DEF P
  <1>9. Bad = {}
    <2>. SUFFICES ASSUME Bad # {} PROVE FALSE
      OBVIOUS
    <2>1. PICK n \in Bad : \A j \in Bad : n <= j
      <3>1. Bad \in SUBSET Nat
        OBVIOUS
      <3>. HIDE DEF Bad
      <3>. QED  BY <3>1, LeastIndex
    <2>2. n # 1 /\ n \in 1..Len(l) /\ n \in Nat
      BY <1>7
    <2>3. n - 1 \in 1..Len(l) /\ ~ (n <= n - 1) /\ (n - 1) + 1 = n
      BY <2>2, <1>1
    <2>4. P(n - 1)
      BY <2>1, <2>3
    <2>5. P(n)
      BY <1>8, <2>2, <2>3, <2>4
    <2>. QED  BY <2>5
  <1>10. P(Len(l)) /\ Len(l) \in 1..Len(l)
    BY <1>1, <1>9
  <1>. QED  BY <1>3, <1>6, <1>10 DEF P

(* The bytes of the payloads of the first n blocks in use.                 *)
UsedBytes(l, n) ==
    {a \in Nat : \E i \in 1..n : ~l[i].is_free /\ a \in Payload(l[i])..(End(l[i]) - 1)}

Used(l) == {i \in 1..Len(l) : ~l[i].is_free}

(* They are as many as the sizes of these blocks say.                      *)
LEMMA UsedSum ==
    ASSUME NEW l \in Seq(Block), NEW b \in Nat, Apart(l, b)
    PROVE  /\ IsFiniteSet(UsedBytes(l, Len(l)))
           /\ Cardinality(UsedBytes(l, Len(l))) = SizeSum(l, Used(l))
  <1>1. Len(l) \in Nat
    BY LenProperties
  <1>2. PICK f : Running(l, Used(l), f)
    BY SumRuns
  <1>3. /\ f \in [0..Len(l) -> Nat] /\ f[0] = 0
        /\ SizeSum(l, Used(l)) = f[Len(l)]
    BY <1>2 DEF Running
  <1>4. \A n \in 1..Len(l) : f[n] = f[n - 1] + (IF l[n].is_free THEN 0 ELSE l[n].size)
    BY <1>2 DEF Running, Used
  <1>5. ASSUME NEW n \in 0..Len(l)
        PROVE  UsedBytes(l, n) \subseteq 0..(b - 1)
    <2>1. ASSUME NEW a \in UsedBytes(l, n) PROVE a \in 0..(b - 1)
      <3>1. PICK i \in 1..n : a \in Payload(l[i])..(End(l[i]) - 1)
        BY DEF UsedBytes
      <3>2. i \in 1..Len(l)
        BY <1>1
      <3>3. Payload(l[i]) \in Nat /\ End(l[i]) \in Nat /\ End(l[i]) <= b
        BY <3>2, BlockFields DEF Apart
      <3>. QED  BY <3>1, <3>3
    <2>. QED  BY <2>1
  <1>. DEFINE P(n) == Cardinality(UsedBytes(l, n)) = f[n]
              Bad == {n \in 0..Len(l) : ~P(n)}
  <1>6. P(0)
    <2>1. UsedBytes(l, 0) = {}
      BY DEF UsedBytes
    <2>. QED  BY <1>3, <2>1, FS_EmptySet
  <1>7. ASSUME NEW n \in 1..Len(l), P(n - 1)
        PROVE  P(n)
    <2>. DEFINE B == UsedBytes(l, n - 1)
                C == UsedBytes(l, n)
    <2>1. n \in Nat /\ n - 1 \in 0..Len(l) /\ 1..n = (1..(n - 1)) \cup {n}
      BY <1>1
    <2>2. B \subseteq 0..(b - 1)
      BY <2>1, <1>5
    <2>3. /\ Payload(l[n]) \in Nat /\ End(l[n]) \in Nat
          /\ Payload(l[n]) <= End(l[n]) /\ End(l[n]) - Payload(l[n]) = l[n].size
          /\ l[n].addr <= Payload(l[n]) /\ l[n].addr \in Nat /\ l[n].size \in Nat
      BY BlockFields, SizesAssumption, SMTT(30)
    <2>4. \A a \in B : a < Payload(l[n])
      <3>. SUFFICES ASSUME NEW a \in B PROVE a < Payload(l[n])
        OBVIOUS
      <3>1. PICK i \in 1..(n - 1) : a \in Payload(l[i])..(End(l[i]) - 1)
        BY DEF UsedBytes
      <3>2. i \in 1..Len(l) /\ i < n
        BY <1>1
      <3>3. End(l[i]) <= l[n].addr
        BY <3>2 DEF Apart
      <3>4. Payload(l[i]) \in Nat /\ End(l[i]) \in Nat
        BY <3>2, BlockFields
      <3>. QED  BY <2>3, <3>1, <3>3, <3>4, SMTT(30)
    <2>5. Cardinality(B) = f[n - 1] /\ f[n - 1] \in Nat
      BY <1>3, <1>7, <2>1
    <2>6. CASE l[n].is_free
      <3>1. C = B
        BY <2>1, <2>6 DEF UsedBytes
      <3>. QED  BY <1>4, <2>5, <2>6, <3>1
    <2>7. CASE ~l[n].is_free
      <3>1. C = B \cup (Payload(l[n])..(End(l[n]) - 1))
        BY <2>1, <2>3, <2>7, SMTT(30) DEF UsedBytes
      <3>2. Cardinality(C) = Cardinality(B) + (End(l[n]) - Payload(l[n]))
        <4>. HIDE DEF B, C
        <4>. QED  BY <2>2, <2>3, <2>4, <3>1, CutAt
      <3>3. f[n] = f[n - 1] + l[n].size
        BY <1>4, <2>7
      <3>. QED  BY <2>3, <2>5, <3>2, <3>3
    <2>. QED  BY <2>6, <2>7
  <1>. HIDE DEF P
  <1>8. Bad = {}
    <2>. SUFFICES ASSUME Bad # {} PROVE FALSE
      OBVIOUS
    <2>1. PICK n \in Bad : \A j \in Bad : n <= j
      <3>1. Bad \in SUBSET Nat
        OBVIOUS
      <3>. HIDE DEF Bad
      <3>. QED  BY <3>1, LeastIndex
    <2>2. n # 0 /\ n \in 0..Len(l) /\ n \in Nat
      BY <1>6
    <2>3. n \in 1..Len(l) /\ n - 1 \in 0..Len(l) /\ ~ (n <= n - 1)
      BY <2>2, <1>1
    <2>4. P(n - 1)
      BY <2>1, <2>3
    <2>5. P(n)
      BY <1>7, <2>3, <2>4
    <2>. QED  BY <2>5
  <1>9. Len(l) \in 0..Len(l)
    BY <1>1
  <1>10. P(Len(l))
    BY <1>8, <1>9
  <1>11. IsFiniteSet(UsedBytes(l, Len(l)))
    BY <1>5, <1>9, FiniteBelow
  <1>. QED  BY <1>3, <1>10, <1>11 DEF P

(* The bytes the clients asked for are different bytes of blocks in use.   *)
LEMMA AskedFit ==
    ASSUME MemInv
    PROVE  /\ IsFiniteSet(AskedBytes)
           /\ Cardinality(AskedBytes) <= SizeSum(list, Used(list))
  <1>. DEFINE T == UsedBytes(list, Len(list))
              f == [x \in AskedBytes |-> ptr[x[1]] + x[2]]
  <1>1. IsFiniteSet(T) /\ Cardinality(T) = SizeSum(list, Used(list))
    BY Types, UsedSum
  <1>2. ASSUME NEW x \in AskedBytes
        PROVE  /\ x[1] \in Clients /\ x[2] \in Nat /\ x = <<x[1], x[2]>>
               /\ asked[x[1]] \in Nat /\ x[2] < asked[x[1]]
               /\ ptr[x[1]] \in Nat /\ ptr[x[1]] # NULL
               /\ Holds(list, ptr[x[1]], asked[x[1]])
    <2>1. /\ x[1] \in Clients /\ x[2] \in Nat /\ x = <<x[1], x[2]>>
          /\ asked[x[1]] < SIZE_T /\ x[2] < asked[x[1]]
      BY DEF AskedBytes
    <2>2. asked[x[1]] \in Nat /\ ptr[x[1]] \in Nat
      BY <2>1, Types
    <2>3. ptr[x[1]] # NULL
      BY <2>1, <2>2 DEF MemInv
    <2>. QED  BY <2>1, <2>2, <2>3 DEF MemInv
  <1>3. ASSUME NEW x \in AskedBytes PROVE f[x] \in T
    <2>1. PICK i \in 1..Len(list) :
             /\ Payload(list[i]) = ptr[x[1]] /\ ~list[i].is_free
             /\ asked[x[1]] <= list[i].size
      BY <1>2 DEF Holds
    <2>2. /\ End(list[i]) = Payload(list[i]) + list[i].size
          /\ list[i].size \in Nat /\ Payload(list[i]) \in Nat
      BY Types, BlockFields
    <2>3. ptr[x[1]] + x[2] \in Payload(list[i])..(End(list[i]) - 1)
      BY <1>2, <2>1, <2>2
    <2>4. ptr[x[1]] + x[2] \in Nat
      BY <1>2
    <2>. QED  BY <2>1, <2>3, <2>4 DEF UsedBytes
  <1>4. ASSUME NEW x \in AskedBytes, NEW y \in AskedBytes, f[x] = f[y]
        PROVE  x = y
    <2>1. ptr[x[1]] + x[2] = ptr[y[1]] + y[2]
      BY <1>4
    <2>2. ptr[x[1]] = ptr[y[1]]
      <3>1. ptr[x[1]] # ptr[y[1]] =>
               \/ ptr[x[1]] + asked[x[1]] <= ptr[y[1]]
               \/ ptr[y[1]] + asked[y[1]] <= ptr[x[1]]
        BY <1>2, Types, HoldersApart
      <3>. QED  BY <1>2, <2>1, <3>1
    <2>3. x[1] = y[1]
      BY <1>2, <2>2 DEF MemInv
    <2>4. x[2] = y[2]
      BY <1>2, <2>1, <2>2
    <2>. QED  BY <1>2, <2>3, <2>4
  <1>5. f \in Injection(AskedBytes, T)
    BY <1>3, <1>4 DEF Injection, IsInjective
  <1>. HIDE DEF f, T
  <1>6. IsFiniteSet(AskedBytes) /\ Cardinality(AskedBytes) <= Cardinality(T)
    BY <1>1, <1>5, FS_Injection
  <1>. QED  BY <1>1, <1>6

(* The blocks in use and the clients that hold one are as many.            *)
LEMMA HoldersCounted ==
    ASSUME MemInv, InHands(list, ptr)
    PROVE  /\ Cardinality({c \in Clients : ptr[c] # NULL}) = Cardinality(Used(list))
           /\ Cardinality(Used(list)) = Len(list) - Cardinality(FreeBlocks)
  <1>. DEFINE H == {c \in Clients : ptr[c] # NULL}
              f == [c \in H |-> IndexOf(ptr[c])]
  <1>0. Len(list) \in Nat
    BY Types, LenProperties
  <1>1. ASSUME NEW c \in H
        PROVE  f[c] \in Used(list) /\ Payload(list[f[c]]) = ptr[c]
    <2>1. written[c] \in Nat /\ Holds(list, ptr[c], written[c])
      BY Types DEF MemInv
    <2>2. /\ IndexOf(ptr[c]) \in 1..Len(list) /\ ~list[IndexOf(ptr[c])].is_free
          /\ Payload(list[IndexOf(ptr[c])]) = ptr[c]
      BY <2>1, Types, IndexFinds
    <2>. QED  BY <2>2 DEF Used
  <1>2. ASSUME NEW c \in H, NEW d \in H, f[c] = f[d] PROVE c = d
    BY <1>1, <1>2 DEF MemInv
  <1>3. ASSUME NEW i \in Used(list) PROVE \E c \in H : f[c] = i
    <2>1. i \in 1..Len(list) /\ ~list[i].is_free
      BY DEF Used
    <2>2. PICK c \in Clients : ptr[c] = Payload(list[i])
      BY <2>1 DEF InHands
    <2>3. c \in H
      BY <2>1, <2>2, Types, BlockFields
    <2>4. f[c] \in 1..Len(list) /\ Payload(list[f[c]]) = Payload(list[i])
      BY <1>1, <2>2, <2>3 DEF Used
    <2>5. f[c] = i
      BY <2>1, <2>4, Types, OneBlock
    <2>. QED  BY <2>3, <2>5
  <1>4. f \in Bijection(H, Used(list))
    <2>1. f \in [H -> Used(list)]
      BY <1>1
    <2>. QED  BY <2>1, <1>2, <1>3 DEF Bijection, Injection, Surjection, IsInjective
  <1>5. IsFiniteSet(1..Len(list)) /\ Cardinality(1..Len(list)) = Len(list)
    <2>1. 1 \in Int /\ Len(list) \in Int
      BY <1>0
    <2>2. /\ IsFiniteSet(1..Len(list))
          /\ Cardinality(1..Len(list)) = IF 1 > Len(list) THEN 0 ELSE Len(list) - 1 + 1
      BY <2>1, FS_Interval
    <2>. QED  BY <1>0, <2>2
  <1>6. /\ IsFiniteSet(Used(list))
        /\ Cardinality(Used(list)) = Len(list) - Cardinality(FreeBlocks)
    <2>1. Used(list) = (1..Len(list)) \ FreeBlocks
      BY DEF Used, FreeBlocks
    <2>2. (1..Len(list)) \cap FreeBlocks = FreeBlocks
      BY DEF FreeBlocks
    <2>. QED  BY <1>5, <2>1, <2>2, FS_Difference, ZenonT(30)
  <1>. HIDE DEF f, H
  <1>7. Cardinality(H) = Cardinality(Used(list))
    <2>1. f \in Injection(H, Used(list)) /\ f \in Surjection(H, Used(list))
      BY <1>4 DEF Bijection
    <2>. QED  BY <1>6, <2>1, FS_Injection
  <1>. QED  BY <1>6, <1>7 DEF H

(* So the statistics are exact.                                            *)
LEMMA StatsFollow ==
    ASSUME MemInv, StatsInv
    PROVE  StatsExact
  <1>. DEFINE first == list[1].addr
              last == list[Len(list)].addr
              e == End(list[Len(list)])
              K == Between(list, foreign, e)
              between == IF list = <<>> THEN {}
                         ELSE {a \in foreign : a < last /\ a > first}
              after == {a \in foreign : a > last}
  <1>1. /\ Tiled(list, brk, foreign) /\ InHands(list, ptr)
        /\ foreign \subseteq 0..(brk - 1) /\ foreign \in SUBSET Nat
    BY DEF StatsInv, Tiled
  <1>2. META \in Nat /\ Len(list) \in Nat
    BY Types, LenProperties, SizesAssumption
  <1>3. /\ SizeSum(list, 1..Len(list))
             = SizeSum(list, FreeBlocks) + SizeSum(list, Used(list))
        /\ SizeSum(list, FreeBlocks) \in Nat /\ SizeSum(list, Used(list)) \in Nat
    <2>1. Used(list) = (1..Len(list)) \ FreeBlocks
      BY DEF Used, FreeBlocks
    <2>. QED  BY <2>1, Types, SumParts
  <1>4. Cardinality(AskedBytes) <= SizeSum(list, Used(list))
        /\ Cardinality(AskedBytes) \in Nat
    BY AskedFit, FS_CardinalityType
  <1>5. GetNumberOfAllocatedBlocks - GetNumberOfFreeBlocks
          = Cardinality({c \in Clients : ptr[c] # NULL})
    BY <1>1, HoldersCounted DEF GetNumberOfAllocatedBlocks, GetNumberOfFreeBlocks
  <1>6. CASE list = <<>>
    <2>1. Len(list) = 0 /\ SizeSum(list, 1..Len(list)) = 0
      <3>1. Len(list) = 0
        BY <1>6, EmptySeq
      <3>2. PICK f : Running(list, 1..Len(list), f)
        BY Types, SumRuns
      <3>. QED  BY <3>1, <3>2 DEF Running
    <2>2. GetNumberOfAllocatedBytes = 0 /\ Cardinality(between) = 0
      BY <1>6, FS_EmptySet DEF GetNumberOfAllocatedBytes
    <2>3. GetNumberOfAllocatedBytes - GetNumberOfFreeBytes >= Cardinality(AskedBytes)
      BY <1>3, <1>4, <2>1, <2>2 DEF GetNumberOfFreeBytes
    <2>. QED  BY <1>5, <1>6, <2>1, <2>2, <2>3 DEF StatsExact
  <1>7. CASE list # <<>>
    <2>1. Len(list) \in 1..Len(list) /\ 1 \in 1..Len(list) /\ Len(list) # 0
      BY <1>2, <1>7, Types, EmptySeq
    <2>2. /\ first \in Nat /\ last \in Nat /\ e \in Nat /\ last < e
          /\ e = last + META + list[Len(list)].size
          /\ list[Len(list)].size \in Nat
      BY <2>1, Types, BlockFields
    <2>3. e <= brk /\ brk \in Nat /\ first <= last
      <3>0. Apart(list, brk)
        BY Types
      <3>1. Len(list) # 1 => End(list[1]) <= last
        <4>1. \A n \in Nat : n # 0 /\ n # 1 => 1 < n
          OBVIOUS
        <4>2. Len(list) # 1 => 1 < Len(list)
          BY <1>2, <2>1, <4>1, Zenon
        <4>. QED  BY <2>1, <3>0, <4>2 DEF Apart
      <3>2. first < End(list[1]) /\ End(list[1]) \in Nat
        BY <2>1, Types, BlockFields
      <3>3. e <= brk /\ brk \in Nat
        BY <2>1, <3>0, Types DEF Apart
      <3>. QED  BY <2>1, <2>2, <3>1, <3>2, <3>3
    <2>4. /\ IsFiniteSet(K) /\ Cardinality(K) \in Nat
          /\ e - first = SizeSum(list, 1..Len(list)) + META * Len(list) + Cardinality(K)
      BY <1>1, <1>7, Types, Extent
    <2>0. \A a \in foreign : a \in Nat /\ (a < last \/ e <= a)
      BY <1>1, <2>1, Types, NotTaken
    <2>5. between = K
      <3>1. last \in Nat /\ e \in Nat /\ last <= e
        BY <2>2, SizesAssumption
      <3>2. ASSUME NEW a \in foreign PROVE a < e <=> a < last
        <4>. HIDE DEF last, e
        <4>1. a \in Nat /\ (a < last \/ e <= a)
          BY <2>0
        <4>. QED  BY <3>1, <4>1
      <3>. QED  BY <1>7, <3>2 DEF Between
    <2>6. after = e..(brk - 1)
      <3>1. ASSUME NEW a \in after PROVE a \in e..(brk - 1)
        <4>1. a \in foreign /\ a > last /\ a \in Nat /\ a \in 0..(brk - 1)
          BY <1>1
        <4>2. e <= a
          BY <2>0, <2>2, <4>1
        <4>. QED  BY <2>2, <2>3, <4>1, <4>2
      <3>2. ASSUME NEW a \in e..(brk - 1) PROVE a \in after
        <4>1. a \in 0..(brk - 1) /\ a \in Nat /\ last < a /\ e <= a
          BY <2>2, <2>3
        <4>2. ASSUME NEW i \in 1..Len(list), a \in list[i].addr..(End(list[i]) - 1)
              PROVE  FALSE
          <5>1. /\ End(list[i]) \in Nat /\ End(list[i]) <= e
                /\ list[i].addr \in Nat
            <6>1. End(list[i]) \in Nat /\ list[i].addr \in Nat
              BY Types, BlockFields
            <6>2. i = Len(list) \/ End(list[i]) <= last
              BY <1>2, <2>1, Types DEF Apart
            <6>. QED  BY <2>2, <6>1, <6>2
          <5>. QED  BY <4>1, <4>2, <5>1, <2>2
        <4>3. a \in foreign
          BY <1>1, <4>1, <4>2 DEF Tiled
        <4>. QED  BY <4>1, <4>3
      <3>. QED  BY <3>1, <3>2
    <2>7. Cardinality(after) = brk - e
      <3>1. e \in Int /\ brk - 1 \in Int
        BY <2>2, <2>3
      <3>2. Cardinality(e..(brk - 1)) = IF e > brk - 1 THEN 0 ELSE (brk - 1) - e + 1
        BY <3>1, FS_Interval
      <3>. HIDE DEF after, e
      <3>3. (IF e > brk - 1 THEN 0 ELSE (brk - 1) - e + 1) = brk - e
        BY <2>2, <2>3
      <3>. QED  BY <2>6, <3>2, <3>3
    <2>8. META * (Len(list) - 1) = META * Len(list) - META /\ META * Len(list) \in Nat
      BY <1>2
    <2>9. GetNumberOfAllocatedBytes = e - first - META * Len(list)
      <3>1. GetNumberOfAllocatedBytes
              = last - first + list[Len(list)].size - META * (Len(list) - 1)
        BY <1>7 DEF GetNumberOfAllocatedBytes
      <3>2. PICK x \in Nat, y \in Int :
               x = META * Len(list) /\ y = META * (Len(list) - 1)
        <4>1. META * Len(list) \in Nat /\ META * (Len(list) - 1) \in Int
          BY <1>2
        <4>. QED  BY <4>1
      <3>3. PICK s \in Nat : s = list[Len(list)].size
        BY <2>2
      <3>4. y = x - META /\ e = last + META + s
        BY <2>2, <2>8, <3>2, <3>3
      <3>5. GetNumberOfAllocatedBytes = last - first + s - y
        BY <3>1, <3>2, <3>3
      <3>. HIDE DEF first, last, e
      <3>6. GetNumberOfAllocatedBytes = e - first - x
        BY <1>2, <2>2, <3>4, <3>5, SMTT(30)
      <3>. QED  BY <3>2, <3>6
    <2>10. num_meta_data_bytes = META * Len(list)
      BY <1>2 DEF num_meta_data_bytes, GetNumberOfAllocatedBlocks
    <2>. HIDE DEF first, last, e, K, between, after
    <2>11. SizeSum(list, 1..Len(list)) \in Nat
      BY <1>3
    <2>12. GetNumberOfAllocatedBytes = SizeSum(list, 1..Len(list)) + Cardinality(K)
      BY <2>2, <2>4, <2>8, <2>9, <2>11, SMTT(30)
    <2>13. GetNumberOfAllocatedBytes + num_meta_data_bytes + Cardinality(after)
             = brk - first
      <3>1. PICK x \in Nat : x = META * Len(list)
        BY <2>8
      <3>2. /\ GetNumberOfAllocatedBytes = e - first - x
            /\ num_meta_data_bytes = x
        BY <2>9, <2>10, <3>1
      <3>. QED  BY <2>2, <2>3, <2>7, <3>2, SMTT(30)
    <2>14. GetNumberOfAllocatedBytes - GetNumberOfFreeBytes >= Cardinality(AskedBytes)
      BY <1>3, <1>4, <2>4, <2>12 DEF GetNumberOfFreeBytes
    <2>. QED  BY <1>5, <2>5, <2>12, <2>13, <2>14 DEF StatsExact, first, last, between, after
  <1>. QED  BY <1>6, <1>7

(* Marking a block moves no byte.                                          *)
LEMMA MarkTiled ==
    ASSUME NEW l \in Seq(Block), NEW b \in Nat, Apart(l, b),
           NEW i \in 1..Len(l), NEW f \in BOOLEAN, NEW taken, Tiled(l, b, taken)
    PROVE  LET k == Mark(l, i, f)
           IN  /\ Tiled(k, b, taken)
               /\ k \in Seq(Block) /\ Len(k) = Len(l) /\ k[i].is_free = f
               /\ \A j \in 1..Len(l) : Payload(k[j]) = Payload(l[j])
               /\ \A j \in 1..Len(l) : j # i => k[j].is_free = l[j].is_free
  <1>. DEFINE k == Mark(l, i, f)
  <1>1. /\ k \in Seq(Block) /\ Len(k) = Len(l)
        /\ \A j \in 1..Len(l) : j # i => k[j] = l[j]
        /\ k[i].addr = l[i].addr /\ k[i].size = l[i].size
        /\ k[i].is_free = f
    BY Marked
  <1>. HIDE DEF k
  <1>2. \A j \in 1..Len(l) : k[j].addr = l[j].addr /\ End(k[j]) = End(l[j])
                             /\ Payload(k[j]) = Payload(l[j])
    BY <1>1 DEF End, Payload
  <1>3. Tiled(k, b, taken)
    BY <1>1, <1>2 DEF Tiled
  <1>. QED  BY <1>1, <1>2, <1>3 DEF k

(* What Malloc returns: the bytes stay tiled, and the only block that was  *)
(* not in use before is the one it hands out.                              *)
Handed(r) ==
    /\ Tiled(r.list, r.brk, foreign)
    /\ \A i \in 1..Len(r.list) : ~r.list[i].is_free =>
          \/ Payload(r.list[i]) = r.p
          \/ \E j \in 1..Len(list) :
                ~list[j].is_free /\ Payload(list[j]) = Payload(r.list[i])

LEMMA MallocHanded ==
    ASSUME list \in Seq(Block), brk \in 0..HeapLimit, Apart(list, brk),
           Tiled(list, brk, foreign), NEW size \in Nat
    PROVE  Handed(Malloc(size))
  <1>0. brk \in Nat /\ META \in Nat /\ META > 0 /\ Len(list) \in Nat
    BY SizesAssumption, LenProperties
  <1>1. CASE Fits(list, size) # {}
    <2>. DEFINE i == FirstFit(list, size)
                k == Mark(list, i, FALSE)
                r == [list |-> k, brk |-> brk, p |-> Payload(list[i])]
    <2>1. i \in 1..Len(list)
      BY <1>1, FirstFitFits
    <2>2. Malloc(size) = r
      BY <1>1 DEF Malloc, Mark
    <2>. HIDE DEF i
    <2>3. /\ Tiled(k, brk, foreign) /\ Len(k) = Len(list)
          /\ \A j \in 1..Len(list) : Payload(k[j]) = Payload(list[j])
          /\ \A j \in 1..Len(list) : j # i => k[j].is_free = list[j].is_free
      <3>1. \A f \in BOOLEAN :
               /\ Tiled(Mark(list, i, f), brk, foreign)
               /\ Len(Mark(list, i, f)) = Len(list)
               /\ \A j \in 1..Len(list) :
                     Payload(Mark(list, i, f)[j]) = Payload(list[j])
               /\ \A j \in 1..Len(list) :
                     j # i => Mark(list, i, f)[j].is_free = list[j].is_free
        BY <1>0, <2>1, MarkTiled
      <3>. QED  BY <3>1, Zenon
    <2>. HIDE DEF k
    <2>4. r.list = k /\ r.brk = brk /\ r.p = Payload(list[i])
      OBVIOUS
    <2>. HIDE DEF r
    <2>5. ASSUME NEW j \in 1..Len(k), ~k[j].is_free
          PROVE  \/ Payload(k[j]) = Payload(list[i])
                 \/ \E h \in 1..Len(list) :
                       ~list[h].is_free /\ Payload(list[h]) = Payload(k[j])
      BY <2>3, <2>5
    <2>. QED  BY <2>2, <2>3, <2>4, <2>5 DEF Handed
  <1>2. CASE Fits(list, size) = {} /\ End(MallocMetadata(brk, size)) <= HeapLimit
    <2>. DEFINE e == MallocMetadata(brk, size)
                k == Append(list, e)
                r == [list |-> k, brk |-> End(e), p |-> Payload(e)]
                n == Len(list)
    <2>1. e.addr = brk /\ e.size = size /\ e \in Block /\ End(e) = brk + META + size
      BY <1>0 DEF MallocMetadata, Block, End
    <2>2. Malloc(size) = r
      BY <1>2 DEF Malloc
    <2>. HIDE DEF e
    <2>3. /\ k \in Seq(Block) /\ Len(k) = n + 1 /\ k[n + 1] = e
          /\ \A j \in 1..n : k[j] = list[j]
      BY <2>1, AppendProperties
    <2>. HIDE DEF k
    <2>4. r.list = k /\ r.brk = End(e) /\ r.p = Payload(e)
      OBVIOUS
    <2>. HIDE DEF r
    <2>5. 1..(n + 1) = (1..n) \cup {n + 1}
      BY <1>0
    <2>6. Tiled(k, End(e), foreign)
      <3>1. foreign \subseteq 0..(brk - 1) /\ foreign \subseteq 0..(End(e) - 1)
        BY <1>0, <2>1 DEF Tiled
      <3>2. ASSUME NEW a \in 0..(End(e) - 1)
            PROVE  a \in foreign <=>
                     ~ \E i \in 1..(n + 1) : a \in k[i].addr..(End(k[i]) - 1)
        <4>1. \A i \in 1..n : k[i].addr = list[i].addr /\ End(k[i]) = End(list[i])
          BY <2>3
        <4>2. CASE a \in 0..(brk - 1)
          <5>1. a \notin e.addr..(End(e) - 1)
            BY <1>0, <2>1, <4>2
          <5>2. a \in foreign <=>
                  ~ \E i \in 1..n : a \in list[i].addr..(End(list[i]) - 1)
            BY <4>2 DEF Tiled
          <5>. QED  BY <2>3, <2>5, <4>1, <5>1, <5>2
        <4>3. CASE a \notin 0..(brk - 1)
          <5>1. a \in e.addr..(End(e) - 1) /\ a \notin foreign
            BY <1>0, <2>1, <3>1, <4>3
          <5>. QED  BY <2>3, <2>5, <5>1
        <4>. QED  BY <4>2, <4>3
      <3>. QED  BY <2>3, <3>1, <3>2 DEF Tiled
    <2>7. ASSUME NEW j \in 1..Len(k), ~k[j].is_free
          PROVE  \/ Payload(k[j]) = Payload(e)
                 \/ \E h \in 1..Len(list) :
                       ~list[h].is_free /\ Payload(list[h]) = Payload(k[j])
      BY <2>3, <2>5, <2>7
    <2>. QED  BY <2>2, <2>4, <2>6, <2>7 DEF Handed
  <1>3. CASE Fits(list, size) = {} /\ ~(End(MallocMetadata(brk, size)) <= HeapLimit)
    BY <1>3 DEF Malloc, Handed
  <1>. QED  BY <1>1, <1>2, <1>3

(* A client gets what Malloc handed out.                                   *)
LEMMA GiveHanded ==
    ASSUME MemInv, StatsInv, NEW c \in Clients, ptr[c] = NULL,
           NEW r, NEW n, Handed(r), Give(c, r, n)
    PROVE  StatsInv'
  <1>1. /\ list' = r.list /\ brk' = r.brk /\ foreign' = foreign
        /\ ptr' = [ptr EXCEPT ![c] = r.p]
    BY DEF Give
  <1>2. Tiled(list', brk', foreign')
    BY <1>1 DEF Handed
  <1>3. ASSUME NEW i \in 1..Len(r.list), ~r.list[i].is_free
        PROVE  \E d \in Clients : ptr'[d] = Payload(r.list[i])
    <2>1. CASE Payload(r.list[i]) = r.p
      BY <1>1, <2>1, Types
    <2>2. ASSUME NEW j \in 1..Len(list), ~list[j].is_free,
                 Payload(list[j]) = Payload(r.list[i])
          PROVE  \E d \in Clients : ptr'[d] = Payload(r.list[i])
      <3>1. PICK d \in Clients : ptr[d] = Payload(list[j])
        BY <2>2 DEF StatsInv, InHands
      <3>2. d # c
        BY <3>1, Types, BlockFields
      <3>. QED  BY <1>1, <2>2, <3>1, <3>2, Types
    <2>. QED  BY <1>3, <2>1, <2>2 DEF Handed
  <1>4. InHands(list', ptr')
    BY <1>1, <1>3 DEF InHands
  <1>. QED  BY <1>2, <1>4 DEF StatsInv

(* The list l after the block of c's pointer is freed.                     *)
LEMMA FreeTiled ==
    ASSUME MemInv, NEW c \in Clients, ptr[c] # NULL,
           NEW l \in Seq(Block), NEW b \in Nat, Apart(l, b),
           Tiled(l, b, foreign),
           \A j \in 1..Len(list) :
              j \in 1..Len(l) /\ Payload(l[j]) = Payload(list[j])
    PROVE  LET k == Free(l, ptr[c])
           IN  /\ Tiled(k, b, foreign) /\ Len(k) = Len(l)
               /\ \A j \in 1..Len(l) : Payload(k[j]) = Payload(l[j])
               /\ \A j \in 1..Len(l) :
                     ~k[j].is_free => ~l[j].is_free /\ Payload(l[j]) # ptr[c]
  <1>. DEFINE k == Free(l, ptr[c])
  <1>1. written[c] \in Nat /\ Holds(list, ptr[c], written[c])
    BY Types DEF MemInv
  <1>2. PICK i \in 1..Len(list) : i = IndexOf(ptr[c]) /\ Payload(list[i]) = ptr[c]
    BY <1>1, Types, IndexFinds
  <1>3. i \in 1..Len(l) /\ Payload(l[i]) = ptr[c]
    BY <1>2
  <1>4. k = Mark(l, i, TRUE)
    BY <1>2 DEF Free, Mark
  <1>. HIDE DEF k
  <1>5. /\ Tiled(k, b, foreign) /\ Len(k) = Len(l) /\ k[i].is_free = TRUE
        /\ \A j \in 1..Len(l) : Payload(k[j]) = Payload(l[j])
        /\ \A j \in 1..Len(l) : j # i => k[j].is_free = l[j].is_free
    <2>1. \A f \in BOOLEAN :
             /\ Tiled(Mark(l, i, f), b, foreign) /\ Len(Mark(l, i, f)) = Len(l)
             /\ Mark(l, i, f)[i].is_free = f
             /\ \A j \in 1..Len(l) : Payload(Mark(l, i, f)[j]) = Payload(l[j])
             /\ \A j \in 1..Len(l) : j # i => Mark(l, i, f)[j].is_free = l[j].is_free
      BY <1>3, MarkTiled
    <2>. QED  BY <1>4, <2>1, Zenon
  <1>6. ASSUME NEW j \in 1..Len(l), ~k[j].is_free
        PROVE  ~l[j].is_free /\ Payload(l[j]) # ptr[c]
    <2>1. j # i
      BY <1>5, <1>6
    <2>2. Payload(l[j]) # Payload(l[i])
      BY <1>3, <2>1, OneBlock
    <2>. QED  BY <1>3, <1>5, <1>6, <2>1, <2>2
  <1>. QED  BY <1>5, <1>6 DEF k

(* sfree.                                                                  *)
LEMMA SfreeStats ==
    ASSUME MemInv, StatsInv, NEW c \in Clients, sfree(c)
    PROVE  StatsInv'
  <1>1. /\ ptr[c] # NULL /\ list' = Free(list, ptr[c])
        /\ ptr' = [ptr EXCEPT ![c] = NULL] /\ brk' = brk /\ foreign' = foreign
    BY DEF sfree
  <1>2. Tiled(list, brk, foreign) /\ InHands(list, ptr)
    BY DEF StatsInv
  <1>. DEFINE k == Free(list, ptr[c])
  <1>3. /\ Tiled(k, brk, foreign) /\ Len(k) = Len(list)
        /\ \A j \in 1..Len(list) : Payload(k[j]) = Payload(list[j])
        /\ \A j \in 1..Len(list) :
              ~k[j].is_free => ~list[j].is_free /\ Payload(list[j]) # ptr[c]
    BY <1>1, <1>2, Types, FreeTiled
  <1>. HIDE DEF k
  <1>4. ASSUME NEW i \in 1..Len(k), ~k[i].is_free
        PROVE  \E d \in Clients : ptr'[d] = Payload(k[i])
    <2>1. PICK d \in Clients : ptr[d] = Payload(list[i])
      BY <1>2, <1>3, <1>4 DEF InHands
    <2>2. d # c
      BY <1>3, <1>4, <2>1
    <2>. QED  BY <1>1, <1>3, <2>1, <2>2, Types
  <1>5. list' = k
    BY <1>1 DEF k
  <1>. QED  BY <1>1, <1>3, <1>4, <1>5 DEF StatsInv, InHands

(* srealloc that moves.                                                    *)
LEMMA MoveStats ==
    ASSUME MemInv, StatsInv, NEW c \in Clients, NEW size \in Requests,
           sreallocMove(c, size)
    PROVE  StatsInv'
  <1>. DEFINE r == Malloc(size)
              k == Free(r.list, ptr[c])
  <1>1. /\ ptr[c] # NULL /\ r.p # NULL /\ list' = k /\ brk' = r.brk
        /\ ptr' = [ptr EXCEPT ![c] = r.p] /\ foreign' = foreign
    BY DEF sreallocMove
  <1>2. size \in Nat
    BY Types
  <1>3. Tiled(list, brk, foreign) /\ InHands(list, ptr)
    BY DEF StatsInv
  <1>4. Got(r, size)
    <2>1. r # [list |-> list, brk |-> brk, p |-> NULL]
      BY <1>1
    <2>. QED  BY <1>2, <2>1, Types, MallocGot
  <1>5. Handed(r)
    BY <1>2, <1>3, Types, MallocHanded
  <1>. HIDE DEF r
  <1>6. /\ r.list \in Seq(Block) /\ r.brk \in Nat /\ Apart(r.list, r.brk)
        /\ \A j \in 1..Len(list) :
              j \in 1..Len(r.list) /\ Payload(r.list[j]) = Payload(list[j])
    <2>1. r.brk \in 0..HeapLimit
      BY <1>4 DEF Got
    <2>2. r.brk \in Nat
      BY <2>1, SizesAssumption
    <2>. QED  BY <1>4, <2>2 DEF Got
  <1>7. Tiled(r.list, r.brk, foreign)
    BY <1>5 DEF Handed
  <1>8. /\ Tiled(k, r.brk, foreign) /\ Len(k) = Len(r.list)
        /\ \A j \in 1..Len(r.list) : Payload(k[j]) = Payload(r.list[j])
        /\ \A j \in 1..Len(r.list) :
              ~k[j].is_free => ~r.list[j].is_free /\ Payload(r.list[j]) # ptr[c]
    BY <1>1, <1>6, <1>7, FreeTiled
  <1>. HIDE DEF k
  <1>9. ASSUME NEW i \in 1..Len(k), ~k[i].is_free
        PROVE  \E d \in Clients : ptr'[d] = Payload(k[i])
    <2>0. /\ i \in 1..Len(r.list) /\ ~r.list[i].is_free
          /\ Payload(r.list[i]) # ptr[c] /\ Payload(k[i]) = Payload(r.list[i])
      BY <1>8, <1>9
    <2>1. CASE Payload(r.list[i]) = r.p
      BY <1>1, <2>0, <2>1, Types
    <2>2. ASSUME NEW j \in 1..Len(list), ~list[j].is_free,
                 Payload(list[j]) = Payload(r.list[i])
          PROVE  \E d \in Clients : ptr'[d] = Payload(k[i])
      <3>1. PICK d \in Clients : ptr[d] = Payload(list[j])
        BY <1>3, <2>2 DEF InHands
      <3>2. d # c
        BY <2>0, <2>2, <3>1
      <3>. QED  BY <1>1, <2>0, <2>2, <3>1, <3>2, Types
    <2>. QED  BY <1>5, <2>0, <2>1, <2>2 DEF Handed
  <1>. QED  BY <1>1, <1>8, <1>9 DEF StatsInv, InHands

(* Another caller of sbrk.                                                 *)
LEMMA SbrkStats ==
    ASSUME MemInv, StatsInv, NEW n \in Requests, OtherSbrk(n)
    PROVE  StatsInv'
  <1>1. /\ foreign' = foreign \cup (brk..(brk + n - 1)) /\ brk' = brk + n
        /\ list' = list /\ ptr' = ptr
    BY DEF OtherSbrk, clientVars
  <1>2. n \in Nat /\ brk \in Nat
    BY Types
  <1>3. Tiled(list, brk, foreign)
    BY DEF StatsInv
  <1>4. ASSUME NEW a \in 0..(brk + n - 1)
        PROVE  a \in foreign' <=>
                 ~ \E i \in 1..Len(list) : a \in list[i].addr..(End(list[i]) - 1)
    <2>1. CASE a \in 0..(brk - 1)
      <3>1. a \notin brk..(brk + n - 1)
        BY <1>2, <2>1
      <3>. QED  BY <1>1, <1>3, <2>1, <3>1 DEF Tiled
    <2>2. CASE a \notin 0..(brk - 1)
      <3>1. a \in brk..(brk + n - 1) /\ a >= brk /\ a \in Nat
        BY <1>2, <2>2
      <3>2. ASSUME NEW i \in 1..Len(list) PROVE a \notin list[i].addr..(End(list[i]) - 1)
        <4>1. End(list[i]) <= brk /\ End(list[i]) \in Nat /\ list[i].addr \in Nat
          BY Types, BlockFields DEF Apart
        <4>. QED  BY <1>2, <3>1, <4>1
      <3>. QED  BY <1>1, <3>1, <3>2
    <2>. QED  BY <2>1, <2>2
  <1>5. foreign' \subseteq 0..(brk + n - 1)
    BY <1>1, <1>2, <1>3 DEF Tiled
  <1>6. Tiled(list', brk', foreign')
    <2>1. brk + n - 1 = (brk + n) - 1
      BY <1>2
    <2>2. Tiled(list, brk + n, foreign')
      BY <1>4, <1>5, <2>1, Zenon DEF Tiled
    <2>. QED  BY <1>1, <2>2, Zenon
  <1>. QED  BY <1>1, <1>6 DEF StatsInv, InHands

(* Every step keeps both invariants.                                       *)
LEMMA NextStats == MemInv /\ StatsInv /\ [Next]_vars => StatsInv'
  <1>. SUFFICES ASSUME MemInv, StatsInv, [Next]_vars PROVE StatsInv'
    OBVIOUS
  <1>0. list \in Seq(Block) /\ brk \in 0..HeapLimit /\ Apart(list, brk)
        /\ Tiled(list, brk, foreign) /\ Requests \subseteq Nat
    BY Types DEF StatsInv
  <1>1. CASE UNCHANGED <<list, brk, foreign, ptr>>
    BY <1>1 DEF StatsInv, Tiled, InHands
  <1>2. ASSUME NEW c \in Clients, NEW size \in Requests, smalloc(c, size)
        PROVE  StatsInv'
    <2>1. size \in Nat /\ ptr[c] = NULL /\ Give(c, Malloc(size), size)
      BY <1>0, <1>2 DEF smalloc
    <2>. QED  BY <1>0, <2>1, MallocHanded, GiveHanded
  <1>3. ASSUME NEW c \in Clients, NEW num \in Requests, NEW size \in Requests,
               scalloc(c, num, size)
        PROVE  StatsInv'
    <2>1. /\ num \in Nat /\ size \in Nat /\ num # 0 /\ size # 0 /\ ptr[c] = NULL
          /\ Give(c, Malloc((num * size) % SIZE_T), num * size)
      BY <1>0, <1>3 DEF scalloc
    <2>2. (num * size) % SIZE_T \in Nat
      BY <2>1, Product
    <2>. QED  BY <1>0, <2>1, <2>2, MallocHanded, GiveHanded
  <1>4. ASSUME NEW c \in Clients, NEW size \in Requests, sreallocInPlace(c, size)
        PROVE  StatsInv'
    BY <1>1, <1>4 DEF sreallocInPlace
  <1>5. ASSUME NEW c \in Clients, NEW size \in Requests, sreallocMove(c, size)
        PROVE  StatsInv'
    BY <1>5, MoveStats
  <1>6. ASSUME NEW c \in Clients, sfree(c) PROVE StatsInv'
    BY <1>6, SfreeStats
  <1>7. ASSUME NEW c \in Clients, Write(c) PROVE StatsInv'
    BY <1>1, <1>7 DEF Write
  <1>8. ASSUME NEW n \in Requests, OtherSbrk(n) PROVE StatsInv'
    BY <1>8, SbrkStats
  <1>. QED  BY <1>1, <1>2, <1>3, <1>4, <1>5, <1>6, <1>7, <1>8 DEF Next, vars

(* The four numbers of the statistics of malloc_2.cpp are exact, although  *)
(* the number of allocated bytes is computed from two addresses while      *)
(* others move the break: it is the sum of the sizes and what was taken in *)
(* between, and the blocks not free are the ones the clients hold.         *)
THEOREM StatsStayExact == Spec => []StatsExact
  <1>1. Init => StatsInv
    <2>. SUFFICES ASSUME Init PROVE StatsInv
      OBVIOUS
    <2>1. Len(list) = 0 /\ brk = 0 /\ foreign = {}
      BY EmptySeq DEF Init
    <2>. QED  BY <2>1 DEF StatsInv, Tiled, InHands
  <1>2. MemInv /\ StatsInv => StatsExact
    BY StatsFollow
  <1>. QED  BY <1>1, <1>2, MemInvHolds, NextStats, PTL DEF Spec
=============================================================================
