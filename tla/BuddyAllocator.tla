--------------------------- MODULE BuddyAllocator ---------------------------
(***************************************************************************)
(* The buddy allocator, hw4/wet/test2/malloc_3.cpp: a heap of equal blocks *)
(* that are halved for small requests and joined with their buddies when   *)
(* they are freed, one address-sorted list of free blocks per order, and a *)
(* list of mapped regions for the large requests.                          *)
(*                                                                         *)
(* Addresses count in units of START_SIZE from the start of the heap.  A   *)
(* header's size follows from its order; the cookies are never damaged by  *)
(* the allocator itself and are left out.  A header that became part of a  *)
(* joined block is dropped.  A call that changes nothing is no step: one   *)
(* that fails its size check, srealloc to a size the block has, and        *)
(* srealloc(NULL, size), which is smalloc(size).                           *)
(***************************************************************************)
EXTENDS Integers, Sequences, FiniteSets, SequencesExt, FiniteSetsExt

CONSTANTS
    Clients,               \* the holders of pointers, one each
    Requests,              \* the numbers they call with
    MAX_ORDER,
    Blocks,                \* the number of blocks of MAX_ORDER (32)
    START_SIZE,            \* the bytes of a block of order 0
    META,                  \* sizeof(MallocMetadata)
    MAX_SIZE_TO_ALLOCATE,
    SIZE_T,                \* the number of values of a size_t
    Maps                   \* the addresses mmap can return

(* pow2(i), 1 << i.                                                        *)
pow2[i \in Nat] == IF i = 0 THEN 1 ELSE 2 * pow2[i - 1]

ASSUME SizesAssumption ==
    /\ MAX_ORDER \in Nat /\ START_SIZE \in Nat /\ META \in Nat
    /\ 2 * META <= START_SIZE
    /\ Blocks \in {pow2[k] : k \in 1..5}
    /\ Requests \subseteq Nat
    /\ MAX_SIZE_TO_ALLOCATE \in Nat /\ MAX_SIZE_TO_ALLOCATE < SIZE_T
    /\ SIZE_T \in Nat
ASSUME MapsAssumption == Maps \subseteq {m \in Int : m < -1}

VARIABLES
    heap,     \* the headers, the free lists and the mapped regions
    ptr,      \* the pointer each client holds
    brk,      \* where the first call finds the break
    prog      \* the process: "running", "crashed" or "hung"

vars == <<heap, ptr, brk, prog>>

NULL == -1
Orders == 0..MAX_ORDER
MAX_SIZE == pow2[MAX_ORDER] * START_SIZE
Units == Blocks * pow2[MAX_ORDER]

(* The payload of a block.                                                 *)
Size(order) == pow2[order] * START_SIZE - META

(* addr ^ pow2(order) * START_SIZE.                                        *)
Buddy(addr, order) ==
    IF (addr \div pow2[order]) % 2 = 0 THEN addr + pow2[order]
                                       ELSE addr - pow2[order]

(* The header at an address; one that no block has is not free.            *)
Header(h, addr) ==
    IF addr \in DOMAIN h.meta THEN h.meta[addr]
    ELSE [order |-> 0, is_free |-> FALSE, next |-> NULL, prev |-> NULL]

(* head, which is set once: at the first call.                             *)
HasHead(h) == 0 \in DOMAIN h.meta

(* MemList().  fault names the first thing the allocator did that damages  *)
(* its heap; what it does with a damaged heap is not followed.             *)
Init ==
    /\ heap = [meta |-> <<>>, freed |-> [o \in Orders |-> <<>>],
               mmaps |-> <<>>, mapped |-> {}, fault |-> "none"]
    /\ ptr = [c \in Clients |-> NULL]
    /\ brk \in {"free", "aligned", "at_limit"}
    /\ prog = "running"

Fault(h, what) == [h EXCEPT !.fault = IF @ = "none" THEN what ELSE @]

-----------------------------------------------------------------------------
(* The free lists.                                                         *)

(* The first position with an element that is not less than addr, and with *)
(* one that is greater, or the end.                                        *)
lower_bound(list, addr) ==
    Min({i \in 1..Len(list) : list[i] >= addr} \cup {Len(list) + 1})
upper_bound(list, addr) ==
    Min({i \in 1..Len(list) : list[i] > addr} \cup {Len(list) + 1})

Inserted(list, addr) == InsertAt(list, lower_bound(list, addr), addr)

(* list::remove; the elements that are equal are side by side.             *)
Removed(list, addr) ==
    SubSeq(list, 1, lower_bound(list, addr) - 1)
        \o SubSeq(list, upper_bound(list, addr), Len(list))

(* freed has no list for an order above MAX_ORDER: see Overruns.           *)
AddToFreeOrder(h, addr, order) ==
    IF order \in Orders THEN [h EXCEPT !.freed[order] = Inserted(@, addr)]
    ELSE h

OrdersFor(h, size) == {o \in Orders : size <= Size(o) /\ h.freed[o] # <<>>}

GetFreeBlock(h, size) ==
    LET o == Min(OrdersFor(h, size))
    IN  [addr |-> Head(h.freed[o]), heap |-> [h EXCEPT !.freed[o] = Tail(@)]]

-----------------------------------------------------------------------------
(* Splitting and joining.                                                  *)

SetPrev(meta, addr, prev) ==
    IF addr \in DOMAIN meta THEN [meta EXCEPT ![addr].prev = prev] ELSE meta

(* Mutated forms, here and below, are definitions that no action uses: a   *)
(* bug that would break one of the properties.                             *)
HalvedOneWay(h, addr) ==
    LET m == h.meta[addr]
        buddy == Buddy(addr, m.order - 1)
        half == [order |-> m.order - 1, is_free |-> TRUE, next |-> m.next,
                 prev |-> addr]
        meta == [a \in DOMAIN h.meta \cup {buddy} |->
                    IF a = buddy THEN half
                    ELSE IF a = addr
                    THEN [m EXCEPT !.order = m.order - 1, !.next = buddy]
                    ELSE h.meta[a]]
    IN  AddToFreeOrder([h EXCEPT !.meta = meta], buddy, m.order - 1)

(* One round of SplitIfPossible: the upper half becomes a free block.      *)
Halved(h, addr) ==
    LET m == h.meta[addr]
        buddy == Buddy(addr, m.order - 1)
        half == [order |-> m.order - 1, is_free |-> TRUE, next |-> m.next,
                 prev |-> addr]
        meta == [a \in DOMAIN h.meta \cup {buddy} |->
                    IF a = buddy THEN half
                    ELSE IF a = addr
                    THEN [m EXCEPT !.order = m.order - 1, !.next = buddy]
                    ELSE h.meta[a]]
    IN  AddToFreeOrder([h EXCEPT !.meta = SetPrev(meta, m.next, buddy)],
                       buddy, m.order - 1)

Splits(h, addr, size) ==
    LET order == h.meta[addr].order
    IN  order > 0 /\ (Size(order) - META) \div 2 >= size

SplitRound(h, addr, size) ==
    IF Splits(h, addr, size) THEN Halved(h, addr) ELSE h

(* A round lowers the order: there are no more rounds than orders.         *)
SplitIfPossible(h, addr, size) ==
    LET rounds == h.meta[addr].order
        Round[n \in 0..rounds] ==
            IF n = 0 THEN h ELSE SplitRound(Round[n - 1], addr, size)
    IN  [Round[rounds] EXCEPT !.meta[addr].is_free = FALSE]

(* One round of UnionIfPossible and of SreallocUnion.  The orders of the   *)
(* two blocks are not compared.                                            *)
Joined(h, addr, buddy) ==
    LET lo == IF buddy > addr THEN addr ELSE buddy
        hi == IF buddy > addr THEN buddy ELSE addr
        next == h.meta[hi].next
        order == h.meta[buddy].order
        meta == [a \in DOMAIN h.meta \ {hi} |->
                    IF a = lo THEN [h.meta[lo] EXCEPT !.next = next,
                                       !.order = h.meta[lo].order + 1,
                                       !.is_free = TRUE]
                    ELSE h.meta[a]]
        joined == [h EXCEPT !.meta = SetPrev(meta, next, lo),
                            !.freed[order] = Removed(Removed(@, buddy), addr)]
    IN  IF h.meta[addr].order = order THEN joined
        ELSE Fault(joined, "joined_unequal")

JoinableOneLess(h, buddy) ==
    Header(h, buddy).is_free /\ Header(h, buddy).order < MAX_ORDER - 1

Joinable(h, buddy) ==
    Header(h, buddy).is_free /\ Header(h, buddy).order < MAX_ORDER

(* s is the block the loop is at, with the heap; the loop of SreallocUnion *)
(* ends at an order that is enough.                                        *)
BuddyOf(s) == Buddy(s.addr, s.heap.meta[s.addr].order)

Unites(s, enough) ==
    Joinable(s.heap, BuddyOf(s)) /\ s.heap.meta[s.addr].order \notin enough

UnionRound(s, enough) ==
    IF Unites(s, enough)
    THEN [heap |-> Joined(s.heap, s.addr, BuddyOf(s)),
          addr |-> IF BuddyOf(s) > s.addr THEN s.addr ELSE BuddyOf(s)]
    ELSE s

(* A round takes a header away: there are fewer rounds than headers.       *)
United(h, addr, enough) ==
    LET rounds == Cardinality(DOMAIN h.meta)
        Round[n \in 0..rounds] ==
            IF n = 0 THEN [heap |-> h, addr |-> addr]
            ELSE UnionRound(Round[n - 1], enough)
    IN  Round[rounds]

UnionIfPossible(h, addr) ==
    LET s == United(h, addr, {})
    IN  AddToFreeOrder([s.heap EXCEPT !.meta[s.addr].is_free = TRUE], s.addr,
                       s.heap.meta[s.addr].order)

(* CheckIfUnionIsPossible: the answers that the loop over copies of the    *)
(* headers can give.  Where the buddy is the lower one its header is read  *)
(* again, without the order that was counted up, and the next buddy is     *)
(* computed from addr: the loop can come back to where it was, or read     *)
(* bytes that are no header, inside a block or after the heap.  From addr  *)
(* on these can be anything; from a lower buddy the order stays below the  *)
(* one it was found at, so what they are, the loop does not end with yes.  *)
At(addr, block, order) ==
    [addr |-> block, order |-> order, buddy |-> Buddy(addr, order)]

Checks(h, at, size) == Size(at.order) < size /\ Joinable(h, at.buddy)

CheckRound(h, addr, size, at) ==
    IF ~Checks(h, at, size) THEN at
    ELSE IF at.buddy > at.addr THEN At(addr, at.addr, at.order + 1)
    ELSE At(addr, at.buddy, h.meta[at.buddy].order)

(* The order rises from round to round, up to the order of the heap, until *)
(* the loop reads the header of a block again; from there it repeats after *)
(* as many rounds at most.  The heap has at most five orders above         *)
(* MAX_ORDER.                                                              *)
CheckRounds == 2 * (MAX_ORDER + 6)

(* The order of the copy is not counted up: the same buddy again.          *)
CheckUncounted(h, addr, size) ==
    LET order == h.meta[addr].order
    IN  IF Joinable(h, Buddy(addr, order)) THEN {"loops"} ELSE {"no"}

CheckIfUnionIsPossible(h, addr, size) ==
    LET Round[n \in 0..CheckRounds] ==
            IF n = 0 THEN At(addr, addr, h.meta[addr].order)
            ELSE CheckRound(h, addr, size, Round[n - 1])
        at == Round[CheckRounds]
    IN  IF Size(at.order) >= size
        THEN {"yes"} \cup (IF at.buddy < Units THEN {} ELSE {"exits"})
        ELSE IF at.buddy \notin DOMAIN h.meta
        THEN {"no", "exits"} \cup (IF at.addr = addr THEN {"yes"} ELSE {"loops"})
        ELSE IF Joinable(h, at.buddy) THEN {"loops"} ELSE {"no"}

(* SreallocUnion ends by listing the buddy it stopped at as free.          *)
SreallocUnion(h, addr, size) ==
    LET s == United(h, addr, {o \in Nat : Size(o) >= size})
        order == s.heap.meta[s.addr].order
    IN  [addr |-> s.addr,
         heap |-> Fault(AddToFreeOrder([s.heap EXCEPT
                            !.meta[s.addr].is_free = FALSE], BuddyOf(s), order),
                        "listed_buddy")]

-----------------------------------------------------------------------------
(* Malloc and Free.                                                        *)

(* The first call lays out the heap.                                       *)
Starts == [k \in 1..Blocks |-> (k - 1) * pow2[MAX_ORDER]]

Prepared(h) ==
    LET meta == [a \in ToSet(Starts) |->
                    [order |-> MAX_ORDER, is_free |-> TRUE,
                     next |-> IF a = Starts[Blocks] THEN NULL
                              ELSE a + pow2[MAX_ORDER],
                     prev |-> IF a = 0 THEN NULL ELSE a - pow2[MAX_ORDER]]]
    IN  IF HasHead(h) THEN h
        ELSE [h EXCEPT !.meta = meta, !.freed[MAX_ORDER] = Starts]

Mapped(h, size) ==
    LET m == CHOOSE m \in Maps : m \notin h.mapped
    IN  IF Maps \subseteq h.mapped THEN [p |-> NULL, heap |-> h]
        ELSE [p |-> m,
              heap |-> [h EXCEPT !.mapped = @ \cup {m},
                            !.mmaps = Append(@, [addr |-> m, size |-> size])]]

Malloc(h0, size) ==
    LET h == Prepared(h0)
        free == GetFreeBlock(h, size)
    IN  IF size = 0 \/ size > MAX_SIZE_TO_ALLOCATE THEN [p |-> NULL, heap |-> h]
        ELSE IF size >= MAX_SIZE THEN Mapped(h, size)
        ELSE IF OrdersFor(h, size) = {} THEN [p |-> NULL, heap |-> h]
        ELSE [p |-> free.addr,
              heap |-> SplitIfPossible(free.heap, free.addr, size)]

(* The first region in the list is unlinked and stays mapped.              *)
Unmapped(h, p) ==
    LET i == CHOOSE i \in 1..Len(h.mmaps) : h.mmaps[i].addr = p
    IN  [h EXCEPT !.mmaps = RemoveAt(@, i),
                  !.mapped = IF i = 1 THEN @ ELSE @ \ {p}]

Free(h, p) == IF p \in Maps THEN Unmapped(h, p) ELSE UnionIfPossible(h, p)

-----------------------------------------------------------------------------
Usable == prog = "running" /\ heap.fault = "none"

(* A block was joined to an order above MAX_ORDER, and AddToFreeOrder has  *)
(* used what lies behind the lists as one: the cookie as a pointer.        *)
Overruns(h) == \E a \in DOMAIN h.meta : h.meta[a].order > MAX_ORDER

After(h) == IF Overruns(h) THEN "crashed" ELSE "running"

(* A call to Malloc.  The first one writes to the heap without having      *)
(* moved the break when the break was aligned, or sbrk failed.             *)
Call(c, size) ==
    /\ Usable /\ ptr[c] = NULL
    /\ \/ /\ ~HasHead(heap) /\ brk # "free"
          /\ prog' = "crashed"
          /\ UNCHANGED <<heap, ptr>>
       \/ /\ HasHead(heap) \/ brk = "free"
          /\ LET r == Malloc(heap, size) IN
                heap' = r.heap /\ ptr' = [ptr EXCEPT ![c] = r.p]
          /\ UNCHANGED prog
    /\ UNCHANGED brk

smalloc(c, size) == Call(c, size)

scalloc(c, num, size) ==
    /\ num # 0 /\ size # 0
    /\ (num * size) % SIZE_T <= MAX_SIZE_TO_ALLOCATE
    /\ Call(c, (num * size) % SIZE_T)

sfree(c) ==
    /\ Usable /\ ptr[c] # NULL
    /\ heap' = Free(heap, ptr[c])
    /\ ptr' = [ptr EXCEPT ![c] = NULL]
    /\ prog' = After(heap')
    /\ UNCHANGED brk

(* A pointer freed twice in a row, where its block kept its header, or a   *)
(* region: the list is searched for it and followed past its end.          *)
sfreeAgain(c) ==
    LET h == Free(heap, ptr[c]) IN
    /\ Usable
    /\ \/ /\ ptr[c] \in DOMAIN heap.meta /\ ptr[c] \in DOMAIN h.meta
          /\ ~Overruns(h)
          /\ heap' = Fault(Free(h, ptr[c]), "freed_twice")
          /\ ptr' = [ptr EXCEPT ![c] = NULL]
          /\ UNCHANGED prog
       \/ /\ ptr[c] \in Maps
          /\ heap' = Fault(h, "freed_twice")
          /\ prog' = "crashed"
          /\ UNCHANGED ptr
    /\ UNCHANGED brk

SizeOf(p) == IF p \in Maps
             THEN (CHOOSE m \in ToSet(heap.mmaps) : m.addr = p).size
             ELSE Size(heap.meta[p].order)

(* MemList::Srealloc to a size the block does not have.  A mapped region   *)
(* has the order -1, and 1 << -1 makes it its own buddy.                   *)
srealloc(c, size) ==
    LET p == ptr[c]
        checks == IF p \in Maps THEN {"no"}
                  ELSE CheckIfUnionIsPossible(heap, p, size)
        grown == SreallocUnion(heap, p, size)
        r == Malloc(heap, size)
    IN  /\ Usable /\ p # NULL
        /\ size <= MAX_SIZE_TO_ALLOCATE /\ SizeOf(p) < size
        /\ \/ /\ "loops" \in checks
              /\ prog' = "hung"
              /\ UNCHANGED <<heap, ptr>>
           \/ /\ "exits" \in checks
              /\ prog' = "crashed"
              /\ UNCHANGED <<heap, ptr>>
           \/ /\ "yes" \in checks
              /\ heap' = grown.heap
              /\ ptr' = [ptr EXCEPT ![c] = grown.addr]
              /\ prog' = After(heap')
           \/ /\ "no" \in checks /\ r.p # NULL
              /\ heap' = Free(r.heap, p)
              /\ ptr' = [ptr EXCEPT ![c] = r.p]
              /\ prog' = After(heap')
        /\ UNCHANGED brk

Next ==
    \E c \in Clients :
        \/ sfree(c) \/ sfreeAgain(c)
        \/ \E size \in Requests : smalloc(c, size) \/ srealloc(c, size)
        \/ \E num, size \in Requests : scalloc(c, num, size)

Spec == Init /\ [][Next]_vars

-----------------------------------------------------------------------------
(* The statistics walk the list of all blocks from head.                   *)

Chain ==
    LET Walk[n \in 0..Units] ==
            IF n = 0 THEN IF HasHead(heap) THEN <<0>> ELSE <<>>
            ELSE LET walked == Walk[n - 1]
                     next == IF walked = <<>> THEN NULL
                             ELSE Header(heap, Last(walked)).next
                 IN  IF next = NULL THEN walked ELSE Append(walked, next)
    IN  Walk[Units]

ChainFree == {a \in ToSet(Chain) : Header(heap, a).is_free}
MapBytes == MapThenSumSet(LAMBDA i : heap.mmaps[i].size, 1..Len(heap.mmaps))

GetNumberOfFreeBlocks == Cardinality(ChainFree)
GetNumberOfFreeBytes ==
    MapThenSumSet(LAMBDA a : Size(heap.meta[a].order), ChainFree)
GetNumberOfAllocatedBlocks == Len(Chain) + Len(heap.mmaps)
GetNumberOfAllocatedBytes ==
    IF Chain = <<>> THEN 0
    ELSE Last(Chain) * START_SIZE + Size(heap.meta[Last(Chain)].order)
             - META * (Len(Chain) - 1) + MapBytes

-----------------------------------------------------------------------------
Held == {ptr[c] : c \in Clients} \ {NULL}
Span(meta, addr) == addr..(addr + pow2[meta[addr].order] - 1)

(* The blocks are aligned and tile the heap, and the list of all blocks    *)
(* has them in the order of their addresses, both ways.                    *)
Tiles(meta) ==
    \A a \in DOMAIN meta :
        LET end == a + pow2[meta[a].order]
        IN  /\ a % pow2[meta[a].order] = 0
            /\ meta[a].next = IF end = Units THEN NULL ELSE end
            /\ end # Units => end \in DOMAIN meta /\ meta[end].prev = a
            /\ \A b \in DOMAIN meta \ {a} : b \notin Span(meta, a)

(* The free lists hold the free blocks, each once and sorted ...           *)
ListsFree(h) ==
    \A o \in Orders :
        /\ ToSet(h.freed[o]) = {a \in DOMAIN h.meta :
                                    h.meta[a].is_free /\ h.meta[a].order = o}
        /\ \A i, j \in 1..Len(h.freed[o]) :
              i < j => h.freed[o][i] < h.freed[o][j]

(* ... and every other block, and every region in the list, is held.       *)
IsHeld(h, held) ==
    /\ {a \in DOMAIN h.meta : ~h.meta[a].is_free} = held \ Maps
    /\ {m.addr : m \in ToSet(h.mmaps)} = held \cap Maps
    /\ held \cap Maps \subseteq h.mapped

(* No block or region is in the hands of two clients.                      *)
OneHolder == \A c, d \in Clients : ptr[c] # NULL /\ ptr[c] = ptr[d] => c = d

Consistent ==
    Tiles(heap.meta) /\ ListsFree(heap) /\ IsHeld(heap, Held) /\ OneHolder

(* The heap is consistent through every sequence of calls, until one of    *)
(* three things happens, and then it is not: sfree joins blocks of         *)
(* different orders, srealloc grows a block in place, or a block or region *)
(* is freed twice.                                                         *)
ConsistentExactlyUntil == heap.fault = "none" <=> Consistent

(* As long as the heap is consistent no two free blocks are buddies, so    *)
(* after all blocks are freed the heap is as it was at the start.          *)
FullyJoined ==
    heap.fault = "none" => \A a, b \in DOMAIN heap.meta :
        LET o == heap.meta[a].order
        IN  ~ (/\ heap.meta[a].is_free /\ heap.meta[b].is_free
               /\ o < MAX_ORDER /\ heap.meta[b].order = o /\ b = Buddy(a, o))

(* What can end the process or hang it, for clients that keep to their     *)
(* blocks: the first call found the break aligned or sbrk failed; srealloc *)
(* met a free buddy that is below its block or has another order; blocks   *)
(* of different orders were joined to one larger than the largest; or a    *)
(* region was freed twice.  As long as equal blocks are joined, no order   *)
(* is above MAX_ORDER and no search leaves the heap or goes round.         *)
StopsOnly ==
    prog # "running" =>
        \/ prog = "crashed" /\ brk # "free" /\ ~HasHead(heap)
        \/ \E a \in Held \cap DOMAIN heap.meta, o \in Orders :
              LET b == Buddy(a, o)
              IN  Joinable(heap, b) /\ (b < a \/ Header(heap, b).order # o)
        \/ prog = "crashed" /\ heap.fault = "joined_unequal" /\ Overruns(heap)
        \/ /\ prog = "crashed" /\ heap.fault = "freed_twice"
           /\ \E p \in Held \cap Maps : \A m \in ToSet(heap.mmaps) : m.addr # p

(* What verify_block_by_order of the tests computes: the blocks reported   *)
(* are the free ones and the ones in use, and so are the bytes.            *)
StatsAccounted ==
    prog = "running" =>
    /\ GetNumberOfAllocatedBlocks = GetNumberOfFreeBlocks + Cardinality(Held)
    /\ GetNumberOfAllocatedBytes =
          GetNumberOfFreeBytes + MapThenSumSet(SizeOf, Held)
=============================================================================
