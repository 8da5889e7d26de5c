------------------------------ MODULE MemList ------------------------------
(***************************************************************************)
(* The list allocator, hw4/wet/test2/malloc_2.cpp: blocks cut from the     *)
(* program break one after the other and never given back, each behind a   *)
(* header, and reused by the first request that fits.                      *)
(*                                                                         *)
(* The list of headers is a sequence: next of a block is the block after   *)
(* it, and no operation unlinks one.  A call that returns NULL at its size *)
(* check changes nothing and is no step here, and srealloc(NULL, size) is  *)
(* smalloc(size).  A client is a holder of one pointer.                    *)
(***************************************************************************)
EXTENDS Integers, Sequences, FiniteSets

CONSTANTS
    Clients,               \* the holders of pointers
    Nobody,                \* wrote the bytes no client has written
    Requests,              \* the numbers the clients call with
    META,                  \* sizeof(MallocMetadata)
    MAX_SIZE_TO_ALLOCATE,
    SIZE_T,                \* the number of values of a size_t
    HeapLimit              \* sbrk fails when the break would pass it

ASSUME ClientsAssumption == Nobody \notin Clients
ASSUME SizesAssumption ==
    /\ Requests \subseteq Nat
    /\ META \in Nat \ {0} /\ SIZE_T \in Nat \ {0} /\ HeapLimit \in Nat
    /\ MAX_SIZE_TO_ALLOCATE \in Nat /\ MAX_SIZE_TO_ALLOCATE < SIZE_T

VARIABLES
    list,     \* the blocks from head on
    brk,      \* the program break, counted from where it was at the start
    foreign,  \* the bytes that other callers of sbrk took
    ptr,      \* the pointer each client holds
    asked,    \* the bytes it asked for
    written,  \* the bytes it has written since
    mem       \* the client that last wrote to each byte

clientVars == <<ptr, asked, written>>
vars == <<list, brk, foreign, ptr, asked, written, mem>>

(* The first header is at 0, so no pointer to a payload is.                *)
NULL == 0

Init ==
    /\ list = <<>> /\ brk = 0 /\ foreign = {}
    /\ ptr = [c \in Clients |-> NULL]
    /\ asked = [c \in Clients |-> 0]
    /\ written = [c \in Clients |-> 0]
    /\ mem = [a \in 0..(HeapLimit - 1) |-> Nobody]

-----------------------------------------------------------------------------
(* MemList::Malloc and MemList::Free.                                      *)

MallocMetadata(addr, size) == [addr |-> addr, size |-> size, is_free |-> FALSE]

Payload(b) == b.addr + META
End(b) == b.addr + META + b.size

(* Mutated forms, here and below, are definitions that no action uses: a   *)
(* bug that would break one of the properties.                             *)
FitsWithHeader(l, size) ==
    {i \in 1..Len(l) : l[i].is_free /\ size <= l[i].size + META}

(* The free blocks that are large enough.                                  *)
Fits(l, size) == {i \in 1..Len(l) : l[i].is_free /\ size <= l[i].size}

FirstFit(l, size) ==
    CHOOSE i \in Fits(l, size) : \A j \in Fits(l, size) : i <= j

(* What sbrk returned is not compared with -1.                             *)
MallocUnchecked(size) ==
    LET i == FirstFit(list, size)
        at == IF brk + META + size <= HeapLimit THEN brk ELSE -1
        block == MallocMetadata(at, size)
    IN  IF Fits(list, size) # {}
        THEN [list |-> [list EXCEPT ![i].is_free = FALSE], brk |-> brk,
              p |-> Payload(list[i])]
        ELSE [list |-> Append(list, block), p |-> Payload(block),
              brk |-> IF at = -1 THEN brk ELSE End(block)]

(* The first block that fits, or a new one at the break; NULL when sbrk    *)
(* fails.                                                                  *)
Malloc(size) ==
    LET i == FirstFit(list, size)
        block == MallocMetadata(brk, size)
    IN  CASE Fits(list, size) # {} ->
               [list |-> [list EXCEPT ![i].is_free = FALSE], brk |-> brk,
                p |-> Payload(list[i])]
          [] Fits(list, size) = {} /\ End(block) <= HeapLimit ->
               [list |-> Append(list, block), brk |-> End(block),
                p |-> Payload(block)]
          [] OTHER -> [list |-> list, brk |-> brk, p |-> NULL]

(* The header in front of a payload.                                       *)
IndexOf(p) == CHOOSE i \in 1..Len(list) : Payload(list[i]) = p
BlockOf(c) == list[IndexOf(ptr[c])]

Free(l, p) == [l EXCEPT ![IndexOf(p)].is_free = TRUE]

(* memmove and memset.                                                     *)
Copied(from, to, n) ==
    [a \in DOMAIN mem |-> IF a \in to..(to + n - 1) THEN mem[from + (a - to)]
                                                     ELSE mem[a]]
Filled(to, n, c) ==
    [a \in DOMAIN mem |-> IF a \in to..(to + n - 1) THEN c ELSE mem[a]]

-----------------------------------------------------------------------------
(* The client c gets the block r that Malloc returned, or NULL.            *)
Give(c, r, n) ==
    /\ list' = r.list /\ brk' = r.brk
    /\ ptr' = [ptr EXCEPT ![c] = r.p]
    /\ asked' = [asked EXCEPT ![c] = IF r.p = NULL THEN 0 ELSE n]
    /\ UNCHANGED <<foreign, written>>

smalloc(c, size) ==
    /\ ptr[c] = NULL
    /\ size # 0 /\ size <= MAX_SIZE_TO_ALLOCATE
    /\ Give(c, Malloc(size), size)
    /\ UNCHANGED mem

(* num * size is computed modulo SIZE_T; the client has asked for what the *)
(* product really is.                                                      *)
scalloc(c, num, size) ==
    /\ ptr[c] = NULL
    /\ num # 0 /\ size # 0
    /\ LET total_size == (num * size) % SIZE_T
           r == Malloc(total_size)
       IN  /\ total_size <= MAX_SIZE_TO_ALLOCATE
           /\ Give(c, r, num * size)
           /\ mem' = IF r.p = NULL THEN mem ELSE Filled(r.p, total_size, Nobody)

(* The client gives its pointer back.  A second sfree of it, before the    *)
(* block is reused, sets is_free again and changes nothing.                *)
sfree(c) ==
    /\ ptr[c] # NULL
    /\ list' = Free(list, ptr[c])
    /\ ptr' = [ptr EXCEPT ![c] = NULL]
    /\ asked' = [asked EXCEPT ![c] = 0]
    /\ written' = [written EXCEPT ![c] = 0]
    /\ UNCHANGED <<brk, foreign, mem>>

(* srealloc to a size the block has: the pointer stays.                    *)
sreallocInPlace(c, size) ==
    /\ ptr[c] # NULL
    /\ size # 0 /\ size <= BlockOf(c).size
    /\ asked' = [asked EXCEPT ![c] = size]
    /\ written' = [written EXCEPT ![c] = IF @ <= size THEN @ ELSE size]
    /\ UNCHANGED <<list, brk, foreign, ptr, mem>>

sreallocUncopied(c, size) ==
    /\ ptr[c] # NULL
    /\ BlockOf(c).size < size /\ size <= MAX_SIZE_TO_ALLOCATE
    /\ LET r == Malloc(size) IN
          /\ r.p # NULL
          /\ list' = Free(r.list, ptr[c]) /\ brk' = r.brk
          /\ ptr' = [ptr EXCEPT ![c] = r.p]
    /\ asked' = [asked EXCEPT ![c] = size]
    /\ UNCHANGED <<foreign, written, mem>>

(* srealloc to a larger size: a new block, the contents of the old one,    *)
(* and the old block is free.  When Malloc fails the client keeps its      *)
(* block, and nothing changes.                                             *)
sreallocMove(c, size) ==
    /\ ptr[c] # NULL
    /\ BlockOf(c).size < size /\ size <= MAX_SIZE_TO_ALLOCATE
    /\ LET r == Malloc(size) IN
          /\ r.p # NULL
          /\ list' = Free(r.list, ptr[c]) /\ brk' = r.brk
          /\ ptr' = [ptr EXCEPT ![c] = r.p]
          /\ mem' = Copied(ptr[c], r.p, BlockOf(c).size)
    /\ asked' = [asked EXCEPT ![c] = size]
    /\ UNCHANGED <<foreign, written>>

(* A client writes to all of the bytes it asked for, when its block has    *)
(* them.                                                                   *)
Write(c) ==
    /\ ptr[c] # NULL /\ asked[c] <= BlockOf(c).size
    /\ mem' = Filled(ptr[c], asked[c], c)
    /\ written' = [written EXCEPT ![c] = asked[c]]
    /\ UNCHANGED <<list, brk, foreign, ptr, asked>>

(* Another part of the process moves the break, as the C library does.     *)
OtherSbrk(n) ==
    /\ n # 0 /\ brk + n <= HeapLimit
    /\ foreign' = foreign \cup (brk..(brk + n - 1))
    /\ brk' = brk + n
    /\ UNCHANGED <<list, clientVars, mem>>

-----------------------------------------------------------------------------
Next ==
    \/ \E c \in Clients :
          \/ \E size \in Requests : \/ smalloc(c, size)
                                    \/ sreallocInPlace(c, size)
                                    \/ sreallocMove(c, size)
          \/ \E num, size \in Requests : scalloc(c, num, size)
          \/ sfree(c) \/ Write(c)
    \/ \E n \in Requests : OtherSbrk(n)

Spec == Init /\ [][Next]_vars

-----------------------------------------------------------------------------
(* The statistics.                                                         *)

(* The sizes of the blocks in S, added up from head on.                    *)
SizeSum(l, S) ==
    LET bytes_count[i \in 0..Len(l)] ==
            IF i = 0 THEN 0
            ELSE bytes_count[i - 1] + (IF i \in S THEN l[i].size ELSE 0)
    IN  bytes_count[Len(l)]

FreeBlocks == {i \in 1..Len(list) : list[i].is_free}

GetNumberOfFreeBlocks == Cardinality(FreeBlocks)
GetNumberOfFreeBytes == SizeSum(list, FreeBlocks)
GetNumberOfAllocatedBlocks == Len(list)

AllocatedBytesOneHeader ==
    IF list = <<>> THEN 0
    ELSE LET last == list[Len(list)]
         IN  last.addr - list[1].addr + last.size - META * Len(list)

(* From the first header to the end of the last block, less the headers in *)
(* between.                                                                *)
GetNumberOfAllocatedBytes ==
    IF list = <<>> THEN 0
    ELSE LET last == list[Len(list)]
         IN  last.addr - list[1].addr + last.size - META * (Len(list) - 1)

num_meta_data_bytes == GetNumberOfAllocatedBlocks * META

-----------------------------------------------------------------------------
(* Type invariant.                                                         *)
TypeOK ==
    /\ list \in Seq([addr : Nat, size : Nat, is_free : BOOLEAN])
    /\ brk \in 0..HeapLimit /\ foreign \subseteq 0..(HeapLimit - 1)
    /\ ptr \in [Clients -> Nat]
    /\ asked \in [Clients -> Nat] /\ written \in [Clients -> Nat]
    /\ mem \in [0..(HeapLimit - 1) -> Clients \cup {Nobody}]

(* Blocks lie behind each other below the break and no block overlaps      *)
(* another one, or what other callers of sbrk took.                        *)
LaidOut ==
    /\ \A i \in 1..Len(list) : End(list[i]) <= brk
    /\ \A i, j \in 1..Len(list) : i < j => End(list[i]) <= list[j].addr

(* A block is in use exactly when one client holds it, however often it    *)
(* was freed, reused and moved.                                            *)
OneHolder ==
    /\ \A c \in Clients : ptr[c] # NULL =>
          \E i \in 1..Len(list) : Payload(list[i]) = ptr[c] /\ ~list[i].is_free
    /\ \A c, d \in Clients : ptr[c] # NULL /\ ptr[c] = ptr[d] => c = d

(* Every block in a client's hands is its own, apart from all others, and  *)
(* has the bytes the client asked for, unless num * size wrapped around in *)
(* scalloc.                                                                *)
BlocksSafe ==
    /\ LaidOut
    /\ OneHolder
    /\ \A c \in Clients :
          ptr[c] # NULL => asked[c] <= BlockOf(c).size \/ asked[c] >= SIZE_T

(* The bytes the clients asked for, numbered for each client, those of a   *)
(* product that wrapped around left out.                                   *)
AskedBytes ==
    {b \in Clients \X (0..(SIZE_T - 1)) :
        asked[b[1]] < SIZE_T /\ b[2] < asked[b[1]]}

(* The statistics are what they are called: the number of allocated bytes, *)
(* computed from two addresses, is the sum of the sizes of all blocks, and *)
(* too large by exactly the bytes that other callers of sbrk took between  *)
(* the blocks; with the headers and the bytes taken since they make up     *)
(* everything up to the break; the blocks that are not free are the ones   *)
(* clients hold, and have at least the bytes the clients asked for.        *)
StatsExact ==
    LET first == list[1].addr
        last == list[Len(list)].addr
        between == IF list = <<>> THEN {}
                   ELSE {a \in foreign : a < last /\ a > first}
    IN  /\ list # <<>> =>
              GetNumberOfAllocatedBytes + num_meta_data_bytes
                + Cardinality({a \in foreign : a > last}) = brk - first
        /\ GetNumberOfAllocatedBytes =
              SizeSum(list, 1..Len(list)) + Cardinality(between)
        /\ GetNumberOfAllocatedBlocks - GetNumberOfFreeBlocks =
              Cardinality({c \in Clients : ptr[c] # NULL})
        /\ GetNumberOfAllocatedBytes - GetNumberOfFreeBytes >=
              Cardinality(AskedBytes)

(* The bytes of each client that still hold what it wrote.                 *)
Kept == [c \in Clients |->
            Cardinality({k \in 0..(written[c] - 1) : mem[ptr[c] + k] = c})]

Promise == INSTANCE Allocator WITH want <- asked, kept <- Kept

(* The list of blocks keeps what Allocator promises: no client ever finds  *)
(* bytes of another one in its block, and srealloc moves all of them.      *)
ImplementsAllocator == Promise!Spec
=============================================================================
