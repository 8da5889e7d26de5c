---------------------------- MODULE LinkedQueue ----------------------------
(***************************************************************************)
(* The linked list of hw3/wet/queue.c over a heap of nodes.  The server    *)
(* calls every operation with mutex held, so operations do not interleave; *)
(* the walk of dequeue_i is one step per node all the same.                *)
(*                                                                         *)
(* A node's data stands for its two fields data and arrival_time.  malloc  *)
(* returns any cell that is not in use, free gives a cell back with its    *)
(* contents still in it.                                                   *)
(***************************************************************************)
EXTENDS QueueOps, Integers, FiniteSets

CONSTANTS Cells,      \* the heap cells malloc can return
          NULL,       \* the null pointer
          Data,       \* what a node carries
          NoData,     \* the result -1
          MaxIndex    \* bound on the argument of dequeue_i

ASSUME CellsAssumption == IsFiniteSet(Cells) /\ NULL \notin Cells
ASSUME DataAssumption == NoData \notin Data
ASSUME IndexAssumption == MaxIndex \in Nat

VARIABLES
    front, rear, queue_size,   \* the fields of Queue
    data, next,                \* the fields of the nodes
    allocated,                 \* the cells malloc'ed and not free'd
    index, curr, temp,         \* dequeue_i: its argument i (0 when it does
                               \* not run) and its local variables
    ret,                       \* the last result
    nodes,                     \* auxiliary: the nodes that should be linked
    leaked                     \* auxiliary: nodes unlinked but never freed

queueVars == <<front, rear, queue_size>>
heapVars == <<data, next, allocated>>
walkVars == <<index, curr, temp>>
vars == <<front, rear, queue_size, data, next, allocated, index, curr, temp,
          ret, nodes, leaked>>

(* Mutated forms, here and below, are definitions that no action uses: a   *)
(* bug that would break one of the properties.                             *)

(* createQueue, in a heap with arbitrary contents.                         *)
Init ==
    /\ front = NULL /\ rear = NULL /\ queue_size = 0
    /\ data \in [Cells -> Data] /\ next \in [Cells -> Cells \cup {NULL}]
    /\ allocated = {}
    /\ index = 0 /\ curr = 0 /\ temp = NULL
    /\ ret = NoData
    /\ nodes = <<>> /\ leaked = {}

isEmpty == queue_size = 0

EnqueueNoLink(x, n) ==
    /\ data' = [data EXCEPT ![n] = x]
    /\ next' = [next EXCEPT ![n] = NULL]
    /\ front' = (IF isEmpty THEN n ELSE front)
    /\ rear' = n

(* Fill in the new node and link it behind the rear, or as the only one.   *)
Link(x, n) ==
    /\ data' = [data EXCEPT ![n] = x]
    /\ next' = (IF isEmpty THEN [next EXCEPT ![n] = NULL]
                           ELSE [next EXCEPT ![n] = NULL, ![rear] = n])
    /\ front' = (IF isEmpty THEN n ELSE front)
    /\ rear' = n

Enqueue ==
    /\ index = 0
    /\ \E x \in Data, n \in Cells \ allocated :
          /\ allocated' = allocated \cup {n}
          /\ Link(x, n)
          /\ nodes' = enqueue(nodes, n)
    /\ queue_size' = queue_size + 1
    /\ UNCHANGED <<index, curr, temp, ret, leaked>>

DequeueEmptyCounted ==
    /\ index = 0
    /\ isEmpty
    /\ ret' = NoData
    /\ queue_size' = queue_size - 1
    /\ UNCHANGED <<front, rear, heapVars, walkVars, nodes, leaked>>

DequeueEmpty ==
    /\ index = 0
    /\ isEmpty
    /\ ret' = NoData
    /\ UNCHANGED <<queueVars, heapVars, walkVars, nodes, leaked>>

RearKept == rear' = rear

(* rear is reset when the last node has been taken out at the front.       *)
ResetRear == rear' = IF front' = NULL THEN NULL ELSE rear

DequeueNoFree ==
    /\ index = 0
    /\ ~isEmpty
    /\ ret' = data[front]
    /\ front' = next[front]
    /\ ResetRear
    /\ queue_size' = queue_size - 1
    /\ nodes' = dequeue(nodes)
    /\ UNCHANGED <<data, next, allocated, walkVars, leaked>>

Dequeue ==
    /\ index = 0
    /\ ~isEmpty
    /\ ret' = data[front]
    /\ front' = next[front]
    /\ ResetRear
    /\ allocated' = allocated \ {front}
    /\ queue_size' = queue_size - 1
    /\ nodes' = dequeue(nodes)
    /\ UNCHANGED <<data, next, walkVars, leaked>>

(* dequeue_i: an index beyond the size gives -1.                           *)
DequeueIBeyond(i) ==
    /\ index = 0
    /\ i > queue_size
    /\ ret' = NoData
    /\ UNCHANGED <<queueVars, heapVars, walkVars, nodes, leaked>>

(* dequeue_i(1): the front is unlinked, and its node is not freed.         *)
DequeueIFront ==
    /\ index = 0
    /\ 1 <= queue_size
    /\ ret' = data[front]
    /\ front' = next[front]
    /\ rear' = (IF queue_size = 1 THEN NULL ELSE rear)
    /\ queue_size' = queue_size - 1
    /\ nodes' = dequeue(nodes)
    /\ leaked' = leaked \cup {front}
    /\ UNCHANGED <<heapVars, walkVars>>

(* dequeue_i(i) for a later node: start the walk at the front ...          *)
DequeueIStart(i) ==
    /\ index = 0
    /\ 1 < i /\ i <= queue_size
    /\ index' = i
    /\ curr' = 1
    /\ temp' = front
    /\ UNCHANGED <<queueVars, heapVars, ret, nodes, leaked>>

(* ... go on to the node before the i-th ...                               *)
DequeueIWalk ==
    /\ index # 0
    /\ curr # index - 1
    /\ temp' = next[temp]
    /\ curr' = curr + 1
    /\ UNCHANGED <<queueVars, heapVars, index, ret, nodes, leaked>>

DequeueIUnlinkWrongResult ==
    /\ index # 0
    /\ curr = index - 1
    /\ LET node_to_delete == next[temp] IN
          /\ next' = [next EXCEPT ![temp] = next[node_to_delete]]
          /\ rear' = (IF index = queue_size THEN temp ELSE rear)
          /\ ret' = data[temp]
          /\ allocated' = allocated \ {node_to_delete}
    /\ queue_size' = queue_size - 1
    /\ nodes' = dequeue_i(nodes, index)
    /\ index' = 0 /\ curr' = 0 /\ temp' = NULL
    /\ UNCHANGED <<front, data, leaked>>

(* ... and unlink and free the node behind it.  The local variables are    *)
(* gone when the call returns.                                             *)
DequeueIUnlink ==
    /\ index # 0
    /\ curr = index - 1
    /\ LET node_to_delete == next[temp] IN
          /\ next' = [next EXCEPT ![temp] = next[node_to_delete]]
          /\ rear' = (IF index = queue_size THEN temp ELSE rear)
          /\ ret' = data[node_to_delete]
          /\ allocated' = allocated \ {node_to_delete}
    /\ queue_size' = queue_size - 1
    /\ nodes' = dequeue_i(nodes, index)
    /\ index' = 0 /\ curr' = 0 /\ temp' = NULL
    /\ UNCHANGED <<front, data, leaked>>

Next ==
    \/ Enqueue \/ DequeueEmpty \/ Dequeue
    \/ \E i \in 1..MaxIndex : DequeueIBeyond(i) \/ DequeueIStart(i)
    \/ DequeueIFront \/ DequeueIWalk \/ DequeueIUnlink

Spec == Init /\ [][Next]_vars

-----------------------------------------------------------------------------
(* Type invariant.                                                         *)
TypeOK ==
    /\ front \in Cells \cup {NULL} /\ rear \in Cells \cup {NULL}
    /\ queue_size \in Nat
    /\ data \in [Cells -> Data] /\ next \in [Cells -> Cells \cup {NULL}]
    /\ allocated \subseteq Cells
    /\ index \in Nat /\ curr \in Nat /\ temp \in Cells \cup {NULL}
    /\ ret \in Data \cup {NoData}
    /\ nodes \in Seq(Cells) /\ leaked \subseteq Cells

(* The pointers are the list they should be: front leads through next to   *)
(* every node once, to rear, and there it ends; queue_size is its length.  *)
Linked ==
    /\ queue_size = Len(nodes)
    /\ Distinct(nodes)
    /\ nodes = <<>> => front = NULL /\ rear = NULL
    /\ nodes # <<>> => /\ front = nodes[1]
                       /\ rear = nodes[Len(nodes)]
                       /\ next[nodes[Len(nodes)]] = NULL
    /\ \A k \in 1..(Len(nodes) - 1) : next[nodes[k]] = nodes[k + 1]

(* No pointer of the list dangles, and a cell in use is in the list or was *)
(* left behind by dequeue_i(1): nothing is freed twice or while linked,    *)
(* and nothing else leaks.                                                 *)
HeapAccounted ==
    /\ allocated = Elements(nodes) \cup leaked
    /\ leaked \cap Elements(nodes) = {}

(* During its walk dequeue_i stands on the curr-th node, before the i-th.  *)
WalkInPlace ==
    IF index = 0 THEN curr = 0 /\ temp = NULL
    ELSE /\ 1 <= curr /\ curr < index /\ index <= Len(nodes)
         /\ temp = nodes[curr]

(* The elements of the queue, and the queue queue.c promises.              *)
Contents == [k \in 1..Len(nodes) |-> data[nodes[k]]]
Fifo == INSTANCE FifoQueue WITH q <- Contents

(* The linked list is a first-in first-out queue: it implements FifoQueue. *)
ImplementsFifo == Fifo!Spec
=============================================================================
