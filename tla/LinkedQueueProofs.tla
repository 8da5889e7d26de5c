------------------------- MODULE LinkedQueueProofs -------------------------
(***************************************************************************)
(* The linked list of queue.c is well formed after every operation and     *)
(* implements a first-in first-out queue, whatever the heap's size and     *)
(* contents.                                                               *)
(***************************************************************************)
EXTENDS LinkedQueue, TLAPS

-----------------------------------------------------------------------------
(* The operations of queue.c on sequences, for any elements.               *)

(* queue.c's operations take sequences to sequences, of the length they    *)
(* should have.                                                            *)
LEMMA QueueTypes ==
    ASSUME NEW S, NEW q \in Seq(S)
    PROVE  /\ \A x \in S : /\ enqueue(q, x) \in Seq(S)
                           /\ Len(enqueue(q, x)) = Len(q) + 1
           /\ q # <<>> => /\ Head(q) \in S
                          /\ dequeue(q) \in Seq(S)
                          /\ Len(q) > 0
                          /\ Len(dequeue(q)) = Len(q) - 1
           /\ \A i \in 1..Len(q) : /\ q[i] \in S
                                   /\ dequeue_i(q, i) \in Seq(S)
                                   /\ Len(dequeue_i(q, i)) = Len(q) - 1
  <1>1. \A x \in S : /\ enqueue(q, x) \in Seq(S)
                     /\ Len(enqueue(q, x)) = Len(q) + 1
    BY DEF enqueue
  <1>2. q # <<>> => /\ Head(q) \in S
                    /\ dequeue(q) \in Seq(S)
                    /\ Len(q) > 0
                    /\ Len(dequeue(q)) = Len(q) - 1
    BY DEF dequeue
  <1>3. ASSUME NEW i \in 1..Len(q)
        PROVE  /\ q[i] \in S
               /\ dequeue_i(q, i) \in Seq(S)
               /\ Len(dequeue_i(q, i)) = Len(q) - 1
    <2>1. Len(q) - 1 \in Nat /\ q[i] \in S
      OBVIOUS
    <2>2. \A j \in 1..(Len(q) - 1) :
             (IF j < i THEN q[j] ELSE q[j + 1]) \in S
      OBVIOUS
    <2>. QED  BY <2>1, <2>2 DEF dequeue_i
  <1>. QED  BY <1>1, <1>2, <1>3

(* The element at each position after an operation.                        *)
LEMMA QueueIndex ==
    ASSUME NEW S, NEW q \in Seq(S)
    PROVE  /\ \A x \in S : /\ enqueue(q, x)[Len(q) + 1] = x
                           /\ \A j \in 1..Len(q) : enqueue(q, x)[j] = q[j]
           /\ q # <<>> => /\ Head(q) = q[1]
                          /\ \A j \in 1..(Len(q) - 1) :
                                dequeue(q)[j] = q[j + 1]
           /\ \A i \in 1..Len(q) : \A j \in 1..(Len(q) - 1) :
                 dequeue_i(q, i)[j] = IF j < i THEN q[j] ELSE q[j + 1]
  <1>1. \A x \in S : /\ enqueue(q, x)[Len(q) + 1] = x
                     /\ \A j \in 1..Len(q) : enqueue(q, x)[j] = q[j]
    BY DEF enqueue
  <1>2. q # <<>> => /\ Head(q) = q[1]
                    /\ \A j \in 1..(Len(q) - 1) : dequeue(q)[j] = q[j + 1]
    BY DEF dequeue
  <1>3. \A i \in 1..Len(q) : \A j \in 1..(Len(q) - 1) :
           dequeue_i(q, i)[j] = IF j < i THEN q[j] ELSE q[j + 1]
    BY DEF dequeue_i
  <1>. QED  BY <1>1, <1>2, <1>3

(* What queue.c's operations do to the elements of a queue without         *)
(* repetitions.                                                            *)
LEMMA EnqueueElements ==
    ASSUME NEW S, NEW q \in Seq(S), Distinct(q), NEW x \in S,
           x \notin Elements(q)
    PROVE  /\ Distinct(enqueue(q, x))
           /\ Elements(enqueue(q, x)) = Elements(q) \cup {x}
  <1>. DEFINE r == enqueue(q, x)
  <1>1. /\ Len(r) = Len(q) + 1 /\ r[Len(q) + 1] = x
        /\ \A j \in 1..Len(q) : r[j] = q[j]
    BY DEF enqueue
  <1>. HIDE DEF r
  <1>2. Distinct(r)
    BY <1>1 DEF Distinct, Elements
  <1>3. Elements(r) = Elements(q) \cup {x}
    BY <1>1 DEF Elements
  <1>. QED  BY <1>2, <1>3 DEF r

(* dequeue takes one element out and leaves the others.                    *)
LEMMA DequeueElements ==
    ASSUME NEW S, NEW q \in Seq(S), Distinct(q), q # <<>>
    PROVE  /\ Distinct(dequeue(q))
           /\ Head(q) \in Elements(q)
           /\ Elements(dequeue(q)) = Elements(q) \ {Head(q)}
  <1>. DEFINE r == dequeue(q)
  <1>1. /\ Len(q) \in Nat /\ Len(q) >= 1 /\ Head(q) = q[1]
        /\ Len(r) = Len(q) - 1
        /\ \A j \in 1..(Len(q) - 1) : r[j] = q[j + 1]
    BY DEF dequeue
  <1>. HIDE DEF r
  <1>2. Distinct(r)
    BY <1>1 DEF Distinct
  <1>3. Elements(r) = Elements(q) \ {Head(q)}
    <2>1. \A j \in 2..Len(q) : j - 1 \in 1..Len(r) /\ r[j - 1] = q[j]
      BY <1>1
    <2>2. \A x \in Elements(q) : x # q[1] => x \in Elements(r)
      BY <1>1, <2>1 DEF Elements
    <2>3. \A x \in Elements(r) : x \in Elements(q) /\ x # q[1]
      BY <1>1 DEF Elements, Distinct
    <2>. QED  BY <1>1, <2>2, <2>3
  <1>4. Head(q) \in Elements(q)
    BY <1>1 DEF Elements
  <1>. QED  BY <1>2, <1>3, <1>4 DEF r

(* dequeue_i takes one element out and leaves the others.                  *)
LEMMA DequeueIElements ==
    ASSUME NEW S, NEW q \in Seq(S), Distinct(q), NEW i \in 1..Len(q)
    PROVE  /\ Distinct(dequeue_i(q, i))
           /\ q[i] \in Elements(q)
           /\ Elements(dequeue_i(q, i)) = Elements(q) \ {q[i]}
  <1>0. Len(q) \in Nat /\ Len(q) >= 1 /\ Len(q) - 1 \in Nat
    OBVIOUS
  <1>. DEFINE r == dequeue_i(q, i)
  <1>1. /\ Len(r) = Len(q) - 1
        /\ \A j \in 1..(Len(q) - 1) :
              r[j] = IF j < i THEN q[j] ELSE q[j + 1]
    BY <1>0 DEF dequeue_i
  <1>. HIDE DEF r
  <1>2. Distinct(r)
    BY <1>0, <1>1, SMTT(30) DEF Distinct
  <1>3. Elements(r) = Elements(q) \ {q[i]}
    <2>1. \A j \in 1..Len(q) : /\ j < i => r[j] = q[j] /\ j \in 1..Len(r)
                               /\ j > i => /\ r[j - 1] = q[j]
                                           /\ j - 1 \in 1..Len(r)
      BY <1>0, <1>1
    <2>2. \A x \in Elements(q) : x # q[i] => x \in Elements(r)
      BY <1>0, <1>1, <2>1 DEF Elements
    <2>3. \A x \in Elements(r) : x \in Elements(q) /\ x # q[i]
      BY <1>0, <1>1 DEF Elements, Distinct
    <2>. QED  BY <2>2, <2>3
  <1>4. q[i] \in Elements(q)
    BY DEF Elements
  <1>. QED  BY <1>2, <1>3, <1>4 DEF r

-----------------------------------------------------------------------------
(* The inductive invariant: each part needs the others, for the pointers   *)
(* an operation follows are those of the list, and the cell malloc returns *)
(* is not in it.                                                           *)
ListInv == TypeOK /\ Linked /\ HeapAccounted /\ WalkInPlace

(* The empty queue.                                                        *)
LEMMA InitList == Init => ListInv
  BY DEF Init, ListInv, TypeOK, Linked, HeapAccounted, WalkInPlace, Distinct,
         Elements

(* What ListInv says at the positions of the list.                         *)
LEMMA ListFacts ==
    ASSUME ListInv
    PROVE  /\ nodes \in Seq(Cells) /\ Len(nodes) \in Nat
           /\ \A k \in 1..Len(nodes) : nodes[k] \in Cells
           /\ \A k \in 1..Len(nodes) : nodes[k] \in allocated
           /\ isEmpty <=> nodes = <<>>
           /\ nodes # <<>> => /\ Len(nodes) >= 1
                              /\ front = nodes[1] /\ front \in Cells
                              /\ rear = nodes[Len(nodes)] /\ rear \in Cells
                              /\ next[rear] = NULL
  BY DEF ListInv, TypeOK, Linked, HeapAccounted, Elements, isEmpty

(* A new node is linked behind the rear.                                   *)
LEMMA StepEnqueue == ListInv /\ Enqueue => ListInv'
  <1>. SUFFICES ASSUME ListInv, Enqueue  PROVE ListInv'
    OBVIOUS
  <1>1. PICK x \in Data, n \in Cells \ allocated :
           /\ allocated' = allocated \cup {n}
           /\ Link(x, n)
           /\ nodes' = enqueue(nodes, n)
    BY DEF Enqueue
  <1>2. /\ nodes' \in Seq(Cells) /\ Len(nodes') = Len(nodes) + 1
        /\ nodes'[Len(nodes) + 1] = n
        /\ \A j \in 1..Len(nodes) : nodes'[j] = nodes[j]
    <2>1. nodes \in Seq(Cells) /\ n \in Cells
      BY ListFacts
    <2>2. /\ enqueue(nodes, n) \in Seq(Cells)
          /\ Len(enqueue(nodes, n)) = Len(nodes) + 1
      BY <2>1 DEF enqueue
    <2>3. /\ enqueue(nodes, n)[Len(nodes) + 1] = n
          /\ \A j \in 1..Len(nodes) : enqueue(nodes, n)[j] = nodes[j]
      BY <2>1, QueueIndex
    <2>. QED  BY <1>1, <2>2, <2>3
  <1>3. n \notin Elements(nodes) /\ Distinct(nodes)
    BY <1>1 DEF ListInv, HeapAccounted, Linked
  <1>4. Distinct(nodes') /\ Elements(nodes') = Elements(nodes) \cup {n}
    BY <1>1, <1>3, ListFacts, EnqueueElements
  <1>5. TypeOK'
    BY <1>1, <1>2, ListFacts DEF ListInv, TypeOK, Enqueue, Link
  <1>6. Linked'
    <2>1. /\ queue_size' = Len(nodes') /\ nodes' # <<>>
          /\ rear' = nodes'[Len(nodes')]
      BY <1>1, <1>2, ListFacts DEF ListInv, TypeOK, Linked, Enqueue, Link
    <2>2. front' = nodes'[1]
      BY <1>1, <1>2, ListFacts DEF Link
    <2>3. next'[n] = NULL
      BY <1>1, ListFacts DEF Link, ListInv, TypeOK
    <2>4. ASSUME NEW k \in 1..(Len(nodes') - 1)
          PROVE  next'[nodes'[k]] = nodes'[k + 1]
      <3>1. k \in 1..Len(nodes) /\ nodes # <<>> /\ nodes[k] # n
        BY <1>1, <1>2, ListFacts
      <3>2. CASE k = Len(nodes)
        BY <3>1, <3>2, <1>1, <1>2, ListFacts DEF Link, ListInv, TypeOK
      <3>3. CASE k # Len(nodes)
        <4>1. nodes[k] # rear /\ next[nodes[k]] = nodes[k + 1]
          BY <3>1, <3>3, ListFacts DEF ListInv, Linked, Distinct
        <4>. QED  BY <4>1, <3>1, <3>3, <1>1, <1>2, ListFacts
                  DEF Link, ListInv, TypeOK
      <3>. QED  BY <3>2, <3>3
    <2>. QED  BY <1>2, <1>4, <2>1, <2>2, <2>3, <2>4 DEF Linked
  <1>7. HeapAccounted'
    BY <1>1, <1>4 DEF ListInv, HeapAccounted, Enqueue
  <1>8. WalkInPlace'
    BY DEF ListInv, WalkInPlace, Enqueue
  <1>. QED  BY <1>5, <1>6, <1>7, <1>8 DEF ListInv

(* Both operations that take out the front leave a list one node shorter.  *)
LEMMA FrontOut ==
    ASSUME ListInv, index = 0, nodes # <<>>, front' = next[front],
           rear' = (IF Len(nodes) = 1 THEN NULL ELSE rear),
           queue_size' = queue_size - 1, nodes' = dequeue(nodes),
           UNCHANGED <<next, index, curr, temp>>
    PROVE  /\ nodes' \in Seq(Cells)
           /\ front' \in Cells \cup {NULL} /\ rear' \in Cells \cup {NULL}
           /\ queue_size' \in Nat
           /\ Linked' /\ WalkInPlace'
           /\ front \in Elements(nodes)
           /\ Elements(nodes') = Elements(nodes) \ {front}
  <1>1. /\ nodes' \in Seq(Cells) /\ Len(nodes') = Len(nodes) - 1
        /\ Head(nodes) = nodes[1] /\ front = Head(nodes)
        /\ \A j \in 1..(Len(nodes) - 1) : nodes'[j] = nodes[j + 1]
    <2>1. nodes \in Seq(Cells) /\ front = nodes[1]
      BY ListFacts
    <2>2. dequeue(nodes) \in Seq(Cells) /\ Len(dequeue(nodes)) = Len(nodes) - 1
      BY <2>1, QueueTypes
    <2>3. /\ Head(nodes) = nodes[1]
          /\ \A j \in 1..(Len(nodes) - 1) : dequeue(nodes)[j] = nodes[j + 1]
      BY <2>1, QueueIndex
    <2>. QED  BY <2>1, <2>2, <2>3
  <1>2. /\ Distinct(nodes') /\ front \in Elements(nodes)
        /\ Elements(nodes') = Elements(nodes) \ {front}
    BY <1>1, ListFacts, DequeueElements DEF ListInv, Linked
  <1>3. /\ front' \in Cells \cup {NULL} /\ rear' \in Cells \cup {NULL}
        /\ queue_size' \in Nat /\ queue_size' = Len(nodes')
    BY <1>1, ListFacts DEF ListInv, TypeOK, Linked
  <1>4. ASSUME nodes' = <<>>  PROVE front' = NULL /\ rear' = NULL
    <2>1. Len(nodes) = 1
      BY <1>1, <1>4, ListFacts
    <2>. QED  BY <2>1, ListFacts
  <1>5. nodes' # <<>> => /\ front' = nodes'[1]
                         /\ rear' = nodes'[Len(nodes')]
                         /\ next'[nodes'[Len(nodes')]] = NULL
    BY <1>1, ListFacts DEF ListInv, Linked
  <1>6. \A k \in 1..(Len(nodes') - 1) : next'[nodes'[k]] = nodes'[k + 1]
    BY <1>1, ListFacts DEF ListInv, Linked
  <1>7. Linked'
    BY <1>2, <1>3, <1>4, <1>5, <1>6 DEF Linked
  <1>. QED  BY <1>1, <1>2, <1>3, <1>7 DEF ListInv, WalkInPlace

(* The first node is unlinked and freed.                                   *)
LEMMA StepDequeue == ListInv /\ Dequeue => ListInv'
  <1>. SUFFICES ASSUME ListInv, Dequeue  PROVE ListInv'
    OBVIOUS
  <1>1. nodes # <<>> /\ index = 0
    BY ListFacts DEF Dequeue
  <1>2. rear' = (IF Len(nodes) = 1 THEN NULL ELSE rear)
    <2>1. CASE Len(nodes) = 1
      BY <1>1, <2>1, ListFacts DEF Dequeue, ResetRear
    <2>2. CASE Len(nodes) # 1
      <3>1. next[front] = nodes[2] /\ nodes[2] \in Cells
        BY <1>1, <2>2, ListFacts DEF ListInv, Linked
      <3>. QED  BY <2>2, <3>1, CellsAssumption DEF Dequeue, ResetRear
    <2>. QED  BY <2>1, <2>2
  <1>3. /\ nodes' \in Seq(Cells)
        /\ front' \in Cells \cup {NULL} /\ rear' \in Cells \cup {NULL}
        /\ queue_size' \in Nat /\ Linked' /\ WalkInPlace'
        /\ front \in Elements(nodes)
        /\ Elements(nodes') = Elements(nodes) \ {front}
    BY <1>1, <1>2, FrontOut DEF Dequeue, walkVars
  <1>4. TypeOK'
    BY <1>1, <1>3, ListFacts DEF ListInv, TypeOK, Dequeue, walkVars
  <1>5. HeapAccounted'
    BY <1>3 DEF ListInv, HeapAccounted, Dequeue
  <1>. QED  BY <1>3, <1>4, <1>5 DEF ListInv

(* dequeue_i(0) is dequeue.                                                *)
LEMMA StepFront == ListInv /\ DequeueIFront => ListInv'
  <1>. SUFFICES ASSUME ListInv, DequeueIFront  PROVE ListInv'
    OBVIOUS
  <1>1. /\ nodes # <<>> /\ index = 0
        /\ rear' = (IF Len(nodes) = 1 THEN NULL ELSE rear)
    BY ListFacts DEF DequeueIFront, ListInv, Linked
  <1>2. /\ nodes' \in Seq(Cells)
        /\ front' \in Cells \cup {NULL} /\ rear' \in Cells \cup {NULL}
        /\ queue_size' \in Nat /\ Linked' /\ WalkInPlace'
        /\ front \in Elements(nodes)
        /\ Elements(nodes') = Elements(nodes) \ {front}
    BY <1>1, FrontOut DEF DequeueIFront, walkVars, heapVars
  <1>3. TypeOK'
    BY <1>1, <1>2, ListFacts
    DEF ListInv, TypeOK, DequeueIFront, walkVars, heapVars
  <1>4. HeapAccounted'
    BY <1>2 DEF ListInv, HeapAccounted, DequeueIFront, heapVars
  <1>. QED  BY <1>2, <1>3, <1>4 DEF ListInv

(* A node behind the first is unlinked, and rear moves if it was the last. *)
LEMMA StepUnlink == ListInv /\ DequeueIUnlink => ListInv'
  <1>. SUFFICES ASSUME ListInv, DequeueIUnlink  PROVE ListInv'
    OBVIOUS
  <1>. DEFINE n == nodes[index]
  <1>1. /\ index \in 2..Len(nodes) /\ index \in Nat /\ Len(nodes) \in Nat
        /\ temp = nodes[index - 1] /\ next[temp] = n
        /\ temp \in Cells /\ n \in Cells /\ temp # n
    BY ListFacts DEF DequeueIUnlink, ListInv, WalkInPlace, Linked, TypeOK,
                     Distinct
  <1>2. /\ nodes' \in Seq(Cells) /\ Len(nodes') = Len(nodes) - 1
        /\ \A j \in 1..(Len(nodes) - 1) :
              nodes'[j] = IF j < index THEN nodes[j] ELSE nodes[j + 1]
    <2>1. nodes \in Seq(Cells) /\ index \in 1..Len(nodes)
      BY <1>1, ListFacts
    <2>2. /\ dequeue_i(nodes, index) \in Seq(Cells)
          /\ Len(dequeue_i(nodes, index)) = Len(nodes) - 1
      BY <2>1, QueueTypes
    <2>3. \A j \in 1..(Len(nodes) - 1) : dequeue_i(nodes, index)[j]
             = IF j < index THEN nodes[j] ELSE nodes[j + 1]
      BY <2>1, QueueIndex
    <2>. QED  BY <2>2, <2>3 DEF DequeueIUnlink
  <1>3. Distinct(nodes') /\ Elements(nodes') = Elements(nodes) \ {n}
        /\ n \in Elements(nodes)
    BY <1>1, ListFacts, DequeueIElements DEF DequeueIUnlink, ListInv, Linked
  <1>4. /\ next' = [next EXCEPT ![temp] = next[n]]
        /\ rear' = (IF index = Len(nodes) THEN temp ELSE rear)
        /\ ret' = data[n] /\ allocated' = allocated \ {n}
        /\ queue_size' = queue_size - 1 /\ front' = front /\ data' = data
        /\ index' = 0 /\ curr' = 0 /\ temp' = NULL /\ leaked' = leaked
    BY <1>1 DEF DequeueIUnlink, ListInv, Linked
  <1>. HIDE DEF n
  <1>5. TypeOK'
    BY <1>1, <1>2, <1>4, ListFacts DEF ListInv, TypeOK, Linked
  <1>6. Linked'
    <2>1. queue_size' = Len(nodes') /\ nodes' # <<>> /\ front' = nodes'[1]
      BY <1>1, <1>2, <1>4, ListFacts DEF ListInv, Linked
    <2>2. \A k \in 1..Len(nodes) : k # index - 1 => next'[nodes[k]] = next[nodes[k]]
      BY <1>1, <1>4, ListFacts DEF ListInv, TypeOK, Linked, Distinct
    <2>3. next'[temp] = next[n]
      BY <1>1, <1>4 DEF ListInv, TypeOK
    <2>4. /\ rear' = nodes'[Len(nodes')]
          /\ next'[nodes'[Len(nodes')]] = NULL
      <3>1. CASE index = Len(nodes)
        BY <1>1, <1>2, <1>4, <2>3, <3>1, ListFacts DEF n
      <3>2. CASE index # Len(nodes)
        <4>1. nodes'[Len(nodes')] = nodes[Len(nodes)]
          BY <1>1, <1>2, <3>2
        <4>2. /\ rear = nodes[Len(nodes)] /\ next[rear] = NULL
              /\ Len(nodes) \in 1..Len(nodes)
          BY <1>1, ListFacts
        <4>. QED  BY <1>1, <1>4, <2>2, <3>2, <4>1, <4>2
      <3>. QED  BY <3>1, <3>2
    <2>5. ASSUME NEW k \in 1..(Len(nodes') - 1)
          PROVE  next'[nodes'[k]] = nodes'[k + 1]
      <3>0. \A j \in 1..(Len(nodes) - 1) : next[nodes[j]] = nodes[j + 1]
        BY DEF ListInv, Linked
      <3>1. CASE k < index - 1
        <4>1. /\ k \in 1..(Len(nodes) - 1) /\ k \in 1..Len(nodes)
              /\ nodes'[k] = nodes[k] /\ nodes'[k + 1] = nodes[k + 1]
          BY <1>1, <1>2, <3>1
        <4>. QED  BY <2>2, <3>0, <3>1, <4>1
      <3>2. CASE k = index - 1
        BY <1>1, <1>2, <2>3, <3>0, <3>2 DEF n
      <3>3. CASE k > index - 1
        <4>1. /\ k + 1 \in 1..(Len(nodes) - 1) /\ k + 1 \in 1..Len(nodes)
              /\ k + 1 # index - 1 /\ (k + 1) + 1 = k + 2
              /\ nodes'[k] = nodes[k + 1] /\ nodes'[k + 1] = nodes[k + 2]
          BY <1>1, <1>2, <3>3
        <4>. QED  BY <2>2, <3>0, <4>1
      <3>. QED  BY <1>1, <1>2, <3>1, <3>2, <3>3
    <2>. QED  BY <1>3, <2>1, <2>4, <2>5 DEF Linked
  <1>7. HeapAccounted'
    BY <1>3, <1>4 DEF ListInv, HeapAccounted
  <1>8. WalkInPlace'
    BY <1>4 DEF WalkInPlace
  <1>. QED  BY <1>5, <1>6, <1>7, <1>8 DEF ListInv

(* All steps.                                                              *)
LEMMA StepList == ListInv /\ [Next]_vars => ListInv'
  <1>. SUFFICES ASSUME ListInv, [Next]_vars  PROVE ListInv'
    OBVIOUS
  <1>. USE DEF ListInv, TypeOK, Linked, HeapAccounted, WalkInPlace,
               queueVars, heapVars, walkVars
  <1>1. CASE DequeueEmpty
    BY <1>1, DataAssumption DEF DequeueEmpty
  <1>2. ASSUME NEW i \in 1..MaxIndex, DequeueIBeyond(i)  PROVE ListInv'
    BY <1>2 DEF DequeueIBeyond
  <1>3. ASSUME NEW i \in 1..MaxIndex, DequeueIStart(i)  PROVE ListInv'
    BY <1>3, ListFacts, IndexAssumption DEF DequeueIStart
  <1>4. CASE DequeueIWalk
    <2>1. curr' \in Nat /\ 1 <= curr' /\ curr' < index /\ temp' = nodes[curr']
      BY <1>4 DEF DequeueIWalk
    <2>. QED  BY <1>4, <2>1, ListFacts DEF DequeueIWalk
  <1>5. CASE UNCHANGED vars
    BY <1>5 DEF vars
  <1>. QED  BY <1>1, <1>2, <1>3, <1>4, <1>5, StepEnqueue, StepDequeue,
               StepFront, StepUnlink DEF Next

(* ListInv holds in every state.                                           *)
LEMMA ListInvariant == Spec => []ListInv
  BY InitList, StepList, PTL DEF Spec

(* The queue's fields, the heap and the walk of dequeue_i keep their types *)
(* in every call, with any number of cells.                                *)
THEOREM QueueTyped == Spec => []TypeOK
  BY ListInvariant, PTL DEF ListInv

(* The pointers of queue.c always form the list they should, whatever      *)
(* sequence of enqueues, dequeues and deletions was made.                  *)
THEOREM ListWellFormed == Spec => []Linked
  BY ListInvariant, PTL DEF ListInv

(* Nothing is freed twice or while linked, and only dequeue_i(1) leaks.    *)
THEOREM HeapSafe == Spec => []HeapAccounted
  BY ListInvariant, PTL DEF ListInv

-----------------------------------------------------------------------------
(* Sequences of the same length with the same elements are the same.       *)
LEMMA SameSequence ==
    ASSUME NEW S, NEW s \in Seq(S), NEW t \in Seq(S), Len(s) = Len(t),
           \A k \in 1..Len(s) : s[k] = t[k]
    PROVE  s = t
  OBVIOUS

(* The elements along the nodes.                                           *)
LEMMA ContentsFacts ==
    ASSUME NEW ns \in Seq(Cells), NEW d \in [Cells -> Data]
    PROVE  LET c == [k \in 1..Len(ns) |-> d[ns[k]]]
           IN  /\ c \in Seq(Data) /\ Len(c) = Len(ns)
               /\ \A k \in 1..Len(ns) : c[k] = d[ns[k]]
               /\ c = <<>> <=> ns = <<>>
  <1>1. Len(ns) \in Nat /\ \A k \in 1..Len(ns) : d[ns[k]] \in Data
    OBVIOUS
  <1>. QED  BY <1>1

(* Linking a node appends an element.                                      *)
LEMMA RefineEnqueue == ListInv /\ ListInv' /\ Enqueue => Fifo!Enqueue
  <1>. SUFFICES ASSUME ListInv, ListInv', Enqueue  PROVE Fifo!Enqueue
    OBVIOUS
  <1>1. PICK x \in Data, n \in Cells \ allocated :
           Link(x, n) /\ nodes' = enqueue(nodes, n)
    BY DEF Enqueue
  <1>2. /\ Len(nodes') = Len(nodes) + 1 /\ nodes'[Len(nodes) + 1] = n
        /\ \A j \in 1..Len(nodes) : nodes'[j] = nodes[j] /\ nodes[j] # n
    <2>1. nodes \in Seq(Cells) /\ n \in Cells
      BY ListFacts
    <2>. QED  BY <1>1, <2>1, ListFacts DEF enqueue
  <1>3. /\ Contents' \in Seq(Data) /\ Len(Contents') = Len(nodes')
        /\ \A k \in 1..Len(nodes') : Contents'[k] = data'[nodes'[k]]
    BY ContentsFacts DEF Contents, ListInv, TypeOK
  <1>4. /\ Contents \in Seq(Data) /\ Len(Contents) = Len(nodes)
        /\ \A k \in 1..Len(nodes) : Contents[k] = data[nodes[k]]
    BY ContentsFacts DEF Contents, ListInv, TypeOK
  <1>5. /\ Append(Contents, x) \in Seq(Data)
        /\ Len(Append(Contents, x)) = Len(nodes) + 1
        /\ Append(Contents, x)[Len(nodes) + 1] = x
        /\ \A k \in 1..Len(nodes) : Append(Contents, x)[k] = data[nodes[k]]
    BY <1>4
  <1>6. \A k \in 1..(Len(nodes) + 1) : Contents'[k] = Append(Contents, x)[k]
    <2>1. data'[n] = x /\ \A k \in 1..Len(nodes) : data'[nodes[k]] = data[nodes[k]]
      BY <1>1, <1>2, ListFacts DEF Link, ListInv, TypeOK
    <2>. QED  BY <1>2, <1>3, <1>5, <2>1, ListFacts
  <1>7. Contents' = Append(Contents, x)
    BY <1>2, <1>3, <1>5, <1>6, SameSequence
  <1>. QED  BY <1>7 DEF Fifo!Enqueue, Fifo!enqueue, Enqueue

(* Unlinking the first node removes the first element.                     *)
LEMMA RefineFront ==
    ASSUME ListInv, ListInv', nodes # <<>>, nodes' = dequeue(nodes),
           data' = data, ret' = data[front]
    PROVE  Contents # <<>> /\ ret' = Head(Contents) /\ Contents' = Tail(Contents)
  <1>1. /\ Len(nodes') = Len(nodes) - 1 /\ Len(nodes) \in Nat
        /\ Len(nodes) >= 1
        /\ \A j \in 1..(Len(nodes) - 1) : nodes'[j] = nodes[j + 1]
    BY ListFacts DEF dequeue
  <1>2. /\ Contents' \in Seq(Data) /\ Len(Contents') = Len(nodes')
        /\ \A k \in 1..Len(nodes') : Contents'[k] = data'[nodes'[k]]
    BY ContentsFacts DEF Contents, ListInv, TypeOK
  <1>3. /\ Contents \in Seq(Data) /\ Len(Contents) = Len(nodes)
        /\ Contents # <<>>
        /\ \A k \in 1..Len(nodes) : Contents[k] = data[nodes[k]]
    BY ContentsFacts DEF Contents, ListInv, TypeOK
  <1>4. /\ Tail(Contents) \in Seq(Data) /\ Head(Contents) = Contents[1]
        /\ Len(Tail(Contents)) = Len(nodes) - 1
        /\ \A k \in 1..(Len(nodes) - 1) : Tail(Contents)[k] = Contents[k + 1]
    BY <1>1, <1>3
  <1>5. ASSUME NEW k \in 1..(Len(nodes) - 1)
        PROVE  Contents'[k] = Tail(Contents)[k]
    <2>1. /\ k \in 1..Len(nodes') /\ k + 1 \in 1..Len(nodes)
          /\ nodes'[k] = nodes[k + 1] /\ data' = data
      BY <1>1
    <2>. QED  BY <1>2, <1>3, <1>4, <2>1
  <1>6. Contents' = Tail(Contents)
    BY <1>1, <1>2, <1>4, <1>5, SameSequence
  <1>7. ret' = Head(Contents)
    BY <1>1, <1>3, <1>4, ListFacts
  <1>. QED  BY <1>3, <1>6, <1>7

(* Unlinking the i-th node removes the i-th element.                       *)
LEMMA RefineUnlink == ListInv /\ ListInv' /\ DequeueIUnlink => Fifo!DequeueI
  <1>. SUFFICES ASSUME ListInv, ListInv', DequeueIUnlink  PROVE Fifo!DequeueI
    OBVIOUS
  <1>1. /\ index \in 1..Len(nodes) /\ Len(nodes) \in Nat
        /\ ret' = data[nodes[index]] /\ data' = data
        /\ nodes' = dequeue_i(nodes, index)
    BY ListFacts DEF DequeueIUnlink, ListInv, WalkInPlace, Linked, TypeOK
  <1>2. /\ Len(nodes') = Len(nodes) - 1
        /\ \A j \in 1..(Len(nodes) - 1) :
              nodes'[j] = IF j < index THEN nodes[j] ELSE nodes[j + 1]
    BY <1>1 DEF dequeue_i
  <1>3. /\ Contents' \in Seq(Data) /\ Len(Contents') = Len(nodes')
        /\ \A k \in 1..Len(nodes') : Contents'[k] = data'[nodes'[k]]
    BY ContentsFacts DEF Contents, ListInv, TypeOK
  <1>4. /\ Contents \in Seq(Data) /\ Len(Contents) = Len(nodes)
        /\ \A k \in 1..Len(nodes) : Contents[k] = data[nodes[k]]
    BY ContentsFacts DEF Contents, ListInv, TypeOK
  <1>. DEFINE r == dequeue_i(Contents, index)
  <1>5. /\ r \in Seq(Data) /\ Len(r) = Len(nodes) - 1
        /\ \A k \in 1..(Len(nodes) - 1) :
              r[k] = IF k < index THEN Contents[k] ELSE Contents[k + 1]
    <2>1. /\ Len(nodes) - 1 \in Nat
          /\ \A k \in 1..(Len(nodes) - 1) :
                (IF k < index THEN Contents[k] ELSE Contents[k + 1]) \in Data
      BY <1>1, <1>4
    <2>. QED  BY <1>4, <2>1 DEF dequeue_i
  <1>. HIDE DEF r
  <1>6. ASSUME NEW k \in 1..(Len(nodes) - 1)  PROVE Contents'[k] = r[k]
    <2>1. k \in 1..Len(nodes) /\ k + 1 \in 1..Len(nodes)
      BY <1>1
    <2>2. Contents'[k] = data[nodes'[k]]
      BY <1>1, <1>2, <1>3
    <2>. QED  BY <1>2, <1>4, <1>5, <2>1, <2>2
  <1>7. Contents' = r
    BY <1>2, <1>3, <1>5, <1>6, SameSequence
  <1>8. /\ index \in 1..Len(Contents) /\ ret' = Contents[index]
        /\ Contents' = dequeue_i(Contents, index)
    BY <1>1, <1>4, <1>7 DEF r
  <1>. QED  BY <1>8 DEF Fifo!DequeueI, Fifo!dequeue_i, dequeue_i

(* queue.c implements the queue it promises: every operation returns and   *)
(* removes what a first-in first-out queue would.                          *)
THEOREM QueueImplementsFifo == Spec => ImplementsFifo
  <1>1. Init => Fifo!Init
    BY DEF Init, Fifo!Init, Contents
  <1>2. ListInv /\ ListInv' /\ [Next]_vars => [Fifo!Next]_<<Contents, ret>>
    <2>. SUFFICES ASSUME ListInv, ListInv', [Next]_vars
                  PROVE  [Fifo!Next]_<<Contents, ret>>
      OBVIOUS
    <2>1. CASE Enqueue
      BY <2>1, RefineEnqueue DEF Fifo!Next
    <2>2. CASE Dequeue
      <3>1. nodes # <<>> /\ nodes' = dequeue(nodes) /\ data' = data
            /\ ret' = data[front]
        BY <2>2, ListFacts DEF Dequeue
      <3>. QED  BY <3>1, RefineFront DEF Fifo!Next, Fifo!Dequeue, Fifo!dequeue
    <2>3. CASE DequeueIFront
      <3>1. nodes # <<>> /\ nodes' = dequeue(nodes) /\ data' = data
            /\ ret' = data[front]
        BY <2>3, ListFacts DEF DequeueIFront, heapVars, isEmpty, ListInv, Linked
      <3>. QED  BY <3>1, RefineFront DEF Fifo!Next, Fifo!Dequeue, Fifo!dequeue
    <2>4. CASE DequeueIUnlink
      BY <2>4, RefineUnlink DEF Fifo!Next
    <2>5. CASE DequeueEmpty \/ \E i \in 1..MaxIndex : DequeueIBeyond(i)
      BY <2>5 DEF DequeueEmpty, DequeueIBeyond, heapVars, Contents,
                  Fifo!Next, Fifo!DequeueI
    <2>6. CASE DequeueIWalk \/ UNCHANGED vars
               \/ \E i \in 1..MaxIndex : DequeueIStart(i)
      BY <2>6 DEF DequeueIWalk, DequeueIStart, vars, heapVars, Contents
    <2>. QED  BY <2>1, <2>2, <2>3, <2>4, <2>5, <2>6 DEF Next
  <1>. QED  BY <1>1, <1>2, ListInvariant, PTL DEF Spec, Fifo!Spec, ImplementsFifo
=============================================================================
