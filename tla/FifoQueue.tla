----------------------------- MODULE FifoQueue -----------------------------
(***************************************************************************)
(* What hw3/wet/queue.c promises its callers: a first-in first-out queue   *)
(* of connections (a descriptor with its arrival time) from which the i-th *)
(* element can also be deleted.                                            *)
(***************************************************************************)
EXTENDS QueueOps

CONSTANTS Data,     \* what a node carries
          NoData    \* the result -1

VARIABLES q,        \* the elements, from front to rear
          ret       \* the result of the last operation that returned one

Init == q = <<>> /\ ret = NoData

Enqueue == \E x \in Data : q' = enqueue(q, x) /\ UNCHANGED ret

Dequeue ==
    \/ q = <<>> /\ ret' = NoData /\ UNCHANGED q
    \/ q # <<>> /\ ret' = Head(q) /\ q' = dequeue(q)

DequeueI ==
    \/ ret' = NoData /\ UNCHANGED q
    \/ \E i \in 1..Len(q) : ret' = q[i] /\ q' = dequeue_i(q, i)

Next == Enqueue \/ Dequeue \/ DequeueI

Spec == Init /\ [][Next]_<<q, ret>>
=============================================================================
