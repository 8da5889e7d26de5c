------------------------------ MODULE QueueOps ------------------------------
(***************************************************************************)
(* What the operations of hw3/wet/queue.c do to the contents of a queue,   *)
(* seen as the sequence of its elements from front to rear.                *)
(* LinkedQueue shows that the pointer code of queue.c does exactly this;   *)
(* ThreadPool uses the operators for the queue shared by the server's      *)
(* threads.  queue->queue_size is Len(q), isEmpty(q) is q = <<>>.          *)
(***************************************************************************)
EXTENDS Naturals, Sequences

(* enqueue: the new element becomes the rear.                              *)
enqueue(q, data) == Append(q, data)

(* dequeue of a non-empty queue returns Head(q) and leaves Tail(q).        *)
dequeue(q) == Tail(q)

(* dequeue_i removes the i-th element (counted from 1) and closes the gap. *)
dequeue_i(q, i) ==
    [j \in 1..(Len(q) - 1) |-> IF j < i THEN q[j] ELSE q[j + 1]]

(* The elements in the queue.                                              *)
Elements(q) == {q[j] : j \in 1..Len(q)}

(* No element is in the queue twice.                                       *)
Distinct(q) == \A i, j \in 1..Len(q) : i # j => q[i] # q[j]
=============================================================================
