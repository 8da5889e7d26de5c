-------------------------- MODULE ThreadPoolProofs --------------------------
(***************************************************************************)
(* Theorems about ThreadPool, for any number of workers, any supply of     *)
(* descriptors, any limit and any policy.                                  *)
(***************************************************************************)
EXTENDS ThreadPool, FiniteSetTheorems, TLAPS

-----------------------------------------------------------------------------
(* The operations of queue.c on sequences, for any elements.               *)

(* queue.c's operations take sequences to sequences, of the length they    *)
(* should have.                                                            *)
LEMMA QueueTypes ==
    ASSUME NEW S, NEW q \in Seq(S)
    PROVE  /\ \A x \in S : /\ enqueue(q, x) \in Seq(S)
                           /\ Len(enqueue(q, x)) = Len(q) + 1
           /\ q # <<>> => /\ Head(q) \in S
                          /\ dequeue(q) \in Seq(S)
                          /\ Len(q) > 0
                          /\ Len(dequeue(q)) = Len(q) - 1
           /\ \A i \in 1..Len(q) : /\ q[i] \in S
                                   /\ dequeue_i(q, i) \in Seq(S)
                                   /\ Len(dequeue_i(q, i)) = Len(q) - 1
  <1>1. \A x \in S : /\ enqueue(q, x) \in Seq(S)
                     /\ Len(enqueue(q, x)) = Len(q) + 1
    BY DEF enqueue
  <1>2. q # <<>> => /\ Head(q) \in S
                    /\ dequeue(q) \in Seq(S)
                    /\ Len(q) > 0
                    /\ Len(dequeue(q)) = Len(q) - 1
    BY DEF dequeue
  <1>3. ASSUME NEW i \in 1..Len(q)
        PROVE  /\ q[i] \in S
               /\ dequeue_i(q, i) \in Seq(S)
               /\ Len(dequeue_i(q, i)) = Len(q) - 1
    <2>1. Len(q) - 1 \in Nat /\ q[i] \in S
      OBVIOUS
    <2>2. \A j \in 1..(Len(q) - 1) :
             (IF j < i THEN q[j] ELSE q[j + 1]) \in S
      OBVIOUS
    <2>. QED  BY <2>1, <2>2 DEF dequeue_i
  <1>. QED  BY <1>1, <1>2, <1>3

(* What queue.c's operations do to the elements of a queue without         *)
(* repetitions.                                                            *)
LEMMA EnqueueElements ==
    ASSUME NEW S, NEW q \in Seq(S), Distinct(q), NEW x \in S,
           x \notin Elements(q)
    PROVE  /\ Distinct(enqueue(q, x))
           /\ Elements(enqueue(q, x)) = Elements(q) \cup {x}
  <1>. DEFINE r == enqueue(q, x)
  <1>1. /\ Len(r) = Len(q) + 1 /\ r[Len(q) + 1] = x
        /\ \A j \in 1..Len(q) : r[j] = q[j]
    BY DEF enqueue
  <1>. HIDE DEF r
  <1>2. Distinct(r)
    BY <1>1 DEF Distinct, Elements
  <1>3. Elements(r) = Elements(q) \cup {x}
    BY <1>1 DEF Elements
  <1>. QED  BY <1>2, <1>3 DEF r

(* dequeue takes one element out and leaves the others.                    *)
LEMMA DequeueElements ==
    ASSUME NEW S, NEW q \in Seq(S), Distinct(q), q # <<>>
    PROVE  /\ Distinct(dequeue(q))
           /\ Head(q) \in Elements(q)
           /\ Elements(dequeue(q)) = Elements(q) \ {Head(q)}
  <1>. DEFINE r == dequeue(q)
  <1>1. /\ Len(q) \in Nat /\ Len(q) >= 1 /\ Head(q) = q[1]
        /\ Len(r) = Len(q) - 1
        /\ \A j \in 1..(Len(q) - 1) : r[j] = q[j + 1]
    BY DEF dequeue
  <1>. HIDE DEF r
  <1>2. Distinct(r)
    BY <1>1 DEF Distinct
  <1>3. Elements(r) = Elements(q) \ {Head(q)}
    <2>1. \A j \in 2..Len(q) : j - 1 \in 1..Len(r) /\ r[j - 1] = q[j]
      BY <1>1
    <2>2. \A x \in Elements(q) : x # q[1] => x \in Elements(r)
      BY <1>1, <2>1 DEF Elements
    <2>3. \A x \in Elements(r) : x \in Elements(q) /\ x # q[1]
      BY <1>1 DEF Elements, Distinct
    <2>. QED  BY <1>1, <2>2, <2>3
  <1>4. Head(q) \in Elements(q)
    BY <1>1 DEF Elements
  <1>. QED  BY <1>2, <1>3, <1>4 DEF r

(* dequeue_i takes one element out and leaves the others.                  *)
LEMMA DequeueIElements ==
    ASSUME NEW S, NEW q \in Seq(S), Distinct(q), NEW i \in 1..Len(q)
    PROVE  /\ Distinct(dequeue_i(q, i))
           /\ q[i] \in Elements(q)
           /\ Elements(dequeue_i(q, i)) = Elements(q) \ {q[i]}
  <1>0. Len(q) \in Nat /\ Len(q) >= 1 /\ Len(q) - 1 \in Nat
    OBVIOUS
  <1>. DEFINE r == dequeue_i(q, i)
  <1>1. /\ Len(r) = Len(q) - 1
        /\ \A j \in 1..(Len(q) - 1) :
              r[j] = IF j < i THEN q[j] ELSE q[j + 1]
    BY <1>0 DEF dequeue_i
  <1>. HIDE DEF r
  <1>2. Distinct(r)
    BY <1>0, <1>1, SMTT(30) DEF Distinct
  <1>3. Elements(r) = Elements(q) \ {q[i]}
    <2>1. \A j \in 1..Len(q) : /\ j < i => r[j] = q[j] /\ j \in 1..Len(r)
                               /\ j > i => /\ r[j - 1] = q[j]
                                           /\ j - 1 \in 1..Len(r)
      BY <1>0, <1>1
    <2>2. \A x \in Elements(q) : x # q[i] => x \in Elements(r)
      BY <1>0, <1>1, <2>1 DEF Elements
    <2>3. \A x \in Elements(r) : x \in Elements(q) /\ x # q[i]
      BY <1>0, <1>1 DEF Elements, Distinct
    <2>. QED  BY <2>2, <2>3
  <1>4. q[i] \in Elements(q)
    BY DEF Elements
  <1>. QED  BY <1>2, <1>3, <1>4 DEF r

-----------------------------------------------------------------------------
(* The inductive invariant behind the typing of the state: connfd[Main] is *)
(* a descriptor when main enqueues it only because of HeldConnections,     *)
(* which in turn needs to know which threads sleep.                        *)
OnlyRandomDeletes == pc[Main] = "delete" => schedalg = "random"
Basic == TypeOK /\ LockDiscipline /\ HeldConnections /\ OnlyRandomDeletes

(* The initial state.                                                      *)
LEMMA InitBasic == Init => Basic
  BY ThreadsAssumption, DescriptorsAssumption, SizesAssumption
  DEF Init, Basic, TypeOK, LockDiscipline, HeldConnections,
      OnlyRandomDeletes, Threads, WorkerPCs, MainPCs, HoldsMutex, HoldsMutex2, Holding, Counted

(* All steps.                                                              *)
LEMMA StepBasic == Basic /\ [Next]_vars => Basic'
  <1>. SUFFICES ASSUME Basic, [Next]_vars  PROVE Basic'
    OBVIOUS
  <1>. USE ThreadsAssumption, DescriptorsAssumption, SizesAssumption
       DEF Basic, TypeOK, LockDiscipline, HeldConnections,
           OnlyRandomDeletes, Threads, WorkerPCs, MainPCs, HoldsMutex, HoldsMutex2, Holding, Counted, Goto, Lock,
           Lock2, Unlock, Unlock2, CloseHeld
  <1>1. ASSUME NEW w \in Workers, WorkerStep(w)  PROVE Basic'
    <2>1. CASE LockQueue(w)
      BY <2>1 DEF LockQueue
    <2>2. CASE LockCounter(w)
      BY <2>2 DEF LockCounter
    <2>3. CASE DequeueEmpty(w)
      BY <2>3 DEF DequeueEmpty
    <2>4. CASE DequeueFound(w)
      <3>1. Head(queue) \in FDs /\ dequeue(queue) \in Seq(FDs)
        BY <2>4, QueueTypes DEF DequeueFound
      <3>. QED  BY <2>4, <3>1 DEF DequeueFound
    <2>5. CASE CondWait(w)
      BY <2>5 DEF CondWait
    <2>6. CASE UnlockQueue(w)
      BY <2>6 DEF UnlockQueue
    <2>7. CASE RequestHandle(w)
      BY <2>7 DEF RequestHandle
    <2>8. CASE CountLock(w)
      BY <2>8 DEF CountLock
    <2>9. CASE CountDown(w)
      BY <2>9 DEF CountDown
    <2>10. CASE Signal2(w)
      BY <2>10 DEF Signal2
    <2>11. CASE CloseServed(w)
      BY <2>11 DEF CloseServed
    <2>. QED  BY <1>1, <2>1, <2>2, <2>3, <2>4, <2>5, <2>6, <2>7, <2>8, <2>9, <2>10, <2>11 DEF WorkerStep
  <1>2. CASE Accept
    BY <1>2 DEF Accept
  <1>3. CASE CheckLock
    BY <1>3 DEF CheckLock
  <1>4. CASE Check
    BY <1>4 DEF Check
  <1>5. CASE EnqueueLock
    BY <1>5 DEF EnqueueLock
  <1>6. CASE Enqueue
    <2>1. connfd[Main] \in FDs
      BY <1>6 DEF Enqueue
    <2>2. queue' \in Seq(FDs)
      BY <1>6, <2>1, QueueTypes DEF Enqueue
    <2>. QED  BY <1>6, <2>2 DEF Enqueue
  <1>7. CASE Signal
    BY <1>7 DEF Signal
  <1>8. CASE DropTail
    BY <1>8 DEF DropTail
  <1>9. CASE Dynamic
    BY <1>9 DEF Dynamic
  <1>10. CASE RecheckLock
    BY <1>10 DEF RecheckLock
  <1>11. CASE CondWait2
    BY <1>11 DEF CondWait2
  <1>12. CASE WaitOver
    BY <1>12 DEF WaitOver
  <1>13. CASE Refuse
    BY <1>13 DEF Refuse
  <1>14. CASE DropLock
    BY <1>14 DEF DropLock
  <1>15. CASE DropHead
    <2>1. queue' \in Seq(FDs) /\ open' \subseteq FDs
      BY <1>15, QueueTypes DEF DropHead
    <2>. QED  BY <1>15, <2>1 DEF DropHead
  <1>16. CASE RandomEmpty
    BY <1>16 DEF RandomEmpty
  <1>17. CASE RandomHalf
    BY <1>17 DEF RandomHalf, HalfOf
  <1>18. CASE RandomDelete
    <2>1. queue' \in Seq(FDs) /\ open' \subseteq FDs
      BY <1>18, QueueTypes DEF RandomDelete
    <2>2. size_to_del' \in Nat
      BY <1>18 DEF RandomDelete
    <2>. QED  BY <1>18, <2>1, <2>2 DEF RandomDelete
  <1>19. CASE RandomDone
    BY <1>19 DEF RandomDone
  <1>20. CASE FallThrough
    BY <1>20 DEF FallThrough
  <1>21. CASE SpuriousWakeup
    BY <1>21 DEF SpuriousWakeup
  <1>22. CASE UNCHANGED vars
    BY <1>22 DEF vars
  <1>. QED  BY <1>1, <1>2, <1>3, <1>4, <1>5, <1>6, <1>7, <1>8, <1>9, <1>10, <1>11, <1>12, <1>13, <1>14, <1>15, <1>16, <1>17, <1>18, <1>19, <1>20, <1>21, <1>22
       DEF Next, MainWork, HandleOverloading

(* Basic holds in every state.                                             *)
LEMMA BasicInvariant == Spec => []Basic
  BY InitBasic, StepBasic, PTL DEF Spec

(* The state of the server stays well typed: the counter and the locks     *)
(* have the values they should, the queue holds descriptors only.          *)
THEOREM TypeCorrect == Spec => []TypeOK
  BY BasicInvariant, PTL DEF Basic

(* The mutexes of server.c exclude: a thread inside a critical section     *)
(* owns its lock, whatever the number of workers.                          *)
THEOREM LocksCorrect == Spec => []LockDiscipline
  BY BasicInvariant, PTL DEF Basic

-----------------------------------------------------------------------------
(* What the workers, and wakeups, can do to the load while main is busy.   *)
OthersOnlyDrain ==
    /\ schedalg' = schedalg /\ queue_size' = queue_size
    /\ size_to_del' = size_to_del
    /\ Load' <= Load /\ Len(queue') <= Len(queue)
    /\ pc'[Main] # pc[Main] => pc'[Main] = "overloaded"

(* A worker's step adds no load.                                           *)
LEMMA WorkersOnlyDrain ==
    ASSUME Basic, NEW w \in Workers, WorkerStep(w)  PROVE OthersOnlyDrain
  <1>. USE ThreadsAssumption
       DEF OthersOnlyDrain, Basic, TypeOK, Threads, Goto, Load
  <1>1. CASE DequeueFound(w)
    <2>1. Len(dequeue(queue)) = Len(queue) - 1 /\ Len(queue) \in Nat
      BY <1>1, QueueTypes DEF DequeueFound
    <2>. QED  BY <1>1, <2>1 DEF DequeueFound
  <1>2. CASE CountDown(w)
    BY <1>2 DEF CountDown
  <1>3. CASE Signal2(w)
    BY <1>3 DEF Signal2
  <1>4. CASE ~(DequeueFound(w) \/ CountDown(w) \/ Signal2(w))
    BY <1>4 DEF WorkerStep, LockQueue, LockCounter, DequeueEmpty, CondWait,
                UnlockQueue, RequestHandle, CountLock, CloseServed
  <1>. QED  BY <1>1, <1>2, <1>3, <1>4

(* Nor does a spurious wakeup.                                             *)
LEMMA WakeupsOnlyDrain == Basic /\ SpuriousWakeup => OthersOnlyDrain
  BY ThreadsAssumption DEF OthersOnlyDrain, Basic, TypeOK, Threads, Goto, Load,
                           SpuriousWakeup

(* CapacityRespected is inductive once it says that main, on its way to    *)
(* enqueue, has found a free place that nobody else can take.              *)
ToEnqueue == pc[Main] \in {"enqueue_lock", "enqueue"}
CapacityInv ==
    schedalg \in Bounding => /\ Load <= queue_size
                             /\ ToEnqueue => Load < queue_size

(* All steps.                                                              *)
LEMMA StepCapacity == Basic /\ CapacityInv /\ [Next]_vars => CapacityInv'
  <1>. SUFFICES ASSUME Basic, CapacityInv, [Next]_vars, schedalg' \in Bounding
                PROVE  /\ (Load <= queue_size)'
                       /\ ToEnqueue' => (Load < queue_size)'
    BY DEF CapacityInv
  <1>0. /\ schedalg' = schedalg /\ schedalg \in Bounding
        /\ queue \in Seq(FDs) /\ Len(queue) \in Nat
        /\ queue_size \in Nat /\ num_of_curr_working \in Int
        /\ Len(queue') \in Nat /\ num_of_curr_working' \in Int
        /\ pc[Main] # "delete"
    <2>1. schedalg' = schedalg
      BY DEF Next, MainWork, HandleOverloading, WorkerStep, vars, Accept,
             CheckLock, Check, EnqueueLock, Enqueue, Signal, DropTail, Dynamic,
             RecheckLock, CondWait2, WaitOver, Refuse, DropLock, DropHead,
             RandomEmpty, RandomHalf, RandomDelete, RandomDone, FallThrough,
             SpuriousWakeup, LockQueue, LockCounter, DequeueEmpty,
             DequeueFound, CondWait, UnlockQueue, RequestHandle, CountLock,
             CountDown, Signal2, CloseServed
    <2>2. Basic'
      BY StepBasic
    <2>. QED  BY <2>1, <2>2
              DEF Basic, TypeOK, OnlyRandomDeletes, Bounding, KnownAlgs
  <1>. USE <1>0 DEF CapacityInv, ToEnqueue, Goto, Load, Overloaded
  <1>1. CASE \E w \in Workers : WorkerStep(w)
    BY <1>1, WorkersOnlyDrain DEF OthersOnlyDrain, Basic, TypeOK
  <1>2. CASE SpuriousWakeup
    BY <1>2, WakeupsOnlyDrain DEF OthersOnlyDrain, Basic, TypeOK
  <1>3. CASE Enqueue
    <2>1. connfd[Main] \in FDs
      BY <1>3, DescriptorsAssumption
      DEF Enqueue, Basic, TypeOK, HeldConnections, Holding, Counted, MainPCs,
          Threads
    <2>2. Len(queue') = Len(queue) + 1
      BY <1>3, <2>1, QueueTypes DEF Enqueue
    <2>. QED  BY <1>3, <2>2 DEF Enqueue, Basic, TypeOK, Threads
  <1>4. CASE DropHead
    <2>1. queue # <<>> => Len(queue') = Len(queue) - 1 /\ Len(queue) > 0
      BY <1>4, QueueTypes DEF DropHead
    <2>. QED  BY <1>4, <2>1 DEF DropHead, Basic, TypeOK, Threads
  <1>5. CASE Check
    BY <1>5 DEF Check, Basic, TypeOK, Threads
  <1>6. CASE WaitOver
    BY <1>6 DEF WaitOver, MustWait, Basic, TypeOK, Threads
  <1>7. CASE Dynamic
    BY <1>7 DEF Dynamic, Basic, TypeOK, Threads
  <1>8. CASE RandomDelete
    BY <1>8 DEF RandomDelete
  <1>9. CASE \/ Accept \/ CheckLock \/ Signal \/ EnqueueLock \/ DropTail
             \/ RecheckLock \/ CondWait2 \/ Refuse \/ DropLock
             \/ RandomEmpty \/ RandomHalf \/ UNCHANGED vars
    BY <1>9, ThreadsAssumption
    DEF Accept, CheckLock, Signal, EnqueueLock, DropTail, RecheckLock,
        CondWait2, Refuse, DropLock, RandomEmpty, RandomHalf, vars, Basic,
        TypeOK, Threads
  <1>10. CASE RandomDone \/ FallThrough
    BY <1>10 DEF RandomDone, FallThrough, Bounding, KnownAlgs
  <1>. QED
    BY <1>1, <1>2, <1>3, <1>4, <1>5, <1>6, <1>7, <1>8, <1>9, <1>10
    DEF Next, MainWork, HandleOverloading

(* Whatever the workers do between main's look at the load and its         *)
(* enqueue, the limit is respected by every policy of server.c but random. *)
THEOREM CapacityHolds == Spec => []CapacityRespected
  <1>1. Init => CapacityInv
    BY SizesAssumption, ThreadsAssumption DEF Init, CapacityInv, ToEnqueue, Load, Threads
  <1>2. CapacityInv => CapacityRespected
    BY DEF CapacityInv, CapacityRespected
  <1>. QED  BY <1>1, <1>2, StepCapacity, BasicInvariant, PTL DEF Spec

-----------------------------------------------------------------------------
(* OneOwner with the elements of the queue as a set E of their own, so     *)
(* that a step is reasoned about by what it does to the sets.              *)
Owned(E, conn, opn) ==
    /\ \A s, t \in Threads : s # t /\ conn[s] # NoFD => conn[s] # conn[t]
    /\ \A t \in Threads : conn[t] \notin E
    /\ opn = E \cup ({conn[t] : t \in Threads} \ {NoFD})

(* The parts of OneOwner.                                                  *)
LEMMA OwnedIsOneOwner ==
    OneOwner <=> /\ HeldConnections /\ Distinct(queue)
                 /\ Owned(Elements(queue), connfd, open)
  BY DEF OneOwner, Owned

Connections == [Threads -> FDs \cup {NoFD}]

(* A thread gets a new connection.                                         *)
LEMMA OwnAccept ==
    ASSUME NEW E \in SUBSET FDs, NEW conn \in Connections, NEW opn,
           Owned(E, conn, opn), NEW t \in Threads, conn[t] = NoFD,
           NEW fd \in FDs \ opn
    PROVE  Owned(E, [conn EXCEPT ![t] = fd], opn \cup {fd})
  BY DescriptorsAssumption DEF Owned, Connections

(* A thread puts its connection into the queue.                            *)
LEMMA OwnEnqueue ==
    ASSUME NEW E \in SUBSET FDs, NEW conn \in Connections, NEW opn,
           Owned(E, conn, opn), NEW t \in Threads, conn[t] # NoFD
    PROVE  /\ conn[t] \notin E
           /\ Owned(E \cup {conn[t]}, [conn EXCEPT ![t] = NoFD], opn)
  BY DescriptorsAssumption DEF Owned, Connections

(* A thread closes its connection.                                         *)
LEMMA OwnClose ==
    ASSUME NEW E \in SUBSET FDs, NEW conn \in Connections, NEW opn,
           Owned(E, conn, opn), NEW t \in Threads, conn[t] # NoFD
    PROVE  Owned(E, [conn EXCEPT ![t] = NoFD], opn \ {conn[t]})
  BY DescriptorsAssumption DEF Owned, Connections

(* A connection is taken out of the queue and closed.                      *)
LEMMA OwnDrop ==
    ASSUME NEW E \in SUBSET FDs, NEW conn \in Connections, NEW opn,
           Owned(E, conn, opn), NEW fd \in E
    PROVE  Owned(E \ {fd}, conn, opn \ {fd})
  BY DescriptorsAssumption DEF Owned, Connections

(* A thread takes a connection out of the queue.                           *)
LEMMA OwnTake ==
    ASSUME NEW E \in SUBSET FDs, NEW conn \in Connections, NEW opn,
           Owned(E, conn, opn), NEW t \in Threads, conn[t] = NoFD,
           NEW fd \in E
    PROVE  Owned(E \ {fd}, [conn EXCEPT ![t] = fd], opn)
  BY DescriptorsAssumption DEF Owned, Connections

(* All steps.                                                              *)
LEMMA StepOwner == Basic /\ OneOwner /\ [Next]_vars => OneOwner'
  <1>. SUFFICES ASSUME Basic, OneOwner, [Next]_vars
                PROVE  /\ Distinct(queue')
                       /\ Owned(Elements(queue'), connfd', open')
    BY StepBasic, OwnedIsOneOwner DEF OneOwner, Owned, Basic
  <1>0. /\ Distinct(queue) /\ Owned(Elements(queue), connfd, open)
        /\ queue \in Seq(FDs) /\ Elements(queue) \in SUBSET FDs
        /\ connfd \in Connections
        /\ Main \in Threads /\ \A w \in Workers : w \in Threads
        /\ \A t \in Threads : connfd[t] # NoFD <=> pc[t] \in Holding
    BY OwnedIsOneOwner
    DEF Basic, TypeOK, Elements, Threads, HeldConnections, Connections
  <1>. USE <1>0
  <1>. DEFINE E == Elements(queue)
              Goal == Distinct(queue') /\ Owned(Elements(queue'), connfd', open')
  <1>1. CASE Accept
    <2>1. connfd[Main] = NoFD
      BY <1>1 DEF Accept, Holding, Counted, MainPCs
    <2>2. PICK fd \in FDs \ open : /\ open' = open \cup {fd}
                                   /\ connfd' = [connfd EXCEPT ![Main] = fd]
      BY <1>1 DEF Accept
    <2>3. Owned(E, connfd', open')
      BY <2>1, <2>2, OwnAccept
    <2>. QED  BY <1>1, <2>3 DEF Accept
  <1>2. CASE Enqueue
    <2>1. connfd[Main] \in FDs /\ connfd[Main] # NoFD
      BY <1>2, DescriptorsAssumption
      DEF Enqueue, Holding, MainPCs, Connections
    <2>2. /\ connfd[Main] \notin E
          /\ Owned(E \cup {connfd[Main]}, [connfd EXCEPT ![Main] = NoFD], open)
      BY <2>1, OwnEnqueue
    <2>3. Distinct(queue') /\ Elements(queue') = E \cup {connfd[Main]}
      BY <1>2, <2>1, <2>2, EnqueueElements DEF Enqueue
    <2>. QED  BY <1>2, <2>2, <2>3 DEF Enqueue
  <1>3. CASE DropHead /\ queue # <<>>
    <2>1. /\ Head(queue) \in E /\ Distinct(queue')
          /\ Elements(queue') = E \ {Head(queue)}
      BY <1>3, DequeueElements DEF DropHead
    <2>2. Owned(E \ {Head(queue)}, connfd, open \ {Head(queue)})
      BY <2>1, OwnDrop
    <2>. QED  BY <1>3, <2>1, <2>2 DEF DropHead
  <1>4. CASE RandomDelete
    <2>1. PICK i \in 1..Len(queue) : /\ open' = open \ {queue[i]}
                                     /\ queue' = dequeue_i(queue, i)
      BY <1>4 DEF RandomDelete
    <2>2. /\ queue[i] \in E /\ Distinct(queue')
          /\ Elements(queue') = E \ {queue[i]}
      BY <2>1, DequeueIElements
    <2>3. Owned(E \ {queue[i]}, connfd, open \ {queue[i]})
      BY <2>2, OwnDrop
    <2>. QED  BY <1>4, <2>1, <2>2, <2>3 DEF RandomDelete
  <1>5. ASSUME NEW w \in Workers, DequeueFound(w)  PROVE Goal
    <2>1. connfd[w] = NoFD
      BY <1>5 DEF DequeueFound, Holding, Counted, MainPCs
    <2>2. /\ Head(queue) \in E /\ Distinct(queue')
          /\ Elements(queue') = E \ {Head(queue)}
      BY <1>5, DequeueElements DEF DequeueFound
    <2>3. Owned(E \ {Head(queue)},
                [connfd EXCEPT ![w] = Head(queue)], open)
      BY <2>1, <2>2, OwnTake
    <2>. QED  BY <1>5, <2>2, <2>3 DEF DequeueFound
  <1>6. ASSUME NEW t \in Threads, pc[t] \in Holding, CloseHeld(t),
               UNCHANGED queue
        PROVE  Goal
    <2>1. Owned(E, [connfd EXCEPT ![t] = NoFD], open \ {connfd[t]})
      BY <1>6, OwnClose
    <2>. QED  BY <1>6, <2>1 DEF CloseHeld
  <1>7. ASSUME NEW w \in Workers, CloseServed(w)  PROVE Goal
    BY <1>6, <1>7 DEF CloseServed, Holding
  <1>8. CASE DropTail \/ Dynamic \/ Refuse \/ (DropHead /\ queue = <<>>)
    BY <1>6, <1>8 DEF DropTail, Dynamic, Refuse, DropHead, Holding, MainPCs
  <1>9. CASE UNCHANGED <<queue, connfd, open>>
    BY <1>9
  <1>10. ASSUME NEW w \in Workers, WorkerStep(w)
         PROVE  \/ DequeueFound(w) \/ CloseServed(w)
                \/ UNCHANGED <<queue, connfd, open>>
    BY <1>10 DEF WorkerStep, LockQueue, LockCounter, DequeueEmpty, CondWait,
                 UnlockQueue, RequestHandle, CountLock, CountDown, Signal2
  <1>11. ASSUME MainWork
         PROVE  \/ Enqueue \/ DropHead \/ RandomDelete
                \/ DropTail \/ Dynamic \/ Refuse
                \/ UNCHANGED <<queue, connfd, open>>
    BY <1>11 DEF MainWork, HandleOverloading, CheckLock, Check, EnqueueLock,
                 Signal, RecheckLock, CondWait2, WaitOver, DropLock,
                 RandomEmpty, RandomHalf, RandomDone, FallThrough
  <1>12. SpuriousWakeup \/ UNCHANGED vars
            => UNCHANGED <<queue, connfd, open>>
    BY DEF SpuriousWakeup, vars
  <1>. QED
    BY <1>1, <1>2, <1>3, <1>4, <1>5, <1>7, <1>8, <1>9, <1>10, <1>11, <1>12
    DEF Next

(* No descriptor leaks and none is served or closed twice: every open      *)
(* connection has one owner, the queue, a worker, or main.                 *)
THEOREM OwnershipHolds == Spec => []OneOwner
  <1>1. Init => OneOwner
    BY InitBasic, DescriptorsAssumption
    DEF Init, OneOwner, Distinct, Elements, Basic
  <1>. QED  BY <1>1, StepOwner, BasicInvariant, PTL DEF Spec

-----------------------------------------------------------------------------
(* Sets of workers have a cardinality.                                     *)
LEMMA ServingFinite ==
    ASSUME NEW S, S \subseteq Workers
    PROVE  IsFiniteSet(S) /\ Cardinality(S) \in Nat
  BY ThreadsAssumption, FS_Subset, FS_CardinalityType

(* The counter follows the set of workers that serve: thread_func's two    *)
(* increments and its decrement are where a worker enters and leaves it.   *)
LEMMA StepCounter == Basic /\ CounterExact /\ [Next]_vars => CounterExact'
  <1>. SUFFICES ASSUME Basic, CounterExact, [Next]_vars
                PROVE  num_of_curr_working' = Cardinality(Serving')
    BY DEF CounterExact
  <1>0. /\ IsFiniteSet(Serving) /\ Serving \subseteq Workers
        /\ num_of_curr_working = Cardinality(Serving)
        /\ Cardinality(Serving) \in Nat
        /\ pc \in [Threads -> WorkerPCs \cup MainPCs]
        /\ Main \notin Workers /\ Workers \subseteq Threads
        /\ cond \subseteq Workers /\ cond2 \subseteq {Main}
        /\ \A t \in cond : pc[t] = "wait"
    BY ServingFinite, ThreadsAssumption
    DEF Serving, CounterExact, Basic, TypeOK, LockDiscipline, Threads
  <1>. USE <1>0
  <1>1. ASSUME NEW w \in Workers, DequeueFound(w)
        PROVE  num_of_curr_working' = Cardinality(Serving')
    <2>1. Serving' = Serving \cup {w} /\ w \notin Serving
      BY <1>1 DEF DequeueFound, Goto, Serving, Counted
    <2>2. Cardinality(Serving \cup {w}) = Cardinality(Serving) + 1
      BY <2>1, FS_AddElement
    <2>. QED  BY <1>1, <2>1, <2>2 DEF DequeueFound
  <1>2. ASSUME NEW w \in Workers, CountDown(w)
        PROVE  num_of_curr_working' = Cardinality(Serving')
    <2>1. Serving' = Serving \ {w} /\ w \in Serving
      BY <1>2 DEF CountDown, Goto, Serving, Counted
    <2>2. Cardinality(Serving \ {w}) = Cardinality(Serving) - 1
      BY <2>1, FS_RemoveElement
    <2>. QED  BY <1>2, <2>1, <2>2 DEF CountDown
  <1>3. ASSUME UNCHANGED num_of_curr_working,
               \A w \in Workers : pc'[w] \in Counted <=> pc[w] \in Counted
        PROVE  num_of_curr_working' = Cardinality(Serving')
    <2>1. Serving' = Serving
      BY <1>3 DEF Serving
    <2>. QED  BY <1>3, <2>1
  <1>4. ASSUME NEW w \in Workers, WorkerStep(w)
        PROVE  \/ DequeueFound(w) \/ CountDown(w)
               \/ /\ UNCHANGED num_of_curr_working
                  /\ \A v \in Workers : pc'[v] \in Counted <=> pc[v] \in Counted
    BY <1>4 DEF WorkerStep, LockQueue, LockCounter, DequeueEmpty, CondWait,
                UnlockQueue, RequestHandle, CountLock, Signal2, CloseServed,
                Goto, Counted
  <1>5. ASSUME Accept \/ MainWork \/ SpuriousWakeup \/ UNCHANGED vars
        PROVE  /\ UNCHANGED num_of_curr_working
               /\ \A v \in Workers : pc'[v] \in Counted <=> pc[v] \in Counted
    <2>. USE DEF Goto, Counted
    <2>1. CASE Accept \/ SpuriousWakeup \/ UNCHANGED vars
      BY <2>1 DEF Accept, SpuriousWakeup, vars
    <2>2. CASE Signal
      BY <2>2 DEF Signal
    <2>3. CASE CheckLock \/ Check \/ EnqueueLock \/ Enqueue
      BY <2>3 DEF CheckLock, Check, EnqueueLock, Enqueue
    <2>4. CASE HandleOverloading
      BY <2>4 DEF HandleOverloading, DropTail, Dynamic, RecheckLock, CondWait2,
                  WaitOver, Refuse, DropLock, DropHead, RandomEmpty,
                  RandomHalf, RandomDelete, RandomDone, FallThrough
    <2>. QED  BY <1>5, <2>1, <2>2, <2>3, <2>4 DEF MainWork
  <1>. QED  BY <1>1, <1>2, <1>3, <1>4, <1>5 DEF Next

(* num_of_curr_working is exact for any number of workers.                 *)
THEOREM CounterHolds == Spec => []CounterExact
  <1>1. Init => CounterExact
    <2>. SUFFICES ASSUME Init  PROVE CounterExact
      OBVIOUS
    <2>1. Serving = {}
      BY ThreadsAssumption DEF Init, Serving, Counted, Threads
    <2>. QED  BY <2>1, FS_EmptySet DEF Init, CounterExact
  <1>. QED  BY <1>1, StepCounter, BasicInvariant, PTL DEF Spec

-----------------------------------------------------------------------------
(* The image of a finite set under a function is no larger than the set.   *)
LEMMA ImageBound ==
    ASSUME NEW S, IsFiniteSet(S), NEW f, f = [x \in S |-> f[x]]
    PROVE  LET T == {f[x] : x \in S}
           IN  IsFiniteSet(T) /\ Cardinality(T) <= Cardinality(S)
  <1>. DEFINE T == {f[x] : x \in S}
  <1>1. f \in Surjection(S, T)
    BY DEF Surjection
  <1>. QED  BY <1>1, FS_Surjection

(* The process never has more connections open than the queue holds, plus  *)
(* one for each thread.                                                    *)
LEMMA OpenBound ==
    Basic /\ OneOwner =>
        Cardinality(open) <= Len(queue) + Cardinality(Workers) + 1
  <1>. SUFFICES ASSUME Basic, OneOwner
                PROVE Cardinality(open) <= Len(queue) + Cardinality(Workers) + 1
    OBVIOUS
  <1>. DEFINE E == Elements(queue)
              C == {connfd[t] : t \in Threads}
  <1>1. queue \in Seq(FDs) /\ Len(queue) \in Nat /\ open \subseteq E \cup C
    BY DEF Basic, TypeOK, OneOwner
  <1>2. IsFiniteSet(E) /\ Cardinality(E) <= Len(queue)
    <2>1. IsFiniteSet(1..Len(queue)) /\ Cardinality(1..Len(queue)) = Len(queue)
      BY <1>1, FS_Interval
    <2>2. queue = [j \in 1..Len(queue) |-> queue[j]]
      BY <1>1
    <2>. QED  BY <2>1, <2>2, ImageBound DEF Elements
  <1>3. /\ IsFiniteSet(Threads)
        /\ Cardinality(Threads) = Cardinality(Workers) + 1
        /\ Cardinality(Workers) \in Nat
    BY ThreadsAssumption, FS_AddElement, FS_CardinalityType DEF Threads
  <1>4. IsFiniteSet(C) /\ Cardinality(C) <= Cardinality(Threads)
    <2>1. connfd = [t \in Threads |-> connfd[t]]
      BY DEF Basic, TypeOK
    <2>. QED  BY <1>3, <2>1, ImageBound
  <1>. HIDE DEF E, C
  <1>5. /\ IsFiniteSet(E \cup C)
        /\ Cardinality(E \cup C) <= Cardinality(E) + Cardinality(C)
    <2>1. /\ IsFiniteSet(E \cup C)
          /\ Cardinality(E \cup C)
                = Cardinality(E) + Cardinality(C) - Cardinality(E \cap C)
      BY <1>2, <1>4, FS_Union
    <2>2. IsFiniteSet(E \cap C)
      BY <1>2, FS_Subset
    <2>3. /\ Cardinality(E) \in Nat /\ Cardinality(C) \in Nat
          /\ Cardinality(E \cap C) \in Nat
      BY <1>2, <1>4, <2>2, FS_CardinalityType
    <2>. QED  BY <2>1, <2>3
  <1>6. Cardinality(open) <= Cardinality(E \cup C) /\ IsFiniteSet(open)
    BY <1>1, <1>5, FS_Subset
  <1>7. /\ Cardinality(E) \in Nat /\ Cardinality(C) \in Nat
        /\ Cardinality(E \cup C) \in Nat /\ Cardinality(open) \in Nat
    BY <1>2, <1>4, <1>5, <1>6, FS_CardinalityType
  <1>. QED  BY <1>1, <1>2, <1>3, <1>4, <1>5, <1>6, <1>7

(* The number of open connections is bounded by the limit and the number   *)
(* of threads, although connections are closed after they stop counting.   *)
THEOREM DescriptorsHold == Spec => []DescriptorsBounded
  <1>1. Basic /\ OneOwner /\ CapacityRespected => DescriptorsBounded
    <2>. SUFFICES ASSUME Basic, OneOwner, CapacityRespected,
                         schedalg \in Bounding
                  PROVE  Cardinality(open) + num_of_curr_working
                            <= queue_size + Cardinality(Workers) + 1
      BY DEF DescriptorsBounded
    <2>1. Cardinality(open) <= Len(queue) + Cardinality(Workers) + 1
      BY OpenBound
    <2>2. Len(queue) + num_of_curr_working <= queue_size
      BY DEF CapacityRespected, Load
    <2>3. /\ Cardinality(open) \in Nat /\ Cardinality(Workers) \in Nat
          /\ Len(queue) \in Nat /\ num_of_curr_working \in Int
          /\ queue_size \in Nat
      BY FS_Subset, FS_CardinalityType, ThreadsAssumption,
         DescriptorsAssumption
      DEF Basic, TypeOK
    <2>. QED  BY <2>1, <2>2, <2>3
  <1>. QED  BY <1>1, BasicInvariant, OwnershipHolds, CapacityHolds, PTL

-----------------------------------------------------------------------------
(* A worker about to sleep has seen the queue empty and still owns mutex,  *)
(* which main needs in order to enqueue.                                   *)
WakeupInv ==
    /\ \A w \in Workers : pc[w] = "empty" => queue = <<>>
    /\ NoLostWakeup

(* All steps.                                                              *)
LEMMA StepWakeup == Basic /\ WakeupInv /\ [Next]_vars => WakeupInv'
  <1>. SUFFICES ASSUME Basic, WakeupInv, [Next]_vars  PROVE WakeupInv'
    OBVIOUS
  <1>. USE ThreadsAssumption
       DEF Basic, TypeOK, Threads, WakeupInv, NoLostWakeup, Goto
  <1>1. ASSUME NEW w \in Workers, WorkerStep(w)  PROVE WakeupInv'
    <2>1. CASE DequeueFound(w)
      BY <2>1 DEF DequeueFound, LockDiscipline, HoldsMutex
    <2>2. CASE DequeueEmpty(w)
      BY <2>2 DEF DequeueEmpty
    <2>3. CASE CondWait(w)
      BY <2>3 DEF CondWait
    <2>4. CASE Signal2(w)
      BY <2>4 DEF Signal2, LockDiscipline
    <2>5. CASE LockQueue(w) \/ LockCounter(w) \/ UnlockQueue(w)
      BY <2>5 DEF LockQueue, LockCounter, UnlockQueue
    <2>6. CASE RequestHandle(w) \/ CountLock(w) \/ CountDown(w)
               \/ CloseServed(w)
      BY <2>6 DEF RequestHandle, CountLock, CountDown, CloseServed
    <2>. QED  BY <1>1, <2>1, <2>2, <2>3, <2>4, <2>5, <2>6 DEF WorkerStep
  <1>2. CASE Enqueue
    BY <1>2 DEF Enqueue, LockDiscipline, HoldsMutex
  <1>3. CASE Signal
    BY <1>3 DEF Signal
  <1>4. CASE DropHead \/ RandomDelete
    <2>1. queue = <<>> => queue' = <<>>
      BY <1>4 DEF DropHead, RandomDelete
    <2>2. /\ cond' = cond /\ \A w \in Workers : pc'[w] = pc[w]
          /\ pc[Main] # "signal"
      BY <1>4 DEF DropHead, RandomDelete
    <2>. QED  BY <2>1, <2>2
  <1>5. CASE SpuriousWakeup
    BY <1>5 DEF SpuriousWakeup, LockDiscipline
  <1>6. CASE UNCHANGED <<queue, cond>> /\ pc[Main] # "signal"
             /\ \A w \in Workers : pc'[w] = pc[w]
    BY <1>6
  <1>7. CASE UNCHANGED vars
    BY <1>7 DEF vars
  <1>8. ASSUME Accept \/ MainWork
        PROVE  \/ Enqueue \/ Signal \/ DropHead \/ RandomDelete
               \/ UNCHANGED <<queue, cond>> /\ pc[Main] # "signal"
                  /\ \A w \in Workers : pc'[w] = pc[w]
    BY <1>8 DEF MainWork, HandleOverloading, Accept, CheckLock, Check,
                EnqueueLock, DropTail, Dynamic, RecheckLock, CondWait2,
                WaitOver, Refuse, DropLock, RandomEmpty, RandomHalf,
                RandomDone, FallThrough
  <1>. QED  BY <1>1, <1>2, <1>3, <1>4, <1>5, <1>6, <1>7, <1>8 DEF Next

(* Main signals after it has released mutex, and still no connection waits *)
(* with all workers asleep.                                                *)
THEOREM WakeupsHold == Spec => []NoLostWakeup
  <1>1. Init => WakeupInv
    BY ThreadsAssumption DEF Init, WakeupInv, NoLostWakeup, Threads
  <1>2. WakeupInv => NoLostWakeup
    BY DEF WakeupInv
  <1>. QED  BY <1>1, <1>2, StepWakeup, BasicInvariant, PTL DEF Spec

(* When main sleeps, its reason to sleep was true when it released mutex2, *)
(* and only a worker that goes on to signal can end it: nobody enqueues.   *)
(* The limit and the policy do not change while main sleeps.               *)
LEMMA StepWakeup2 ==
    Basic /\ NoLostWakeup2 /\ [Next]_vars => NoLostWakeup2'
  <1>. SUFFICES ASSUME Basic, NoLostWakeup2, [Next]_vars, Main \in cond2'
                PROVE  MustWait' \/ \E w \in Workers : pc'[w] = "signal2"
    BY DEF NoLostWakeup2
  <1>. USE ThreadsAssumption DEF Basic, TypeOK, Threads, NoLostWakeup2, Goto
  <1>1. ASSUME NEW w \in Workers, WorkerStep(w)
        PROVE  MustWait' \/ \E v \in Workers : pc'[v] = "signal2"
    <2>1. CASE CountDown(w)
      BY <2>1 DEF CountDown
    <2>2. CASE Signal2(w)
      BY <2>2 DEF Signal2
    <2>3. CASE DequeueFound(w)
      <3>1. Load' = Load
        <4>1. Len(queue') = Len(queue) - 1 /\ Len(queue) \in Nat
          BY <2>3, QueueTypes DEF DequeueFound
        <4>. QED  BY <2>3, <4>1 DEF DequeueFound, Load
      <3>2. UNCHANGED <<schedalg, queue_size, cond2>>
        BY <2>3 DEF DequeueFound
      <3>3. \A v \in Workers : pc[v] = "signal2" => pc'[v] = "signal2"
        BY <2>3 DEF DequeueFound
      <3>. QED  BY <3>1, <3>2, <3>3 DEF MustWait, Overloaded
    <2>4. CASE ~(CountDown(w) \/ Signal2(w) \/ DequeueFound(w))
      <3>1. UNCHANGED <<schedalg, queue, num_of_curr_working, queue_size,
                        cond2>>
        BY <1>1, <2>4 DEF WorkerStep, LockQueue, LockCounter, DequeueEmpty,
                     CondWait, UnlockQueue, RequestHandle, CountLock,
                     CloseServed
      <3>2. \A v \in Workers : pc[v] = "signal2" => pc'[v] = "signal2"
        BY <1>1, <2>4 DEF WorkerStep, LockQueue, LockCounter, DequeueEmpty,
                     CondWait, UnlockQueue, RequestHandle, CountLock,
                     CloseServed
      <3>. QED  BY <3>1, <3>2 DEF MustWait, Overloaded, Load
    <2>. QED  BY <2>1, <2>2, <2>3, <2>4
  <1>2. CASE CondWait2
    BY <1>2 DEF CondWait2, MustWait, Overloaded, Load
  <1>3. CASE SpuriousWakeup
    BY <1>3 DEF SpuriousWakeup, MustWait, Overloaded, Load, LockDiscipline
  <1>4. CASE UNCHANGED vars
    BY <1>4 DEF vars, MustWait, Overloaded, Load
  <1>5. ASSUME Accept \/ MainWork, ~CondWait2
        PROVE  FALSE
    <2>1. pc[Main] # "wait2" /\ cond2' = cond2
      BY <1>5 DEF MainWork, HandleOverloading, Accept, CheckLock, Check,
                  EnqueueLock, Enqueue, Signal, DropTail, Dynamic,
                  RecheckLock, WaitOver, Refuse, DropLock, DropHead,
                  RandomEmpty, RandomHalf, RandomDelete, RandomDone,
                  FallThrough
    <2>. QED  BY <2>1 DEF LockDiscipline
  <1>. QED  BY <1>1, <1>2, <1>3, <1>4, <1>5 DEF Next

(* Workers signal main after they have released mutex2, and still main     *)
(* never sleeps on without a reason and without a signal to come.          *)
THEOREM Wakeups2Hold == Spec => []NoLostWakeup2
  <1>1. Init => NoLostWakeup2
    BY DEF Init, NoLostWakeup2
  <1>. QED  BY <1>1, StepWakeup2, BasicInvariant, PTL DEF Spec

-----------------------------------------------------------------------------
(* RandomOvershoot is inductive together with what main has made sure of   *)
(* on its way to enqueue, and while it is still deleting.                  *)
OvershootInv ==
    schedalg = "random" =>
        /\ Load <= queue_size \/ Len(queue) <= 2
        /\ ToEnqueue => Load < queue_size \/ Len(queue) <= 1
        /\ pc[Main] = "delete" => \/ Load - size_to_del < queue_size
                                  \/ Len(queue) - size_to_del <= 1

(* All steps.                                                              *)
LEMMA StepOvershoot == Basic /\ OvershootInv /\ [Next]_vars => OvershootInv'
  <1>. SUFFICES ASSUME Basic, OvershootInv, [Next]_vars  PROVE OvershootInv'
    OBVIOUS
  <1>0. Basic'
    BY StepBasic
  <1>a. /\ Len(queue) \in Nat /\ Len(queue') \in Nat
        /\ num_of_curr_working \in Int /\ num_of_curr_working' \in Int
        /\ queue_size \in Nat /\ queue_size' \in Nat
        /\ size_to_del \in Nat /\ size_to_del' \in Nat
        /\ queue \in Seq(FDs)
        /\ pc \in [Threads -> WorkerPCs \cup MainPCs] /\ Main \in Threads
    BY <1>0 DEF Basic, TypeOK, Threads
  <1>. USE <1>a DEF OvershootInv, ToEnqueue, Goto, Load
  <1>1. CASE OthersOnlyDrain
    BY <1>1 DEF OthersOnlyDrain
  <1>2. CASE Check
    BY <1>2 DEF Check, Overloaded
  <1>3. CASE Enqueue
    <2>1. connfd[Main] \in FDs
      BY <1>3, DescriptorsAssumption
      DEF Enqueue, Basic, TypeOK, HeldConnections, Holding, Counted, MainPCs,
          Threads
    <2>2. Len(queue') = Len(queue) + 1
      BY <1>3, <2>1, QueueTypes DEF Enqueue
    <2>. QED  BY <1>3, <2>2 DEF Enqueue
  <1>4. CASE RandomHalf
    BY <1>4 DEF RandomHalf, HalfOf
  <1>5. CASE RandomDelete
    <2>1. PICK i \in 1..Len(queue) : queue' = dequeue_i(queue, i)
      BY <1>5 DEF RandomDelete
    <2>2. Len(queue') = Len(queue) - 1
      BY <2>1, QueueTypes
    <2>. QED  BY <1>5, <2>2 DEF RandomDelete
  <1>6. CASE RandomDone
    BY <1>6 DEF RandomDone
  <1>7. CASE WaitOver \/ DropHead \/ FallThrough \/ Dynamic
    BY <1>7, <1>0 DEF WaitOver, DropHead, FallThrough, KnownAlgs, Dynamic
  <1>8. CASE \/ Accept \/ CheckLock \/ Signal \/ EnqueueLock \/ DropTail
             \/ RecheckLock \/ CondWait2 \/ Refuse \/ DropLock
             \/ RandomEmpty \/ UNCHANGED vars
    BY <1>8, ThreadsAssumption
    DEF Accept, CheckLock, Signal, EnqueueLock, DropTail, RecheckLock,
        CondWait2, Refuse, DropLock, RandomEmpty, vars, Basic, TypeOK
  <1>9. ASSUME (\E w \in Workers : WorkerStep(w)) \/ SpuriousWakeup
        PROVE  OthersOnlyDrain
    BY <1>9, WorkersOnlyDrain, WakeupsOnlyDrain
  <1>. QED  BY <1>1, <1>2, <1>3, <1>4, <1>5, <1>6, <1>7, <1>8, <1>9
            DEF Next, MainWork, HandleOverloading

(* Deleting half of the queue rounded down exceeds the limit only while at *)
(* most two connections wait, for every limit and every number of workers. *)
THEOREM OvershootHolds == Spec => []RandomOvershoot
  <1>1. Init => OvershootInv
    BY ThreadsAssumption, SizesAssumption
    DEF Init, OvershootInv, ToEnqueue, Load, Threads
  <1>2. OvershootInv => RandomOvershoot
    BY DEF OvershootInv, RandomOvershoot
  <1>. QED  BY <1>1, <1>2, StepOvershoot, BasicInvariant, PTL DEF Spec

-----------------------------------------------------------------------------
(* All steps.                                                              *)
LEMMA StepFlushed ==
    Basic /\ CounterExact /\ FlushedWhenRefused /\ [Next]_vars
        => FlushedWhenRefused'
  <1>. SUFFICES ASSUME Basic, CounterExact, FlushedWhenRefused, [Next]_vars,
                       schedalg' = "bf", pc'[Main] = "refuse"
                PROVE  queue' = <<>> /\ Serving' = {}
    BY DEF FlushedWhenRefused
  <1>0. /\ pc \in [Threads -> WorkerPCs \cup MainPCs] /\ Main \notin Workers
        /\ cond \subseteq Workers /\ cond2 \subseteq {Main}
        /\ queue \in Seq(FDs) /\ Threads = Workers \cup {Main}
        /\ \A t \in cond : pc[t] = "wait"
    BY ThreadsAssumption DEF Basic, TypeOK, Threads, LockDiscipline
  <1>. USE <1>0 DEF Goto
  <1>1. CASE WaitOver
    <2>1. Len(queue) + Cardinality(Serving) = 0
      BY <1>1 DEF WaitOver, MustWait, Load, CounterExact
    <2>2. /\ IsFiniteSet(Serving) /\ Cardinality(Serving) \in Nat
          /\ Len(queue) \in Nat
      BY ServingFinite DEF Serving
    <2>3. Len(queue) = 0 /\ Cardinality(Serving) = 0
      BY <2>1, <2>2
    <2>4. queue = <<>> /\ Serving = {}
      BY <2>2, <2>3, FS_EmptySet
    <2>. QED  BY <1>1, <2>4 DEF WaitOver, Serving
  <1>2. ASSUME NEW w \in Workers, WorkerStep(w)
        PROVE  queue' = <<>> /\ Serving' = {}
    <2>1. schedalg = "bf" /\ pc[Main] = "refuse"
      <3>1. CASE Signal2(w)
        BY <3>1 DEF Signal2
      <3>2. CASE ~Signal2(w)
        BY <1>2, <3>2
        DEF WorkerStep, LockQueue, LockCounter, DequeueEmpty, DequeueFound,
            CondWait, UnlockQueue, RequestHandle, CountLock, CountDown,
            CloseServed
      <3>. QED  BY <1>2, <3>1, <3>2
               DEF WorkerStep, LockQueue, LockCounter, DequeueEmpty,
                   DequeueFound, CondWait, UnlockQueue, RequestHandle,
                   CountLock, CountDown, Signal2, CloseServed
    <2>2. queue = <<>> /\ \A v \in Workers : pc[v] \notin Counted
      BY <2>1 DEF FlushedWhenRefused, Serving
    <2>3. queue' = <<>> /\ \A v \in Workers : pc'[v] \notin Counted
      BY <1>2, <2>2
      DEF WorkerStep, LockQueue, LockCounter, DequeueEmpty, DequeueFound,
          CondWait, UnlockQueue, RequestHandle, CountLock, CountDown, Signal2,
          CloseServed, Counted
    <2>. QED  BY <2>3 DEF Serving
  <1>3. CASE RandomEmpty
    BY <1>3 DEF RandomEmpty
  <1>4. CASE SpuriousWakeup
    <2>1. schedalg = "bf" /\ pc[Main] = "refuse" /\ queue' = queue
      BY <1>4 DEF SpuriousWakeup
    <2>2. \A v \in Workers : pc'[v] \in Counted => pc[v] \in Counted
      BY <1>4 DEF SpuriousWakeup, Counted
    <2>. QED  BY <2>1, <2>2 DEF FlushedWhenRefused, Serving
  <1>5. CASE UNCHANGED vars
    BY <1>5 DEF vars, FlushedWhenRefused, Serving
  <1>6. ASSUME Accept \/ MainWork, ~WaitOver, ~RandomEmpty
        PROVE  FALSE
    BY <1>6 DEF MainWork, HandleOverloading, Accept, CheckLock, Check,
                EnqueueLock, Enqueue, Signal, DropTail, Dynamic, RecheckLock,
                CondWait2, Refuse, DropLock, DropHead, RandomHalf,
                RandomDelete, RandomDone, FallThrough
  <1>. QED  BY <1>1, <1>2, <1>3, <1>4, <1>5, <1>6 DEF Next

(* bf closes the connection it held back only with the pool drained, for   *)
(* any number of workers.                                                  *)
THEOREM FlushHolds == Spec => []FlushedWhenRefused
  <1>1. Init => FlushedWhenRefused
    BY ThreadsAssumption DEF Init, FlushedWhenRefused, Threads
  <1>. QED  BY <1>1, StepFlushed, BasicInvariant, CounterHolds, PTL DEF Spec
=============================================================================
