----------------------------- MODULE ThreadPool -----------------------------
(***************************************************************************)
(* The thread pool of the web server, hw3/wet/server.c: the main thread    *)
(* accepts connections and puts them into the shared queue, the workers    *)
(* take them out and serve them, and handle_overloading decides what       *)
(* happens to a connection that arrives when the pool is full.             *)
(*                                                                         *)
(* A step is a lock acquisition, a critical section together with the      *)
(* unlock that ends it, a condition-variable operation, or a call made     *)
(* outside the locks.  mutex protects the queue, mutex2 the counter        *)
(* num_of_curr_working; only the main thread enqueues.                     *)
(***************************************************************************)
EXTENDS QueueOps, Integers, FiniteSets

CONSTANTS
    Workers,     \* the threads created by main, running thread_func
    Main,        \* the thread running main
    NoThread,    \* owner of a mutex that is not locked
    FDs,         \* the connection descriptors Accept may return
    NoFD,        \* no descriptor (dequeue's -1)
    SchedAlgs,   \* the values of argv[4] considered
    QueueSize,   \* argv[3]
    MaxSize      \* argv[5], read by the dynamic policy only

ASSUME ThreadsAssumption ==
    /\ IsFiniteSet(Workers) /\ Workers # {}
    /\ Main \notin Workers
    /\ NoThread \notin Workers \cup {Main}
ASSUME DescriptorsAssumption == IsFiniteSet(FDs) /\ NoFD \notin FDs
ASSUME SizesAssumption == QueueSize \in Nat \ {0} /\ MaxSize \in Nat

Threads == Workers \cup {Main}

(* The policies handle_overloading knows; getargs accepts any other string *)
(* too.                                                                    *)
KnownAlgs == {"block", "dt", "dh", "bf", "dynamic", "random"}

VARIABLES
    schedalg,             \* the policy the server was started with
    queue,                \* the connections waiting in the shared queue
    queue_size,           \* main's limit on waiting + working connections
    num_of_curr_working,  \* connections counted as being served
    mutex, mutex2,        \* the owner of each mutex, or NoThread
    cond, cond2,          \* the threads asleep on each condition variable
    pc,                   \* where each thread is
    connfd,               \* the connection each thread holds, or NoFD
    size_to_del,          \* main's count of random deletions still to make
    open                  \* the descriptors the process has open

vars == <<schedalg, queue, queue_size, num_of_curr_working, mutex, mutex2,
          cond, cond2, pc, connfd, size_to_del, open>>

WorkerPCs == {"lock", "lock2", "dequeue", "empty", "wait", "found",
              "handle", "count_lock", "count", "signal2", "close"}
MainPCs == {"accept", "check_lock", "check", "overloaded", "recheck",
            "wait2", "refuse", "drop", "delete",
            "enqueue_lock", "enqueue", "signal"}

Load == Len(queue) + num_of_curr_working

(* Mutated forms, here and below, are definitions that no action uses: a   *)
(* bug that would break one of the properties.                             *)
OverloadedLate == Load > queue_size

(* is_overloaded, and the condition block waits on.                        *)
Overloaded == Load >= queue_size

NoneOf(n) == 0

(* random's size_to_del: half, rounded down by C's integer division.       *)
HalfOf(n) == n \div 2

-----------------------------------------------------------------------------
(* main up to its accept loop: getargs, createQueue and the creation of    *)
(* the workers.                                                            *)
Init ==
    /\ schedalg \in SchedAlgs
    /\ queue = <<>>
    /\ queue_size = QueueSize
    /\ num_of_curr_working = 0
    /\ mutex = NoThread /\ mutex2 = NoThread
    /\ cond = {} /\ cond2 = {}
    /\ pc = [t \in Threads |-> IF t = Main THEN "accept" ELSE "lock"]
    /\ connfd = [t \in Threads |-> NoFD]
    /\ size_to_del = 0
    /\ open = {}

Goto(t, l) == pc' = [pc EXCEPT ![t] = l]

LockUnguarded(t) == mutex' = t

(* pthread_mutex_lock returns once the mutex is free.                      *)
Lock(t) == mutex = NoThread /\ mutex' = t
Lock2(t) == mutex2 = NoThread /\ mutex2' = t
Unlock == mutex' = NoThread
Unlock2 == mutex2' = NoThread

CloseForgotten(t) ==
    /\ connfd' = [connfd EXCEPT ![t] = NoFD]
    /\ UNCHANGED open

(* Close a connection held in connfd, which is not read again before it is *)
(* assigned.                                                               *)
CloseHeld(t) ==
    /\ open' = open \ {connfd[t]}
    /\ connfd' = [connfd EXCEPT ![t] = NoFD]

-----------------------------------------------------------------------------
(* The workers: thread_func.                                               *)

(* pthread_mutex_lock(&mutex), at the head of the loop and on waking up    *)
(* inside pthread_cond_wait.                                               *)
LockQueue(w) ==
    /\ pc[w] = "lock"
    /\ Lock(w)
    /\ Goto(w, "lock2")
    /\ UNCHANGED <<schedalg, queue, queue_size, num_of_curr_working, mutex2,
                   cond, cond2, connfd, size_to_del, open>>

LockCounter(w) ==
    /\ pc[w] = "lock2"
    /\ Lock2(w)
    /\ Goto(w, "dequeue")
    /\ UNCHANGED <<schedalg, queue, queue_size, num_of_curr_working, mutex,
                   cond, cond2, connfd, size_to_del, open>>

DequeueEmptyUnlocked(w) ==
    /\ pc[w] = "dequeue"
    /\ queue = <<>>
    /\ Unlock /\ Unlock2
    /\ Goto(w, "empty")
    /\ UNCHANGED <<schedalg, queue, queue_size, num_of_curr_working, cond,
                   cond2, connfd, size_to_del, open>>

(* dequeue returns -1: mutex2 is released and the wait loop entered.       *)
DequeueEmpty(w) ==
    /\ pc[w] = "dequeue"
    /\ queue = <<>>
    /\ Unlock2
    /\ Goto(w, "empty")
    /\ UNCHANGED <<schedalg, queue, queue_size, num_of_curr_working, mutex,
                   cond, cond2, connfd, size_to_del, open>>

(* dequeue returns a connection, which is counted before mutex2 is         *)
(* released.                                                               *)
DequeueFound(w) ==
    /\ pc[w] = "dequeue"
    /\ queue # <<>>
    /\ connfd' = [connfd EXCEPT ![w] = Head(queue)]
    /\ queue' = dequeue(queue)
    /\ num_of_curr_working' = num_of_curr_working + 1
    /\ Unlock2
    /\ Goto(w, "found")
    /\ UNCHANGED <<schedalg, queue_size, mutex, cond, cond2, size_to_del,
                   open>>

(* pthread_cond_wait(&cond, &mutex): release and fall asleep in one step.  *)
CondWait(w) ==
    /\ pc[w] = "empty"
    /\ cond' = cond \cup {w}
    /\ Unlock
    /\ Goto(w, "wait")
    /\ UNCHANGED <<schedalg, queue, queue_size, num_of_curr_working, mutex2,
                   cond2, connfd, size_to_del, open>>

(* The worker leaves the wait loop with a connection.                      *)
UnlockQueue(w) ==
    /\ pc[w] = "found"
    /\ Unlock
    /\ Goto(w, "handle")
    /\ UNCHANGED <<schedalg, queue, queue_size, num_of_curr_working, mutex2,
                   cond, cond2, connfd, size_to_del, open>>

(* requestHandle, which serves the connection and returns.                 *)
RequestHandle(w) ==
    /\ pc[w] = "handle"
    /\ Goto(w, "count_lock")
    /\ UNCHANGED <<schedalg, queue, queue_size, num_of_curr_working, mutex,
                   mutex2, cond, cond2, connfd, size_to_del, open>>

CountLock(w) ==
    /\ pc[w] = "count_lock"
    /\ Lock2(w)
    /\ Goto(w, "count")
    /\ UNCHANGED <<schedalg, queue, queue_size, num_of_curr_working, mutex,
                   cond, cond2, connfd, size_to_del, open>>

CountDownSilent(w) ==
    /\ pc[w] = "count"
    /\ num_of_curr_working' = num_of_curr_working - 1
    /\ Unlock2
    /\ Goto(w, "close")
    /\ UNCHANGED <<schedalg, queue, queue_size, mutex, cond, cond2, connfd,
                   size_to_del, open>>

CountDownForgotten(w) ==
    /\ pc[w] = "count"
    /\ Unlock2
    /\ Goto(w, "signal2")
    /\ UNCHANGED <<schedalg, queue, queue_size, num_of_curr_working, mutex,
                   cond, cond2, connfd, size_to_del, open>>

(* num_of_curr_working--, while the connection is still open.              *)
CountDown(w) ==
    /\ pc[w] = "count"
    /\ num_of_curr_working' = num_of_curr_working - 1
    /\ Unlock2
    /\ Goto(w, "signal2")
    /\ UNCHANGED <<schedalg, queue, queue_size, mutex, cond, cond2, connfd,
                   size_to_del, open>>

(* pthread_cond_signal(&cond2): only the main thread ever sleeps there.  A *)
(* woken thread has to take the mutex again.                               *)
Signal2(w) ==
    /\ pc[w] = "signal2"
    /\ \/ /\ cond2 = {}
          /\ cond2' = cond2
          /\ Goto(w, "close")
       \/ \E t \in cond2 :
             /\ cond2' = cond2 \ {t}
             /\ pc' = [pc EXCEPT ![w] = "close", ![t] = "overloaded"]
    /\ UNCHANGED <<schedalg, queue, queue_size, num_of_curr_working, mutex,
                   mutex2, cond, connfd, size_to_del, open>>

CloseServed(w) ==
    /\ pc[w] = "close"
    /\ CloseHeld(w)
    /\ Goto(w, "lock")
    /\ UNCHANGED <<schedalg, queue, queue_size, num_of_curr_working, mutex,
                   mutex2, cond, cond2, size_to_del>>

-----------------------------------------------------------------------------
(* The main thread: the accept loop of main.                               *)

(* Accept returns a descriptor that is not in use.                         *)
Accept ==
    /\ pc[Main] = "accept"
    /\ \E fd \in FDs \ open :
          /\ open' = open \cup {fd}
          /\ connfd' = [connfd EXCEPT ![Main] = fd]
    /\ Goto(Main, "check_lock")
    /\ UNCHANGED <<schedalg, queue, queue_size, num_of_curr_working, mutex,
                   mutex2, cond, cond2, size_to_del>>

CheckLock ==
    /\ pc[Main] = "check_lock"
    /\ Lock2(Main)
    /\ Goto(Main, "check")
    /\ UNCHANGED <<schedalg, queue, queue_size, num_of_curr_working, mutex,
                   cond, cond2, connfd, size_to_del, open>>

(* is_overloaded is computed under mutex2 and acted on after its release.  *)
Check ==
    /\ pc[Main] = "check"
    /\ Unlock2
    /\ Goto(Main, IF Overloaded THEN "overloaded"
                                ELSE "enqueue_lock")
    /\ UNCHANGED <<schedalg, queue, queue_size, num_of_curr_working, mutex,
                   cond, cond2, connfd, size_to_del, open>>

EnqueueLock ==
    /\ pc[Main] = "enqueue_lock"
    /\ Lock(Main)
    /\ Goto(Main, "enqueue")
    /\ UNCHANGED <<schedalg, queue, queue_size, num_of_curr_working, mutex2,
                   cond, cond2, connfd, size_to_del, open>>

Enqueue ==
    /\ pc[Main] = "enqueue"
    /\ queue' = enqueue(queue, connfd[Main])
    /\ connfd' = [connfd EXCEPT ![Main] = NoFD]
    /\ Unlock
    /\ Goto(Main, "signal")
    /\ UNCHANGED <<schedalg, queue_size, num_of_curr_working, mutex2, cond,
                   cond2, size_to_del, open>>

SignalForgotten ==
    /\ pc[Main] = "signal"
    /\ Goto(Main, "accept")
    /\ UNCHANGED <<schedalg, queue, queue_size, num_of_curr_working, mutex,
                   mutex2, cond, cond2, connfd, size_to_del, open>>

(* pthread_cond_signal(&cond), after the mutex is released.                *)
Signal ==
    /\ pc[Main] = "signal"
    /\ \/ /\ cond = {}
          /\ cond' = cond
          /\ Goto(Main, "accept")
       \/ \E t \in cond :
             /\ cond' = cond \ {t}
             /\ pc' = [pc EXCEPT ![Main] = "accept", ![t] = "lock"]
    /\ UNCHANGED <<schedalg, queue, queue_size, num_of_curr_working, mutex,
                   mutex2, cond2, connfd, size_to_del, open>>

-----------------------------------------------------------------------------
(* handle_overloading, run by the main thread.                             *)

(* dt: the new connection is closed.                                       *)
DropTail ==
    /\ pc[Main] = "overloaded" /\ schedalg = "dt"
    /\ CloseHeld(Main)
    /\ Goto(Main, "accept")
    /\ UNCHANGED <<schedalg, queue, queue_size, num_of_curr_working, mutex,
                   mutex2, cond, cond2, size_to_del>>

(* dynamic: the new connection is closed and the limit grows up to         *)
(* max_size.                                                               *)
Dynamic ==
    /\ pc[Main] = "overloaded" /\ schedalg = "dynamic"
    /\ CloseHeld(Main)
    /\ queue_size' = IF queue_size < MaxSize THEN queue_size + 1
                                             ELSE queue_size
    /\ Goto(Main, "accept")
    /\ UNCHANGED <<schedalg, queue, num_of_curr_working, mutex, mutex2, cond,
                   cond2, size_to_del>>

(* block and bf: take mutex2, first or again after pthread_cond_wait.      *)
RecheckLock ==
    /\ pc[Main] = "overloaded" /\ schedalg \in {"block", "bf"}
    /\ Lock2(Main)
    /\ Goto(Main, "recheck")
    /\ UNCHANGED <<schedalg, queue, queue_size, num_of_curr_working, mutex,
                   cond, cond2, connfd, size_to_del, open>>

MustWaitQueueOnly ==
    \/ schedalg = "block" /\ Overloaded
    \/ schedalg = "bf" /\ queue # <<>>

(* What block and bf sleep for: a free place, or an idle pool.             *)
MustWait ==
    \/ schedalg = "block" /\ Overloaded
    \/ schedalg = "bf" /\ Load # 0

CondWait2 ==
    /\ pc[Main] = "recheck"
    /\ MustWait
    /\ cond2' = cond2 \cup {Main}
    /\ Unlock2
    /\ Goto(Main, "wait2")
    /\ UNCHANGED <<schedalg, queue, queue_size, num_of_curr_working, mutex,
                   cond, connfd, size_to_del, open>>

(* block goes on to enqueue the connection, bf to close it.                *)
WaitOver ==
    /\ pc[Main] = "recheck"
    /\ ~MustWait
    /\ Unlock2
    /\ Goto(Main, IF schedalg = "block" THEN "enqueue_lock" ELSE "refuse")
    /\ UNCHANGED <<schedalg, queue, queue_size, num_of_curr_working, mutex,
                   cond, cond2, connfd, size_to_del, open>>

(* The Close of bf, and of random when nothing is queued.                  *)
Refuse ==
    /\ pc[Main] = "refuse"
    /\ CloseHeld(Main)
    /\ Goto(Main, "accept")
    /\ UNCHANGED <<schedalg, queue, queue_size, num_of_curr_working, mutex,
                   mutex2, cond, cond2, size_to_del>>

DropLock ==
    /\ pc[Main] = "overloaded" /\ schedalg \in {"dh", "random"}
    /\ Lock(Main)
    /\ Goto(Main, "drop")
    /\ UNCHANGED <<schedalg, queue, queue_size, num_of_curr_working, mutex2,
                   cond, cond2, connfd, size_to_del, open>>

(* dh: the oldest waiting connection makes room, or the new one is closed  *)
(* if none is waiting any more.                                            *)
DropHead ==
    /\ pc[Main] = "drop" /\ schedalg = "dh"
    /\ \/ /\ queue = <<>>
          /\ CloseHeld(Main)
          /\ Goto(Main, "accept")
          /\ UNCHANGED queue
       \/ /\ queue # <<>>
          /\ open' = open \ {Head(queue)}
          /\ queue' = dequeue(queue)
          /\ Goto(Main, "enqueue_lock")
          /\ UNCHANGED connfd
    /\ Unlock
    /\ UNCHANGED <<schedalg, queue_size, num_of_curr_working, mutex2, cond,
                   cond2, size_to_del>>

(* random with nothing queued: unlock, then close the new connection.      *)
RandomEmpty ==
    /\ pc[Main] = "drop" /\ schedalg = "random"
    /\ queue = <<>>
    /\ Unlock
    /\ Goto(Main, "refuse")
    /\ UNCHANGED <<schedalg, queue, queue_size, num_of_curr_working, mutex2,
                   cond, cond2, connfd, size_to_del, open>>

(* random decides how many of the waiting connections to delete.           *)
RandomHalf ==
    /\ pc[Main] = "drop" /\ schedalg = "random"
    /\ queue # <<>>
    /\ size_to_del' = HalfOf(Len(queue))
    /\ Goto(Main, "delete")
    /\ UNCHANGED <<schedalg, queue, queue_size, num_of_curr_working, mutex,
                   mutex2, cond, cond2, connfd, open>>

RandomDeleteOnceMore ==
    /\ pc[Main] = "delete" /\ size_to_del >= 0
    /\ \E i \in 1..Len(queue) :
          /\ open' = open \ {queue[i]}
          /\ queue' = dequeue_i(queue, i)
    /\ size_to_del' = size_to_del - 1
    /\ UNCHANGED <<schedalg, queue_size, num_of_curr_working, mutex, mutex2,
                   cond, cond2, pc, connfd>>

(* One iteration of random's loop: rand() picks any position.              *)
RandomDelete ==
    /\ pc[Main] = "delete" /\ size_to_del > 0
    /\ \E i \in 1..Len(queue) :
          /\ open' = open \ {queue[i]}
          /\ queue' = dequeue_i(queue, i)
    /\ size_to_del' = size_to_del - 1
    /\ UNCHANGED <<schedalg, queue_size, num_of_curr_working, mutex, mutex2,
                   cond, cond2, pc, connfd>>

RandomDone ==
    /\ pc[Main] = "delete" /\ size_to_del = 0
    /\ Unlock
    /\ Goto(Main, "enqueue_lock")
    /\ UNCHANGED <<schedalg, queue, queue_size, num_of_curr_working, mutex2,
                   cond, cond2, connfd, size_to_del, open>>

(* The end of handle_overloading, reached by a policy it does not know:    *)
(* the connection is enqueued all the same.                                *)
FallThrough ==
    /\ pc[Main] = "overloaded" /\ schedalg \notin KnownAlgs
    /\ Goto(Main, "enqueue_lock")
    /\ UNCHANGED <<schedalg, queue, queue_size, num_of_curr_working, mutex,
                   mutex2, cond, cond2, connfd, size_to_del, open>>

-----------------------------------------------------------------------------
(* POSIX lets pthread_cond_wait return without a signal.                   *)
SpuriousWakeup ==
    \/ \E w \in cond :
          /\ cond' = cond \ {w}
          /\ Goto(w, "lock")
          /\ UNCHANGED <<schedalg, queue, queue_size, num_of_curr_working,
                         mutex, mutex2, cond2, connfd, size_to_del, open>>
    \/ \E t \in cond2 :
          /\ cond2' = cond2 \ {t}
          /\ Goto(t, "overloaded")
          /\ UNCHANGED <<schedalg, queue, queue_size, num_of_curr_working,
                         mutex, mutex2, cond, connfd, size_to_del, open>>

WorkerStep(w) ==
    \/ LockQueue(w) \/ LockCounter(w) \/ DequeueEmpty(w) \/ DequeueFound(w)
    \/ CondWait(w) \/ UnlockQueue(w) \/ RequestHandle(w) \/ CountLock(w)
    \/ CountDown(w) \/ Signal2(w) \/ CloseServed(w)

HandleOverloading ==
    \/ DropTail \/ Dynamic \/ RecheckLock \/ CondWait2 \/ WaitOver \/ Refuse
    \/ DropLock \/ DropHead \/ RandomEmpty \/ RandomHalf \/ RandomDelete
    \/ RandomDone \/ FallThrough

(* What main does with a connection it has accepted.                       *)
MainWork ==
    CheckLock \/ Check \/ EnqueueLock \/ Enqueue \/ Signal \/ HandleOverloading

Next ==
    \/ Accept
    \/ MainWork
    \/ \E w \in Workers : WorkerStep(w)
    \/ SpuriousWakeup

Spec == Init /\ [][Next]_vars

(* A thread that is runnable again and again runs: the scheduler is fair,  *)
(* a mutex that keeps becoming free is obtained in the end, and            *)
(* requestHandle returns.  Nothing makes clients connect, and nothing      *)
(* makes spurious wakeups happen.                                          *)
Fairness == SF_vars(MainWork) /\ \A w \in Workers : SF_vars(WorkerStep(w))

FairSpec == Spec /\ Fairness

-----------------------------------------------------------------------------
(* Type invariant.                                                         *)
TypeOK ==
    /\ schedalg \in SchedAlgs
    /\ queue \in Seq(FDs)
    /\ queue_size \in Nat \ {0}
    /\ num_of_curr_working \in Int
    /\ mutex \in Threads \cup {NoThread}
    /\ mutex2 \in Threads \cup {NoThread}
    /\ cond \subseteq Workers
    /\ cond2 \subseteq {Main}
    /\ pc \in [Threads -> WorkerPCs \cup MainPCs]
    /\ pc[Main] \in MainPCs
    /\ \A w \in Workers : pc[w] \in WorkerPCs
    /\ connfd \in [Threads -> FDs \cup {NoFD}]
    /\ size_to_del \in Nat
    /\ open \subseteq FDs

(* The program points at which a thread owns each mutex, and sleeps on     *)
(* each condition variable.                                                *)
HoldsMutex == {"lock2", "dequeue", "empty", "found", "drop", "delete",
               "enqueue"}
HoldsMutex2 == {"dequeue", "count", "check", "recheck"}

(* The two locks of server.c are held exactly by the threads inside their  *)
(* critical sections, so two threads are never inside one together, and a  *)
(* thread sleeps only where it called pthread_cond_wait.                   *)
LockDiscipline ==
    \A t \in Threads :
        /\ (mutex = t) <=> (pc[t] \in HoldsMutex)
        /\ (mutex2 = t) <=> (pc[t] \in HoldsMutex2)
        /\ (t \in cond) <=> (pc[t] = "wait")
        /\ (t \in cond2) <=> (pc[t] = "wait2")

(* The points at which a worker's connection is counted as being served.   *)
Counted == {"found", "handle", "count_lock", "count"}
Serving == {w \in Workers : pc[w] \in Counted}

(* num_of_curr_working is the number of workers that serve a connection:   *)
(* no increment or decrement of thread_func is lost or made twice.         *)
CounterExact == num_of_curr_working = Cardinality(Serving)

(* The points at which a thread is responsible for the connection in its   *)
(* connfd.                                                                 *)
Holding == Counted \cup {"signal2", "close"}
                   \cup (MainPCs \ {"accept", "signal"})

(* A thread has a connection in connfd at exactly these points.            *)
HeldConnections == \A t \in Threads : connfd[t] # NoFD <=> pc[t] \in Holding

(* Every open connection is in exactly one place, the queue or the connfd  *)
(* of one thread, and every connection in one of these places is open: no  *)
(* descriptor leaks, is served twice, or is closed twice (a second Close   *)
(* would fail, and Close ends the whole server on failure).                *)
OneOwner ==
    /\ HeldConnections
    /\ \A s, t \in Threads : s # t /\ connfd[s] # NoFD
                                => connfd[s] # connfd[t]
    /\ Distinct(queue)
    /\ \A t \in Threads : connfd[t] \notin Elements(queue)
    /\ open = Elements(queue) \cup ({connfd[t] : t \in Threads} \ {NoFD})

(* The policies that keep the load within the limit.                       *)
Bounding == KnownAlgs \ {"random"}

(* is_overloaded is stale when main enqueues, and still the waiting and    *)
(* the working connections together never exceed queue_size, whatever the  *)
(* workers did since main looked.                                          *)
CapacityRespected ==
    schedalg \in Bounding => Load <= queue_size

(* random deletes half of the queue rounded down, so nothing when one      *)
(* connection waits: the limit can be exceeded, but only while at most two *)
(* connections wait.                                                       *)
RandomOvershoot ==
    schedalg = "random" => Load <= queue_size \/ Len(queue) <= 2

(* A worker signals and closes after it has stopped being counted, so the  *)
(* process has more connections open than queue_size; at most one more per *)
(* worker that is no longer counted, and the one main holds.               *)
DescriptorsBounded ==
    schedalg \in Bounding =>
        Cardinality(open) + num_of_curr_working
            <= queue_size + Cardinality(Workers) + 1

(* No wakeup of the workers is lost although main signals after releasing  *)
(* mutex: when all workers sleep and a connection waits, main is about to  *)
(* signal.                                                                 *)
NoLostWakeup ==
    cond = Workers /\ queue # <<>> => pc[Main] = "signal"

(* No wakeup of main is lost although a worker signals after releasing     *)
(* mutex2: when main sleeps in handle_overloading, its reason to sleep     *)
(* still holds, or a worker is about to signal.                            *)
NoLostWakeup2 ==
    Main \in cond2 => MustWait \/ \E w \in Workers : pc[w] = "signal2"

(* bf refuses a connection only with the pool drained: the observation     *)
(* made under mutex2 still holds when main closes the connection.          *)
FlushedWhenRefused ==
    schedalg = "bf" /\ pc[Main] = "refuse"
        => queue = <<>> /\ Serving = {}

(* Every accepted connection is closed in the end, served or dropped.      *)
ConnectionsClosed == \A fd \in FDs : fd \in open ~> fd \notin open

(* The server keeps accepting: main always comes back to Accept, also from *)
(* the waits of block and bf.                                              *)
KeepsAccepting == []<>(pc[Main] = "accept")
=============================================================================
