# Verification of HW_OperatingSystems

The repository holds four operating-systems assignments. This directory models
the parts of them that have interesting behaviour in TLA+, checks them with TLC
on small instances and proves the most important properties with TLAPS for
every value of the constants. `PROJECT.json` lists the components, the runs,
the source lines behind each definition, the hazards and the theorems.

## 1. The system

| part | source | state | operations |
|---|---|---|---|
| web server pool | `hw3/wet/server.c` | shared queue, `num_of_curr_working`, `queue_size`, two mutexes, two condition variables | `main` (accept loop), `thread_func`, `handle_overloading` with six policies |
| connection queue | `hw3/wet/queue.c` | linked list `front`/`rear`/`queue_size`, heap nodes | `enqueue`, `dequeue`, `dequeue_i`, `isEmpty` |
| request handling | `hw3/wet/request.c` | statistics of the worker, the connection, a CGI child | `requestHandle`, `requestReadhdrs`, `requestServeStatic`, `requestServeDynamic`, `requestError` |
| wrappers, robust I/O | `hw3/wet/segel.c` | read buffer of a connection | wrappers that end the process on failure, `rio_*` |
| client, CGI program | `hw3/wet/client.c`, `output.c` | none | test programs of the server |
| smash: jobs | `hw1/wet/skeleton_smash/Commands.cpp` | list of `JobEntry*`, `maxJobID` | `addJob`, `removeFinishedJobs`, `removeJobById`, `printJobsList`, `killAllJobs` |
| smash: commands | `Commands.cpp`, `smash.cpp` | foreground job, prompt, current and last directory | external, pipe, redirection, `jobs`, `fg`, `bg`, `kill`, `quit`, `cd`, `chprompt`, `setcore`, `chmod`, ... |
| smash: handlers | `signals.cpp` | none of their own | ctrl-Z, ctrl-C |
| weight system calls | `hw2/wet/kernel/hw2.c` | a weight per process, the process tree | set/get weight, sum over ancestors, heaviest descendant |
| naive allocator | `hw4/wet/test2/malloc_1.cpp` | none | `smalloc`: one `sbrk` behind a size check |
| list allocator | `hw4/wet/test2/malloc_2.cpp` | list of headers above the break | `smalloc`, `scalloc`, `sfree`, `srealloc`, statistics |
| buddy allocator | `hw4/wet/test2/malloc_3.cpp` | headers, one free list per order, list of mapped regions | the same, by splitting and joining buddies, or `mmap` |
| the rest | tests, CMake/Catch2 build trees, kernel headers, documents | - | not code of the system |

Interactions. In the server the main thread and the workers share the queue
(protected by `mutex`) and the counter (protected by `mutex2`); workers are
woken through `cond`, main through `cond2`; a worker owns a connection from
`dequeue` to `Close`. In smash the signal handlers run on the shell's own
thread, between any two instructions of a command, and read and write the jobs
list and the foreground job; the children change state by themselves and are
observed through `waitpid`. The parts of different assignments do not interact.

What is hard, and what makes each part correct:

* **Pool.** `is_overloaded` is stale when main acts on it; two mutexes guard the
  two halves of the load; both signals are sent after the unlock; waits can end
  spuriously. Correct means: the limit holds, each connection has one owner and
  is closed once, the counter is exact, no wakeup is lost, everything accepted is
  closed in the end, and main keeps accepting.
* **Queue.** `rear` after deletions at the end, reuse of freed cells, the walk of
  `dequeue_i`. Correct means: it is a FIFO queue with deletion, no pointer
  dangles, nothing leaks (one leak exists).
* **Request handling.** A client that closes early, failing system calls that end
  the process, a child that inherits descriptors. Correct means: a response is
  complete when its connection is closed, the counters number the responses, a
  worker comes back from each request and no request ends the server.
* **smash.** Handlers racing `fg` and `waitpid`, recorded against real state of a
  process, ids given from a counter that goes up and down. Correct means: ids are
  unique, all live children are listed once and with their real state, finished
  ones are not listed.
  The command loop adds what may end the shell, and directories at the limit of a
  buffer or removed behind its back.
* **Allocators.** Splitting, merging, moving and reusing blocks, sizes at their
  limits, other callers of `sbrk`. Correct means: blocks do not overlap, none is
  both free and in use, a client finds in its block what it wrote, buddies are
  joined as far as possible, statistics agree with the blocks.
* **Weights.** Walks over a tree that changes, ties, and weight zero. Correct
  means: the result is the documented sum or descendant.

## 2. Modules

| module | models | role |
|---|---|---|
| `QueueOps` | effect of `queue.c` on the sequence of elements | operators |
| `FifoQueue` | the queue `queue.c` promises | abstract specification |
| `LinkedQueue` | `queue.c` over a heap | component, run module |
| `ThreadPool` | `server.c` | component, uses `QueueOps` |
| `RequestHandler` | `request.c` over `segel.c`, with `client.c` and `output.c` as environment | component, run module |
| `SmashJobs` | jobs, job commands and handlers of smash | component |
| `SmashShell` | command loop, directories and the other built-in commands of smash | component |
| `Allocator` | what the allocators promise a client | abstract specification |
| `MemList` | `malloc_2.cpp` | component, refines `Allocator` |
| `BuddyAllocator` | `malloc_3.cpp` | component |
| `WeightTree` | `hw2.c` over the process tree | component |
| `MCThreadPool`, `MCSmashJobs`, `MCSmashShell`, `MCMemList`, `MCBuddyAllocator`, `MCWeightTree` | - | symmetry sets and values of constants for TLC |
| `LinkedQueueProofs`, `ThreadPoolProofs`, `RequestHandlerProofs`, `MemListProofs`, `BuddyAllocatorProofs`, `SmashJobsProofs`, `SmashShellProofs`, `WeightTreeProofs` | - | theorems |

Definitions named as *mutated forms* in a module are variants with a bug; no
action uses them. Each shows that the property it belongs to can fail.

### ThreadPool

A step is the acquisition of a mutex, a critical section with the unlock that
ends it, an operation on a condition variable, or a call made outside the
locks. Merging a critical section with its unlock is sound because the data it
touches is only written under that mutex; where the code reads data without the
mutex that guards it, the model does the same: main reads the queue's length
under `mutex2` only (`Check`, `RecheckLock`..`WaitOver`), which is why the order
of the steps in `DequeueFound` matters. `pc` names the code point of each
thread, `mutex`/`mutex2` its owner, `cond`/`cond2` the sleepers. `connfd` is the
local variable of a thread, set to `NoFD` when it is not read again. `open` is
the process's set of open connections.

| code | actions |
|---|---|
| `thread_func` | `LockQueue`, `LockCounter`, `DequeueEmpty`, `DequeueFound`, `CondWait`, `UnlockQueue`, `RequestHandle`, `CountLock`, `CountDown`, `Signal2`, `CloseServed` |
| `main` | `Accept`, `CheckLock`, `Check`, `EnqueueLock`, `Enqueue`, `Signal` |
| `handle_overloading` | `DropTail`, `Dynamic`, `RecheckLock`, `CondWait2`, `WaitOver`, `Refuse`, `DropLock`, `DropHead`, `RandomEmpty`, `RandomHalf`, `RandomDelete`, `RandomDone`, `FallThrough` |
| POSIX | `SpuriousWakeup` |

Abstractions: `requestHandle` is one call that returns; `Close`, `Accept` and
the pthread calls succeed; a waiting connection is its descriptor (its arrival
time is written once and only printed); `rand()` picks any position.

### LinkedQueue and FifoQueue

The fields of `Queue` and of the nodes are variables; `malloc` returns any cell
not in use, with whatever it held before. The walk of `dequeue_i` is one step
per node. `nodes` and `leaked` are auxiliary: the nodes that should be linked,
and those unlinked without `free`. `Linked` says the pointers are that list, and
`ImplementsFifo` that the elements found along it, with the result of the last
call, behave as `FifoQueue`.

### RequestHandler

A worker takes an accepted connection and goes through `requestHandle`; a step is
a system call, or calls that touch only the worker's own state. Clients connect,
send a request line, header lines and an empty line and read to the end; those in
`Leaving` may close at any time before, and files in `Removable` may disappear. A
request is reduced to what the code tells apart (`Requests`: another method, a missing
or forbidden file, an ordinary one, one that passes the checks and is then refused by
`Open` for its permissions or by `Mmap` for its size, a CGI program, and one whose
words fit the request line but not the buffers they are copied to), a response to its first
write with the counters it reports (`heads`) and the completion of its later writes
(`bodies`). At end of file `rio_readlineb` leaves the buffer as it was: the
request line is then any request, and the header buffer holds the last header or,
at the first read, anything. A failing wrapper, and a second write to a client
that has closed, end the process (`ExitServer`). Overlong words are written past the
end of `filename` or `body`, which may end the process at any step until
`requestHandle` returns, or not at all (`Overrun`). A CGI child inherits every open
connection until it ends. A client closes in an orderly way (no reset before the
server writes), and `fork` succeeds. Behaviours end with the server: what a client
does afterwards is left out.

| code | actions |
|---|---|
| `requestHandle` | `Take`, `ReadLine`, `Stat` |
| `requestReadhdrs` | `ReadHeader`, `ReadHeaderEOF` |
| `requestError` | `ErrorHead`, `ErrorRest` |
| `requestServeStatic` | `StaticHead`, `StaticBody` |
| `requestParseURI`, `requestError`, past their buffers | `Overrun` |
| `requestServeDynamic` | `CgiHead`, `ForkChild`, `WaitPid`; the child is `ChildRuns` |
| `thread_func` | `CloseConn` |
| environment | `Connect`, `SendRequest`, `SendHeader`, `SendBlank`, `ClientClose`, `RemoveFile` |

### SmashJobs

`proc` is the state of each child as the kernel keeps it (`unborn`, `running`,
`stopped`, `dying`: a fatal signal was sent, `zombie`, `gone`: waited for);
`jobsList` is a sequence of addresses and `entry` the `JobEntry` at each, because
`printJobsList` sorts pointers. Every command starts with `removeFinishedJobs`,
which is part of its action. A command is one step up to the point where it sets
`current_foreground_job`: before that a handler only prints. After it, each call
is a step (`ForegroundContinue`, `ForegroundRemove`, `Wait`, `Reset`), and the
handlers, one step each, can come between. `role` marks the two processes of a
pipe, and the processes that something but the shell has signalled.
Entries that nothing points to any more are dropped from `entry`; the code never
deletes them and never reads them again.

A key pressed while the shell sleeps in `waitpid` and the process it waits for
runs is what a user can time. One that comes at any other step with a foreground
job set is a bad moment: `raced` counts those.

Children call `setpgrp` and the shell never `tcsetpgrp`, so the terminal stops a
child that reads from it; a child may also stop itself, and other processes may
stop, continue or kill it, among them the copies of the shell that run `kill`, `fg`,
`bg` or `quit kill` in a pipe or redirection. `SignalFromElsewhere` is all of these,
and makes the process a *stray*. `waitpid` with `WUNTRACED` returns for a stop and
the code does not look at the status. `Races` bounds the keys at a bad moment and the
strays together.

`removeJobById` reads a list element after erasing it; the model takes the value
the memory still holds, the job just removed. Pids are not reused.

### SmashShell

A line is a sequence of commands (between `|` signs), each with a name, words and
perhaps a `>`; dividing the line into words is abstracted to that. One action,
`ExecuteCommand`, stands for a round of the main loop: `CreateCommand`'s choice
(pipe before redirection before names) and the command's `execute`. A pipe and a
redirection run their commands in children with a copy of the shell's state, so
that only what they do to files and to other processes is left, and forks and
opens may fail (`InChildren`). The paths that matter are lengths: `getcwd` fails
with a path that does not fit, and `strncpy` leaves `last_path` without a
terminator when it fills the buffer (`Terminated`; the byte behind it, `spare`,
held anything). A `|` or `>` as the last character of the line makes `at` throw in
the shell (`SignAtEnd`), and a line of blanks is indexed with `npos` (`BlankLine`).
Words are numbers, numbers too large for `stoi`, or neither.

| code | definitions |
|---|---|
| `main` | `ExecuteCommand`, `EndOfInput` |
| `CreateCommand`, `executeCommand` | `InChild`, `Execute` |
| `PipeCommand`, `RedirectionCommand` | `SignAtEnd`, `InChildren` |
| `_removeBackgroundSign` | `BlankLine` |
| `ChangeDirCommand`, `ChangePromptCommand` | `ChangeDirCommand`, `ChangePrompt` |
| `SetcoreCommand`, `ChmodCommand`, `QuitCommand` | the same names |
| environment | `RemoveDir` |

### MemList and Allocator

The list of headers is a sequence, because no operation unlinks one. A client is
the holder of one pointer; `mem` has, for each byte, the client that last wrote
it, so that overlapping blocks, a block with two holders and a `srealloc` that
loses bytes all show. Another caller of `sbrk` moves the break at any time
(`OtherSbrk`), and `sbrk` fails at `HeapLimit`. `num * size` is computed modulo
`SIZE_T`. Actions: `smalloc`, `scalloc`, `sfree`, `sreallocInPlace`,
`sreallocMove`, `Write`, `OtherSbrk`. A call that returns `NULL` at its size check
changes nothing and is no step.

`Allocator` knows neither blocks nor addresses: a client has asked for some bytes
and has written some; other clients change neither. `MemList` implements it with
the number of bytes that still hold what the client wrote as the abstract state.

### BuddyAllocator

Addresses count in units of the smallest block. `heap` has the headers that
exist, the free lists, the mapped regions in the list and those really mapped.
`Halved` and `Joined` are what one round of the loops in `SplitIfPossible`,
`UnionIfPossible` and `SreallocUnion` does. A loop is a recursive function of the
number of rounds, which stays put once its condition fails (`SplitRound`,
`UnionRound`, `CheckRound`) and is taken at a number of rounds the loop cannot
exceed: the order of the block for splitting, the number of headers for joining
(`United`, shared by `UnionIfPossible` and `SreallocUnion`), and `CheckRounds`,
twice the number of orders of the heap, for `CheckIfUnionIsPossible`, which can run
forever. That one yields the set of answers its loop can give, since it can read
bytes that are no header; once it has gone to a lower buddy, none of them is yes.
The code has 32 blocks of the largest order; the model
takes any power of two from 2 to 32. `fault`
records the first thing that damages the heap: joining blocks of different
orders, the buddy that `SreallocUnion` lists as free, a second `sfree`. What the
code does with a damaged heap is not followed, but for the end of the call that
damages it: a block joined to an order above `MAX_ORDER` is added to a list that
does not exist, which crashes (`Overruns`, `After`). `brk` says how the first call
finds the break: free to move, aligned (then the code does not move it), or where
`sbrk` fails, which the code does not notice. Actions: `smalloc`, `scalloc`,
`sfree`, `sfreeAgain`, `srealloc`. A pointer is freed twice in a row (`sfreeAgain`)
when it is a region, or a block whose header is still one after the first time.
Clients keep to their blocks, and the nodes of the lists are always to be had.

### WeightTree

`task` has the `task_struct`s by pid with weight, `real_parent`, the list of
children in order, and whether the process has exited and waits to be reaped.
`sys_get_ancestor_sum` is followed step by step (`AddWeight`, `Up`, `ReadFreed`)
while processes `Fork`, `Exit`, are given to init, are `Reap`ed and set weights.
`find_heaviest_descendant` is the recursion of the code, evaluated on one state,
and compared with a definition of the heaviest descendant; where the code compares
the pid of `NULL` the calling process is killed.

## 3. Runs

| run | bounds | shows |
|---|---|---|
| `pool` | 2 workers, 6 descriptors, limit 2 growing to 3, all six policies and an unknown one | locking, exact counter, one owner per connection, capacity, how far `random` exceeds it, bounded descriptors, no lost wakeups, `bf` refuses only when idle |
| `live` | 2 workers, 4 descriptors, limit 1, every policy | every connection is closed in the end, main always accepts again |
| `queue` | 4 cells, 2 values, indices to 5, every initial heap | the list is well formed, heap accounted for, FIFO refined |
| `request` | 2 workers, 2 connections, one whose client may leave at any time, a file that may be removed, five of the seven kinds of requests (the others differ only in the text of the error), up to 1 header unread | complete responses, right counters, what can end the server, every client that stays sees the end of its response, a worker comes back unless its request was cut off |
| `request_spin` (violation) | 1 worker, 2 clients that may leave | the header loop never ends at end of file |
| `jobs` | 3 processes, 3 addresses, external commands, redirections and pipes, `kill` with 9, 15, 19, one key at a bad moment or one process signalled from elsewhere (9, 18, 19) | ids unique; but for a key at a bad moment, strays and pipes, live children are listed, stopped ones marked and finished ones gone |
| `jobs_lost` (violation) | 2 processes, `kill` with 18 too, one key at a bad moment | ctrl-Z inside `fg` leaves a stopped process in no list |
| `buddy` | 4 clients, 2 blocks of order 3, 2 mappings, sizes on both sides of each limit | the heap is consistent exactly until one of three named faults, buddies are joined, the process stops in four named cases only |
| `buddy_stats` (violation) | the same | the statistics stop adding up |
| `memlist` | 2 clients, 8 bytes of heap, requests 1 to 3, header 1, `size_t` of 4 values | blocks safe, statistics off by exactly the foreign bytes, `Allocator` implemented |
| `weights` | pids 1 to 4, weights -1, 0, 1 | the lockless sum is right unless its path is disturbed, the heaviest descendant is right except for `NULL`, the walk ends |
| `shell` | directories of lengths 5, 100, 101 at a buffer of 101, every call of each command, pipes of two | what ends the shell, and that `cd -` leads back |

Why the bounds are enough.

* *Pool.* Two workers and main give all pairs of racing threads, the limit can be
  reached by waiting connections, by working ones and by both, and there are as
  many descriptors as the largest limit, the workers and main together can hold,
  so that under the bounding policies `Accept` is never what limits the run.
* *Queue.* Four cells allow a front, two middle positions and a rear, and every
  cell is reused.
* *Requests.* Two workers with two CGI children at a time can reap or inherit each
  other's, one worker can serve both connections in a row, and one client stays
  while the other leaves at any point. That a file is missing or the method another
  one leads to the same `requestError` as `forbidden` does.
* *Jobs.* Three processes give a foreground job, a listed one and a third created
  after either has ended; three addresses allow an old entry, the foreground
  job's and a new one. `kill` is given the two signals it records and one it does
  not; `fg`, `bg` and `SignalFromElsewhere` continue a process. 20 to 22 stop like
  19 and are not recorded, so a job stopped with `kill -20` is shown as it was;
  `StoppedIsMarked` is about 19 and ctrl-Z.
* *Allocators.* Order 3 is the smallest in which a buddy can be split twice, and
  two blocks make `MAX_ORDER` a limit with a block beside it. In the list, eight
  bytes hold up to four blocks, or two with foreign bytes between, and `3 * 3` and
  `2 * 2` wrap around.
* *Weights.* Four processes give a path of four, siblings, and an ancestor that
  exits below and above the walk.
* *Shell.* 100 is the longest path that fits and 101 the first that does not; the
  commands are called with right and wrong numbers of words, and with words of each
  kind.

Symmetry is used only over values the code does not order (workers, descriptors,
pids of children, clients) and never with liveness.

Deadlock is checked in the pool, the queue and the weights. It is not in smash
(the shell may quit, and the bounded processes run out), in the request handler
(finitely many clients, and the server may exit) and in the allocators (the
process may stop, the heap may be used up).

Fairness. In `ThreadPool`, strong fairness of main's work and of each worker: a
thread runnable again and again is scheduled, and a mutex that is released again
and again is obtained in the end (Linux futex mutexes with a fair scheduler; the
critical sections are short and finite). It includes that `requestHandle`
returns, which `request` shows for clients that send their whole request, and
`request_spin` refutes for others. There is no fairness for `Accept`, since nobody
needs to connect, nor for spurious wakeups. `KeepsAccepting` says that main
returns to `Accept`, not that a client comes. In `RequestHandler` the workers are
weakly fair (no locks are involved), the children end, and a client that has
connected sends the rest of its request unless it closes. In `WeightTree` a walk
is weakly fair: a process in a system call is scheduled again.

## 4. Proofs

`ThreadPoolProofs` proves, for any finite set of workers, any finite set of
descriptors, any set of policy names, and any positive limit:

* `TypeCorrect`, `LocksCorrect` from `Basic`: types, the lock discipline, at which
  points a thread holds a connection, and that only `random` deletes. The types
  alone are not inductive: that a close, a dequeue or a signal is well typed
  depends on where the threads are.
* `CapacityHolds` from `CapacityInv`: when main is on its way to enqueue there is
  strictly less load than the limit. It is preserved because only main adds load;
  workers move a connection from the queue to the counter under both mutexes, or
  decrement (`WorkersOnlyDrain`). This is why the stale `is_overloaded` is harmless.
* `OwnershipHolds`: no connection leaks, is served twice or closed twice.
* `CounterHolds`: by cardinality of the set of serving workers.
* `DescriptorsHold`: from ownership, capacity and the counter.
* `WakeupsHold` from `WakeupInv`: a worker about to sleep has seen the queue empty
  and still owns `mutex`, which main needs for an enqueue. `Wakeups2Hold` for main.
* `OvershootHolds` from `OvershootInv`, which also follows the load through
  `random`'s loop.
* `FlushHolds`: what main saw under `mutex2` still holds at the `Close` of `bf`.

`LinkedQueueProofs` proves, for any finite heap, any contents and any index
bound, `QueueTyped`, `ListWellFormed`, `HeapSafe` and the refinement
`QueueImplementsFifo` from `ListInv` (types, `Linked`, `HeapAccounted`,
`WalkInPlace`). The parts need each other: an operation follows pointers of the
list only because it is well formed, and linking a new cell leaves the list alone
only because that cell is not in it. This module and
`ThreadPoolProofs` begin with the lemmas about the operators of `QueueOps` they
need (lengths, elements, distinctness).

`RequestHandlerProofs` proves, for any workers, connections, requests, header
lines, leaving clients and removable files:

* `RequestsTyped` from `TypeInv`, which adds `Wire`: the request line is the first
  line of a client and only the first, a worker that reads headers is past it, a
  worker about to respond has a status, and it has a child exactly while it waits
  for one. Without it the types are not inductive: a header buffer could receive a
  request line.
* `ServerEndsOnlyBy` from `ServeInv`, which adds `Serving`: a connection is open
  while a worker has it, has one worker, and its client has closed only if it may;
  a worker serves what the client asked for, or the client has closed. The list of
  causes is complete only for a process that gets the memory, the descriptors and the
  children it asks for, and for request lines that have their words.
* `ResponsesComplete` from `ResponseInv`, which adds `Responses`: no header before
  the first write of the response, one after it, and the body done, or impossible,
  before `WaitPid` returns and before the connection is closed.

* `CountsReported` from `CountInv`, which ties a worker's counters to its set of
  headers at each point of `requestHandle`: they are ahead by one request, and by
  one file or program, between counting and the first write (`Tallied`). `NextHead`
  is the step: the header after `n` numbered ones leaves what the earlier ones
  report as it was.

`MemListProofs` proves, for any clients, requests, sizes and heap, `ListTyped`,
`BlocksStaySafe` and `ListImplementsAllocator` from `MemInv`: the blocks lie behind
each other, a pointer is the payload of one block in use that has the bytes the
client asked for, no two clients have the same one, and the first bytes of it, as
many as the client wrote, are the client's. The last part makes `srealloc`'s copy
right, and needs the others: a write stays inside its block, and blocks do not
overlap. `StatsStayExact` rests on `StatsInv` beside it: every unit below the break
is in one block or was taken by another caller of `sbrk` (`Tiled`), and a block in
use is held by a client (`InHands`). The code computes the allocated bytes from the
addresses of the first and the last block and the other statistics by loops over
the list; `Extent` and `UsedSum` show that the sum over the blocks is the distance
less what others took, and `SumRuns` that the loop computes the sum.

`BuddyAllocatorProofs` proves, for any clients, requests, orders, sizes and mapped
addresses and for 2 to 32 blocks, `ConsistentUntil`, `NoFreeBuddies` and
`StopsOnlyThere`. The invariant `IInv` says that, until a fault, the headers tile
the heap in blocks aligned to their size, the lists have the free blocks of each
order, sorted, no two free buddies of one order are left apart, the blocks in use
are those the clients hold, and the mapped regions are accounted for (`Tended`);
after a fault, that the heap is not consistent. After a region was freed twice only
the held regions show it; after the other faults the headers or a free list do
(`Sound`).

* None of this holds in the middle of a call: a loop works on one block that is
  neither listed nor anybody's. `Around(h, addr, used)` is consistency but for the
  block at `addr`, in four parts (`Laid`, `ListsFreeBut`, `JoinedBut`, `UsedBut`),
  and consistency itself where `addr` is `NULL`. A round keeps it (`HalvedAround`,
  `JoinedAround`), a loop therefore too (`SplitFacts`, `UnitedFacts`), and listing
  the block or handing it out makes the heap consistent again.
* Alignment carries the geometry: blocks whose sizes are powers of two are nested or
  apart (`Nested`), and a buddy is the other half of the next larger block
  (`BuddyFacts`).
* `ConsistentUntil` is an equivalence: the heap is consistent until one of the
  named faults, and after it is not. For the second half, a block joined with a
  smaller free buddy leaves a half that has a block in use, because two free
  quarters would have been joined (`UsedInHalf`). No tiling has such a half
  (`DamagedNotTiled`), and the joins that follow do not repair it (`DamageStays`).
  For a second `sfree` and for the buddy that `SreallocUnion` lists, an address that
  is put into a list that was complete makes it unsorted or too large
  (`ListedTwice`).
* The loops end: a join takes a header away, so there are fewer rounds than headers
  (by cardinality). The check of `srealloc` counts the order up as long as every
  buddy it meets has the order it was expected to have (`CheckRoundCounts`,
  `CheckFacts`), so that a call that does not return has met a free buddy that
  is lower or of another order. A heap whose headers tile it has no order above
  `MAX_ORDER` (`LaidInBounds`), so `AddToFreeOrder` leaves its lists only after a join
  of unequal blocks (`DamagedStops`); a region freed twice is held and in no list
  (`RegionAgainKeeps`). With the first call these are the cases of `StopsOnly`.

`SmashJobsProofs` proves, for any processes, addresses, job ids and lines,
`TypeCorrect`, `IdsAreUnique`, `LiveProcessesAreListed`, `StoppedJobsAreMarked` and
`ListedJobsAreUnfinished`. The invariant `IInv` has the types (`Typed`), the
numbers (`Numbered`: `maxJobID` is at least every id in the list, and ids in the
list differ), what is known of a process that has been started (`Started`), and,
as long as no key came at a bad moment (`Undisturbed`), of processes that are no
strays: one entry per process, entries that are finished belong to ended
processes, a child that is alive is listed or waited for, a stopped one is marked.
The last three are invariant only together. They are predicates of values
(a list, the entries, the processes), not of the state, because a command first
sweeps the list and then acts on what is left: the same predicates describe the
swept list in the middle of an action. What the sweep keeps (`Sublist`) and what
sorting permutes (`SortedJobs`) are lemmas about the lists.

`WeightTreeProofs` proves, for any process ids and weights, `TypeCorrect`,
`SumStaysExact` and `HeaviestIsFound`. The invariant `IInv` says of the processes
that they are a tree (`Tree`): the lists of children are the inverse of
`real_parent`, each process once (`Linked`); every set that has with a process its
parent has init (`Rooted`), which excludes cycles; an ended process has no children
(`Ended`). `ForkTree`, `ExitTree`, `ReapTree` and `SetTree` show that the kernel
and `sys_set_weight` keep it. The walk of `sys_get_ancestor_sum` has, while nobody
on its path disturbs it, summed up the difference between the whole path and the
way that is left (`OnPath`). The way up is the least closed set with a process
(`Way`), and what a set of processes weighs is a number of pairs, so that the
theorems on cardinality give the sums. That ancestors of a running process run
(`WayRuns`) makes the path complete when the call begins. `HeaviestIsFound` follows
from `Tree` alone: the function that names the top of every subtree satisfies the
recursive equation (`LoopTops`), and in any solution a wrong process with the
fewest processes below it would have children that are right (`FoundTops`).

Recursion and induction. A recursive function of the models is a `CHOOSE` of a
solution of its equation; the proofs show that there is one and what every solution
computes. In place of induction they take a least counterexample, which
`WFMin` provides for natural numbers: the least index of a loop, the
fewest processes below, the smallest pid.

`SmashShellProofs` proves, for any directories, lengths, buffer size, lines and
words, `ShellEndsOnlyBy` and `ShellFindsBack`. The second needs that `last_path` is
the path of a directory that `getcwd` could write into its buffer, which is an
invariant of the commands.

Assumptions are those named in the component modules: finite sets, special
values outside them, sizes that are natural numbers, `QueueSize` positive. TLC
evaluates them in every run.

Only model-checked: the liveness properties, which with fairness are out of the
prover's reach. Every invariant and action property of a passing run is a theorem.
The violations are counterexamples by TLC.

## 5. What disagrees with the repository's own words

With a run each:

* A client that closes before the empty line costs the server a worker
  (`request.c:67`), against "Repeatedly handles HTTP requests" (`server.c:10`).
* ctrl-Z during `fg` can lose a stopped job (`Commands.cpp:251`).
* `UnionIfPossible` and `SreallocUnion` do not compare the orders of two buddies
  (`malloc_3.cpp:204`, `:281`), so that the statistics no longer agree with the
  blocks, as the tests require (`tests/malloc_3_test_basic.cpp:45`).

In the model, in properties that name them as exceptions or in actions:

* `random` rounds down (`server.c:199`), the test's formula up
  (`tests/utils.py:129`): `RandomOvershoot`.
* A policy name that `handle_overloading` does not know reaches the lines marked
  "should not get here" (`server.c:212`) and enqueues without a limit: `FallThrough`.
* A request for a file that is empty or too large for `mmap` (`segel.c:180`), or that
  the server's user may not read although its owner may (`request.c:216`, `:158`), ends
  the server, and words longer than `filename` or `body` are written past them
  (`request.c:89`, `:17`): `ServerRuns`.
* A foreground process that the terminal stops because it reads from it, such as
  `cat`, is lost: `waitpid` returns and the shell does not look why
  (`Commands.cpp:388`). A background job stopped in this way, or with `kill -20` to
  `-22`, is still shown as running: `ListedUnlessRaced`, `StoppedIsMarked`.
* A pipe's job stays in the list after it has been waited for, so `quit kill`
  counts it (`Commands.cpp:303`): `ListedUnfinished`.
* `printJobsList` says that it sorts by job id and sorts the addresses of the
  entries (`Commands.cpp:760`): `SortedJobs`.
* `quit` in a pipe or a redirection kills the shell (`Commands.cpp:297`), and five
  mistyped lines crash it: `EndsOnlyBy`. `cd -` may fail for a path that fills the
  buffer (`Commands.cpp:209`): `BackIsReachable`. A directory whose path does not fit
  can be entered and not left, since `cd` asks `getcwd` first: `Getcwd`.
* `find_heaviest_descendant` compares the pid of `NULL` (`hw2.c:56`):
  `HeaviestUnlessZero`.
* `num * size` wraps around in `scalloc` (`malloc_2.cpp:201`): `BlocksSafe`.
* The heap of `malloc_3` is laid out above the break when the break is aligned
  (`malloc_3.cpp:335`) or `sbrk` failed (`:336`), `srealloc`'s check can run forever,
  an order above `MAX_ORDER` indexes past the lists (`:321`), and a region freed twice
  is searched for past the end of its list (`:425`): `StopsOnly`. The
  first mapped region is unlinked and never unmapped (`malloc_3.cpp:418`):
  `Unmapped`.

## 6. Not modelled, and the plan

Not modelled: `malloc_1.cpp`, a single call of `sbrk` that `MemList` also makes;
the kernel's own text in the modified headers; tests, build trees and documents;
a failing `malloc` or `new`; lines and words longer than the shell's buffers;
request lines without a file name or longer than the read buffer, and a server that
runs out of memory, descriptors or processes; a block of `malloc_3` freed again when
its header has become part of another block;
`sfree(NULL)` in `malloc_2.cpp:142`, which reads in front of address 0; the cookies
of `malloc_3`, which only detect what clients write outside their blocks; sockets,
name lookup and TCP's buffers.

Left in the plan:

1. `WebServer`, which composes `RequestHandler` with `ThreadPool` in place of its
   action `RequestHandle`, refines `ThreadPool`, and shows what a lost worker does
   to each policy. `RequestHandler` alone has more than 400,000 states in its run, so
   the composition needs a coarser version of both.
