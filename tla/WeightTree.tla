----------------------------- MODULE WeightTree -----------------------------
(***************************************************************************)
(* The weight system calls, hw2/wet/kernel/hw2.c, over the tree of         *)
(* processes that the kernel keeps: sys_set_weight, sys_get_ancestor_sum,  *)
(* which follows real_parent up to init without a lock while processes     *)
(* fork, exit and are reaped, and sys_get_heaviest_descendant.             *)
(*                                                                         *)
(* A call that returns without changing a process is no step:              *)
(* sys_get_weight, sys_set_weight with a negative weight, and              *)
(* sys_get_heaviest_descendant, which is taken to see one state of the     *)
(* tree.  One walk of sys_get_ancestor_sum is followed at a time: walks    *)
(* only read.                                                              *)
(***************************************************************************)
EXTENDS Integers, Sequences, FiniteSets, SequencesExt

CONSTANTS
    Pids,     \* the process ids, 1 among them
    Weights   \* the arguments of sys_set_weight

ASSUME PidsAssumption == Pids \subseteq Nat \ {0} /\ 1 \in Pids
ASSUME WeightsAssumption == Weights \subseteq Int

VARIABLES
    task,  \* the task_structs, by pid
    walk   \* the sys_get_ancestor_sum in progress

vars == <<task, walk>>

Tasks == DOMAIN task
Running(p) == p \in Tasks /\ ~task[p].exited /\ (walk.pc = "idle" \/ walk.of # p)

(* INIT_TASK gives the first process the weight 0.                         *)
INIT_TASK == [weight |-> 0, real_parent |-> 1, children |-> <<>>,
              exited |-> FALSE]
NoWalk == [pc |-> "idle", of |-> 1, at |-> 1, sum |-> 0, path |-> {},
           expected |-> 0, disturbed |-> FALSE]

Init == task = [p \in {1} |-> INIT_TASK] /\ walk = NoWalk

-----------------------------------------------------------------------------
(* What the tree means.                                                    *)

Ancestors(p) ==
    LET ancestors[q \in Tasks] ==
            {q} \cup (IF q = 1 THEN {} ELSE ancestors[task[q].real_parent])
    IN  ancestors[p]

Descendants(p) == {q \in Tasks \ {p} : p \in Ancestors(q)}

(* The sum of the weights of the ancestors, as a number of pairs: every    *)
(* process has as many of them as it weighs.                               *)
AncestorSum(p) ==
    Cardinality(UNION {{q} \X (0..(task[q].weight - 1)) : q \in Ancestors(p)})

(* The heaviest descendant, and of several the one with the smallest pid.  *)
Heaviest(p) ==
    CHOOSE q \in Descendants(p) : \A r \in Descendants(p) :
        \/ task[q].weight > task[r].weight
        \/ task[q].weight = task[r].weight /\ q <= r

(* A process on the path of the walk did something the walk may see.       *)
Disturbs(p) == [walk EXCEPT !.disturbed = @ \/ p \in walk.path]

-----------------------------------------------------------------------------
(* The processes.                                                          *)

(* fork copies the task_struct, weight and all, and puts the child last in *)
(* its parent's list.                                                      *)
Fork(p, child) ==
    /\ Running(p) /\ child \in Pids \ Tasks /\ child # walk.at
    /\ task' = [q \in Tasks \cup {child} |->
          CASE q = child -> [task[p] EXCEPT !.real_parent = p, !.children = <<>>]
            [] q = p -> [task[p] EXCEPT !.children = Append(@, child)]
            [] OTHER -> task[q]]
    /\ UNCHANGED walk

(* Exit hands the children to init; the process stays in its parent's list *)
(* until the parent waits for it.                                          *)
Exited(p) ==
    [q \in Tasks |->
        CASE q = p -> [task[p] EXCEPT !.children = <<>>, !.exited = TRUE]
          [] q = 1 -> [task[1] EXCEPT !.children = @ \o task[p].children]
          [] q \in ToSet(task[p].children) -> [task[q] EXCEPT !.real_parent = 1]
          [] OTHER -> task[q]]

Exit(p) ==
    /\ Running(p) /\ p # 1
    /\ task' = Exited(p)
    /\ walk' = Disturbs(p)

Reap(p) ==
    /\ p \in Tasks /\ task[p].exited
    /\ Running(task[p].real_parent)
    /\ task' = [q \in Tasks \ {p} |->
                   IF q = task[p].real_parent
                   THEN [task[q] EXCEPT !.children = RemoveFirst(@, p)]
                   ELSE task[q]]
    /\ UNCHANGED walk

-----------------------------------------------------------------------------
(* The system calls.                                                       *)

(* Mutated forms, here and below, are definitions that no action uses: a   *)
(* bug that would break one of the properties.                             *)
sys_set_weight_unchecked(p, weight) ==
    /\ Running(p)
    /\ task' = [task EXCEPT ![p].weight = weight]
    /\ walk' = Disturbs(p)

sys_set_weight(p, weight) ==
    /\ Running(p) /\ weight >= 0
    /\ task' = [task EXCEPT ![p].weight = weight]
    /\ walk' = Disturbs(p)

sys_get_ancestor_sum(p) ==
    /\ Running(p) /\ walk.pc = "idle"
    /\ walk' = [pc |-> "add", of |-> p, at |-> p, sum |-> 0,
                path |-> Ancestors(p), expected |-> AncestorSum(p),
                disturbed |-> FALSE]
    /\ UNCHANGED task

AddWeightButInits ==
    /\ walk.pc = "add" /\ walk.at \in Tasks
    /\ walk' = IF walk.at = 1 THEN [walk EXCEPT !.pc = "done"]
               ELSE [walk EXCEPT !.pc = "up", !.sum = @ + task[walk.at].weight]
    /\ UNCHANGED task

(* The weight of the process it is at, init's last.                        *)
AddWeight ==
    /\ walk.pc = "add" /\ walk.at \in Tasks
    /\ walk' = [walk EXCEPT !.sum = @ + task[walk.at].weight,
                            !.pc = IF walk.at = 1 THEN "done" ELSE "up"]
    /\ UNCHANGED task

UpNever ==
    /\ walk.pc = "up" /\ walk.at \in Tasks
    /\ walk' = [walk EXCEPT !.pc = "add"]
    /\ UNCHANGED task

Up ==
    /\ walk.pc = "up" /\ walk.at \in Tasks
    /\ walk' = [walk EXCEPT !.at = task[@].real_parent, !.pc = "add"]
    /\ UNCHANGED task

(* The process it is at has been reaped and its task_struct freed.         *)
ReadFreed ==
    /\ walk.pc \in {"add", "up"} /\ walk.at \notin Tasks
    /\ walk' = [walk EXCEPT !.pc = "wild"]
    /\ UNCHANGED task

Return ==
    /\ walk.pc \in {"done", "wild"}
    /\ walk' = NoWalk
    /\ UNCHANGED task

(* find_heaviest_descendant: one round of the loop over the children, with *)
(* the result d of the recursion.  The loop of the caller starts from no   *)
(* process, NULL, and the weight 0; comparing its pid dereferences NULL.   *)
NULL == 0
OOPS == -1
Weight(p) == IF p = NULL THEN 0 ELSE task[p].weight

HeavierLast(best, d) ==
    CASE OOPS \in {best, d} -> OOPS
      [] OOPS \notin {best, d} ->
           IF Weight(d) > Weight(best) THEN d
           ELSE IF Weight(d) < Weight(best) THEN best
           ELSE IF best = NULL THEN OOPS ELSE d

Heavier(best, d) ==
    CASE OOPS \in {best, d} -> OOPS
      [] OOPS \notin {best, d} ->
           IF Weight(d) > Weight(best) THEN d
           ELSE IF Weight(d) < Weight(best) THEN best
           ELSE IF best = NULL THEN OOPS
           ELSE IF d < best THEN d ELSE best

(* The loop over the children of p, from a first candidate, when found has *)
(* the results of the recursion.                                           *)
LoopOverChildren(p, candidate, found) ==
    LET best[i \in 0..Len(task[p].children)] ==
            IF i = 0 THEN candidate
            ELSE Heavier(best[i - 1], found[task[p].children[i]])
    IN  best[Len(task[p].children)]

find_heaviest_descendant(p, father) ==
    LET found[q \in Tasks] == LoopOverChildren(q, q, found)
    IN  LoopOverChildren(p, IF father = 1 THEN NULL ELSE p, found)

(* The process whose call faults in the kernel is killed; init is not seen *)
(* to call.                                                                *)
sys_get_heaviest_descendant(p) ==
    /\ Running(p) /\ p # 1
    /\ task[p].children # <<>>
    /\ find_heaviest_descendant(p, 1) = OOPS
    /\ task' = Exited(p)
    /\ walk' = Disturbs(p)

-----------------------------------------------------------------------------
WalkStep == AddWeight \/ Up \/ ReadFreed

Next ==
    \/ \E p \in Pids :
          \/ \E child \in Pids : Fork(p, child)
          \/ \E weight \in Weights : sys_set_weight(p, weight)
          \/ Exit(p) \/ Reap(p)
          \/ sys_get_ancestor_sum(p)
          \/ sys_get_heaviest_descendant(p)
    \/ WalkStep \/ Return

Spec == Init /\ [][Next]_vars

(* A process in a system call is scheduled again.                          *)
FairSpec == Spec /\ WF_vars(WalkStep)

-----------------------------------------------------------------------------
(* Type invariant: no process has a negative weight.                       *)
TypeOK ==
    /\ 1 \in Tasks /\ Tasks \subseteq Pids
    /\ \A p \in Tasks :
          /\ task[p].weight \in Nat
          /\ task[p].real_parent \in Tasks
          /\ task[p].children \in Seq(Tasks)
          /\ task[p].exited \in BOOLEAN
    /\ walk.pc \in {"idle", "add", "up", "done", "wild"}
    /\ walk.sum \in Nat

(* sys_get_ancestor_sum, although it takes no lock, returns the sum of the *)
(* weights on the path as it was when the call began, unless a process on  *)
(* the path changed its weight or exited meanwhile; only then can the walk *)
(* come to a freed task_struct.                                            *)
SumUnlessDisturbed ==
    ~walk.disturbed => /\ walk.pc # "wild"
                       /\ walk.pc = "done" => walk.sum = walk.expected

(* sys_get_heaviest_descendant finds what its name says in every tree of   *)
(* processes, ended ones that are not yet reaped included, except that it  *)
(* dereferences NULL exactly when the caller's first child and all of that *)
(* child's descendants have the weight 0.                                  *)
HeaviestUnlessZero ==
    \A p \in Tasks : task[p].children # <<>> =>
        LET first == Head(task[p].children)
        IN  find_heaviest_descendant(p, 1) =
               IF \A q \in {first} \cup Descendants(first) : task[q].weight = 0
               THEN OOPS ELSE Heaviest(p)

(* Every walk comes to its end, whatever forks and exits on its way.       *)
WalkEnds == walk.pc = "add" ~> walk.pc \in {"done", "wild"}
=============================================================================
