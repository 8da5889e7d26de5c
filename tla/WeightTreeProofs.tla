-------------------------- MODULE WeightTreeProofs --------------------------
(***************************************************************************)
(* Proofs about the weight system calls, for any process ids and weights.  *)
(***************************************************************************)
EXTENDS WeightTree, SequenceTheorems, FiniteSetTheorems, WellFoundedInduction,
        TLAPS

-----------------------------------------------------------------------------
(* The invariant.  Its parts are predicates of a tree of processes t, so   *)
(* that they can be stated of the tree before and after a step.            *)

TaskStruct(D) == [weight : Nat, real_parent : D, children : Seq(D),
                  exited : BOOLEAN]

(* S has with every process but init its parent.                           *)
UpClosed(t, S) == \A q \in S \ {1} : t[q].real_parent \in S

(* Every way up ends at init.                                              *)
Rooted(t) == \A S \in SUBSET DOMAIN t : S # {} /\ UpClosed(t, S) => 1 \in S

(* A list of members of D, each once.                                      *)
Distinct(D, list) ==
    /\ list \in Seq(D)
    /\ \A i, j \in 1..Len(list) : list[i] = list[j] => i = j

(* The lists of children are the inverse of real_parent.                   *)
Linked(t) ==
    /\ \A p, q \in DOMAIN t :
          q \in ToSet(t[p].children) <=> q # 1 /\ t[q].real_parent = p
    /\ \A p \in DOMAIN t : Distinct(DOMAIN t, t[p].children)
    /\ t[1].real_parent = 1

(* An ended process has no children, and init does not end.                *)
Ended(t) == \A p \in DOMAIN t : t[p].exited => p # 1 /\ t[p].children = <<>>

Typed(t) ==
    /\ 1 \in DOMAIN t /\ DOMAIN t \subseteq Pids /\ IsFiniteSet(DOMAIN t)
    /\ t \in [DOMAIN t -> TaskStruct(DOMAIN t)]

Tree(t) == Typed(t) /\ Rooted(t) /\ Linked(t) /\ Ended(t)

Walks == [pc : {"idle", "add", "up", "done", "wild"}, of : Pids, at : Pids,
          sum : Nat, path : SUBSET Pids, expected : Nat, disturbed : BOOLEAN]

(* The least set with p that is closed: the way up from p.                 *)
Way(t, p) == {q \in DOMAIN t : \A S \in SUBSET DOMAIN t :
                 p \in S /\ UpClosed(t, S) => q \in S}

(* What the processes in S weigh.                                          *)
Units(t, S) == UNION {{q} \X (0..(t[q].weight - 1)) : q \in S}
WeightOf(t, S) == Cardinality(Units(t, S))

(* A walk nobody disturbed has its path as it was, and what it has summed  *)
(* up with what is still above it is the sum of the path.                  *)
OnPath(t, w) ==
    w.pc # "idle" /\ ~w.disturbed =>
        /\ w.path \subseteq DOMAIN t /\ UpClosed(t, w.path) /\ w.at \in w.path
        /\ \A q \in w.path : ~t[q].exited
        /\ w.pc # "wild"
        /\ w.pc = "add" => w.expected = w.sum + WeightOf(t, Way(t, w.at))
        /\ w.pc = "up" =>
              /\ w.at # 1
              /\ w.expected = w.sum + WeightOf(t, Way(t, t[w.at].real_parent))
        /\ w.pc = "done" => w.sum = w.expected

IInv == Tree(task) /\ walk \in Walks /\ OnPath(task, walk)
        /\ (walk.pc = "idle" => walk = NoWalk)

-----------------------------------------------------------------------------
(* The way up.                                                             *)

(* The fields of a task_struct.                                            *)
LEMMA Fields ==
    ASSUME NEW t, Typed(t), NEW p \in DOMAIN t
    PROVE  /\ t[p] \in TaskStruct(DOMAIN t) /\ p \in Pids
           /\ t[p].weight \in Nat /\ t[p].real_parent \in DOMAIN t
           /\ t[p].children \in Seq(DOMAIN t) /\ t[p].exited \in BOOLEAN
  <1>1. t[p] \in TaskStruct(DOMAIN t) /\ p \in Pids
    BY DEF Typed
  <1>. QED  BY <1>1 DEF TaskStruct

(* Way is the least closed set.                                            *)
LEMMA WayLeast ==
    ASSUME NEW t, Typed(t), NEW p \in DOMAIN t
    PROVE  /\ p \in Way(t, p) /\ Way(t, p) \subseteq DOMAIN t
           /\ UpClosed(t, Way(t, p))
           /\ \A S \in SUBSET DOMAIN t :
                 p \in S /\ UpClosed(t, S) => Way(t, p) \subseteq S
  <1>1. p \in Way(t, p) /\ Way(t, p) \subseteq DOMAIN t
    BY DEF Way
  <1>2. ASSUME NEW q \in Way(t, p) \ {1}
        PROVE  t[q].real_parent \in Way(t, p)
    <2>1. q \in DOMAIN t
      BY <1>1
    <2>2. t[q].real_parent \in DOMAIN t
      BY <2>1, Fields
    <2>3. ASSUME NEW S \in SUBSET DOMAIN t, p \in S, UpClosed(t, S)
          PROVE  t[q].real_parent \in S
      <3>1. q \in S
        BY <2>3 DEF Way
      <3>. QED  BY <2>3, <3>1 DEF UpClosed
    <2>. QED  BY <2>2, <2>3 DEF Way
  <1>3. ASSUME NEW S \in SUBSET DOMAIN t, p \in S, UpClosed(t, S)
        PROVE  Way(t, p) \subseteq S
    BY <1>3 DEF Way
  <1>. QED  BY <1>1, <1>2, <1>3 DEF UpClosed

(* It goes from a process to its parent and ends at init.                  *)
LEMMA WaySteps ==
    ASSUME NEW t, Typed(t), NEW p \in DOMAIN t
    PROVE  /\ p = 1 => Way(t, p) = {1}
           /\ p # 1 => Way(t, p) = {p} \cup Way(t, t[p].real_parent)
  <1>1. CASE p = 1
    <2>1. {1} \in SUBSET DOMAIN t /\ UpClosed(t, {1}) /\ p \in {1}
      BY <1>1 DEF UpClosed
    <2>2. Way(t, p) \subseteq {1}
      BY <2>1, WayLeast
    <2>. QED  BY <1>1, <2>2, WayLeast
  <1>2. CASE p # 1
    <2>. DEFINE f == t[p].real_parent
                S == {p} \cup Way(t, f)
    <2>1. f \in DOMAIN t
      BY Fields
    <2>2. /\ f \in Way(t, f) /\ Way(t, f) \subseteq DOMAIN t
          /\ UpClosed(t, Way(t, f))
      BY <2>1, WayLeast
    <2>3. S \in SUBSET DOMAIN t /\ UpClosed(t, S)
      BY <2>2 DEF UpClosed
    <2>4. Way(t, p) \subseteq S
      BY <2>3, WayLeast
    <2>5. Way(t, p) \in SUBSET DOMAIN t /\ UpClosed(t, Way(t, p)) /\ p \in Way(t, p)
      BY WayLeast
    <2>6. f \in Way(t, p)
      BY <1>2, <2>5 DEF UpClosed
    <2>7. Way(t, f) \subseteq Way(t, p)
      BY <2>1, <2>5, <2>6, WayLeast
    <2>. QED  BY <1>2, <2>4, <2>5, <2>7
  <1>. QED  BY <1>1, <1>2

(* and never comes back: from a process on a cycle all ways would stay on  *)
(* the cycle, and none would end at init.                                  *)
LEMMA NoCycle ==
    ASSUME NEW t, Typed(t), Rooted(t), NEW p \in DOMAIN t, p # 1
    PROVE  p \notin Way(t, t[p].real_parent)
  <1>. SUFFICES ASSUME p \in Way(t, t[p].real_parent) PROVE FALSE
    OBVIOUS
  <1>. DEFINE C == {x \in DOMAIN t : p \in Way(t, x)}
  <1>1. p \in C
    BY WayLeast
  <1>2. ASSUME NEW x \in C \ {1} PROVE t[x].real_parent \in C
    <2>1. x \in DOMAIN t /\ p \in Way(t, x) /\ t[x].real_parent \in DOMAIN t
      BY Fields
    <2>2. CASE x = p
      BY <2>1, <2>2
    <2>3. CASE x # p
      BY <2>1, <2>3, WaySteps
    <2>. QED  BY <2>2, <2>3
  <1>3. UpClosed(t, C) /\ C \in SUBSET DOMAIN t
    BY <1>2 DEF UpClosed
  <1>4. 1 \in C
    BY <1>1, <1>3 DEF Rooted
  <1>5. Way(t, 1) = {1}
    BY <1>4, WaySteps
  <1>. QED  BY <1>4, <1>5

(* What real_parent says recursively is the way up.                        *)
LEMMA AncestorsWay ==
    ASSUME Tree(task), NEW p \in Tasks
    PROVE  Ancestors(p) = Way(task, p)
  <1>. DEFINE Eq(f) == f = [q \in Tasks |->
                  {q} \cup (IF q = 1 THEN {} ELSE f[task[q].real_parent])]
              w == [q \in Tasks |-> Way(task, q)]
              h == CHOOSE f : Eq(f)
  <1>0. Typed(task) /\ Rooted(task)
    BY DEF Tree
  <1>1. ASSUME NEW q \in Tasks
        PROVE  w[q] = {q} \cup (IF q = 1 THEN {} ELSE w[task[q].real_parent])
    <2>1. task[q].real_parent \in Tasks
      BY <1>0, Fields DEF Tasks
    <2>. QED  BY <1>0, <2>1, WaySteps DEF Tasks
  <1>2. Eq(w)
    BY <1>1
  <1>3. Eq(h)
    <2>. HIDE DEF Eq
    <2>. QED  BY <1>2
  <1>4. Ancestors(p) = h[p]
    BY DEF Ancestors
  <1>. HIDE DEF h
  <1>. DEFINE Bad == {q \in Tasks : h[q] # Way(task, q)}
  <1>5. ASSUME NEW q \in Bad \ {1} PROVE task[q].real_parent \in Bad
    <2>1. q \in Tasks /\ task[q].real_parent \in Tasks
      BY <1>0, Fields DEF Tasks
    <2>2. h[q] = {q} \cup h[task[q].real_parent]
      BY <1>3, <2>1
    <2>3. Way(task, q) = {q} \cup Way(task, task[q].real_parent)
      BY <1>0, <2>1, WaySteps DEF Tasks
    <2>. QED  BY <2>1, <2>2, <2>3
  <1>6. 1 \notin Bad
    <2>1. 1 \in Tasks => h[1] = {1}
      BY <1>3
    <2>2. 1 \in Tasks => Way(task, 1) = {1}
      BY <1>0, WaySteps DEF Tasks
    <2>. QED  BY <2>1, <2>2
  <1>7. UpClosed(task, Bad) /\ Bad \in SUBSET DOMAIN task
    BY <1>5 DEF UpClosed, Tasks
  <1>8. Bad = {}
    <2>. HIDE DEF Bad
    <2>. QED  BY <1>0, <1>6, <1>7 DEF Rooted
  <1>. QED  BY <1>4, <1>8

(* The trees t and u are the same on P.                                    *)
Same(t, u, P) ==
    \A q \in P : /\ q \in DOMAIN t /\ q \in DOMAIN u
                 /\ u[q].real_parent = t[q].real_parent
                 /\ u[q].weight = t[q].weight /\ u[q].exited = t[q].exited

(* Then the ways in P are.                                                 *)
LEMMA SameWay ==
    ASSUME NEW t, NEW u, Typed(t), Typed(u), NEW P, Same(t, u, P),
           UpClosed(t, P), NEW p \in P
    PROVE  /\ UpClosed(u, P) /\ Way(t, p) \subseteq P
           /\ Way(u, p) = Way(t, p)
  <1>1. p \in DOMAIN t /\ p \in DOMAIN u
        /\ P \in SUBSET DOMAIN t /\ P \in SUBSET DOMAIN u
    BY DEF Same
  <1>2. UpClosed(u, P)
    BY DEF Same, UpClosed
  <1>3. /\ Way(t, p) \subseteq P /\ Way(u, p) \subseteq P
        /\ UpClosed(t, Way(t, p)) /\ UpClosed(u, Way(u, p))
        /\ p \in Way(t, p) /\ p \in Way(u, p)
    BY <1>1, <1>2, WayLeast
  <1>4. UpClosed(u, Way(t, p)) /\ UpClosed(t, Way(u, p))
    BY <1>3 DEF Same, UpClosed
  <1>5. Way(u, p) \subseteq Way(t, p)
    BY <1>1, <1>3, <1>4, WayLeast
  <1>6. Way(t, p) \subseteq Way(u, p)
    BY <1>1, <1>3, <1>4, WayLeast
  <1>. QED  BY <1>2, <1>3, <1>5, <1>6

-----------------------------------------------------------------------------
(* What processes weigh.                                                   *)

(* The pairs of one process.                                               *)
LEMMA OneWeight ==
    ASSUME NEW p, NEW n \in Nat
    PROVE  /\ IsFiniteSet({p} \X (0..(n - 1)))
           /\ Cardinality({p} \X (0..(n - 1))) = n
  <1>1. 0 \in Int /\ n - 1 \in Int
    OBVIOUS
  <1>2. /\ IsFiniteSet(0..(n - 1))
        /\ Cardinality(0..(n - 1)) = IF 0 > n - 1 THEN 0 ELSE (n - 1) - 0 + 1
    BY <1>1, FS_Interval
  <1>3. Cardinality(0..(n - 1)) = n
    BY <1>2
  <1>4. IsFiniteSet({p}) /\ Cardinality({p}) = 1
    BY FS_Singleton
  <1>5. /\ IsFiniteSet({p} \X (0..(n - 1)))
        /\ Cardinality({p} \X (0..(n - 1))) = 1 * n
    BY <1>2, <1>3, <1>4, FS_Product
  <1>. QED  BY <1>5

(* The pairs of finitely many processes are finitely many.                 *)
LEMMA UnitsFinite ==
    ASSUME NEW t, Typed(t), NEW S \in SUBSET DOMAIN t
    PROVE  /\ IsFiniteSet(S) /\ IsFiniteSet(Units(t, S))
           /\ WeightOf(t, S) \in Nat
  <1>. DEFINE f == [q \in S |-> {q} \X (0..(t[q].weight - 1))]
              T == {{q} \X (0..(t[q].weight - 1)) : q \in S}
  <1>1. IsFiniteSet(S)
    BY FS_Subset DEF Typed
  <1>2. f \in Surjection(S, T)
    BY DEF Surjection
  <1>3. \A U \in T : IsFiniteSet(U)
    <2>. SUFFICES ASSUME NEW q \in S
                  PROVE  IsFiniteSet({q} \X (0..(t[q].weight - 1)))
      OBVIOUS
    <2>1. t[q].weight \in Nat
      BY Fields
    <2>. QED  BY <2>1, OneWeight
  <1>4. Units(t, S) = UNION T
    BY DEF Units
  <1>. HIDE DEF f, T
  <1>5. IsFiniteSet(T)
    BY <1>1, <1>2, FS_Surjection
  <1>6. IsFiniteSet(Units(t, S))
    BY <1>3, <1>4, <1>5, FS_UNION
  <1>. QED  BY <1>1, <1>6, FS_CardinalityType DEF WeightOf

(* One process more.                                                       *)
LEMMA WeightAdds ==
    ASSUME NEW t, Typed(t), NEW S \in SUBSET DOMAIN t, NEW p \in DOMAIN t,
           p \notin S
    PROVE  WeightOf(t, {p} \cup S) = t[p].weight + WeightOf(t, S)
  <1>. DEFINE A == Units(t, S)
              B == {p} \X (0..(t[p].weight - 1))
  <1>1. t[p].weight \in Nat
    BY Fields
  <1>2. Units(t, {p} \cup S) = A \cup B
    BY DEF Units
  <1>3. A \cap B = {}
    BY DEF Units
  <1>4. IsFiniteSet(B) /\ Cardinality(B) = t[p].weight
    BY <1>1, OneWeight
  <1>5. IsFiniteSet(A) /\ Cardinality(A) \in Nat
    BY UnitsFinite DEF WeightOf
  <1>. HIDE DEF A, B
  <1>6. Cardinality(A \cup B) = Cardinality(A) + Cardinality(B) - Cardinality(A \cap B)
    BY <1>4, <1>5, FS_Union
  <1>7. Cardinality(A \cap B) = 0
    BY <1>3, FS_EmptySet
  <1>8. Cardinality(A \cup B) = t[p].weight + Cardinality(A)
    BY <1>1, <1>4, <1>5, <1>6, <1>7
  <1>. QED  BY <1>2, <1>8 DEF WeightOf, A

(* A way weighs what its first process weighs, and the way from there.     *)
LEMMA WayWeighs ==
    ASSUME NEW t, Tree(t), NEW p \in DOMAIN t
    PROVE  /\ p = 1 => WeightOf(t, Way(t, p)) = t[p].weight
           /\ p # 1 => WeightOf(t, Way(t, p)) =
                          t[p].weight + WeightOf(t, Way(t, t[p].real_parent))
           /\ WeightOf(t, Way(t, p)) \in Nat
  <1>0. Typed(t) /\ Rooted(t) /\ t[p].weight \in Nat
    BY Fields DEF Tree
  <1>1. CASE p = 1
    <2>1. Way(t, p) = {p} \cup {}
      BY <1>0, <1>1, WaySteps
    <2>2. {} \in SUBSET DOMAIN t /\ p \notin {}
      OBVIOUS
    <2>3. WeightOf(t, {p} \cup {}) = t[p].weight + WeightOf(t, {})
      BY <1>0, <2>2, WeightAdds
    <2>4. WeightOf(t, {}) = 0
      <3>1. Units(t, {}) = {}
        BY DEF Units
      <3>. QED  BY <3>1, FS_EmptySet DEF WeightOf
    <2>5. WeightOf(t, Way(t, p)) = t[p].weight
      BY <1>0, <2>1, <2>3, <2>4
    <2>. QED  BY <1>0, <1>1, <2>5
  <1>2. CASE p # 1
    <2>. DEFINE S == Way(t, t[p].real_parent)
    <2>1. t[p].real_parent \in DOMAIN t
      BY <1>0, Fields
    <2>2. S \in SUBSET DOMAIN t /\ p \notin S
      BY <1>0, <1>2, <2>1, WayLeast, NoCycle
    <2>3. Way(t, p) = {p} \cup S
      BY <1>0, <1>2, WaySteps
    <2>. HIDE DEF S
    <2>4. WeightOf(t, Way(t, p)) = t[p].weight + WeightOf(t, S)
      BY <1>0, <2>2, <2>3, WeightAdds
    <2>5. WeightOf(t, S) \in Nat
      BY <1>0, <2>2, UnitsFinite
    <2>. QED  BY <1>0, <1>2, <2>4, <2>5 DEF S
  <1>. QED  BY <1>1, <1>2

(* AncestorSum is what the way up weighs.                                  *)
LEMMA AncestorSumWeighs ==
    ASSUME Tree(task), NEW p \in Tasks
    PROVE  AncestorSum(p) = WeightOf(task, Way(task, p))
  BY AncestorsWay DEF AncestorSum, WeightOf, Units

-----------------------------------------------------------------------------
(* A walk that is not disturbed.                                           *)

(* The walk goes on where the path is the same.                            *)
LEMMA PathKept ==
    ASSUME NEW t, NEW u, Tree(t), Tree(u), NEW w \in Walks, OnPath(t, w),
           w.pc # "idle" /\ ~w.disturbed => Same(t, u, w.path)
    PROVE  OnPath(u, w)
  <1>. SUFFICES ASSUME w.pc # "idle", ~w.disturbed PROVE OnPath(u, w)
    BY DEF OnPath
  <1>1. Typed(t) /\ Typed(u) /\ Same(t, u, w.path)
    BY DEF Tree
  <1>2. /\ w.path \subseteq DOMAIN t /\ UpClosed(t, w.path) /\ w.at \in w.path
        /\ \A q \in w.path : ~t[q].exited
    BY DEF OnPath
  <1>3. w.path \subseteq DOMAIN u /\ \A q \in w.path : ~u[q].exited
    BY <1>1, <1>2 DEF Same
  <1>4. ASSUME NEW p \in w.path
        PROVE  /\ UpClosed(u, w.path) /\ Way(u, p) = Way(t, p)
               /\ WeightOf(u, Way(u, p)) = WeightOf(t, Way(t, p))
    <2>1. UpClosed(u, w.path) /\ Way(u, p) = Way(t, p) /\ Way(t, p) \subseteq w.path
      BY <1>1, <1>2, SameWay
    <2>2. \A q \in Way(t, p) : u[q].weight = t[q].weight
      BY <1>1, <2>1 DEF Same
    <2>3. Units(u, Way(t, p)) = Units(t, Way(t, p))
      BY <2>2 DEF Units
    <2>. QED  BY <2>1, <2>3 DEF WeightOf
  <1>5. w.at # 1 => /\ t[w.at].real_parent \in w.path
                    /\ u[w.at].real_parent = t[w.at].real_parent
    BY <1>1, <1>2 DEF UpClosed, Same
  <1>. QED  BY <1>2, <1>3, <1>4, <1>5 DEF OnPath

-----------------------------------------------------------------------------
(* Lists of children.                                                      *)

(* A nonempty set of numbers has a least one.                              *)
LEMMA LeastPid ==
    ASSUME NEW S \in SUBSET Nat, S # {}
    PROVE  \E i \in S : \A j \in S : i <= j
  <1>1. PICK i \in S : \A j \in S : ~ (<<j, i>> \in OpToRel(<, Nat))
    BY WFMin, NatLessThanWellFounded
  <1>2. \A j \in S : ~ (j < i)
    BY <1>1 DEF OpToRel
  <1>. QED  BY <1>2

(* A list in a larger set.                                                 *)
LEMMA DistinctMore ==
    ASSUME NEW D, NEW E, D \subseteq E, NEW list, Distinct(D, list)
    PROVE  Distinct(E, list)
  <1>1. list \in Seq(E)
    BY SeqMonotonic DEF Distinct
  <1>. QED  BY <1>1 DEF Distinct

(* A new last member.                                                      *)
LEMMA AppendFacts ==
    ASSUME NEW D, NEW list, Distinct(D, list), NEW a \in D, a \notin ToSet(list)
    PROVE  /\ Distinct(D, Append(list, a))
           /\ ToSet(Append(list, a)) = ToSet(list) \cup {a}
  <1>. DEFINE k == Append(list, a)
  <1>1. list \in Seq(D) /\ Len(list) \in Nat /\ DOMAIN list = 1..Len(list)
    BY DEF Distinct
  <1>2. /\ k \in Seq(D) /\ Len(k) = Len(list) + 1
        /\ DOMAIN k = 1..(Len(list) + 1)
        /\ k[Len(list) + 1] = a
        /\ \A i \in 1..Len(list) : k[i] = list[i]
    BY <1>1
  <1>3. \A i \in 1..Len(k) : i \in 1..Len(list) \/ i = Len(list) + 1
    BY <1>1, <1>2
  <1>4. \A i \in 1..Len(list) : list[i] # a
    BY <1>1 DEF ToSet
  <1>. HIDE DEF k
  <1>5. Distinct(D, k)
    BY <1>2, <1>3, <1>4 DEF Distinct
  <1>6. ASSUME NEW x \in ToSet(k) PROVE x \in ToSet(list) \cup {a}
    BY <1>1, <1>2, <1>3, <1>6 DEF ToSet
  <1>7. ASSUME NEW x \in ToSet(list) \cup {a} PROVE x \in ToSet(k)
    <2>1. CASE x = a
      BY <2>1, <1>1, <1>2 DEF ToSet
    <2>2. CASE x \in ToSet(list)
      <3>1. PICK i \in 1..Len(list) : x = list[i]
        BY <2>2, <1>1 DEF ToSet
      <3>2. i \in DOMAIN k /\ k[i] = x
        BY <3>1, <1>1, <1>2
      <3>. QED  BY <3>2 DEF ToSet
    <2>. QED  BY <2>1, <2>2
  <1>. QED  BY <1>5, <1>6, <1>7 DEF k

(* The first index of an element, as the community modules' SelectInSeq    *)
(* computes it.                                                            *)
LEMMA FirstFacts ==
    ASSUME NEW I \in SUBSET Nat, I # {}
    PROVE  Min(I) \in I
  <1>1. \E x \in I : \A y \in I : x <= y
    BY LeastPid
  <1>. QED  BY <1>1 DEF Min

(* Removing a member.                                                      *)
LEMMA RemoveFirstFacts ==
    ASSUME NEW D, NEW list, Distinct(D, list), NEW x \in ToSet(list)
    PROVE  /\ Distinct(D, RemoveFirst(list, x))
           /\ ToSet(RemoveFirst(list, x)) = ToSet(list) \ {x}
           /\ Len(RemoveFirst(list, x)) = Len(list) - 1
  <1>1. list \in Seq(D) /\ Len(list) \in Nat /\ DOMAIN list = 1..Len(list)
    BY DEF Distinct
  <1>. DEFINE I == {i \in 1..Len(list) : list[i] = x}
              m == Min(I)
              k == RemoveFirst(list, x)
              pre == SubSeq(list, 1, m - 1)
              post == SubSeq(list, m + 1, Len(list))
  <1>2. I # {}
    BY <1>1 DEF ToSet
  <1>3. m \in 1..Len(list) /\ list[m] = x
    <2>1. I \in SUBSET Nat
      OBVIOUS
    <2>2. m \in I
      <3>. HIDE DEF I
      <3>. QED  BY <1>2, <2>1, FirstFacts
    <2>. QED  BY <2>2
  <1>4. k = pre \o post
    <2>1. \E i \in 1..Len(list) : list[i] = x
      BY <1>3
    <2>. QED  BY <2>1, <1>2 DEF RemoveFirst, RemoveAt, SelectInSeq
  <1>. HIDE DEF I, m, k
  <1>5. /\ pre \in Seq(D) /\ Len(pre) = m - 1
        /\ \A i \in 1..(m - 1) : pre[i] = list[i]
    BY <1>1, <1>3, SubSeqProperties
  <1>6. /\ post \in Seq(D) /\ Len(post) = Len(list) - m
        /\ \A i \in 1..(Len(list) - m) : post[i] = list[m + i]
    <2>1. m + 1 \in Int /\ Len(list) \in Int
      BY <1>1, <1>3
    <2>2. \A i \in (m + 1)..Len(list) : list[i] \in D
      BY <1>1, <1>3
    <2>3. /\ post \in Seq(D)
          /\ Len(post) = IF m + 1 <= Len(list) THEN Len(list) - (m + 1) + 1
                                              ELSE 0
          /\ \A i \in 1..(Len(list) - (m + 1) + 1) : post[i] = list[m + 1 + i - 1]
      BY <2>1, <2>2, SubSeqProperties
    <2>. HIDE DEF post
    <2>4. Len(post) = Len(list) - m
      <3>1. Len(post) = IF m + 1 <= Len(list) THEN Len(list) - (m + 1) + 1 ELSE 0
        BY <2>3
      <3>2. m \in Nat /\ m <= Len(list)
        BY <1>1, <1>3
      <3>3. \A n, j \in Nat : j <= n =>
                (IF j + 1 <= n THEN n - (j + 1) + 1 ELSE 0) = n - j
        OBVIOUS
      <3>. QED  BY <1>1, <3>1, <3>2, <3>3, Zenon
    <2>5. ASSUME NEW i \in 1..(Len(list) - m) PROVE post[i] = list[m + i]
      <3>1. i \in 1..(Len(list) - (m + 1) + 1) /\ m + 1 + i - 1 = m + i
        BY <1>1, <1>3
      <3>2. post[i] = list[m + 1 + i - 1]
        BY <3>1, <2>3
      <3>. QED  BY <3>1, <3>2
    <2>. QED  BY <2>3, <2>4, <2>5
  <1>. HIDE DEF pre, post
  <1>7. /\ k \in Seq(D) /\ Len(k) = Len(list) - 1
        /\ \A i \in 1..Len(k) : k[i] = IF i < m THEN list[i] ELSE list[i + 1]
    <2>1. /\ k \in Seq(D) /\ Len(k) = Len(pre) + Len(post)
          /\ \A i \in 1..Len(k) : k[i] = IF i <= Len(pre) THEN pre[i]
                                                        ELSE post[i - Len(pre)]
      <3>1. /\ pre \o post \in Seq(D)
            /\ Len(pre \o post) = Len(pre) + Len(post)
            /\ \A i \in 1..(Len(pre) + Len(post)) : (pre \o post)[i] =
                  IF i <= Len(pre) THEN pre[i] ELSE post[i - Len(pre)]
        BY <1>5, <1>6, ConcatProperties
      <3>. QED  BY <1>4, <3>1
    <2>. QED  BY <1>1, <1>3, <1>5, <1>6, <2>1
  <1>8. DOMAIN k = 1..Len(k)
    BY <1>7
  <1>9. \A i, j \in 1..Len(k) : k[i] = k[j] => i = j
    BY <1>1, <1>3, <1>7, SMTT(30) DEF Distinct
  <1>10. ASSUME NEW y \in ToSet(k) PROVE y \in ToSet(list) \ {x}
    <2>1. PICK i \in 1..Len(k) : y = k[i]
      BY <1>8, <1>10 DEF ToSet
    <2>. DEFINE j == IF i < m THEN i ELSE i + 1
    <2>2. j \in 1..Len(list) /\ j # m /\ y = list[j]
      BY <1>1, <1>3, <1>7, <2>1
    <2>3. y # x
      BY <1>3, <2>2 DEF Distinct
    <2>. QED  BY <1>1, <2>2, <2>3 DEF ToSet
  <1>11. ASSUME NEW y \in ToSet(list) \ {x} PROVE y \in ToSet(k)
    <2>1. PICK i \in 1..Len(list) : y = list[i]
      BY <1>1 DEF ToSet
    <2>2. i # m
      BY <1>3, <2>1
    <2>. DEFINE j == IF i < m THEN i ELSE i - 1
    <2>3. j \in 1..Len(k) /\ y = k[j]
      BY <1>1, <1>3, <1>7, <2>1, <2>2
    <2>. QED  BY <1>8, <2>3 DEF ToSet
  <1>. QED  BY <1>7, <1>9, <1>10, <1>11 DEF Distinct, k

(* Two lists without a common member.                                      *)
LEMMA ConcatFacts ==
    ASSUME NEW D, NEW s, NEW r, Distinct(D, s), Distinct(D, r),
           \A x \in ToSet(s) : x \notin ToSet(r)
    PROVE  /\ Distinct(D, s \o r)
           /\ \A x : x \in ToSet(s \o r) <=> x \in ToSet(s) \/ x \in ToSet(r)
  <1>. DEFINE k == s \o r
              m == Len(s)
              n == Len(r)
  <1>1. /\ s \in Seq(D) /\ m \in Nat /\ DOMAIN s = 1..m
        /\ r \in Seq(D) /\ n \in Nat /\ DOMAIN r = 1..n
    BY DEF Distinct
  <1>2. /\ k \in Seq(D) /\ Len(k) = m + n
        /\ \A i \in 1..(m + n) : k[i] = IF i <= m THEN s[i] ELSE r[i - m]
    BY <1>1, ConcatProperties
  <1>3. DOMAIN k = 1..(m + n)
    BY <1>2
  <1>. HIDE DEF k
  <1>4. \A i \in 1..m : \A j \in 1..n : s[i] # r[j]
    BY <1>1 DEF ToSet
  <1>5. ASSUME NEW i \in 1..(m + n)
        PROVE  \/ i \in 1..m /\ k[i] = s[i]
               \/ i - m \in 1..n /\ k[i] = r[i - m] /\ i > m
    BY <1>1, <1>2
  <1>6. ASSUME NEW i \in 1..(m + n), NEW j \in 1..(m + n), k[i] = k[j]
        PROVE  i = j
    <2>1. /\ \A x, y \in 1..m : s[x] = s[y] => x = y
          /\ \A x, y \in 1..n : r[x] = r[y] => x = y
      BY DEF Distinct
    <2>2. CASE i \in 1..m /\ k[i] = s[i]
      BY <1>4, <1>5, <1>6, <2>1, <2>2
    <2>3. CASE i - m \in 1..n /\ k[i] = r[i - m] /\ i > m
      <3>1. j - m \in 1..n /\ k[j] = r[j - m]
        BY <1>4, <1>5, <1>6, <2>3
      <3>2. i - m = j - m
        BY <1>6, <2>1, <2>3, <3>1
      <3>. QED  BY <1>1, <3>2
    <2>. QED  BY <1>5, <2>2, <2>3
  <1>7. ASSUME NEW x \in ToSet(k) PROVE x \in ToSet(s) \cup ToSet(r)
    <2>1. PICK i \in 1..(m + n) : x = k[i]
      BY <1>3 DEF ToSet
    <2>. QED  BY <1>1, <1>5, <2>1 DEF ToSet
  <1>8. ASSUME NEW x \in ToSet(s) \cup ToSet(r) PROVE x \in ToSet(k)
    <2>1. CASE x \in ToSet(s)
      <3>1. PICK i \in 1..m : x = s[i]
        BY <1>1, <2>1 DEF ToSet
      <3>2. i \in 1..(m + n) /\ i <= m
        BY <1>1
      <3>3. k[i] = x
        BY <1>2, <3>1, <3>2
      <3>. QED  BY <1>3, <3>2, <3>3 DEF ToSet
    <2>2. CASE x \in ToSet(r)
      <3>1. PICK i \in 1..n : x = r[i]
        BY <1>1, <2>2 DEF ToSet
      <3>2. m + i \in 1..(m + n) /\ ~ (m + i <= m) /\ (m + i) - m = i
        BY <1>1
      <3>3. k[m + i] = x
        BY <1>2, <3>1, <3>2
      <3>. QED  BY <1>3, <3>2, <3>3 DEF ToSet
    <2>. QED  BY <2>1, <2>2
  <1>. QED  BY <1>2, <1>6, <1>7, <1>8 DEF Distinct, k

(* The empty list.                                                         *)
LEMMA EmptyFacts ==
    ASSUME NEW D
    PROVE  Distinct(D, <<>>) /\ ToSet(<<>>) = {}
  BY DEF Distinct, ToSet

(* A list without p.                                                       *)
LEMMA DistinctLess ==
    ASSUME NEW D, NEW p, NEW list, Distinct(D, list), p \notin ToSet(list)
    PROVE  Distinct(D \ {p}, list)
  <1>1. list \in Seq(D) /\ Len(list) \in Nat /\ DOMAIN list = 1..Len(list)
    BY DEF Distinct
  <1>2. \A i \in 1..Len(list) : list[i] \in D \ {p}
    BY <1>1 DEF ToSet
  <1>3. list \in Seq(D \ {p})
    BY <1>1, <1>2
  <1>. QED  BY <1>3 DEF Distinct

-----------------------------------------------------------------------------
(* What the kernel and the system calls do to the tree.                    *)

(* Nobody is its own child, and the children of two processes are apart.   *)
LEMMA ChildFacts ==
    ASSUME NEW t, Tree(t), NEW p \in DOMAIN t
    PROVE  /\ Distinct(DOMAIN t, t[p].children)
           /\ ToSet(t[p].children) \subseteq DOMAIN t
           /\ 1 \notin ToSet(t[p].children) /\ p \notin ToSet(t[p].children)
           /\ \A q \in DOMAIN t :
                 q \in ToSet(t[p].children) <=> q # 1 /\ t[q].real_parent = p
           /\ \A q \in DOMAIN t : q # p =>
                 ToSet(t[q].children) \cap ToSet(t[p].children) = {}
  <1>1. /\ Typed(t) /\ Rooted(t) /\ Distinct(DOMAIN t, t[p].children)
        /\ \A r, q \in DOMAIN t :
              q \in ToSet(t[r].children) <=> q # 1 /\ t[q].real_parent = r
        /\ 1 \in DOMAIN t
    BY DEF Tree, Linked, Typed
  <1>2. \A r \in DOMAIN t : ToSet(t[r].children) \subseteq DOMAIN t
    <2>. SUFFICES ASSUME NEW r \in DOMAIN t, NEW x \in ToSet(t[r].children)
                  PROVE  x \in DOMAIN t
      OBVIOUS
    <2>1. t[r].children \in Seq(DOMAIN t)
      BY <1>1, Fields
    <2>. QED  BY <2>1 DEF ToSet
  <1>3. p \notin ToSet(t[p].children)
    <2>. SUFFICES ASSUME p \in ToSet(t[p].children) PROVE FALSE
      OBVIOUS
    <2>1. p # 1 /\ t[p].real_parent = p
      BY <1>1
    <2>2. {p} \in SUBSET DOMAIN t /\ {p} # {} /\ UpClosed(t, {p})
      BY <2>1 DEF UpClosed
    <2>. QED  BY <1>1, <2>1, <2>2 DEF Rooted
  <1>4. ASSUME NEW q \in DOMAIN t, q # p
        PROVE  ToSet(t[q].children) \cap ToSet(t[p].children) = {}
    BY <1>1, <1>2, <1>4
  <1>. QED  BY <1>1, <1>2, <1>3, <1>4

(* A record with the fields of a task_struct.                              *)
Record(r) == r = [weight |-> r.weight, real_parent |-> r.real_parent,
                  children |-> r.children, exited |-> r.exited]

LEMMA InStruct ==
    ASSUME NEW D, NEW r, Record(r), r.weight \in Nat, r.real_parent \in D,
           r.children \in Seq(D), r.exited \in BOOLEAN
    PROVE  r \in TaskStruct(D)
  BY DEF Record, TaskStruct

(* fork.                                                                   *)
Forked(t, p, child) ==
    [q \in DOMAIN t \cup {child} |->
        CASE q = child -> [t[p] EXCEPT !.real_parent = p, !.children = <<>>]
          [] q = p -> [t[p] EXCEPT !.children = Append(@, child)]
          [] OTHER -> t[q]]

LEMMA ForkTree ==
    ASSUME NEW t, Tree(t), NEW p \in DOMAIN t, ~t[p].exited,
           NEW child \in Pids, child \notin DOMAIN t
    PROVE  /\ Tree(Forked(t, p, child))
           /\ \A P \in SUBSET DOMAIN t : Same(t, Forked(t, p, child), P)
  <1>. DEFINE D == DOMAIN t
              E == D \cup {child}
  <1>0. PICK u : u = Forked(t, p, child)
    OBVIOUS
  <1>1. Typed(t) /\ Rooted(t) /\ Linked(t) /\ Ended(t) /\ 1 \in D /\ DOMAIN u = E
    BY <1>0 DEF Tree, Typed, Forked
  <1>u. DOMAIN u = E /\ u = [q \in E |-> u[q]]
    BY <1>0 DEF Forked
  <1>2. ASSUME NEW q \in D
        PROVE  /\ u[q].weight = t[q].weight
               /\ u[q].real_parent = t[q].real_parent
               /\ u[q].exited = t[q].exited
               /\ u[q].children = IF q = p THEN Append(t[q].children, child)
                                            ELSE t[q].children
               /\ Record(u[q])
    <2>1. t[q] \in TaskStruct(D) /\ q # child
      BY <1>1, Fields
    <2>. QED  BY <1>0, <2>1 DEF TaskStruct, Forked, Record
  <1>3. /\ u[child].weight = t[p].weight /\ u[child].real_parent = p
        /\ u[child].exited = FALSE /\ u[child].children = <<>>
        /\ Record(u[child])
    <2>1. t[p] \in TaskStruct(D)
      BY <1>1, Fields
    <2>. QED  BY <1>0, <2>1 DEF TaskStruct, Forked, Record
  <1>4. child # 1 /\ child # p
    BY <1>1
  <1>5. /\ Distinct(E, Append(t[p].children, child))
        /\ ToSet(Append(t[p].children, child)) = ToSet(t[p].children) \cup {child}
    <2>1. Distinct(E, t[p].children) /\ child \notin ToSet(t[p].children)
      BY ChildFacts, DistinctMore
    <2>. HIDE DEF E
    <2>2. child \in E
      BY DEF E
    <2>. QED  BY <2>1, <2>2, AppendFacts
  <1>6. \A q \in E : Distinct(E, u[q].children)
    <2>1. ASSUME NEW q \in D, q # p PROVE Distinct(E, u[q].children)
      BY <1>2, <2>1, ChildFacts, DistinctMore
    <2>2. Distinct(E, u[child].children)
      BY <1>3, EmptyFacts
    <2>3. Distinct(E, u[p].children)
      BY <1>2, <1>5
    <2>. QED  BY <2>1, <2>2, <2>3
  <1>7. Typed(u)
    <2>1. E \subseteq Pids /\ IsFiniteSet(E)
      BY <1>1, FS_AddElement DEF Typed
    <2>2. ASSUME NEW q \in E PROVE u[q] \in TaskStruct(E)
      <3>1. u[q].children \in Seq(E)
        BY <1>6 DEF Distinct
      <3>2. CASE q \in D
        <4>1. /\ Record(u[q]) /\ u[q].weight \in Nat
              /\ u[q].real_parent \in E /\ u[q].exited \in BOOLEAN
          BY <1>1, <1>2, <3>2, Fields
        <4>. QED  BY <3>1, <4>1, InStruct
      <3>3. CASE q = child
        <4>1. /\ Record(u[q]) /\ u[q].weight \in Nat
              /\ u[q].real_parent \in E /\ u[q].exited \in BOOLEAN
          BY <1>1, <1>3, <3>3, Fields
        <4>. QED  BY <3>1, <4>1, InStruct
      <3>. QED  BY <3>2, <3>3
    <2>3. u \in [E -> TaskStruct(E)]
      BY <1>u, <2>2
    <2>. QED  BY <1>1, <2>1, <2>3 DEF Typed
  <1>8. Rooted(u)
    <2>. SUFFICES ASSUME NEW S \in SUBSET E, S # {}, UpClosed(u, S) PROVE 1 \in S
      BY <1>1 DEF Rooted
    <2>1. CASE S \ {child} # {}
      <3>. DEFINE R == S \ {child}
      <3>1. R \in SUBSET D /\ R # {}
        BY <2>1
      <3>2. ASSUME NEW q \in R \ {1} PROVE t[q].real_parent \in R
        <4>1. q \in D /\ u[q].real_parent \in S
          BY <3>1 DEF UpClosed
        <4>2. t[q].real_parent \in D
          BY <1>1, <4>1, Fields
        <4>. QED  BY <1>2, <4>1, <4>2
      <3>3. UpClosed(t, R)
        BY <3>2 DEF UpClosed
      <3>. HIDE DEF R
      <3>4. 1 \in R
        BY <1>1, <3>1, <3>3 DEF Rooted
      <3>. QED  BY <3>4 DEF R
    <2>2. CASE S \ {child} = {}
      <3>1. S = {child}
        BY <2>2
      <3>. QED  BY <1>3, <1>4, <3>1 DEF UpClosed
    <2>. QED  BY <2>1, <2>2
  <1>9. Linked(u)
    <2>1. ASSUME NEW a \in E, NEW b \in E
          PROVE  b \in ToSet(u[a].children) <=> b # 1 /\ u[b].real_parent = a
      <3>1. CASE a = child
        <4>1. ToSet(u[a].children) = {}
          BY <1>3, <3>1, EmptyFacts
        <4>2. u[b].real_parent \in D
          <5>1. CASE b = child
            BY <1>3, <5>1
          <5>2. CASE b \in D
            BY <1>1, <1>2, <5>2, Fields
          <5>. QED  BY <5>1, <5>2
        <4>. QED  BY <3>1, <4>1, <4>2
      <3>2. CASE a \in D /\ b \in D
        <4>1. b \in ToSet(u[a].children) <=> b \in ToSet(t[a].children)
          BY <1>2, <1>5, <3>2
        <4>. QED  BY <1>2, <3>2, <4>1, ChildFacts
      <3>3. CASE a \in D /\ b = child
        <4>1. child \notin ToSet(t[a].children)
          BY <3>3, ChildFacts
        <4>2. child \in ToSet(u[a].children) <=> a = p
          BY <1>2, <1>5, <3>3, <4>1
        <4>. QED  BY <1>3, <1>4, <3>3, <4>2
      <3>. QED  BY <3>1, <3>2, <3>3
    <2>2. u[1].real_parent = 1
      BY <1>1, <1>2 DEF Linked
    <2>. HIDE DEF D, E
    <2>. QED  BY <1>u, <1>6, <2>1, <2>2 DEF Linked
  <1>10. Ended(u)
    <2>. SUFFICES ASSUME NEW q \in E, u[q].exited
                  PROVE  q # 1 /\ u[q].children = <<>>
      BY <1>1 DEF Ended
    <2>1. q \in D /\ t[q].exited /\ q # p
      BY <1>2, <1>3
    <2>. QED  BY <1>1, <1>2, <2>1 DEF Ended
  <1>11. ASSUME NEW P \in SUBSET D PROVE Same(t, u, P)
    BY <1>1, <1>2 DEF Same
  <1>. QED  BY <1>0, <1>7, <1>8, <1>9, <1>10, <1>11 DEF Tree

(* exit: the children go to init.                                          *)
Left(t, p) ==
    [q \in DOMAIN t |->
        CASE q = p -> [t[p] EXCEPT !.children = <<>>, !.exited = TRUE]
          [] q = 1 -> [t[1] EXCEPT !.children = @ \o t[p].children]
          [] q \in ToSet(t[p].children) -> [t[q] EXCEPT !.real_parent = 1]
          [] OTHER -> t[q]]

(* The list of init's children with those of p behind it.                  *)
LEMMA ConcatChildren ==
    ASSUME NEW t, Tree(t), NEW p \in DOMAIN t, p # 1
    PROVE  /\ Distinct(DOMAIN t, t[1].children \o t[p].children)
           /\ ToSet(t[1].children \o t[p].children) =
                 ToSet(t[1].children) \cup ToSet(t[p].children)
  <1>1. /\ Distinct(DOMAIN t, t[1].children) /\ Distinct(DOMAIN t, t[p].children)
        /\ \A x \in ToSet(t[1].children) : x \notin ToSet(t[p].children)
    <2>1. 1 \in DOMAIN t
      BY DEF Tree, Typed
    <2>. QED  BY <2>1, ChildFacts
  <1>2. Distinct(DOMAIN t, t[1].children \o t[p].children)
    BY <1>1, ConcatFacts
  <1>3. ToSet(t[1].children \o t[p].children) =
           ToSet(t[1].children) \cup ToSet(t[p].children)
    <2>1. \A x : x \in ToSet(t[1].children \o t[p].children) <=>
                    x \in ToSet(t[1].children) \/ x \in ToSet(t[p].children)
      BY <1>1, ConcatFacts
    <2>. QED  BY <2>1
  <1>. QED  BY <1>2, <1>3

(* What is closed and has not p stays as it is.                            *)
LEMMA ExitTree ==
    ASSUME NEW t, Tree(t), NEW p \in DOMAIN t, p # 1
    PROVE  /\ Tree(Left(t, p))
           /\ \A P \in SUBSET DOMAIN t :
                 UpClosed(t, P) /\ p \notin P => Same(t, Left(t, p), P)
  <1>. DEFINE D == DOMAIN t
              kids == ToSet(t[p].children)
  <1>0. PICK u : u = Left(t, p)
    OBVIOUS
  <1>1. Typed(t) /\ Rooted(t) /\ Linked(t) /\ Ended(t) /\ 1 \in D
    BY DEF Tree, Typed
  <1>u. DOMAIN u = D /\ u = [q \in D |-> u[q]]
    BY <1>0 DEF Left
  <1>2. /\ kids \subseteq D /\ 1 \notin kids /\ p \notin kids
        /\ \A q \in D : q \in kids <=> q # 1 /\ t[q].real_parent = p
    BY ChildFacts
  <1>3. ASSUME NEW q \in D
        PROVE  /\ u[q].weight = t[q].weight
               /\ u[q].real_parent = IF q \in kids THEN 1 ELSE t[q].real_parent
               /\ u[q].exited = IF q = p THEN TRUE ELSE t[q].exited
               /\ u[q].children = IF q = p THEN <<>>
                                  ELSE IF q = 1 THEN t[1].children \o t[p].children
                                  ELSE t[q].children
               /\ Record(u[q])
    <2>1. t[q] \in TaskStruct(D)
      BY <1>1, Fields
    <2>2. CASE q = p
      <3>1. u[p] = [t[p] EXCEPT !.children = <<>>, !.exited = TRUE]
        BY <1>0, <1>2 DEF Left
      <3>. QED  BY <1>2, <2>1, <2>2, <3>1 DEF TaskStruct, Record
    <2>3. CASE q = 1
      <3>1. u[1] = [t[1] EXCEPT !.children = t[1].children \o t[p].children]
        BY <1>0, <1>1, <1>2 DEF Left
      <3>. QED  BY <1>2, <2>1, <2>3, <3>1 DEF TaskStruct, Record
    <2>4. CASE q # p /\ q # 1 /\ q \in kids
      <3>1. u[q] = [t[q] EXCEPT !.real_parent = 1]
        BY <1>0, <2>4 DEF Left
      <3>. QED  BY <1>2, <2>1, <2>4, <3>1 DEF TaskStruct, Record
    <2>5. CASE q # p /\ q # 1 /\ q \notin kids
      <3>1. u[q] = t[q]
        BY <1>0, <2>5 DEF Left
      <3>. QED  BY <1>2, <2>1, <2>5, <3>1 DEF TaskStruct, Record
    <2>. QED  BY <2>2, <2>3, <2>4, <2>5
  <1>4. /\ Distinct(D, t[1].children \o t[p].children)
        /\ ToSet(t[1].children \o t[p].children) = ToSet(t[1].children) \cup kids
    BY ConcatChildren
  <1>. HIDE DEF kids
  <1>5. ASSUME NEW q \in D PROVE Distinct(D, u[q].children)
    <2>1. CASE q = p
      BY <1>3, <2>1, EmptyFacts
    <2>2. CASE q # p /\ q = 1
      BY <1>3, <1>4, <2>2
    <2>3. CASE q # p /\ q # 1
      <3>1. u[q].children = t[q].children
        BY <1>3, <2>3
      <3>2. Distinct(D, t[q].children)
        BY ChildFacts
      <3>. QED  BY <3>1, <3>2
    <2>. QED  BY <2>1, <2>2, <2>3
  <1>6. Typed(u)
    <2>1. ASSUME NEW q \in D PROVE u[q] \in TaskStruct(D)
      <3>1. u[q].children \in Seq(D)
        BY <1>5 DEF Distinct
      <3>0. /\ t[q].weight \in Nat /\ t[q].real_parent \in D
            /\ t[q].exited \in BOOLEAN
        BY <1>1, Fields
      <3>2. /\ Record(u[q]) /\ u[q].weight \in Nat
            /\ u[q].real_parent \in D /\ u[q].exited \in BOOLEAN
        BY <1>1, <1>3, <3>0
      <3>. HIDE DEF D
      <3>. QED  BY <3>1, <3>2, InStruct
    <2>2. u \in [D -> TaskStruct(D)]
      BY <1>u, <2>1
    <2>. QED  BY <1>1, <1>u, <2>2 DEF Typed
  <1>7. Rooted(u)
    <2>. SUFFICES ASSUME NEW S \in SUBSET D, S # {}, UpClosed(u, S), 1 \notin S
                  PROVE  FALSE
      BY <1>u DEF Rooted
    <2>1. ASSUME NEW q \in S \ {1} PROVE t[q].real_parent \in S
      <3>1. q \in D /\ u[q].real_parent \in S
        BY DEF UpClosed
      <3>. QED  BY <1>3, <3>1
    <2>2. UpClosed(t, S)
      BY <2>1 DEF UpClosed
    <2>. QED  BY <1>1, <2>2 DEF Rooted
  <1>8. Linked(u)
    <2>1. ASSUME NEW a \in D, NEW b \in D
          PROVE  b \in ToSet(u[a].children) <=> b # 1 /\ u[b].real_parent = a
      <3>0. /\ b \in ToSet(t[a].children) <=> b # 1 /\ t[b].real_parent = a
            /\ b \in ToSet(t[1].children) <=> b # 1 /\ t[b].real_parent = 1
        BY <1>1, ChildFacts
      <3>1. CASE a = p
        <4>1. ToSet(u[a].children) = {}
          BY <1>3, <3>1, EmptyFacts
        <4>. QED  BY <1>2, <1>3, <3>1, <4>1
      <3>2. CASE a # p /\ a = 1
        <4>1. ToSet(u[a].children) = ToSet(t[1].children) \cup kids
          BY <1>3, <1>4, <3>2
        <4>. QED  BY <1>2, <1>3, <3>0, <3>2, <4>1
      <3>3. CASE a # p /\ a # 1
        <4>1. u[a].children = t[a].children
          BY <1>3, <3>3
        <4>. QED  BY <1>2, <1>3, <3>0, <3>3, <4>1
      <3>. QED  BY <3>1, <3>2, <3>3
    <2>2. u[1].real_parent = 1
      BY <1>1, <1>2, <1>3 DEF Linked
    <2>. HIDE DEF D
    <2>. QED  BY <1>u, <1>5, <2>1, <2>2 DEF Linked
  <1>9. Ended(u)
    <2>. SUFFICES ASSUME NEW q \in D, u[q].exited
                  PROVE  q # 1 /\ u[q].children = <<>>
      BY <1>u DEF Ended
    <2>1. q = p \/ t[q].exited
      BY <1>3
    <2>2. t[q].exited => q # 1 /\ t[q].children = <<>>
      BY <1>1 DEF Ended
    <2>. QED  BY <1>3, <2>1, <2>2
  <1>10. ASSUME NEW P \in SUBSET D, UpClosed(t, P), p \notin P
         PROVE  Same(t, u, P)
    <2>1. ASSUME NEW q \in P PROVE q \in D /\ q # p /\ q \notin kids
      BY <1>2, <1>10 DEF UpClosed
    <2>. QED  BY <1>u, <1>3, <2>1 DEF Same
  <1>. QED  BY <1>0, <1>6, <1>7, <1>8, <1>9, <1>10 DEF Tree

(* wait: a process that has ended leaves its parent's list.                *)
Reaped(t, p) ==
    [q \in DOMAIN t \ {p} |->
        IF q = t[p].real_parent
        THEN [t[q] EXCEPT !.children = RemoveFirst(@, p)]
        ELSE t[q]]

LEMMA ReapTree ==
    ASSUME NEW t, Tree(t), NEW p \in DOMAIN t, t[p].exited
    PROVE  /\ Tree(Reaped(t, p))
           /\ \A P \in SUBSET DOMAIN t : p \notin P => Same(t, Reaped(t, p), P)
  <1>. DEFINE D == DOMAIN t
              E == D \ {p}
              f == t[p].real_parent
  <1>0. PICK u : u = Reaped(t, p)
    OBVIOUS
  <1>1. /\ Typed(t) /\ Rooted(t) /\ Linked(t) /\ Ended(t) /\ 1 \in D
        /\ p # 1 /\ t[p].children = <<>> /\ f \in D
    BY Fields DEF Tree, Typed, Ended
  <1>u. DOMAIN u = E /\ u = [q \in E |-> u[q]]
    BY <1>0 DEF Reaped
  <1>2. \A q \in D : t[q].real_parent # p
    <2>1. ToSet(t[p].children) = {}
      BY <1>1, EmptyFacts
    <2>2. \A q \in D : q \in ToSet(t[p].children) <=> q # 1 /\ t[q].real_parent = p
      BY ChildFacts
    <2>3. t[1].real_parent = 1
      BY <1>1 DEF Linked
    <2>. QED  BY <1>1, <2>1, <2>2, <2>3
  <1>3. ASSUME NEW q \in E
        PROVE  /\ u[q].weight = t[q].weight
               /\ u[q].real_parent = t[q].real_parent
               /\ u[q].exited = t[q].exited
               /\ u[q].children = IF q = f THEN RemoveFirst(t[q].children, p)
                                            ELSE t[q].children
               /\ Record(u[q])
    <2>1. t[q] \in TaskStruct(D)
      BY <1>1, Fields
    <2>. QED  BY <1>0, <2>1 DEF TaskStruct, Reaped, Record
  <1>4. ASSUME NEW q \in E
        PROVE  /\ Distinct(E, u[q].children)
               /\ ToSet(u[q].children) = ToSet(t[q].children) \ {p}
    <2>1. /\ Distinct(D, t[q].children)
          /\ p \in ToSet(t[q].children) <=> p # 1 /\ f = q
      BY ChildFacts
    <2>2. CASE q = f
      <3>1. /\ Distinct(D, RemoveFirst(t[q].children, p))
            /\ ToSet(RemoveFirst(t[q].children, p)) = ToSet(t[q].children) \ {p}
        BY <1>1, <2>1, <2>2, RemoveFirstFacts
      <3>. QED  BY <1>3, <2>2, <3>1, DistinctLess
    <2>3. CASE q # f
      BY <1>3, <2>1, <2>3, DistinctLess
    <2>. QED  BY <2>2, <2>3
  <1>5. Typed(u)
    <2>1. E \subseteq Pids /\ IsFiniteSet(E) /\ 1 \in E
      BY <1>1, FS_Subset DEF Typed
    <2>2. ASSUME NEW q \in E PROVE u[q] \in TaskStruct(E)
      <3>1. u[q].children \in Seq(E)
        BY <1>4 DEF Distinct
      <3>2. /\ Record(u[q]) /\ u[q].weight \in Nat
            /\ u[q].real_parent \in E /\ u[q].exited \in BOOLEAN
        BY <1>1, <1>2, <1>3, Fields
      <3>. QED  BY <3>1, <3>2, InStruct
    <2>3. u \in [E -> TaskStruct(E)]
      BY <1>u, <2>2
    <2>. QED  BY <1>u, <2>1, <2>3 DEF Typed
  <1>6. Rooted(u)
    <2>. SUFFICES ASSUME NEW S \in SUBSET E, S # {}, UpClosed(u, S)
                  PROVE  1 \in S
      BY <1>u DEF Rooted
    <2>1. UpClosed(t, S)
      BY <1>3 DEF UpClosed
    <2>2. S \in SUBSET D
      OBVIOUS
    <2>. QED  BY <1>1, <2>1, <2>2 DEF Rooted
  <1>7. Linked(u)
    <2>1. ASSUME NEW a \in E, NEW b \in E
          PROVE  b \in ToSet(u[a].children) <=> b # 1 /\ u[b].real_parent = a
      <3>1. b \in ToSet(t[a].children) <=> b # 1 /\ t[b].real_parent = a
        BY ChildFacts
      <3>2. ToSet(u[a].children) = ToSet(t[a].children) \ {p} /\ b # p
        BY <1>4
      <3>. QED  BY <1>3, <3>1, <3>2
    <2>2. u[1].real_parent = 1
      BY <1>1, <1>3 DEF Linked
    <2>. HIDE DEF D, E
    <2>. QED  BY <1>u, <1>4, <2>1, <2>2 DEF Linked
  <1>8. Ended(u)
    <2>. SUFFICES ASSUME NEW q \in E, u[q].exited
                  PROVE  q # 1 /\ u[q].children = <<>>
      BY <1>u DEF Ended
    <2>1. t[q].exited /\ q \in D
      BY <1>3
    <2>2. q # 1 /\ t[q].children = <<>>
      BY <1>1, <2>1 DEF Ended
    <2>3. ToSet(t[q].children) = {}
      BY <2>2, EmptyFacts
    <2>4. q # f
      <3>1. p \in ToSet(t[q].children) <=> p # 1 /\ f = q
        BY ChildFacts
      <3>. QED  BY <1>1, <2>3, <3>1
    <2>. QED  BY <1>3, <2>2, <2>4
  <1>9. ASSUME NEW P \in SUBSET D, p \notin P PROVE Same(t, u, P)
    BY <1>u, <1>3, <1>9 DEF Same
  <1>. QED  BY <1>0, <1>5, <1>6, <1>7, <1>8, <1>9 DEF Tree

(* sys_set_weight.                                                         *)
LEMMA SetTree ==
    ASSUME NEW t, Tree(t), NEW p \in DOMAIN t, NEW weight \in Nat
    PROVE  /\ Tree([t EXCEPT ![p].weight = weight])
           /\ \A P \in SUBSET DOMAIN t :
                 p \notin P => Same(t, [t EXCEPT ![p].weight = weight], P)
  <1>. DEFINE D == DOMAIN t
  <1>0. PICK u : u = [t EXCEPT ![p].weight = weight]
    OBVIOUS
  <1>1. Typed(t) /\ Rooted(t) /\ Linked(t) /\ Ended(t) /\ 1 \in D
    BY DEF Tree, Typed
  <1>u. DOMAIN u = D /\ u = [q \in D |-> u[q]]
    BY <1>0, <1>1 DEF Typed
  <1>2. ASSUME NEW q \in D
        PROVE  /\ u[q].weight = IF q = p THEN weight ELSE t[q].weight
               /\ u[q].real_parent = t[q].real_parent
               /\ u[q].exited = t[q].exited
               /\ u[q].children = t[q].children
               /\ Record(u[q])
    <2>1. t[q] \in TaskStruct(D)
      BY <1>1, Fields
    <2>2. u[q] = IF q = p THEN [t[q] EXCEPT !.weight = weight] ELSE t[q]
      BY <1>0, <1>1 DEF Typed
    <2>. QED  BY <2>1, <2>2 DEF TaskStruct, Record
  <1>3. Typed(u)
    <2>1. ASSUME NEW q \in D PROVE u[q] \in TaskStruct(D)
      <3>0. /\ t[q].weight \in Nat /\ t[q].real_parent \in D
            /\ t[q].children \in Seq(D) /\ t[q].exited \in BOOLEAN
        BY <1>1, Fields
      <3>1. /\ Record(u[q]) /\ u[q].weight \in Nat /\ u[q].children \in Seq(D)
            /\ u[q].real_parent \in D /\ u[q].exited \in BOOLEAN
        BY <1>2, <3>0
      <3>. HIDE DEF D
      <3>. QED  BY <3>1, InStruct
    <2>2. u \in [D -> TaskStruct(D)]
      BY <1>u, <2>1
    <2>. QED  BY <1>1, <1>u, <2>2 DEF Typed
  <1>4. Rooted(u)
    <2>. SUFFICES ASSUME NEW S \in SUBSET D, S # {}, UpClosed(u, S)
                  PROVE  1 \in S
      BY <1>u DEF Rooted
    <2>1. UpClosed(t, S)
      BY <1>2 DEF UpClosed
    <2>. QED  BY <1>1, <2>1 DEF Rooted
  <1>5. Linked(u) /\ Ended(u)
    BY <1>1, <1>u, <1>2 DEF Linked, Ended
  <1>6. ASSUME NEW P \in SUBSET D, p \notin P PROVE Same(t, u, P)
    BY <1>u, <1>2, <1>6 DEF Same
  <1>. QED  BY <1>0, <1>3, <1>4, <1>5, <1>6 DEF Tree

-----------------------------------------------------------------------------
(* Every step keeps the invariant.                                         *)

LEMMA InitInv == Init => IInv
  <1>. SUFFICES ASSUME Init PROVE IInv
    OBVIOUS
  <1>1. DOMAIN task = {1} /\ task = [q \in {1} |-> task[q]] /\ task[1] = INIT_TASK
    BY DEF Init
  <1>2. /\ task[1].weight = 0 /\ task[1].real_parent = 1
        /\ task[1].children = <<>> /\ task[1].exited = FALSE /\ Record(task[1])
    BY <1>1 DEF INIT_TASK, Record
  <1>3. Distinct({1}, <<>>) /\ ToSet(task[1].children) = {} /\ <<>> \in Seq({1})
    BY <1>2, EmptyFacts DEF Distinct
  <1>4. Typed(task)
    <2>1. task[1] \in TaskStruct({1})
      <3>1. task[1].weight \in Nat /\ task[1].real_parent \in {1}
        BY <1>2
      <3>2. task[1].children \in Seq({1})
        BY <1>2, <1>3
      <3>3. task[1].exited \in BOOLEAN
        BY <1>2
      <3>. QED  BY <1>2, <3>1, <3>2, <3>3, InStruct
    <2>2. task \in [{1} -> TaskStruct({1})]
      BY <1>1, <2>1
    <2>3. IsFiniteSet({1}) /\ {1} \subseteq Pids
      BY FS_Singleton, PidsAssumption
    <2>. QED  BY <1>1, <2>2, <2>3 DEF Typed
  <1>5. Rooted(task)
    BY <1>1 DEF Rooted
  <1>6. Linked(task)
    BY <1>1, <1>2, <1>3 DEF Linked
  <1>7. Ended(task)
    BY <1>1, <1>2 DEF Ended
  <1>8. walk = NoWalk /\ walk \in Walks /\ walk.pc = "idle"
    BY PidsAssumption DEF Init, NoWalk, Walks
  <1>. QED  BY <1>4, <1>5, <1>6, <1>7, <1>8 DEF IInv, Tree, OnPath

(* A process that changes itself either disturbs the walk or leaves its    *)
(* path as it is.                                                          *)
LEMMA DisturbKept ==
    ASSUME IInv, NEW u, Tree(u), NEW p,
           p \notin walk.path /\ walk.pc # "idle" /\ ~walk.disturbed
               => Same(task, u, walk.path)
    PROVE  /\ Disturbs(p) \in Walks /\ OnPath(u, Disturbs(p))
           /\ Disturbs(p).pc = "idle" => Disturbs(p) = NoWalk
  <1>1. /\ Tree(task) /\ walk \in Walks /\ OnPath(task, walk)
        /\ walk.pc = "idle" => walk = NoWalk
    BY DEF IInv
  <1>2. CASE p \in walk.path
    <2>1. Disturbs(p) = [walk EXCEPT !.disturbed = TRUE]
      BY <1>2 DEF Disturbs
    <2>2. Disturbs(p) \in Walks /\ Disturbs(p).disturbed = TRUE
          /\ Disturbs(p).pc = walk.pc
      BY <1>1, <2>1 DEF Walks
    <2>3. walk.pc # "idle"
      BY <1>1, <1>2 DEF NoWalk
    <2>. QED  BY <2>2, <2>3 DEF OnPath
  <1>3. CASE p \notin walk.path
    <2>1. walk.disturbed \in BOOLEAN
      BY <1>1 DEF Walks
    <2>2. Disturbs(p) = [walk EXCEPT !.disturbed = walk.disturbed]
      BY <1>3, <2>1 DEF Disturbs
    <2>3. Disturbs(p) = walk
      BY <1>1, <2>2 DEF Walks
    <2>4. OnPath(u, walk)
      BY <1>1, <1>3, PathKept
    <2>. QED  BY <1>1, <2>3, <2>4
  <1>. QED  BY <1>2, <1>3

(* What an undisturbed walk knows.                                         *)
LEMMA PathFacts ==
    ASSUME IInv, walk.pc # "idle", ~walk.disturbed
    PROVE  /\ walk.path \in SUBSET DOMAIN task /\ UpClosed(task, walk.path)
           /\ walk.at \in walk.path /\ \A q \in walk.path : ~task[q].exited
  BY DEF IInv, OnPath

LEMMA ForkInv ==
    ASSUME IInv, NEW p \in Pids, NEW child \in Pids, Fork(p, child)
    PROVE  IInv'
  <1>1. /\ p \in DOMAIN task /\ ~task[p].exited /\ child \notin DOMAIN task
        /\ task' = Forked(task, p, child) /\ walk' = walk
    BY DEF Fork, Running, Tasks, Forked
  <1>2. Tree(task) /\ walk \in Walks /\ OnPath(task, walk)
        /\ (walk.pc = "idle" => walk = NoWalk)
    BY DEF IInv
  <1>3. /\ Tree(task')
        /\ \A P \in SUBSET DOMAIN task : Same(task, task', P)
    BY <1>1, <1>2, ForkTree
  <1>4. walk.pc # "idle" /\ ~walk.disturbed => Same(task, task', walk.path)
    BY <1>3, PathFacts
  <1>5. OnPath(task', walk)
    BY <1>2, <1>3, <1>4, PathKept
  <1>. QED  BY <1>1, <1>2, <1>3, <1>5 DEF IInv, NoWalk

(* The step of a process that ends, by itself or because its call faults.  *)
LEMMA ExitInv ==
    ASSUME IInv, NEW p \in Pids, Running(p), p # 1, task' = Exited(p),
           walk' = Disturbs(p)
    PROVE  IInv'
  <1>1. p \in DOMAIN task /\ task' = Left(task, p)
    BY DEF Running, Tasks, Exited, Left
  <1>2. Tree(task)
    BY DEF IInv
  <1>3. /\ Tree(task')
        /\ \A P \in SUBSET DOMAIN task :
              UpClosed(task, P) /\ p \notin P => Same(task, task', P)
    BY <1>1, <1>2, ExitTree
  <1>4. p \notin walk.path /\ walk.pc # "idle" /\ ~walk.disturbed
            => Same(task, task', walk.path)
    BY <1>3, PathFacts
  <1>5. /\ Disturbs(p) \in Walks /\ OnPath(task', Disturbs(p))
        /\ Disturbs(p).pc = "idle" => Disturbs(p) = NoWalk
    BY <1>3, <1>4, DisturbKept
  <1>. QED  BY <1>3, <1>5 DEF IInv, NoWalk

LEMMA ReapInv ==
    ASSUME IInv, NEW p \in Pids, Reap(p)
    PROVE  IInv'
  <1>1. /\ p \in DOMAIN task /\ task[p].exited
        /\ task' = Reaped(task, p) /\ walk' = walk
    BY DEF Reap, Tasks, Reaped
  <1>2. Tree(task) /\ walk \in Walks /\ OnPath(task, walk)
        /\ (walk.pc = "idle" => walk = NoWalk)
    BY DEF IInv
  <1>3. /\ Tree(task')
        /\ \A P \in SUBSET DOMAIN task : p \notin P => Same(task, task', P)
    BY <1>1, <1>2, ReapTree
  <1>4. walk.pc # "idle" /\ ~walk.disturbed => Same(task, task', walk.path)
    BY <1>1, <1>3, PathFacts
  <1>5. OnPath(task', walk)
    BY <1>2, <1>3, <1>4, PathKept
  <1>. QED  BY <1>1, <1>2, <1>3, <1>5 DEF IInv, NoWalk

LEMMA SetWeightInv ==
    ASSUME IInv, NEW p \in Pids, NEW weight \in Weights,
           sys_set_weight(p, weight)
    PROVE  IInv'
  <1>1. /\ p \in DOMAIN task /\ weight \in Nat /\ walk' = Disturbs(p)
        /\ task' = [task EXCEPT ![p].weight = weight]
    BY WeightsAssumption DEF sys_set_weight, Running, Tasks
  <1>2. Tree(task)
    BY DEF IInv
  <1>3. /\ Tree(task')
        /\ \A P \in SUBSET DOMAIN task : p \notin P => Same(task, task', P)
    BY <1>1, <1>2, SetTree
  <1>4. p \notin walk.path /\ walk.pc # "idle" /\ ~walk.disturbed
            => Same(task, task', walk.path)
    BY <1>3, PathFacts
  <1>5. /\ Disturbs(p) \in Walks /\ OnPath(task', Disturbs(p))
        /\ Disturbs(p).pc = "idle" => Disturbs(p) = NoWalk
    BY <1>3, <1>4, DisturbKept
  <1>. QED  BY <1>1, <1>3, <1>5 DEF IInv, NoWalk

(* The ancestors of a running process are running: an ended one has no     *)
(* children left.                                                          *)
LEMMA WayRuns ==
    ASSUME NEW t, Tree(t), NEW p \in DOMAIN t, ~t[p].exited
    PROVE  \A q \in Way(t, p) : ~t[q].exited
  <1>. DEFINE S == {q \in DOMAIN t : ~t[q].exited}
  <1>1. Typed(t) /\ Ended(t)
    BY DEF Tree
  <1>2. ASSUME NEW q \in S \ {1} PROVE t[q].real_parent \in S
    <2>1. q \in DOMAIN t /\ t[q].real_parent \in DOMAIN t
      BY <1>1, Fields
    <2>2. q \in ToSet(t[t[q].real_parent].children)
      BY <2>1, ChildFacts
    <2>3. t[t[q].real_parent].children # <<>>
      BY <2>2, EmptyFacts
    <2>. QED  BY <1>1, <2>1, <2>3 DEF Ended
  <1>3. S \in SUBSET DOMAIN t /\ p \in S /\ UpClosed(t, S)
    BY <1>2 DEF UpClosed
  <1>4. Way(t, p) \subseteq S
    <2>. HIDE DEF S
    <2>. QED  BY <1>1, <1>3, WayLeast
  <1>. QED  BY <1>4

LEMMA SumInv ==
    ASSUME IInv, NEW p \in Pids, sys_get_ancestor_sum(p)
    PROVE  IInv'
  <1>1. Tree(task) /\ Typed(task) /\ walk \in Walks
    BY DEF IInv, Tree
  <1>2. p \in DOMAIN task /\ ~task[p].exited /\ p \in Tasks /\ task' = task
    BY DEF sys_get_ancestor_sum, Running, Tasks
  <1>. DEFINE way == Way(task, p)
  <1>3. /\ way \subseteq DOMAIN task /\ UpClosed(task, way) /\ p \in way
        /\ \A q \in way : ~task[q].exited
        /\ WeightOf(task, way) \in Nat /\ way \in SUBSET Pids
    <2>1. DOMAIN task \subseteq Pids
      BY <1>1 DEF Typed
    <2>. QED  BY <1>1, <1>2, <2>1, WayLeast, WayRuns, WayWeighs
  <1>4. Ancestors(p) = way /\ AncestorSum(p) = WeightOf(task, way)
    BY <1>1, <1>2, AncestorsWay, AncestorSumWeighs
  <1>. HIDE DEF way
  <1>5. walk' = [pc |-> "add", of |-> p, at |-> p, sum |-> 0, path |-> way,
                 expected |-> WeightOf(task, way), disturbed |-> FALSE]
    BY <1>4 DEF sys_get_ancestor_sum
  <1>6. walk' \in Walks
    BY <1>3, <1>5 DEF Walks
  <1>7. /\ walk'.pc = "add" /\ walk'.at = p /\ walk'.sum = 0 /\ walk'.path = way
        /\ walk'.expected = 0 + WeightOf(task, Way(task, p))
    BY <1>3, <1>5 DEF way
  <1>8. OnPath(task, walk')
    BY <1>3, <1>7 DEF OnPath
  <1>. QED  BY <1>1, <1>2, <1>6, <1>7, <1>8 DEF IInv

LEMMA WalkInv ==
    ASSUME IInv, WalkStep
    PROVE  IInv'
  <1>1. /\ Tree(task) /\ Typed(task) /\ walk \in Walks /\ OnPath(task, walk)
        /\ DOMAIN task \subseteq Pids
    BY DEF IInv, Tree, Typed
  <1>t. walk.sum \in Nat /\ walk.at \in Pids /\ walk.expected \in Nat
    BY <1>1 DEF Walks
  <1>2. CASE AddWeight
    <2>1. /\ walk.pc = "add" /\ walk.at \in DOMAIN task /\ task' = task
          /\ walk' = [walk EXCEPT !.sum = walk.sum + task[walk.at].weight,
                                  !.pc = IF walk.at = 1 THEN "done" ELSE "up"]
      BY <1>2 DEF AddWeight, Tasks
    <2>2. task[walk.at].weight \in Nat
      BY <1>1, <2>1, Fields
    <2>a. PICK sum, pc : /\ sum = walk.sum + task[walk.at].weight
                         /\ pc = IF walk.at = 1 THEN "done" ELSE "up"
      OBVIOUS
    <2>b. sum \in Nat /\ pc \in {"idle", "add", "up", "done", "wild"}
      BY <1>t, <2>2, <2>a
    <2>c. walk' = [walk EXCEPT !.sum = sum, !.pc = pc]
      BY <2>1, <2>a
    <2>d. /\ walk' \in Walks /\ walk'.pc = pc /\ walk'.sum = sum
          /\ walk'.at = walk.at /\ walk'.path = walk.path
          /\ walk'.expected = walk.expected /\ walk'.disturbed = walk.disturbed
      BY <1>1, <2>b, <2>c DEF Walks
    <2>3. /\ walk' \in Walks
          /\ walk'.pc = (IF walk.at = 1 THEN "done" ELSE "up")
          /\ walk'.sum = walk.sum + task[walk.at].weight
          /\ walk'.at = walk.at /\ walk'.path = walk.path
          /\ walk'.expected = walk.expected /\ walk'.disturbed = walk.disturbed
      BY <2>a, <2>d
    <2>4. ASSUME ~walk.disturbed
          PROVE  /\ walk.at = 1 => walk.expected = walk'.sum
                 /\ walk.at # 1 => walk.expected = walk'.sum +
                       WeightOf(task, Way(task, task[walk.at].real_parent))
      <3>. DEFINE f == task[walk.at].real_parent
      <3>1. walk.expected = walk.sum + WeightOf(task, Way(task, walk.at))
        BY <1>1, <2>1, <2>4 DEF OnPath
      <3>2. /\ walk.at = 1 => WeightOf(task, Way(task, walk.at)) = task[walk.at].weight
            /\ walk.at # 1 => WeightOf(task, Way(task, walk.at)) =
                                 task[walk.at].weight + WeightOf(task, Way(task, f))
        BY <1>1, <2>1, WayWeighs
      <3>3. f \in DOMAIN task
        BY <1>1, <2>1, Fields
      <3>4. WeightOf(task, Way(task, f)) \in Nat
        BY <1>1, <3>3, WayWeighs
      <3>. QED  BY <1>t, <2>2, <2>3, <3>1, <3>2, <3>4
    <2>5. OnPath(task, walk')
      BY <1>1, <2>1, <2>3, <2>4 DEF OnPath
    <2>. QED  BY <1>1, <2>1, <2>3, <2>5 DEF IInv
  <1>3. CASE Up
    <2>1. /\ walk.pc = "up" /\ walk.at \in DOMAIN task /\ task' = task
          /\ walk' = [walk EXCEPT !.at = task[walk.at].real_parent, !.pc = "add"]
      BY <1>3 DEF Up, Tasks
    <2>2. task[walk.at].real_parent \in Pids
      BY <1>1, <2>1, Fields
    <2>3. /\ walk' \in Walks /\ walk'.pc = "add" /\ walk'.sum = walk.sum
          /\ walk'.at = task[walk.at].real_parent /\ walk'.path = walk.path
          /\ walk'.expected = walk.expected /\ walk'.disturbed = walk.disturbed
      BY <1>1, <2>1, <2>2 DEF Walks
    <2>4. ~walk.disturbed => walk'.at \in walk.path
      BY <1>1, <2>1, <2>3 DEF OnPath, UpClosed
    <2>5. OnPath(task, walk')
      BY <1>1, <2>1, <2>3, <2>4 DEF OnPath
    <2>. QED  BY <1>1, <2>1, <2>3, <2>5 DEF IInv
  <1>4. CASE ReadFreed
    <2>1. /\ walk.pc \in {"add", "up"} /\ walk.at \notin DOMAIN task
          /\ walk' = [walk EXCEPT !.pc = "wild"] /\ task' = task
      BY <1>4 DEF ReadFreed, Tasks
    <2>2. walk' \in Walks /\ walk'.pc = "wild" /\ walk'.disturbed = walk.disturbed
      BY <1>1, <2>1 DEF Walks
    <2>3. walk.disturbed
      BY <2>1, PathFacts
    <2>4. OnPath(task, walk')
      BY <2>2, <2>3 DEF OnPath
    <2>. QED  BY <1>1, <2>1, <2>2, <2>4 DEF IInv
  <1>. QED  BY <1>2, <1>3, <1>4 DEF WalkStep

LEMMA ReturnInv ==
    ASSUME IInv, Return
    PROVE  IInv'
  <1>1. Tree(task) /\ task' = task /\ walk' = NoWalk
    BY DEF IInv, Return
  <1>2. walk' \in Walks /\ walk'.pc = "idle"
    BY <1>1, PidsAssumption DEF NoWalk, Walks
  <1>. QED  BY <1>1, <1>2 DEF IInv, OnPath, NoWalk

LEMMA NextInv == IInv /\ [Next]_vars => IInv'
  <1>. SUFFICES ASSUME IInv, [Next]_vars PROVE IInv'
    OBVIOUS
  <1>1. CASE UNCHANGED vars
    <2>1. task' = task /\ walk' = walk
      BY <1>1 DEF vars
    <2>. QED  BY <2>1 DEF IInv, NoWalk
  <1>2. ASSUME NEW p \in Pids, NEW child \in Pids, Fork(p, child) PROVE IInv'
    BY <1>2, ForkInv
  <1>3. ASSUME NEW p \in Pids, NEW weight \in Weights, sys_set_weight(p, weight)
        PROVE  IInv'
    BY <1>3, SetWeightInv
  <1>4. ASSUME NEW p \in Pids, Exit(p) \/ sys_get_heaviest_descendant(p)
        PROVE  IInv'
    <2>1. Running(p) /\ p # 1 /\ task' = Exited(p) /\ walk' = Disturbs(p)
      BY <1>4 DEF Exit, sys_get_heaviest_descendant
    <2>. QED  BY <2>1, ExitInv
  <1>5. ASSUME NEW p \in Pids, Reap(p) PROVE IInv'
    BY <1>5, ReapInv
  <1>6. ASSUME NEW p \in Pids, sys_get_ancestor_sum(p) PROVE IInv'
    BY <1>6, SumInv
  <1>7. CASE WalkStep
    BY <1>7, WalkInv
  <1>8. CASE Return
    BY <1>8, ReturnInv
  <1>. QED  BY <1>1, <1>2, <1>3, <1>4, <1>5, <1>6, <1>7, <1>8 DEF Next

(* The invariant says what the runs check.                                 *)
LEMMA InvImplies == IInv => TypeOK /\ SumUnlessDisturbed
  <1>. SUFFICES ASSUME IInv PROVE TypeOK /\ SumUnlessDisturbed
    OBVIOUS
  <1>1. /\ Tree(task) /\ Typed(task) /\ walk \in Walks /\ OnPath(task, walk)
        /\ walk.pc = "idle" => walk = NoWalk
    BY DEF IInv, Tree
  <1>2. 1 \in Tasks /\ Tasks \subseteq Pids
    BY <1>1 DEF Typed, Tasks
  <1>3. \A p \in Tasks :
           /\ task[p].weight \in Nat /\ task[p].real_parent \in Tasks
           /\ task[p].children \in Seq(Tasks) /\ task[p].exited \in BOOLEAN
    BY <1>1, Fields DEF Tasks
  <1>4. walk.pc \in {"idle", "add", "up", "done", "wild"} /\ walk.sum \in Nat
    BY <1>1 DEF Walks
  <1>5. SumUnlessDisturbed
    BY <1>1 DEF OnPath, SumUnlessDisturbed
  <1>. QED  BY <1>2, <1>3, <1>4, <1>5 DEF TypeOK

-----------------------------------------------------------------------------
(* The tree of processes stays well typed: no sys_set_weight makes a       *)
(* weight negative, fork hands on no other, and what exit and wait do to   *)
(* the lists never leaves one with a process that is gone.                 *)
THEOREM TypeCorrect == Spec => []TypeOK
  <1>1. Init => IInv
    BY InitInv
  <1>2. IInv /\ [Next]_vars => IInv'
    BY NextInv
  <1>3. IInv => TypeOK
    BY InvImplies
  <1>. QED  BY <1>1, <1>2, <1>3, PTL DEF Spec

(* sys_get_ancestor_sum, which takes no lock, returns the sum of its path  *)
(* as it was when the call began, whatever forks, exits and is reaped      *)
(* meanwhile off the path; only a process on the path that sets its weight *)
(* or exits can change the sum or bring the walk to a freed task_struct.   *)
THEOREM SumStaysExact == Spec => []SumUnlessDisturbed
  <1>1. Init => IInv
    BY InitInv
  <1>2. IInv /\ [Next]_vars => IInv'
    BY NextInv
  <1>3. IInv => SumUnlessDisturbed
    BY InvImplies
  <1>. QED  BY <1>1, <1>2, <1>3, PTL DEF Spec

-----------------------------------------------------------------------------
(* The heaviest descendant.                                                *)

(* q itself and everything below it.                                       *)
Below(q) == {x \in Tasks : q \in Way(task, x)}

(* The order of sys_get_heaviest_descendant: by weight, then by pid.       *)
Beats(q, r) ==
    \/ task[q].weight > task[r].weight
    \/ task[q].weight = task[r].weight /\ q <= r

Tops(q, S) == q \in S /\ \A r \in S : Beats(q, r)

(* The pids are numbers and the weights too.                               *)
LEMMA TaskFacts ==
    ASSUME Tree(task), NEW p \in Tasks
    PROVE  /\ task[p].weight \in Nat /\ p \in Nat /\ p # NULL /\ p # OOPS
           /\ task[p].real_parent \in Tasks
           /\ task[p].children \in Seq(Tasks) /\ Len(task[p].children) \in Nat
           /\ \A i \in 1..Len(task[p].children) : task[p].children[i] \in Tasks
  <1>1. Typed(task)
    BY DEF Tree
  <1>2. /\ task[p].weight \in Nat /\ p \in Pids /\ task[p].real_parent \in Tasks
        /\ task[p].children \in Seq(Tasks)
    BY <1>1, Fields DEF Tasks
  <1>3. p \in Nat /\ p # NULL /\ p # OOPS
    BY <1>2, PidsAssumption DEF NULL, OOPS
  <1>. QED  BY <1>2, <1>3

(* Every nonempty set of processes has one that beats all: the weights     *)
(* are bounded by their sum, and the least bound is a weight.              *)
LEMMA TopExists ==
    ASSUME Tree(task), NEW S \in SUBSET Tasks, S # {}
    PROVE  \E q : Tops(q, S)
  <1>. DEFINE W(q) == task[q].weight
              Bounds == {n \in Nat : \A q \in S : W(q) <= n}
  <1>0. Typed(task) /\ S \in SUBSET DOMAIN task
    BY DEF Tree, Tasks
  <1>1. \A q \in S : W(q) \in Nat /\ q \in Nat
    BY TaskFacts
  <1>2. WeightOf(task, S) \in Bounds
    <2>1. IsFiniteSet(Units(task, S)) /\ WeightOf(task, S) \in Nat
      BY <1>0, UnitsFinite
    <2>2. ASSUME NEW q \in S PROVE W(q) <= WeightOf(task, S)
      <3>. DEFINE B == {q} \X (0..(W(q) - 1))
      <3>1. Cardinality(B) = W(q)
        BY <1>1, OneWeight
      <3>2. B \in SUBSET Units(task, S)
        BY DEF Units
      <3>. HIDE DEF B
      <3>3. Cardinality(B) <= Cardinality(Units(task, S))
        BY <2>1, <3>2, FS_Subset
      <3>. QED  BY <3>1, <3>3 DEF WeightOf
    <2>. QED  BY <2>1, <2>2
  <1>3. PICK n \in Bounds : \A m \in Bounds : n <= m
    <2>1. Bounds \in SUBSET Nat /\ Bounds # {}
      BY <1>2
    <2>. HIDE DEF Bounds
    <2>. QED  BY <2>1, LeastPid
  <1>4. n \in Nat /\ \A q \in S : W(q) <= n
    BY <1>3
  <1>. DEFINE H == {q \in S : W(q) = n}
  <1>5. H # {}
    <2>. SUFFICES ASSUME \A q \in S : W(q) # n PROVE FALSE
      OBVIOUS
    <2>. HIDE DEF W
    <2>1. n # 0
      BY <1>1, <1>4
    <2>2. n - 1 \in Nat /\ \A q \in S : W(q) <= n - 1
      BY <1>1, <1>4, <2>1
    <2>3. n - 1 \in Bounds
      BY <2>2
    <2>4. n <= n - 1
      BY <1>3, <2>3
    <2>. QED  BY <1>4, <2>4
  <1>6. PICK q \in H : \A r \in H : q <= r
    <2>1. H \in SUBSET Nat
      BY <1>1
    <2>. HIDE DEF H
    <2>. QED  BY <1>5, <2>1, LeastPid
  <1>7. ASSUME NEW r \in S PROVE Beats(q, r)
    <2>1. CASE r \in H
      BY <1>6, <2>1 DEF Beats
    <2>2. CASE r \notin H
      <3>1. W(r) < n /\ W(q) = n
        BY <1>1, <1>4, <1>6, <2>2
      <3>. QED  BY <1>4, <1>1, <3>1 DEF Beats
    <2>. QED  BY <2>1, <2>2
  <1>. QED  BY <1>6, <1>7 DEF Tops

(* and only one.                                                           *)
LEMMA TopUnique ==
    ASSUME Tree(task), NEW S \in SUBSET Tasks, NEW q, NEW r, Tops(q, S), Tops(r, S)
    PROVE  q = r
  <1>1. q \in S /\ r \in S /\ Beats(q, r) /\ Beats(r, q)
    BY DEF Tops
  <1>2. /\ task[q].weight \in Nat /\ task[r].weight \in Nat
        /\ q \in Nat /\ r \in Nat
    BY <1>1, TaskFacts
  <1>. QED  BY <1>1, <1>2 DEF Beats

(* Of two sets the heavier of their tops is the top.                       *)
LEMMA HeavierTops ==
    ASSUME Tree(task), NEW A \in SUBSET Tasks, NEW B \in SUBSET Tasks,
           NEW a, NEW b, Tops(a, A), Tops(b, B)
    PROVE  Tops(Heavier(a, b), A \cup B)
  <1>1. a \in A /\ b \in B /\ a \in Tasks /\ b \in Tasks
    BY DEF Tops
  <1>2. /\ task[a].weight \in Nat /\ a \in Nat /\ a # NULL /\ a # OOPS
        /\ task[b].weight \in Nat /\ b \in Nat /\ b # NULL /\ b # OOPS
    BY <1>1, TaskFacts
  <1>3. /\ Heavier(a, b) \in {a, b}
        /\ Beats(Heavier(a, b), a) /\ Beats(Heavier(a, b), b)
    <2>1. Heavier(a, b) = IF task[b].weight > task[a].weight THEN b
                          ELSE IF task[b].weight < task[a].weight THEN a
                          ELSE IF b < a THEN b ELSE a
      BY <1>2 DEF Heavier, Weight
    <2>. QED  BY <1>2, <2>1 DEF Beats
  <1>4. PICK h : h = Heavier(a, b)
    OBVIOUS
  <1>5. h \in Tasks /\ task[h].weight \in Nat /\ h \in Nat
    BY <1>1, <1>2, <1>3, <1>4
  <1>6. ASSUME NEW r \in A \cup B PROVE Beats(h, r)
    <2>1. Beats(a, r) \/ Beats(b, r)
      BY DEF Tops
    <2>2. task[r].weight \in Nat /\ r \in Nat
      BY TaskFacts
    <2>. QED  BY <1>2, <1>3, <1>4, <1>5, <2>1, <2>2 DEF Beats
  <1>. QED  BY <1>1, <1>3, <1>4, <1>6 DEF Tops

(* Below a process are itself and what is below its children; the process  *)
(* is not below its children.                                              *)
LEMMA BelowChildren ==
    ASSUME Tree(task), NEW p \in Tasks
    PROVE  /\ p \in Below(p) /\ Below(p) \subseteq Tasks
           /\ \A x \in Below(p) \ {p} :
                 \E c \in ToSet(task[p].children) : x \in Below(c)
           /\ \A c \in ToSet(task[p].children) :
                 c \in Tasks /\ Below(c) \subseteq Below(p) \ {p}
  <1>0. Typed(task) /\ Rooted(task) /\ p \in DOMAIN task
    BY DEF Tree, Tasks
  <1>1. p \in Below(p) /\ Below(p) \subseteq Tasks
    BY <1>0, WayLeast DEF Below
  <1>2. \A c \in DOMAIN task :
           c \in ToSet(task[p].children) <=> c # 1 /\ task[c].real_parent = p
    BY <1>0, ChildFacts
  <1>3. ASSUME NEW c \in ToSet(task[p].children)
        PROVE  c \in Tasks /\ Below(c) \subseteq Below(p) \ {p}
    <2>1. c \in DOMAIN task
      BY <1>0, ChildFacts
    <2>2. c # 1 /\ task[c].real_parent = p
      BY <1>2, <2>1
    <2>3. c \notin Way(task, p)
      BY <1>0, <2>1, <2>2, NoCycle
    <2>4. ASSUME NEW x \in Below(c) PROVE x \in Below(p) /\ x # p
      <3>1. x \in DOMAIN task /\ c \in Way(task, x)
        BY DEF Below, Tasks
      <3>2. UpClosed(task, Way(task, x))
        BY <1>0, <3>1, WayLeast
      <3>3. p \in Way(task, x)
        BY <2>2, <3>1, <3>2 DEF UpClosed
      <3>. QED  BY <2>3, <3>1, <3>3 DEF Below, Tasks
    <2>. QED  BY <2>1, <2>4 DEF Tasks
  <1>4. ASSUME NEW x \in Below(p) \ {p}
        PROVE  \E c \in ToSet(task[p].children) : x \in Below(c)
    <2>. DEFINE C == {c \in DOMAIN task : c # 1 /\ task[c].real_parent = p}
                S == {y \in DOMAIN task : \A c \in C : c \notin Way(task, y)} \ {p}
    <2>. SUFFICES ASSUME x \in S PROVE FALSE
      BY <1>2 DEF Below, Tasks
    <2>1. x \in DOMAIN task /\ p \in Way(task, x) /\ x # p
      BY DEF Below, Tasks
    <2>2. ASSUME NEW y \in S \ {1} PROVE task[y].real_parent \in S
      <3>1. y \in DOMAIN task /\ task[y].real_parent \in DOMAIN task /\ y # 1
        BY <1>0, Fields
      <3>2. Way(task, y) = {y} \cup Way(task, task[y].real_parent)
        BY <1>0, <3>1, WaySteps
      <3>3. task[y].real_parent # p
        BY <3>1, <3>2
      <3>. QED  BY <3>1, <3>2, <3>3
    <2>3. UpClosed(task, S) /\ S \in SUBSET DOMAIN task
      BY <2>2 DEF UpClosed
    <2>4. p \notin S
      OBVIOUS
    <2>. HIDE DEF S
    <2>5. Way(task, x) \subseteq S
      BY <1>0, <2>1, <2>3, WayLeast
    <2>. QED  BY <2>1, <2>4, <2>5
  <1>. QED  BY <1>1, <1>3, <1>4

(* The descendants are what is below, without the process itself.          *)
LEMMA DescendantsBelow ==
    ASSUME Tree(task), NEW p \in Tasks
    PROVE  Descendants(p) = Below(p) \ {p} /\ Below(p) = {p} \cup Descendants(p)
  <1>1. Descendants(p) = Below(p) \ {p}
    BY AncestorsWay DEF Descendants, Below
  <1>. QED  BY <1>1, BelowChildren

(* The loop of find_heaviest_descendant, after each of its rounds.         *)
Rounds(p, candidate, found, n, b) ==
    b = [i \in 0..n |-> IF i = 0 THEN candidate
                        ELSE Heavier(b[i - 1], found[task[p].children[i]])]

LEMMA RoundsExist ==
    ASSUME NEW p, NEW candidate, NEW found, NEW m \in Nat
    PROVE  \E b : Rounds(p, candidate, found, m, b)
  <1>. DEFINE Bad == {n \in Nat : ~ \E b : Rounds(p, candidate, found, n, b)}
  <1>. SUFFICES ASSUME Bad # {} PROVE FALSE
    OBVIOUS
  <1>1. PICK n \in Bad : \A j \in Bad : n <= j
    <2>1. Bad \in SUBSET Nat
      OBVIOUS
    <2>. HIDE DEF Bad
    <2>. QED  BY <2>1, LeastPid
  <1>2. n # 0
    <2>1. Rounds(p, candidate, found, 0, [i \in 0..0 |-> candidate])
      BY DEF Rounds
    <2>. QED  BY <2>1
  <1>3. n - 1 \in Nat /\ n - 1 \notin Bad
    <2>1. n \in Nat
      OBVIOUS
    <2>2. n - 1 \in Nat /\ ~ (n <= n - 1)
      BY <2>1, <1>2
    <2>. QED  BY <2>2, <1>1
  <1>4. PICK f : Rounds(p, candidate, found, n - 1, f)
    BY <1>3
  <1>. DEFINE last == Heavier(f[n - 1], found[task[p].children[n]])
              g == [i \in 0..n |-> IF i = n THEN last ELSE f[i]]
  <1>5. ASSUME NEW i \in 0..n
        PROVE  g[i] = IF i = 0 THEN candidate
                      ELSE Heavier(g[i - 1], found[task[p].children[i]])
    <2>1. n \in Nat /\ i \in Nat /\ i <= n
      OBVIOUS
    <2>2. CASE i = n
      <3>1. i # 0 /\ i - 1 \in 0..n /\ i - 1 # n
        BY <2>1, <2>2, <1>2
      <3>2. g[i - 1] = f[i - 1] /\ g[i] = last
        BY <3>1, <2>2
      <3>. QED  BY <3>1, <3>2, <2>2
    <2>3. CASE i # n
      <3>1. i \in 0..(n - 1) /\ (i # 0 => i - 1 \in 0..n /\ i - 1 # n)
        BY <2>1, <2>3
      <3>2. g[i] = f[i] /\ (i # 0 => g[i - 1] = f[i - 1])
        BY <3>1, <2>3
      <3>3. f[i] = IF i = 0 THEN candidate
                   ELSE Heavier(f[i - 1], found[task[p].children[i]])
        BY <3>1, <1>4 DEF Rounds
      <3>. QED  BY <3>2, <3>3
    <2>. QED  BY <2>2, <2>3
  <1>6. Rounds(p, candidate, found, n, g)
    BY <1>5 DEF Rounds
  <1>. QED  BY <1>6

LEMMA LoopRounds ==
    ASSUME Tree(task), NEW p \in Tasks, NEW candidate, NEW found
    PROVE  \E b : /\ b[0] = candidate
                  /\ \A i \in 1..Len(task[p].children) :
                        b[i] = Heavier(b[i - 1], found[task[p].children[i]])
                  /\ LoopOverChildren(p, candidate, found) =
                        b[Len(task[p].children)]
  <1>. DEFINE m == Len(task[p].children)
              h == CHOOSE b : Rounds(p, candidate, found, m, b)
  <1>1. m \in Nat
    BY TaskFacts
  <1>2. Rounds(p, candidate, found, m, h)
    BY <1>1, RoundsExist
  <1>3. LoopOverChildren(p, candidate, found) = h[m]
    BY DEF LoopOverChildren, Rounds
  <1>. HIDE DEF h
  <1>4. /\ h[0] = candidate
        /\ \A i \in 1..m : h[i] = Heavier(h[i - 1], found[task[p].children[i]])
    BY <1>1, <1>2, SMTT(30) DEF Rounds
  <1>. QED  BY <1>3, <1>4

(* The loop, from a round whose candidate is the top of A, ends with the   *)
(* top of A and of what is below the children that are still to come.      *)
LEMMA RoundsTop ==
    ASSUME Tree(task), NEW p \in Tasks, NEW found, NEW b,
           NEW A \in SUBSET Tasks, NEW k \in 0..Len(task[p].children),
           Tops(b[k], A),
           \A i \in 1..Len(task[p].children) :
              b[i] = Heavier(b[i - 1], found[task[p].children[i]]),
           \A c \in ToSet(task[p].children) : Tops(found[c], Below(c))
    PROVE  Tops(b[Len(task[p].children)],
                A \cup UNION {Below(task[p].children[j]) :
                                 j \in (k + 1)..Len(task[p].children)})
  <1>. DEFINE n == Len(task[p].children)
              child(j) == task[p].children[j]
              Parts(i) == A \cup UNION {Below(child(j)) : j \in (k + 1)..i}
              Bad == {i \in k..n : ~Tops(b[i], Parts(i))}
  <1>1. n \in Nat /\ k \in Nat /\ k <= n
    BY TaskFacts
  <1>2. \A j \in 1..n : child(j) \in ToSet(task[p].children) /\ child(j) \in Tasks
                        /\ Below(child(j)) \subseteq Tasks
    <2>1. \A j \in 1..n : child(j) \in ToSet(task[p].children) /\ child(j) \in Tasks
      <3>1. task[p].children \in Seq(Tasks)
        BY TaskFacts
      <3>. QED  BY <3>1 DEF ToSet
    <2>. QED  BY <2>1, BelowChildren
  <1>3. Bad = {}
    <2>. SUFFICES ASSUME Bad # {} PROVE FALSE
      OBVIOUS
    <2>1. PICK i \in Bad : \A j \in Bad : i <= j
      <3>1. Bad \in SUBSET Nat
        BY <1>1
      <3>. HIDE DEF Bad
      <3>. QED  BY <3>1, LeastPid
    <2>2. i \in k..n /\ ~Tops(b[i], Parts(i))
      OBVIOUS
    <2>3. i # k
      <3>1. (k + 1)..k = {}
        BY <1>1
      <3>2. Parts(k) = A
        BY <3>1
      <3>. QED  BY <2>2, <3>2
    <2>4. /\ i \in 1..n /\ i - 1 \in k..n /\ ~ (i <= i - 1)
          /\ (k + 1)..i = ((k + 1)..(i - 1)) \cup {i}
          /\ \A j \in (k + 1)..(i - 1) : j \in 1..n
      BY <1>1, <2>2, <2>3
    <2>5. Tops(b[i - 1], Parts(i - 1))
      BY <2>1, <2>4
    <2>6. Parts(i) = Parts(i - 1) \cup Below(child(i))
      BY <2>4
    <2>7. Parts(i - 1) \in SUBSET Tasks /\ Below(child(i)) \in SUBSET Tasks
      BY <1>2, <2>4
    <2>8. b[i] = Heavier(b[i - 1], found[child(i)])
      BY <2>4
    <2>9. Tops(found[child(i)], Below(child(i)))
      BY <1>2, <2>4
    <2>. HIDE DEF Parts, child, Bad
    <2>10. Tops(Heavier(b[i - 1], found[child(i)]), Parts(i - 1) \cup Below(child(i)))
      BY <2>5, <2>7, <2>9, HeavierTops
    <2>. QED  BY <2>2, <2>6, <2>8, <2>10
  <1>4. n \in k..n
    BY <1>1
  <1>. QED  BY <1>3, <1>4

(* What is below the children, by their places in the list.                *)
LEMMA BelowList ==
    ASSUME Tree(task), NEW p \in Tasks
    PROVE  /\ Below(p) \ {p} = UNION {Below(task[p].children[j]) :
                                         j \in 1..Len(task[p].children)}
  <1>. DEFINE n == Len(task[p].children)
              U == UNION {Below(task[p].children[j]) : j \in 1..n}
  <1>1. \A c : c \in ToSet(task[p].children) <=>
                  \E j \in 1..n : c = task[p].children[j]
    <2>1. task[p].children \in Seq(Tasks)
      BY TaskFacts
    <2>. QED  BY <2>1 DEF ToSet
  <1>2. ASSUME NEW x \in Below(p) \ {p} PROVE x \in U
    <2>1. PICK c \in ToSet(task[p].children) : x \in Below(c)
      BY BelowChildren
    <2>. QED  BY <1>1, <2>1
  <1>3. ASSUME NEW x \in U PROVE x \in Below(p) \ {p}
    <2>1. PICK j \in 1..n : x \in Below(task[p].children[j])
      OBVIOUS
    <2>2. task[p].children[j] \in ToSet(task[p].children)
      BY <1>1
    <2>. QED  BY <2>1, <2>2, BelowChildren
  <1>. QED  BY <1>2, <1>3

(* The recursion finds the top of what is below, when it does so for the   *)
(* children.                                                               *)
LEMMA LoopTops ==
    ASSUME Tree(task), NEW p \in Tasks, NEW found,
           \A c \in ToSet(task[p].children) : Tops(found[c], Below(c))
    PROVE  Tops(LoopOverChildren(p, p, found), Below(p))
  <1>1. PICK b : /\ b[0] = p
                 /\ \A i \in 1..Len(task[p].children) :
                       b[i] = Heavier(b[i - 1], found[task[p].children[i]])
                 /\ LoopOverChildren(p, p, found) = b[Len(task[p].children)]
    BY LoopRounds
  <1>2. Tops(b[0], {p})
    <2>1. task[p].weight \in Nat /\ p \in Nat
      BY TaskFacts
    <2>. QED  BY <1>1, <2>1 DEF Tops, Beats
  <1>3. 0 \in 0..Len(task[p].children) /\ 0 + 1 = 1 /\ {p} \in SUBSET Tasks
    BY TaskFacts
  <1>4. Tops(b[Len(task[p].children)],
             {p} \cup UNION {Below(task[p].children[j]) :
                                j \in (0 + 1)..Len(task[p].children)})
    BY <1>1, <1>2, <1>3, RoundsTop
  <1>5. {p} \cup UNION {Below(task[p].children[j]) :
                          j \in (0 + 1)..Len(task[p].children)} = Below(p)
    BY <1>3, BelowList, BelowChildren
  <1>. QED  BY <1>1, <1>4, <1>5

(* It does: the function that names the tops satisfies the equation, and   *)
(* in any other solution a wrong process with least below it would have    *)
(* children that are right.                                                *)
LEMMA FoundTops ==
    ASSUME Tree(task), NEW p, NEW father
    PROVE  \E found :
              /\ \A q \in Tasks : Tops(found[q], Below(q))
              /\ find_heaviest_descendant(p, father) =
                    LoopOverChildren(p, IF father = 1 THEN NULL ELSE p, found)
  <1>. DEFINE Eq(f) == f = [q \in Tasks |-> LoopOverChildren(q, q, f)]
              w == [q \in Tasks |-> CHOOSE x : Tops(x, Below(q))]
              h == CHOOSE f : Eq(f)
  <1>1. ASSUME NEW q \in Tasks PROVE Tops(w[q], Below(q))
    <2>1. Below(q) \in SUBSET Tasks /\ Below(q) # {}
      BY BelowChildren
    <2>. QED  BY <2>1, TopExists
  <1>2. ASSUME NEW q \in Tasks PROVE w[q] = LoopOverChildren(q, q, w)
    <2>1. \A c \in ToSet(task[q].children) : Tops(w[c], Below(c))
      BY <1>1, BelowChildren
    <2>2. Below(q) \in SUBSET Tasks
      BY BelowChildren
    <2>3. Tops(w[q], Below(q))
      BY <1>1
    <2>. HIDE DEF w
    <2>4. Tops(LoopOverChildren(q, q, w), Below(q))
      BY <2>1, LoopTops
    <2>. QED  BY <2>2, <2>3, <2>4, TopUnique
  <1>3. Eq(h)
    <2>1. Eq(w)
      BY <1>2
    <2>. HIDE DEF Eq, w
    <2>. QED  BY <2>1
  <1>4. find_heaviest_descendant(p, father) =
           LoopOverChildren(p, IF father = 1 THEN NULL ELSE p, h)
    BY DEF find_heaviest_descendant
  <1>. HIDE DEF h, w
  <1>. DEFINE Bad == {q \in Tasks : ~Tops(h[q], Below(q))}
              size(q) == Cardinality(Below(q))
              Sizes == {size(q) : q \in Bad}
  <1>5. \A q \in Tasks : IsFiniteSet(Below(q)) /\ size(q) \in Nat
    <2>1. IsFiniteSet(Tasks)
      BY DEF Tree, Typed, Tasks
    <2>2. \A q \in Tasks : Below(q) \in SUBSET Tasks
      BY BelowChildren
    <2>. QED  BY <2>1, <2>2, FS_Subset, FS_CardinalityType
  <1>6. Bad = {}
    <2>. SUFFICES ASSUME Bad # {} PROVE FALSE
      OBVIOUS
    <2>1. PICK s \in Sizes : \A r \in Sizes : s <= r
      <3>1. Sizes \in SUBSET Nat /\ Sizes # {}
        BY <1>5
      <3>. HIDE DEF Sizes
      <3>. QED  BY <3>1, LeastPid
    <2>2. PICK q \in Bad : s = size(q)
      BY <2>1
    <2>3. ASSUME NEW c \in ToSet(task[q].children) PROVE Tops(h[c], Below(c))
      <3>. SUFFICES ASSUME ~Tops(h[c], Below(c)) PROVE FALSE
        OBVIOUS
      <3>1. /\ c \in Tasks /\ q \in Tasks /\ q \in Below(q)
            /\ Below(c) \subseteq Below(q) \ {q}
        BY BelowChildren
      <3>2. c \in Bad /\ size(q) <= size(c)
        BY <2>1, <2>2, <3>1
      <3>3. Below(c) \in SUBSET Below(q) /\ Below(c) # Below(q)
        BY <3>1
      <3>4. IsFiniteSet(Below(q)) /\ size(q) \in Nat /\ size(c) \in Nat
        BY <1>5, <3>1
      <3>5. /\ Cardinality(Below(c)) <= Cardinality(Below(q))
            /\ Cardinality(Below(q)) # Cardinality(Below(c))
        BY <3>3, <3>4, FS_Subset
      <3>. QED  BY <3>2, <3>4, <3>5
    <2>4. Tops(LoopOverChildren(q, q, h), Below(q))
      BY <2>3, LoopTops
    <2>5. h[q] = LoopOverChildren(q, q, h)
      BY <1>3
    <2>. QED  BY <2>4, <2>5
  <1>. QED  BY <1>4, <1>6

(* The call: its loop starts from NULL, so that a first child with only    *)
(* weights 0 below it is compared with NULL by pid.                        *)
LEMMA CallFinds ==
    ASSUME Tree(task), NEW p \in Tasks, task[p].children # <<>>
    PROVE  LET first == Head(task[p].children)
           IN  find_heaviest_descendant(p, 1) =
                  IF \A q \in {first} \cup Descendants(first) : task[q].weight = 0
                  THEN OOPS ELSE Heaviest(p)
  <1>. DEFINE n == Len(task[p].children)
              first == Head(task[p].children)
  <1>1. /\ n \in Nat /\ n >= 1 /\ first = task[p].children[1]
        /\ first \in ToSet(task[p].children)
    <2>1. task[p].children \in Seq(Tasks)
      BY TaskFacts
    <2>. QED  BY <2>1 DEF ToSet
  <1>2. first \in Tasks /\ Below(first) \subseteq Tasks
    BY <1>1, BelowChildren
  <1>3. PICK found :
           /\ \A q \in Tasks : Tops(found[q], Below(q))
           /\ find_heaviest_descendant(p, 1) =
                 LoopOverChildren(p, IF 1 = 1 THEN NULL ELSE p, found)
    BY FoundTops
  <1>4. PICK b : /\ b[0] = NULL
                 /\ \A i \in 1..n :
                       b[i] = Heavier(b[i - 1], found[task[p].children[i]])
                 /\ LoopOverChildren(p, NULL, found) = b[n]
    BY LoopRounds
  <1>5. find_heaviest_descendant(p, 1) = b[n]
    BY <1>3, <1>4
  <1>6. PICK d : d = found[first]
    OBVIOUS
  <1>7. Tops(d, Below(first)) /\ d \in Tasks
    BY <1>2, <1>3, <1>6 DEF Tops
  <1>8. task[d].weight \in Nat /\ d \in Nat /\ d # NULL /\ d # OOPS
    BY <1>7, TaskFacts
  <1>9. b[1] = Heavier(NULL, d)
    <2>1. 1 \in 1..n /\ 1 - 1 = 0
      BY <1>1
    <2>. QED  BY <1>1, <1>4, <1>6, <2>1
  <1>10. Below(first) = {first} \cup Descendants(first)
    BY <1>2, DescendantsBelow
  <1>11. (\A q \in {first} \cup Descendants(first) : task[q].weight = 0)
            <=> task[d].weight = 0
    <2>1. \A q \in Below(first) :
             task[q].weight \in Nat /\ task[q].weight <= task[d].weight
      <3>. SUFFICES ASSUME NEW q \in Below(first)
                    PROVE  task[q].weight \in Nat /\ task[q].weight <= task[d].weight
        OBVIOUS
      <3>1. q \in Tasks /\ Beats(d, q)
        BY <1>2, <1>7 DEF Tops
      <3>2. task[q].weight \in Nat
        BY <3>1, TaskFacts
      <3>. QED  BY <1>8, <3>1, <3>2 DEF Beats
    <2>2. d \in Below(first)
      BY <1>7 DEF Tops
    <2>3. (\A q \in Below(first) : task[q].weight = 0) <=> task[d].weight = 0
      <3>. HIDE DEF first
      <3>. QED  BY <1>8, <2>1, <2>2
    <2>. QED  BY <1>10, <2>3
  <1>12. CASE task[d].weight = 0
    <2>1. b[1] = OOPS
      BY <1>8, <1>9, <1>12 DEF Heavier, Weight, NULL, OOPS
    <2>. DEFINE Bad == {i \in 1..n : b[i] # OOPS}
    <2>2. Bad = {}
      <3>. SUFFICES ASSUME Bad # {} PROVE FALSE
        OBVIOUS
      <3>1. PICK i \in Bad : \A j \in Bad : i <= j
        <4>1. Bad \in SUBSET Nat
          BY <1>1
        <4>. HIDE DEF Bad
        <4>. QED  BY <4>1, LeastPid
      <3>2. i \in 1..n /\ i # 1 /\ b[i] # OOPS
        BY <2>1
      <3>3. i - 1 \in 1..n /\ ~ (i <= i - 1)
        BY <1>1, <3>2
      <3>4. b[i - 1] = OOPS
        BY <3>1, <3>3
      <3>5. Heavier(b[i - 1], found[task[p].children[i]]) = OOPS
        BY <3>4 DEF Heavier
      <3>. QED  BY <1>4, <3>2, <3>5
    <2>3. b[n] = OOPS
      BY <1>1, <2>2
    <2>. QED  BY <1>5, <1>11, <1>12, <2>3
  <1>13. CASE task[d].weight # 0
    <2>1. b[1] = d
      BY <1>8, <1>9, <1>13 DEF Heavier, Weight, NULL, OOPS
    <2>2. \A c \in ToSet(task[p].children) : Tops(found[c], Below(c))
      BY <1>3, BelowChildren
    <2>3. 1 \in 0..n /\ Tops(b[1], Below(first)) /\ Below(first) \in SUBSET Tasks
      BY <1>1, <1>2, <1>7, <2>1
    <2>4. Tops(b[n], Below(first) \cup
                     UNION {Below(task[p].children[j]) : j \in (1 + 1)..n})
      BY <1>4, <2>2, <2>3, RoundsTop
    <2>5. Below(first) \cup UNION {Below(task[p].children[j]) : j \in (1 + 1)..n}
             = UNION {Below(task[p].children[j]) : j \in 1..n}
      <3>1. 1..n = {1} \cup ((1 + 1)..n)
        BY <1>1
      <3>. QED  BY <1>1, <3>1
    <2>6. Descendants(p) = UNION {Below(task[p].children[j]) : j \in 1..n}
          /\ Descendants(p) \in SUBSET Tasks
      BY DescendantsBelow, BelowList, BelowChildren
    <2>7. Tops(b[n], Descendants(p))
      BY <2>4, <2>5, <2>6
    <2>8. Tops(Heaviest(p), Descendants(p))
      BY <2>7 DEF Heaviest, Tops, Beats
    <2>9. b[n] = Heaviest(p)
      BY <2>6, <2>7, <2>8, TopUnique
    <2>. QED  BY <1>5, <1>11, <1>13, <2>9
  <1>. QED  BY <1>12, <1>13

(* sys_get_heaviest_descendant finds the heaviest descendant, and of       *)
(* several the one with the smallest pid, in every tree of processes the   *)
(* kernel can reach, except that it dereferences NULL exactly when the     *)
(* caller's first child and all below it have the weight 0.                *)
THEOREM HeaviestIsFound == Spec => []HeaviestUnlessZero
  <1>1. Init => IInv
    BY InitInv
  <1>2. IInv /\ [Next]_vars => IInv'
    BY NextInv
  <1>3. IInv => HeaviestUnlessZero
    BY CallFinds DEF IInv, HeaviestUnlessZero
  <1>. QED  BY <1>1, <1>2, <1>3, PTL DEF Spec
=============================================================================
