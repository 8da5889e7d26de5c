-------------------------- MODULE SmashJobsProofs --------------------------
(***************************************************************************)
(* Proofs about the job control of the smash shell: the type invariant and *)
(* the four invariants of SmashJobs, for any number of processes, entries  *)
(* and keys.                                                               *)
(***************************************************************************)
EXTENDS SmashJobs, SequenceTheorems, FiniteSetTheorems, WellFoundedInduction,
        TLAPS

-----------------------------------------------------------------------------
(* The inductive invariant.  Its parts are predicates of values and not of *)
(* the state, so that the facts of a state in the middle of a command (the *)
(* finished jobs are removed, the command has not begun) can be stated     *)
(* with them.  L is the set of the listed entries, e the entries, pr the   *)
(* processes, en their roles, fg the foreground job, c the place of the    *)
(* shell and m maxJobID.                                                   *)

Record == [jobId : Nat \cup {-1}, jobProcessId : Pids, jobStatus : Statuses]
States == {"unborn", "running", "stopped", "dying", "zombie", "gone"}

Typed(L, e, pr, en, fg, c, m) ==
    /\ pr \in [Pids -> States]
    /\ en \in [Pids -> {"plain", "first", "second", "stray"}]
    /\ fg \in Addrs \cup {NoJob}
    /\ DOMAIN e = L \cup ({fg} \ {NoJob})
    /\ e \in [DOMAIN e -> Record]
    /\ m \in Nat
    /\ c \in {"prompt", "fg_cont", "fg_remove", "wait", "reset", "exited"}
    /\ fg = NoJob <=> c \in {"prompt", "exited"}

(* Listed ids are positive and distinct, and distinct from the id of a     *)
(* foreground job that is out of the list.  While the foreground job has   *)
(* no id, ctrl-Z takes the one after maxJobID.                             *)
Numbered(L, e, fg, m) ==
    /\ \A a \in L : e[a].jobId > 0
    /\ \A a, b \in L : e[a].jobId = e[b].jobId => a = b
    /\ fg # NoJob =>
          \/ /\ e[fg].jobId = -1
             /\ \A a \in L : e[a].jobId <= m
          \/ /\ e[fg].jobId > 0
             /\ \A a \in L : e[a].jobId = e[fg].jobId => a = fg

(* The process of an entry has been started, and fg removes a listed job.  *)
Started(L, e, pr, fg, c) ==
    /\ \A a \in DOMAIN e : pr[e[a].jobProcessId] # "unborn"
    /\ c \in {"fg_cont", "fg_remove"} => fg \in L

(* Without a key in between, a process that only the shell has signalled   *)
(* has one entry in the list, and the foreground job has no other unless   *)
(* ctrl-Z has just stopped it.                                             *)
OneEntry(L, e, pr, en, fg) ==
    /\ \A a, b \in L :
          /\ e[a].jobProcessId = e[b].jobProcessId
          /\ en[e[a].jobProcessId] # "stray"
          => a = b
    /\ fg # NoJob /\ en[e[fg].jobProcessId] # "stray"
       /\ (e[fg].jobId > 0 \/ pr[e[fg].jobProcessId] = "running")
          => \A a \in L : e[a].jobProcessId = e[fg].jobProcessId => a = fg

(* A job marked as finished has been killed.                               *)
FinishedEnds(e, pr) ==
    \A a \in DOMAIN e :
        e[a].jobStatus = "Finished" => pr[e[a].jobProcessId] \notin Alive

(* A live process is listed or is the one the shell waits for.             *)
AliveListed(L, e, pr, en, fg, c) ==
    /\ \A p \in Pids : pr[p] \in Alive /\ en[p] \notin {"first", "stray"} =>
          \/ \E a \in L : e[a].jobProcessId = p
          \/ c = "wait" /\ p = e[fg].jobProcessId /\ pr[p] = "running"
    /\ c = "fg_remove" => \/ pr[e[fg].jobProcessId] # "stopped"
                          \/ en[e[fg].jobProcessId] = "stray"

(* A stopped job is marked as stopped until fg is about to continue it.    *)
StoppedMarked(L, e, pr, en, fg, c) ==
    Signals \cap 20..22 = {} => \A a \in L :
        pr[e[a].jobProcessId] = "stopped" /\ en[e[a].jobProcessId] # "stray" =>
            \/ e[a].jobStatus = "Stopped"
            \/ c = "fg_cont" /\ a = fg

(* A listed job has not been waited for, unless it is a pipe's; the job    *)
(* the shell waits for is listed only when ctrl-Z has stopped it.          *)
NotWaitedFor(L, e, pr, en, fg, c) ==
    /\ \A a \in L : pr[e[a].jobProcessId] = "gone"
          => en[e[a].jobProcessId] \in {"second", "stray"}
    /\ c = "wait" => \A a \in L : e[a].jobProcessId = e[fg].jobProcessId =>
          \/ pr[e[a].jobProcessId] = "stopped"
          \/ en[e[a].jobProcessId] \in {"second", "stray"}

Undisturbed(L, e, pr, en, fg, c) ==
    /\ OneEntry(L, e, pr, en, fg)
    /\ FinishedEnds(e, pr)
    /\ AliveListed(L, e, pr, en, fg, c)
    /\ StoppedMarked(L, e, pr, en, fg, c)
    /\ NotWaitedFor(L, e, pr, en, fg, c)

Consistent(L, e, pr, en, fg, c, m, r) ==
    /\ Typed(L, e, pr, en, fg, c, m)
    /\ Numbered(L, e, fg, m)
    /\ Started(L, e, pr, fg, c)
    /\ r = 0 => Undisturbed(L, e, pr, en, fg, c)

(* A list of pointers without duplicates.                                  *)
Distinct(list) ==
    /\ list \in Seq(Addrs)
    /\ \A i, j \in 1..Len(list) : list[i] = list[j] => i = j

IInv ==
    /\ Distinct(jobsList)
    /\ raced \in 0..Races
    /\ Consistent(ToSet(jobsList), entry, proc, role, current_foreground_job,
                  pc, maxJobID, raced)

-----------------------------------------------------------------------------
(* Lists.                                                                  *)

(* A nonempty set of numbers has a least one.                              *)
LEMMA LeastNumber ==
    ASSUME NEW S \in SUBSET Nat, S # {}
    PROVE  \E i \in S : \A j \in S : i <= j
  <1>1. PICK i \in S : \A j \in S : ~ (<<j, i>> \in OpToRel(<, Nat))
    BY WFMin, NatLessThanWellFounded
  <1>2. \A j \in S : ~ (j < i)
    BY <1>1 DEF OpToRel
  <1>. QED  BY <1>2

(* The defining equation of Sublist, for a prefix of length n.             *)
KeptPrefixes(list, S, n, f) ==
    f = [i \in 0..n |->
            IF i = 0 THEN <<>>
            ELSE IF list[i] \in S THEN Append(f[i - 1], list[i]) ELSE f[i - 1]]

(* The equation has a solution for every prefix: the least prefix without  *)
(* one would have the solution of the prefix before, extended by one.      *)
LEMMA PrefixesExist ==
    ASSUME NEW list, Len(list) \in Nat, NEW S
    PROVE  \E f : KeptPrefixes(list, S, Len(list), f)
  <1>. DEFINE Bad == {n \in Nat : ~ \E f : KeptPrefixes(list, S, n, f)}
  <1>. SUFFICES ASSUME Bad # {} PROVE FALSE
    OBVIOUS
  <1>1. PICK n \in Bad : \A j \in Bad : n <= j
    <2>1. Bad \in SUBSET Nat
      OBVIOUS
    <2>. HIDE DEF Bad
    <2>. QED  BY <2>1, LeastNumber
  <1>2. n # 0
    <2>1. KeptPrefixes(list, S, 0, [i \in 0..0 |-> <<>>])
      BY DEF KeptPrefixes
    <2>. QED  BY <2>1
  <1>3. n - 1 \in Nat /\ n - 1 \notin Bad
    <2>1. n \in Nat
      OBVIOUS
    <2>2. n - 1 \in Nat /\ ~ (n <= n - 1)
      BY <2>1, <1>2
    <2>. QED  BY <2>2, <1>1
  <1>4. PICK f : KeptPrefixes(list, S, n - 1, f)
    BY <1>3
  <1>. DEFINE last == IF list[n] \in S THEN Append(f[n - 1], list[n])
                                       ELSE f[n - 1]
              g == [i \in 0..n |-> IF i = n THEN last ELSE f[i]]
  <1>5. ASSUME NEW i \in 0..n
        PROVE  g[i] = IF i = 0 THEN <<>>
                      ELSE IF list[i] \in S THEN Append(g[i - 1], list[i])
                                            ELSE g[i - 1]
    <2>1. n \in Nat /\ i \in Nat /\ i <= n
      OBVIOUS
    <2>2. CASE i = n
      <3>1. i # 0 /\ i - 1 \in 0..n /\ i - 1 # n
        BY <2>1, <2>2, <1>2
      <3>2. g[i - 1] = f[i - 1] /\ g[i] = last
        BY <3>1, <2>2
      <3>. QED  BY <3>1, <3>2, <2>2
    <2>3. CASE i # n
      <3>1. i \in 0..(n - 1) /\ (i # 0 => i - 1 \in 0..n /\ i - 1 # n)
        BY <2>1, <2>3
      <3>2. g[i] = f[i] /\ (i # 0 => g[i - 1] = f[i - 1])
        BY <3>1, <2>3
      <3>3. f[i] = IF i = 0 THEN <<>>
                   ELSE IF list[i] \in S THEN Append(f[i - 1], list[i])
                                         ELSE f[i - 1]
        BY <3>1, <1>4 DEF KeptPrefixes
      <3>. QED  BY <3>2, <3>3
    <2>. QED  BY <2>2, <2>3
  <1>6. KeptPrefixes(list, S, n, g)
    <2>1. g = [i \in 0..n |-> g[i]]
      OBVIOUS
    <2>. HIDE DEF g
    <2>. QED  BY <2>1, <1>5 DEF KeptPrefixes
  <1>. QED  BY <1>6

(* Sublist keeps the elements of the list that are in S, each once.        *)
LEMMA SublistFacts ==
    ASSUME NEW list, Distinct(list), NEW S
    PROVE  /\ Distinct(Sublist(list, S))
           /\ ToSet(Sublist(list, S)) = ToSet(list) \cap S
  <1>1. list \in Seq(Addrs) /\ Len(list) \in Nat
    BY DEF Distinct
  <1>2. PICK F : /\ KeptPrefixes(list, S, Len(list), F)
                 /\ Sublist(list, S) = F[Len(list)]
    <2>1. \E f : KeptPrefixes(list, S, Len(list), f)
      BY <1>1, PrefixesExist
    <2>. QED  BY <2>1 DEF Sublist, KeptPrefixes
  <1>. DEFINE Right(n) ==
                /\ F[n] \in Seq(Addrs)
                /\ \A i \in 1..Len(F[n]) : \E k \in 1..n :
                      F[n][i] = list[k] /\ list[k] \in S
                /\ \A k \in 1..n : list[k] \in S =>
                      \E i \in 1..Len(F[n]) : F[n][i] = list[k]
                /\ \A i, j \in 1..Len(F[n]) : F[n][i] = F[n][j] => i = j
              Bad == {n \in 0..Len(list) : ~ Right(n)}
  <1>3. Bad = {}
    <2>. SUFFICES ASSUME Bad # {} PROVE FALSE
      OBVIOUS
    <2>1. PICK n \in Bad : \A j \in Bad : n <= j
      <3>1. Bad \in SUBSET Nat
        OBVIOUS
      <3>. HIDE DEF Bad
      <3>. QED  BY <3>1, LeastNumber
    <2>2. n \in 0..Len(list) /\ ~ Right(n)
      OBVIOUS
    <2>3. F[0] = <<>>
      BY <1>1, <1>2 DEF KeptPrefixes
    <2>4. n # 0
      <3>1. Right(0)
        BY <2>3
      <3>. QED  BY <2>2, <3>1, Zenon
    <2>5. n - 1 \in 0..Len(list) /\ n - 1 \in Nat /\ ~ (n <= n - 1)
      BY <1>1, <2>2, <2>4
    <2>6. Right(n - 1)
      BY <2>1, <2>5
    <2>7. F[n] = IF list[n] \in S THEN Append(F[n - 1], list[n]) ELSE F[n - 1]
      BY <1>1, <1>2, <2>2, <2>4 DEF KeptPrefixes
    <2>8. n \in 1..Len(list) /\ list[n] \in Addrs
      BY <1>1, <2>2, <2>4
    <2>. DEFINE f == F[n - 1]
    <2>9. f \in Seq(Addrs) /\ Len(f) \in Nat
      BY <2>6
    <2>10. CASE list[n] \notin S
      <3>1. F[n] = f
        BY <2>7, <2>10
      <3>2. \A k \in 1..n : list[k] \in S => k \in 1..(n - 1)
        BY <2>8, <2>10
      <3>3. \A k \in 1..(n - 1) : k \in 1..n
        BY <2>8
      <3>. QED  BY <2>2, <2>6, <3>1, <3>2, <3>3
    <2>11. CASE list[n] \in S
      <3>1. F[n] = Append(f, list[n])
        BY <2>7, <2>11
      <3>2. /\ F[n] \in Seq(Addrs) /\ Len(F[n]) = Len(f) + 1
            /\ F[n][Len(f) + 1] = list[n]
            /\ \A i \in 1..Len(f) : F[n][i] = f[i]
        BY <2>8, <2>9, <3>1
      <3>3. \A i \in 1..Len(f) : f[i] # list[n]
        <4>. SUFFICES ASSUME NEW i \in 1..Len(f), f[i] = list[n] PROVE FALSE
          OBVIOUS
        <4>1. PICK k \in 1..(n - 1) : f[i] = list[k]
          BY <2>6
        <4>2. k \in 1..Len(list) /\ k # n
          BY <1>1, <2>8
        <4>. QED  BY <4>1, <4>2, <2>8 DEF Distinct
      <3>. HIDE DEF f
      <3>4. \A i \in 1..Len(F[n]) : i \in 1..Len(f) \/ i = Len(f) + 1
        BY <2>9, <3>2
      <3>5. \A i \in 1..Len(F[n]) : \E k \in 1..n :
                F[n][i] = list[k] /\ list[k] \in S
        <4>. SUFFICES ASSUME NEW i \in 1..Len(F[n])
                      PROVE  \E k \in 1..n : F[n][i] = list[k] /\ list[k] \in S
          OBVIOUS
        <4>1. CASE i = Len(f) + 1
          BY <4>1, <3>2, <2>8, <2>11
        <4>2. CASE i \in 1..Len(f)
          <5>1. PICK k \in 1..(n - 1) : f[i] = list[k] /\ list[k] \in S
            BY <2>6, <4>2 DEF f
          <5>2. k \in 1..n
            BY <2>8
          <5>. QED  BY <5>1, <5>2, <4>2, <3>2
        <4>. QED  BY <4>1, <4>2, <3>4
      <3>6. \A k \in 1..n : list[k] \in S =>
                \E i \in 1..Len(F[n]) : F[n][i] = list[k]
        <4>. SUFFICES ASSUME NEW k \in 1..n, list[k] \in S
                      PROVE  \E i \in 1..Len(F[n]) : F[n][i] = list[k]
          OBVIOUS
        <4>1. CASE k = n
          <5>1. Len(f) + 1 \in 1..Len(F[n])
            BY <2>9, <3>2
          <5>. QED  BY <4>1, <5>1, <3>2
        <4>2. CASE k # n
          <5>1. k \in 1..(n - 1)
            BY <4>2, <2>8
          <5>2. PICK i \in 1..Len(f) : f[i] = list[k]
            BY <5>1, <2>6 DEF f
          <5>3. i \in 1..Len(F[n])
            BY <2>9, <3>2
          <5>. QED  BY <5>2, <5>3, <3>2
        <4>. QED  BY <4>1, <4>2
      <3>7. \A i, j \in 1..Len(F[n]) : F[n][i] = F[n][j] => i = j
        <4>1. \A i, j \in 1..Len(f) : f[i] = f[j] => i = j
          BY <2>6 DEF f
        <4>. QED  BY <4>1, <3>2, <3>3, <3>4
      <3>. QED  BY <2>2, <3>2, <3>5, <3>6, <3>7
    <2>. QED  BY <2>10, <2>11
  <1>4. Right(Len(list))
    <2>1. Len(list) \in 0..Len(list)
      BY <1>1
    <2>. HIDE DEF Right
    <2>. QED  BY <2>1, <1>3
  <1>. DEFINE u == Sublist(list, S)
  <1>5. /\ u \in Seq(Addrs)
        /\ \A i \in 1..Len(u) : \E k \in 1..Len(list) :
              u[i] = list[k] /\ list[k] \in S
        /\ \A k \in 1..Len(list) : list[k] \in S =>
              \E i \in 1..Len(u) : u[i] = list[k]
        /\ \A i, j \in 1..Len(u) : u[i] = u[j] => i = j
    BY <1>2, <1>4
  <1>. HIDE DEF u
  <1>6. DOMAIN u = 1..Len(u) /\ DOMAIN list = 1..Len(list)
    BY <1>1, <1>5
  <1>7. ToSet(u) = ToSet(list) \cap S
    <2>1. ASSUME NEW x \in ToSet(u) PROVE x \in ToSet(list) \cap S
      BY <1>5, <1>6, <2>1 DEF ToSet
    <2>2. ASSUME NEW x \in ToSet(list) \cap S PROVE x \in ToSet(u)
      BY <1>5, <1>6, <2>2 DEF ToSet
    <2>. QED  BY <2>1, <2>2
  <1>. QED  BY <1>5, <1>7 DEF Distinct, u

(* push_back.                                                              *)
LEMMA AppendFacts ==
    ASSUME NEW list, Distinct(list), NEW a \in Addrs, a \notin ToSet(list)
    PROVE  /\ Distinct(Append(list, a))
           /\ ToSet(Append(list, a)) = ToSet(list) \cup {a}
  <1>. DEFINE k == Append(list, a)
  <1>1. list \in Seq(Addrs) /\ Len(list) \in Nat /\ DOMAIN list = 1..Len(list)
    BY DEF Distinct
  <1>2. /\ k \in Seq(Addrs) /\ Len(k) = Len(list) + 1
        /\ DOMAIN k = 1..(Len(list) + 1)
        /\ k[Len(list) + 1] = a
        /\ \A i \in 1..Len(list) : k[i] = list[i]
    BY <1>1
  <1>3. \A i \in 1..Len(k) : i \in 1..Len(list) \/ i = Len(list) + 1
    BY <1>1, <1>2
  <1>4. \A i \in 1..Len(list) : list[i] # a
    BY <1>1 DEF ToSet
  <1>. HIDE DEF k
  <1>5. Distinct(k)
    BY <1>2, <1>3, <1>4 DEF Distinct
  <1>6. ASSUME NEW x \in ToSet(k) PROVE x \in ToSet(list) \cup {a}
    BY <1>1, <1>2, <1>3, <1>6 DEF ToSet
  <1>7. ASSUME NEW x \in ToSet(list) \cup {a} PROVE x \in ToSet(k)
    <2>1. CASE x = a
      BY <2>1, <1>1, <1>2 DEF ToSet
    <2>2. CASE x \in ToSet(list)
      <3>1. PICK i \in 1..Len(list) : x = list[i]
        BY <2>2, <1>1 DEF ToSet
      <3>2. i \in DOMAIN k /\ k[i] = x
        BY <3>1, <1>1, <1>2
      <3>. QED  BY <3>2 DEF ToSet
    <2>. QED  BY <2>1, <2>2
  <1>. QED  BY <1>5, <1>6, <1>7 DEF k

(* The first index of an element, as the community modules' SelectInSeq    *)
(* computes it.                                                            *)
LEMMA FirstFacts ==
    ASSUME NEW I \in SUBSET Nat, I # {}
    PROVE  Min(I) \in I
  <1>1. \E x \in I : \A y \in I : x <= y
    BY LeastNumber
  <1>. QED  BY <1>1 DEF Min

(* erase.                                                                  *)
LEMMA RemoveFirstFacts ==
    ASSUME NEW list, Distinct(list), NEW x \in ToSet(list)
    PROVE  /\ Distinct(RemoveFirst(list, x))
           /\ ToSet(RemoveFirst(list, x)) = ToSet(list) \ {x}
           /\ Len(RemoveFirst(list, x)) = Len(list) - 1
  <1>1. list \in Seq(Addrs) /\ Len(list) \in Nat /\ DOMAIN list = 1..Len(list)
    BY DEF Distinct
  <1>. DEFINE I == {i \in 1..Len(list) : list[i] = x}
              m == Min(I)
              k == RemoveFirst(list, x)
              pre == SubSeq(list, 1, m - 1)
              post == SubSeq(list, m + 1, Len(list))
  <1>2. I # {}
    BY <1>1 DEF ToSet
  <1>3. m \in 1..Len(list) /\ list[m] = x
    <2>1. I \in SUBSET Nat
      OBVIOUS
    <2>2. m \in I
      <3>. HIDE DEF I
      <3>. QED  BY <1>2, <2>1, FirstFacts
    <2>. QED  BY <2>2
  <1>4. k = pre \o post
    <2>1. \E i \in 1..Len(list) : list[i] = x
      BY <1>3
    <2>. QED  BY <2>1, <1>2 DEF RemoveFirst, RemoveAt, SelectInSeq
  <1>. HIDE DEF I, m, k
  <1>5. /\ pre \in Seq(Addrs) /\ Len(pre) = m - 1
        /\ \A i \in 1..(m - 1) : pre[i] = list[i]
    BY <1>1, <1>3, SubSeqProperties
  <1>6. /\ post \in Seq(Addrs) /\ Len(post) = Len(list) - m
        /\ \A i \in 1..(Len(list) - m) : post[i] = list[m + i]
    <2>1. m + 1 \in Int /\ Len(list) \in Int
      BY <1>1, <1>3
    <2>2. \A i \in (m + 1)..Len(list) : list[i] \in Addrs
      BY <1>1, <1>3
    <2>3. /\ post \in Seq(Addrs)
          /\ Len(post) = IF m + 1 <= Len(list) THEN Len(list) - (m + 1) + 1
                                              ELSE 0
          /\ \A i \in 1..(Len(list) - (m + 1) + 1) : post[i] = list[m + 1 + i - 1]
      BY <2>1, <2>2, SubSeqProperties
    <2>. HIDE DEF post
    <2>4. Len(post) = Len(list) - m
      <3>1. Len(post) = IF m + 1 <= Len(list) THEN Len(list) - (m + 1) + 1 ELSE 0
        BY <2>3
      <3>2. m \in Nat /\ m <= Len(list)
        BY <1>1, <1>3
      <3>3. \A n, j \in Nat : j <= n =>
                (IF j + 1 <= n THEN n - (j + 1) + 1 ELSE 0) = n - j
        OBVIOUS
      <3>. QED  BY <1>1, <3>1, <3>2, <3>3, Zenon
    <2>5. ASSUME NEW i \in 1..(Len(list) - m) PROVE post[i] = list[m + i]
      <3>1. i \in 1..(Len(list) - (m + 1) + 1) /\ m + 1 + i - 1 = m + i
        BY <1>1, <1>3
      <3>2. post[i] = list[m + 1 + i - 1]
        BY <3>1, <2>3
      <3>. QED  BY <3>1, <3>2
    <2>. QED  BY <2>3, <2>4, <2>5
  <1>. HIDE DEF pre, post
  <1>7. /\ k \in Seq(Addrs) /\ Len(k) = Len(list) - 1
        /\ \A i \in 1..Len(k) : k[i] = IF i < m THEN list[i] ELSE list[i + 1]
    <2>1. /\ k \in Seq(Addrs) /\ Len(k) = Len(pre) + Len(post)
          /\ \A i \in 1..Len(k) : k[i] = IF i <= Len(pre) THEN pre[i]
                                                        ELSE post[i - Len(pre)]
      <3>1. /\ pre \o post \in Seq(Addrs)
            /\ Len(pre \o post) = Len(pre) + Len(post)
            /\ \A i \in 1..(Len(pre) + Len(post)) : (pre \o post)[i] =
                  IF i <= Len(pre) THEN pre[i] ELSE post[i - Len(pre)]
        BY <1>5, <1>6, ConcatProperties
      <3>. QED  BY <1>4, <3>1
    <2>. QED  BY <1>1, <1>3, <1>5, <1>6, <2>1
  <1>8. DOMAIN k = 1..Len(k)
    BY <1>7
  <1>9. \A i, j \in 1..Len(k) : k[i] = k[j] => i = j
    BY <1>1, <1>3, <1>7 DEF Distinct
  <1>10. ASSUME NEW y \in ToSet(k) PROVE y \in ToSet(list) \ {x}
    <2>1. PICK i \in 1..Len(k) : y = k[i]
      BY <1>8, <1>10 DEF ToSet
    <2>. DEFINE j == IF i < m THEN i ELSE i + 1
    <2>2. j \in 1..Len(list) /\ j # m /\ y = list[j]
      BY <1>1, <1>3, <1>7, <2>1
    <2>3. y # x
      BY <1>3, <2>2 DEF Distinct
    <2>. QED  BY <1>1, <2>2, <2>3 DEF ToSet
  <1>11. ASSUME NEW y \in ToSet(list) \ {x} PROVE y \in ToSet(k)
    <2>1. PICK i \in 1..Len(list) : y = list[i]
      BY <1>1 DEF ToSet
    <2>2. i # m
      BY <1>3, <2>1
    <2>. DEFINE j == IF i < m THEN i ELSE i - 1
    <2>3. j \in 1..Len(k) /\ y = k[j]
      BY <1>1, <1>3, <1>7, <2>1, <2>2
    <2>. QED  BY <1>8, <2>3 DEF ToSet
  <1>. QED  BY <1>7, <1>9, <1>10, <1>11 DEF Distinct, k

(* A nonempty finite set of numbers has a largest one.                     *)
LEMMA LargestNumber ==
    ASSUME NEW S \in SUBSET Nat, S # {}, IsFiniteSet(S)
    PROVE  Max(S) \in S /\ \A y \in S : Max(S) >= y
  <1>. DEFINE Capped(T) == \E x \in T : \A y \in T : x >= y
              Bad == {n \in Nat : \E T \in SUBSET S :
                        T # {} /\ Cardinality(T) = n /\ ~ Capped(T)}
  <1>1. Capped(S)
    <2>. SUFFICES ASSUME ~ Capped(S) PROVE FALSE
      OBVIOUS
    <2>1. Cardinality(S) \in Bad
      BY FS_CardinalityType
    <2>2. PICK n \in Bad : \A j \in Bad : n <= j
      <3>1. Bad \in SUBSET Nat
        OBVIOUS
      <3>. HIDE DEF Bad
      <3>. QED  BY <2>1, <3>1, LeastNumber
    <2>3. PICK T \in SUBSET S : T # {} /\ Cardinality(T) = n /\ ~ Capped(T)
      OBVIOUS
    <2>4. PICK x \in T : TRUE
      BY <2>3
    <2>5. IsFiniteSet(T)
      BY FS_Subset
    <2>6. /\ n \in Nat /\ Cardinality(T \ {x}) \in Nat
          /\ ~ (n <= Cardinality(T \ {x}))
      <3>. HIDE DEF Bad, Capped
      <3>1. IsFiniteSet(T \ {x}) /\ Cardinality(T \ {x}) = Cardinality(T) - 1
        BY <2>4, <2>5, FS_RemoveElement
      <3>2. Cardinality(T \ {x}) \in Nat /\ Cardinality(T) \in Nat
        BY <2>5, <3>1, FS_CardinalityType
      <3>. QED  BY <2>3, <3>1, <3>2
    <2>7. CASE T \ {x} = {}
      <3>1. \A y \in T : x >= y
        BY <2>4, <2>7
      <3>. QED  BY <2>3, <2>4, <3>1
    <2>8. CASE T \ {x} # {}
      <3>1. Cardinality(T \ {x}) \notin Bad
        <4>. HIDE DEF Bad
        <4>. QED  BY <2>2, <2>6
      <3>2. Capped(T \ {x})
        BY <2>6, <2>8, <3>1
      <3>3. PICK y \in T \ {x} : \A z \in T \ {x} : y >= z
        BY <3>2
      <3>4. x \in Nat /\ \A z \in T : z \in Nat
        BY <2>4
      <3>5. CASE x >= y
        <4>1. \A z \in T : x >= z
          BY <3>3, <3>4, <3>5
        <4>. QED  BY <4>1, <2>3, <2>4
      <3>6. CASE ~ (x >= y)
        <4>1. \A z \in T : y >= z
          BY <3>3, <3>4, <3>6
        <4>. QED  BY <4>1, <2>3, <3>3
      <3>. QED  BY <3>5, <3>6
    <2>. QED  BY <2>7, <2>8
  <1>. QED  BY <1>1 DEF Max

(* Every list has a sorted form: a shortest one without would have one     *)
(* when its largest element is removed, and this element goes at its end.  *)
Ascending(list, s) ==
    /\ s \in [1..Len(list) -> ToSet(list)]
    /\ ToSet(s) = ToSet(list)
    /\ \A i, j \in DOMAIN s : i < j => s[i] < s[j]

LEMMA SortedExists ==
    ASSUME NEW list, Distinct(list)
    PROVE  \E s : Ascending(list, s)
  <1>. DEFINE Bad == {n \in Nat : \E k : Distinct(k) /\ Len(k) = n
                                           /\ ~ \E s : Ascending(k, s)}
  <1>. SUFFICES ASSUME ~ \E s : Ascending(list, s) PROVE FALSE
    OBVIOUS
  <1>1. Len(list) \in Bad
    BY DEF Distinct
  <1>2. PICK n \in Bad : \A j \in Bad : n <= j
    <2>1. Bad \in SUBSET Nat
      OBVIOUS
    <2>. HIDE DEF Bad
    <2>. QED  BY <1>1, <2>1, LeastNumber
  <1>3. PICK k : Distinct(k) /\ Len(k) = n /\ ~ \E s : Ascending(k, s)
    OBVIOUS
  <1>4. n \in Nat /\ k \in Seq(Addrs) /\ DOMAIN k = 1..n
    BY <1>3 DEF Distinct
  <1>5. n # 0
    <2>. SUFFICES ASSUME n = 0 PROVE FALSE
      OBVIOUS
    <2>1. DOMAIN k = {}
      BY <1>4
    <2>2. k \in [1..n -> ToSet(k)]
      BY <1>3, <1>4, <2>1
    <2>3. Ascending(k, k)
      BY <1>3, <2>1, <2>2 DEF Ascending
    <2>. QED  BY <1>3, <2>3
  <1>6. ToSet(k) \in SUBSET Nat /\ ToSet(k) # {} /\ IsFiniteSet(ToSet(k))
    <2>1. ToSet(k) \subseteq Addrs /\ k[1] \in ToSet(k)
      BY <1>4, <1>5 DEF ToSet
    <2>. QED  BY <2>1, AddrsAssumption, FS_Subset
  <1>. DEFINE x == Max(ToSet(k))
              r == RemoveFirst(k, x)
  <1>7. x \in ToSet(k) /\ \A y \in ToSet(k) : x >= y
    BY <1>6, LargestNumber
  <1>. HIDE DEF x
  <1>8. Distinct(r) /\ ToSet(r) = ToSet(k) \ {x} /\ Len(r) = n - 1
    BY <1>3, <1>7, RemoveFirstFacts
  <1>. HIDE DEF r
  <1>9. PICK s : Ascending(r, s)
    <2>1. n - 1 \in Nat /\ ~ (n <= n - 1)
      BY <1>4, <1>5
    <2>2. n - 1 \notin Bad
      <3>. HIDE DEF Bad
      <3>. QED  BY <1>2, <2>1
    <2>. QED  BY <1>8, <2>1, <2>2
  <1>. DEFINE t == [i \in 1..n |-> IF i = n THEN x ELSE s[i]]
  <1>10. /\ DOMAIN s = 1..(n - 1) /\ ToSet(s) = ToSet(k) \ {x}
         /\ \A i \in 1..(n - 1) : s[i] \in ToSet(k) \ {x}
         /\ \A i, j \in 1..(n - 1) : i < j => s[i] < s[j]
    BY <1>8, <1>9 DEF Ascending
  <1>11. \A i \in 1..n : i \in 1..(n - 1) \/ i = n
    BY <1>4
  <1>12. /\ DOMAIN t = 1..n /\ t[n] = x
         /\ \A i \in 1..(n - 1) : t[i] = s[i]
    BY <1>4, <1>5
  <1>13. t \in [1..n -> ToSet(k)]
    BY <1>7, <1>10, <1>11, <1>12
  <1>. HIDE DEF t
  <1>14. ToSet(t) = ToSet(k)
    <2>1. ASSUME NEW y \in ToSet(t) PROVE y \in ToSet(k)
      BY <1>13, <2>1 DEF ToSet
    <2>2. ASSUME NEW y \in ToSet(k) PROVE y \in ToSet(t)
      <3>1. CASE y = x
        BY <3>1, <1>4, <1>5, <1>12 DEF ToSet
      <3>2. CASE y # x
        <4>1. PICK i \in 1..(n - 1) : y = s[i]
          BY <3>2, <1>10 DEF ToSet
        <4>2. i \in DOMAIN t /\ t[i] = y
          BY <4>1, <1>4, <1>12
        <4>. QED  BY <4>2 DEF ToSet
      <3>. QED  BY <3>1, <3>2
    <2>. QED  BY <2>1, <2>2
  <1>15. ASSUME NEW i \in DOMAIN t, NEW j \in DOMAIN t, i < j
         PROVE  t[i] < t[j]
    <2>1. i \in 1..(n - 1) /\ i # n
      BY <1>4, <1>12, <1>15
    <2>2. CASE j = n
      <3>1. s[i] \in Nat /\ x \in Nat /\ s[i] # x /\ x >= s[i]
        BY <1>6, <1>7, <1>10, <2>1
      <3>. QED  BY <3>1, <2>1, <2>2, <1>12
    <2>3. CASE j # n
      <3>1. j \in 1..(n - 1)
        BY <1>11, <1>12, <2>3
      <3>. QED  BY <3>1, <2>1, <1>10, <1>12, <1>15
    <2>. QED  BY <2>2, <2>3
  <1>16. Ascending(k, t)
    BY <1>3, <1>13, <1>14, <1>15 DEF Ascending
  <1>. QED  BY <1>3, <1>16

(* sort() keeps the elements.                                              *)
LEMMA SortedFacts ==
    ASSUME Distinct(Unfinished)
    PROVE  Distinct(SortedJobs) /\ ToSet(SortedJobs) = ToSet(Unfinished)
  <1>1. Ascending(Unfinished, SortedJobs)
    <2>1. \E s : Ascending(Unfinished, s)
      BY SortedExists
    <2>. QED  BY <2>1 DEF SortedJobs, Ascending
  <1>. DEFINE s == SortedJobs
              n == Len(Unfinished)
  <1>2. n \in Nat /\ ToSet(Unfinished) \subseteq Addrs
    <2>1. Unfinished \in Seq(Addrs)
      BY DEF Distinct
    <2>. QED  BY <2>1 DEF ToSet
  <1>3. /\ s \in [1..n -> ToSet(Unfinished)]
        /\ ToSet(s) = ToSet(Unfinished)
        /\ \A i, j \in 1..n : i < j => s[i] < s[j]
    BY <1>1 DEF Ascending
  <1>. HIDE DEF s, n
  <1>4. s \in [1..n -> Addrs] /\ \A i \in 1..n : s[i] \in Nat
    BY <1>2, <1>3, AddrsAssumption
  <1>5. s \in Seq(Addrs) /\ Len(s) = n
    BY <1>2, <1>4
  <1>6. \A i, j \in 1..n : s[i] = s[j] => i = j
    BY <1>2, <1>3, <1>4
  <1>. QED  BY <1>3, <1>5, <1>6 DEF Distinct, s

(* The elements of a list of pointers are addresses.                       *)
LEMMA ToSetFacts ==
    ASSUME NEW list, Distinct(list)
    PROVE  /\ ToSet(list) \subseteq Addrs
           /\ DOMAIN list = 1..Len(list) /\ Len(list) \in Nat
           /\ \A i \in 1..Len(list) : list[i] \in ToSet(list)
           /\ \A a \in ToSet(list) : \E i \in 1..Len(list) : list[i] = a
  <1>1. list \in Seq(Addrs) /\ DOMAIN list = 1..Len(list) /\ Len(list) \in Nat
    BY DEF Distinct
  <1>2. \A i \in 1..Len(list) : list[i] \in ToSet(list) /\ list[i] \in Addrs
    BY <1>1 DEF ToSet
  <1>3. \A a \in ToSet(list) : \E i \in 1..Len(list) : list[i] = a
    BY <1>1 DEF ToSet
  <1>. QED  BY <1>1, <1>2, <1>3

(* getJobById finds an entry with the id if the list has one.              *)
LEMMA JobByIdFacts ==
    ASSUME NEW list, Distinct(list), NEW id
    PROVE  \/ /\ getJobById(list, id) = NoJob
              /\ \A a \in ToSet(list) : Id(a) # id
           \/ /\ getJobById(list, id) \in ToSet(list)
              /\ getJobById(list, id) # NoJob
              /\ Id(getJobById(list, id)) = id
  <1>. DEFINE I == {i \in 1..Len(list) : Id(list[i]) = id}
  <1>1. /\ ToSet(list) \subseteq Addrs /\ Len(list) \in Nat
        /\ \A i \in 1..Len(list) : list[i] \in ToSet(list)
        /\ \A a \in ToSet(list) : \E i \in 1..Len(list) : list[i] = a
    BY ToSetFacts
  <1>2. CASE I = {}
    <2>1. getJobById(list, id) = NoJob
      BY <1>2 DEF getJobById, SelectInSeq
    <2>2. \A i \in 1..Len(list) : Id(list[i]) # id
      BY <1>2
    <2>. QED  BY <1>1, <2>1, <2>2
  <1>3. CASE I # {}
    <2>1. Min(I) \in I
      <3>1. I \in SUBSET Nat
        OBVIOUS
      <3>. HIDE DEF I
      <3>. QED  BY <1>3, <3>1, FirstFacts
    <2>2. Min(I) # 0
      BY <2>1
    <2>3. getJobById(list, id) = list[Min(I)]
      BY <1>3, <2>2 DEF getJobById, SelectInSeq
    <2>4. Min(I) \in 1..Len(list) /\ Id(list[Min(I)]) = id
      BY <2>1
    <2>. HIDE DEF I
    <2>. QED  BY <1>1, <2>3, <2>4, AddrsAssumption
  <1>. QED  BY <1>2, <1>3

-----------------------------------------------------------------------------
(* Entries.                                                                *)

(* setJobStatus changes the status of one entry.                           *)
LEMMA StatusSet ==
    ASSUME NEW e, e \in [DOMAIN e -> Record], NEW a \in DOMAIN e,
           NEW s \in Statuses
    PROVE  /\ DOMAIN setJobStatus(e, a, s) = DOMAIN e
           /\ setJobStatus(e, a, s) \in [DOMAIN e -> Record]
           /\ \A b \in DOMAIN e :
                 LET f == setJobStatus(e, a, s)
                 IN  /\ f[b].jobId = e[b].jobId
                     /\ f[b].jobProcessId = e[b].jobProcessId
                     /\ f[b].jobStatus = IF b = a THEN s ELSE e[b].jobStatus
  <1>. DEFINE f == setJobStatus(e, a, s)
  <1>1. /\ DOMAIN f = DOMAIN e
        /\ f[a] = [e[a] EXCEPT !.jobStatus = s]
        /\ \A b \in DOMAIN e : b # a => f[b] = e[b]
    BY DEF setJobStatus
  <1>2. f = [b \in DOMAIN e |-> f[b]]
    BY <1>1 DEF setJobStatus
  <1>3. /\ f[a] \in Record
        /\ f[a].jobId = e[a].jobId /\ f[a].jobProcessId = e[a].jobProcessId
        /\ f[a].jobStatus = s
    BY <1>1 DEF Record
  <1>. HIDE DEF f
  <1>4. f \in [DOMAIN e -> Record]
    BY <1>1, <1>2, <1>3
  <1>. QED  BY <1>1, <1>3, <1>4 DEF f

Run(pr, p) == [pr EXCEPT ![p] = "running"]
Add(e, a, id, p, s) ==
    [b \in DOMAIN e \cup {a} |-> IF b = a THEN JobEntry(id, p, s) ELSE e[b]]

Added(e, f, a, id, p, s) ==
    /\ DOMAIN f = DOMAIN e \cup {a}
    /\ f \in [DOMAIN f -> Record]
    /\ \A b \in DOMAIN e : f[b] = e[b] /\ b # a
    /\ f[a].jobId = id /\ f[a].jobProcessId = p /\ f[a].jobStatus = s

(* A new entry at a free address.                                          *)
LEMMA EntryAdded ==
    ASSUME NEW e, e \in [DOMAIN e -> Record], NEW a, a \notin DOMAIN e,
           NEW id \in Nat \cup {-1}, NEW p \in Pids, NEW s \in Statuses,
           NEW f, f = Add(e, a, id, p, s)
    PROVE  Added(e, f, a, id, p, s)
  <1>1. /\ JobEntry(id, p, s) \in Record
        /\ JobEntry(id, p, s).jobId = id /\ JobEntry(id, p, s).jobProcessId = p
        /\ JobEntry(id, p, s).jobStatus = s
    BY DEF JobEntry, Record
  <1>. HIDE DEF JobEntry, Record
  <1>2. DOMAIN f = DOMAIN e \cup {a} /\ f[a] = JobEntry(id, p, s)
    BY DEF Add
  <1>3. \A b \in DOMAIN e : f[b] = e[b] /\ b # a
    BY DEF Add
  <1>4. f \in [DOMAIN f -> Record]
    BY <1>1 DEF Add
  <1>. QED  BY <1>1, <1>2, <1>3, <1>4 DEF Added

(* A signal or an exit never starts a process, and never revives one.      *)
LEMMA Delivered ==
    ASSUME NEW st \in States, NEW sig \in 1..64
    PROVE  /\ Deliver(st, sig) \in States
           /\ st = "unborn" <=> Deliver(st, sig) = "unborn"
           /\ st = "gone" <=> Deliver(st, sig) = "gone"
           /\ st \notin Alive => Deliver(st, sig) = st
           /\ Deliver(st, sig) \in Alive => st \in Alive
           /\ sig = 9 => Deliver(st, sig) \notin Alive
           /\ sig = 18 => Deliver(st, sig) # "stopped"
           /\ sig = 18 /\ st \in Alive => Deliver(st, sig) = "running"
           /\ sig = 19 /\ st \in Alive => Deliver(st, sig) = "stopped"
           /\ sig \notin {9, 18} /\ sig \notin 19..22 => Deliver(st, sig) = st
  BY DEF Deliver, Alive, States

-----------------------------------------------------------------------------
(* removeFinishedJobs, with which every command begins.                    *)

Swept == Reachable(entry, KeptJobs)

(* Without a key in between, the entries of zombies are removed, and no    *)
(* others but the ones marked as finished.                                 *)
LEMMA KeptFacts ==
    ASSUME IInv, NEW a \in ToSet(jobsList)
    PROVE  /\ Kept(a) => Status(a) # "Finished"
           /\ Status(a) # "Finished" /\ proc[Pid(a)] # "zombie" => Kept(a)
           /\ raced = 0 /\ proc[Pid(a)] = "zombie" /\ role[Pid(a)] # "stray"
                 => ~ Kept(a)
  <1>1. (Kept(a) => Status(a) # "Finished")
        /\ (Status(a) # "Finished" /\ proc[Pid(a)] # "zombie" => Kept(a))
    BY DEF Kept
  <1>2. ASSUME raced = 0, proc[Pid(a)] = "zombie", role[Pid(a)] # "stray"
        PROVE  ~ Kept(a)
    <2>1. \A i \in 1..Len(jobsList) : jobsList[i] \in ToSet(jobsList)
      BY ToSetFacts DEF IInv
    <2>2. \A b \in ToSet(jobsList) : Pid(b) = Pid(a) => b = a
      BY <1>2 DEF IInv, Consistent, Undisturbed, OneEntry, Pid
    <2>3. /\ DOMAIN jobsList = 1..Len(jobsList)
          /\ \A i, j \in 1..Len(jobsList) : jobsList[i] = jobsList[j] => i = j
      BY DEF IInv, Distinct
    <2>4. ~ \E i, j \in DOMAIN jobsList :
              i < j /\ jobsList[j] = a /\ Pid(jobsList[i]) = Pid(a)
      BY <2>1, <2>2, <2>3
    <2>. QED  BY <1>2, <2>4 DEF Kept
  <1>. QED  BY <1>1, <1>2

(* maxJobID is computed over the entries that are left.                    *)
LEMMA MaxFacts ==
    ASSUME NEW L, L \subseteq Addrs, NEW S,
           S = {Id(a) : a \in L} \cup {0}, \A a \in L : Id(a) \in Nat
    PROVE  Max(S) \in Nat /\ \A a \in L : Id(a) <= Max(S)
  <1>. DEFINE T == {Id(a) : a \in L}
              f == [a \in L |-> Id(a)]
  <1>1. IsFiniteSet(L)
    BY AddrsAssumption, FS_Subset
  <1>2. f \in Surjection(L, T)
    BY DEF Surjection
  <1>3. IsFiniteSet(T)
    <2>. HIDE DEF f, T
    <2>. QED  BY <1>1, <1>2, FS_Surjection
  <1>4. IsFiniteSet(S)
    <2>. HIDE DEF f, T
    <2>1. S = T \cup {0}
      BY DEF T
    <2>. QED  BY <1>3, <2>1, FS_AddElement
  <1>5. S \in SUBSET Nat /\ S # {}
    OBVIOUS
  <1>6. Max(S) \in S /\ \A y \in S : Max(S) >= y
    BY <1>4, <1>5, LargestNumber
  <1>7. \A a \in L : Id(a) \in S
    OBVIOUS
  <1>. QED  BY <1>5, <1>6, <1>7

(* What is left is consistent, and maxJobID is at least every id.          *)
LEMMA SweptConsistent ==
    ASSUME IInv, pc = "prompt"
    PROVE  /\ Distinct(Unfinished)
           /\ ToSet(Unfinished) = KeptJobs
           /\ ToSet(Unfinished) \subseteq ToSet(jobsList)
           /\ DOMAIN Swept = ToSet(Unfinished)
           /\ \A a \in ToSet(Unfinished) : Swept[a] = entry[a]
           /\ \A a \in ToSet(Unfinished) : Swept[a].jobId <= MaxUnfinished
           /\ Consistent(ToSet(Unfinished), Swept, Reaped, role, NoJob, "prompt",
                         MaxUnfinished, raced)
  <1>. DEFINE L == ToSet(jobsList)
              U == ToSet(Unfinished)
  <1>1. Distinct(Unfinished) /\ U = {a \in L : Kept(a)} /\ U = KeptJobs
    BY SublistFacts DEF Unfinished, KeptJobs, IInv
  <1>2. Consistent(L, entry, proc, role, NoJob, "prompt", maxJobID, raced)
    BY DEF IInv, Consistent, Typed
  <1>3. DOMAIN entry = L /\ entry \in [L -> Record] /\ NoJob \notin L
    <2>1. L \subseteq Addrs
      BY ToSetFacts DEF IInv
    <2>. QED  BY <1>2, <2>1, AddrsAssumption DEF Consistent, Typed
  <1>. HIDE DEF L, U
  <1>4. U \subseteq L /\ \A a \in U : Kept(a)
    BY <1>1
  <1>5. DOMAIN Swept = U /\ (\A a \in U : Swept[a] = entry[a])
        /\ Swept \in [U -> Record]
    BY <1>1, <1>3, <1>4 DEF Swept, Reachable
  <1>6. \A a \in U : Id(a) \in Nat /\ Id(a) > 0
    BY <1>2, <1>3, <1>4 DEF Consistent, Numbered, Id, Record
  <1>7. MaxUnfinished \in Nat /\ \A a \in U : Swept[a].jobId <= MaxUnfinished
    <2>1. U \subseteq Addrs
      BY <1>1, ToSetFacts DEF U
    <2>2. MaxUnfinished = Max({Id(a) : a \in U} \cup {0})
      BY <1>1 DEF MaxUnfinished
    <2>3. MaxUnfinished \in Nat /\ \A a \in U : Id(a) <= MaxUnfinished
      BY <1>6, <2>1, <2>2, MaxFacts
    <2>. QED  BY <2>3, <1>5 DEF Id
  <1>8. /\ Reaped \in [Pids -> States]
        /\ \A p \in Pids : Reaped[p] = IF proc[p] = "zombie" THEN "gone"
                                                             ELSE proc[p]
    BY <1>2 DEF Reaped, Consistent, Typed, States
  <1>9. Typed(U, Swept, Reaped, role, NoJob, "prompt", MaxUnfinished)
    BY <1>2, <1>5, <1>7, <1>8 DEF Consistent, Typed
  <1>10. Numbered(U, Swept, NoJob, MaxUnfinished)
    BY <1>2, <1>4, <1>5 DEF Consistent, Numbered
  <1>11. \A a \in L : entry[a].jobProcessId \in Pids
    BY <1>3 DEF Record
  <1>12. Started(U, Swept, Reaped, NoJob, "prompt")
    BY <1>2, <1>3, <1>4, <1>5, <1>8, <1>11 DEF Consistent, Started
  <1>13. ASSUME raced = 0
         PROVE  Undisturbed(U, Swept, Reaped, role, NoJob, "prompt")
    <2>1. Undisturbed(L, entry, proc, role, NoJob, "prompt")
      BY <1>2, <1>13 DEF Consistent
    <2>2. \A a \in L :
             /\ Kept(a) /\ role[entry[a].jobProcessId] # "stray"
                  => proc[entry[a].jobProcessId] # "zombie"
             /\ /\ entry[a].jobStatus # "Finished"
                /\ proc[entry[a].jobProcessId] # "zombie"
                => Kept(a)
      BY <1>13, KeptFacts DEF Status, Pid, L
    <2>3. \A a \in U :
             \/ Reaped[entry[a].jobProcessId] = proc[entry[a].jobProcessId]
             \/ /\ role[entry[a].jobProcessId] = "stray"
                /\ Reaped[entry[a].jobProcessId] \notin Alive
      BY <1>4, <1>8, <1>11, <2>2 DEF Alive
    <2>4. OneEntry(U, Swept, Reaped, role, NoJob)
      BY <1>4, <1>5, <2>1 DEF Undisturbed, OneEntry
    <2>5. FinishedEnds(Swept, Reaped)
      BY <1>3, <1>4, <1>5, <2>1, <2>3 DEF Undisturbed, FinishedEnds
    <2>6. AliveListed(U, Swept, Reaped, role, NoJob, "prompt")
      <3>. SUFFICES ASSUME NEW p \in Pids, Reaped[p] \in Alive,
                           role[p] \notin {"first", "stray"}
                    PROVE  \E a \in U : Swept[a].jobProcessId = p
        BY DEF AliveListed
      <3>1. proc[p] \in Alive /\ Reaped[p] = proc[p] /\ proc[p] # "zombie"
        BY <1>8 DEF Alive
      <3>2. PICK a \in L : entry[a].jobProcessId = p
        BY <2>1, <3>1 DEF Undisturbed, AliveListed
      <3>3. entry[a].jobStatus # "Finished"
        BY <1>3, <2>1, <3>1, <3>2 DEF Undisturbed, FinishedEnds
      <3>4. a \in U
        BY <1>1, <2>2, <3>1, <3>2, <3>3
      <3>. QED  BY <1>5, <3>2, <3>4
    <2>7. StoppedMarked(U, Swept, Reaped, role, NoJob, "prompt")
      BY <1>4, <1>5, <2>1, <2>3 DEF Undisturbed, StoppedMarked
    <2>8. NotWaitedFor(U, Swept, Reaped, role, NoJob, "prompt")
      BY <1>4, <1>5, <2>1, <2>3 DEF Undisturbed, NotWaitedFor
    <2>. QED  BY <2>4, <2>5, <2>6, <2>7, <2>8 DEF Undisturbed
  <1>14. Consistent(U, Swept, Reaped, role, NoJob, "prompt", MaxUnfinished, raced)
    BY <1>9, <1>10, <1>12, <1>13 DEF Consistent
  <1>. QED  BY <1>1, <1>4, <1>5, <1>7, <1>14 DEF L, U

-----------------------------------------------------------------------------
(* What the commands do with the swept list.                               *)

(* fg marks a listed job.                                                  *)
LEMMA Foregrounded ==
    ASSUME NEW L, L \subseteq Addrs, NEW e, NEW pr, NEW en, NEW m, NEW r,
           Consistent(L, e, pr, en, NoJob, "prompt", m, r),
           NEW job \in L
    PROVE  Consistent(L, setJobStatus(e, job, "Foreground"), pr, en, job,
                      "fg_cont", m, r)
  <1>. DEFINE f == setJobStatus(e, job, "Foreground")
  <1>1. DOMAIN e = L /\ e \in [L -> Record] /\ job \in Addrs /\ job # NoJob
    BY AddrsAssumption DEF Consistent, Typed
  <1>2. /\ DOMAIN f = L /\ f \in [L -> Record]
        /\ \A b \in L : /\ f[b].jobId = e[b].jobId
                        /\ f[b].jobProcessId = e[b].jobProcessId
                        /\ f[b].jobStatus = IF b = job THEN "Foreground"
                                                      ELSE e[b].jobStatus
    BY <1>1, StatusSet DEF Statuses
  <1>. HIDE DEF f
  <1>3. Typed(L, f, pr, en, job, "fg_cont", m)
    BY <1>1, <1>2 DEF Consistent, Typed
  <1>4. Numbered(L, f, job, m)
    BY <1>1, <1>2 DEF Consistent, Numbered
  <1>5. Started(L, f, pr, job, "fg_cont")
    BY <1>1, <1>2 DEF Consistent, Started
  <1>6. ASSUME r = 0 PROVE Undisturbed(L, f, pr, en, job, "fg_cont")
    <2>1. Undisturbed(L, e, pr, en, NoJob, "prompt")
      BY <1>6 DEF Consistent
    <2>2. OneEntry(L, f, pr, en, job)
      BY <1>2, <2>1 DEF Undisturbed, OneEntry
    <2>3. FinishedEnds(f, pr)
      BY <1>1, <1>2, <2>1 DEF Undisturbed, FinishedEnds
    <2>4. AliveListed(L, f, pr, en, job, "fg_cont")
      BY <1>2, <2>1 DEF Undisturbed, AliveListed
    <2>5. StoppedMarked(L, f, pr, en, job, "fg_cont")
      BY <1>2, <2>1 DEF Undisturbed, StoppedMarked
    <2>6. NotWaitedFor(L, f, pr, en, job, "fg_cont")
      BY <1>2, <2>1 DEF Undisturbed, NotWaitedFor
    <2>. QED  BY <2>2, <2>3, <2>4, <2>5, <2>6 DEF Undisturbed
  <1>. QED  BY <1>3, <1>4, <1>5, <1>6 DEF Consistent, f

(* bg and kill send a signal to a listed job and mark it: as finished only *)
(* with signal 9, and as stopped with 19.                                  *)
LEMMA Signalled ==
    ASSUME NEW L, L \subseteq Addrs, NEW e, NEW pr, NEW en, NEW m, NEW r,
           Consistent(L, e, pr, en, NoJob, "prompt", m, r),
           NEW job \in L, NEW s \in Statuses,
           NEW sig \in 1..64, sig = 18 \/ sig \in Signals,
           s = "Finished" => sig = 9 \/ e[job].jobStatus = "Finished",
           sig = 19 => s = "Stopped",
           sig \notin {9, 18, 19} => s = e[job].jobStatus,
           NEW p, p = e[job].jobProcessId,
           NEW q, q = [pr EXCEPT ![p] = Deliver(@, sig)]
    PROVE  Consistent(L, setJobStatus(e, job, s), q, en, NoJob, "prompt", m, r)
  <1>. DEFINE f == setJobStatus(e, job, s)
  <1>1. DOMAIN e = L /\ e \in [L -> Record] /\ pr \in [Pids -> States]
    BY AddrsAssumption DEF Consistent, Typed
  <1>2. /\ DOMAIN f = L /\ f \in [L -> Record]
        /\ \A b \in L : /\ f[b].jobId = e[b].jobId
                        /\ f[b].jobProcessId = e[b].jobProcessId
                        /\ f[b].jobStatus = IF b = job THEN s ELSE e[b].jobStatus
    BY <1>1, StatusSet
  <1>. HIDE DEF f
  <1>3. p \in Pids /\ \A b \in L : e[b].jobProcessId \in Pids
    BY <1>1 DEF Record
  <1>4. /\ DOMAIN q = Pids
        /\ q[p] = Deliver(pr[p], sig)
        /\ \A x \in Pids : x # p => q[x] = pr[x]
    BY <1>1, <1>3
  <1>5. /\ \A x \in Pids : /\ q[x] \in States
                           /\ pr[x] # "unborn" => q[x] # "unborn"
                           /\ q[x] = "gone" => pr[x] = "gone"
                           /\ q[x] \in Alive => pr[x] \in Alive
        /\ sig = 9 => q[p] \notin Alive
        /\ sig = 18 => q[p] # "stopped"
        /\ sig \notin {9, 18} /\ sig \notin 19..22 => q[p] = pr[p]
    BY <1>1, <1>3, <1>4, Delivered
  <1>6. q \in [Pids -> States]
    BY <1>1, <1>4, <1>5
  <1>7. Typed(L, f, q, en, NoJob, "prompt", m)
    BY <1>2, <1>6 DEF Consistent, Typed
  <1>8. Numbered(L, f, NoJob, m)
    BY <1>2 DEF Consistent, Numbered
  <1>9. Started(L, f, q, NoJob, "prompt")
    BY <1>1, <1>2, <1>3, <1>5 DEF Consistent, Started
  <1>10. ASSUME r = 0 PROVE Undisturbed(L, f, q, en, NoJob, "prompt")
    <2>1. Undisturbed(L, e, pr, en, NoJob, "prompt")
      BY <1>10 DEF Consistent
    <2>2. OneEntry(L, f, q, en, NoJob)
      BY <1>2, <2>1 DEF Undisturbed, OneEntry
    <2>3. FinishedEnds(f, q)
      <3>. SUFFICES ASSUME NEW b \in L, f[b].jobStatus = "Finished"
                    PROVE  q[e[b].jobProcessId] \notin Alive
        BY <1>2 DEF FinishedEnds
      <3>1. CASE e[b].jobStatus = "Finished"
        BY <3>1, <1>1, <1>3, <1>5, <2>1 DEF Undisturbed, FinishedEnds
      <3>2. CASE e[b].jobStatus # "Finished"
        BY <3>2, <1>2, <1>5
      <3>. QED  BY <3>1, <3>2
    <2>4. AliveListed(L, f, q, en, NoJob, "prompt")
      BY <1>2, <1>5, <2>1 DEF Undisturbed, AliveListed
    <2>5. StoppedMarked(L, f, q, en, NoJob, "prompt")
      <3>. SUFFICES ASSUME Signals \cap 20..22 = {}, NEW b \in L,
                           q[e[b].jobProcessId] = "stopped",
                           en[e[b].jobProcessId] # "stray"
                    PROVE  f[b].jobStatus = "Stopped"
        BY <1>2 DEF StoppedMarked
      <3>1. CASE b = job
        <4>1. sig \notin {9, 18} /\ sig \notin 20..22
          BY <3>1, <1>5 DEF Alive
        <4>2. CASE sig = 19
          BY <4>2, <3>1, <1>2
        <4>3. CASE sig # 19
          <5>1. pr[p] = "stopped"
            <6>1. sig \notin 19..22
              BY <4>1, <4>3
            <6>. QED  BY <4>1, <6>1, <3>1, <1>5
          <5>2. e[job].jobStatus = "Stopped"
            BY <5>1, <3>1, <2>1 DEF Undisturbed, StoppedMarked
          <5>. QED  BY <5>2, <4>1, <4>3, <3>1, <1>2
        <4>. QED  BY <4>2, <4>3
      <3>2. CASE b # job
        <4>1. e[b].jobProcessId # p
          BY <3>2, <2>1 DEF Undisturbed, OneEntry
        <4>2. pr[e[b].jobProcessId] = "stopped"
          BY <4>1, <1>3, <1>4
        <4>. QED  BY <4>2, <3>2, <1>2, <2>1 DEF Undisturbed, StoppedMarked
      <3>. QED  BY <3>1, <3>2
    <2>6. NotWaitedFor(L, f, q, en, NoJob, "prompt")
      BY <1>2, <1>3, <1>5, <2>1 DEF Undisturbed, NotWaitedFor
    <2>. QED  BY <2>2, <2>3, <2>4, <2>5, <2>6 DEF Undisturbed
  <1>. QED  BY <1>7, <1>8, <1>9, <1>10 DEF Consistent, f

(* quit kill sends signal 9 to processes, and both forms end the shell.    *)
LEMMA Ended ==
    ASSUME NEW L, NEW e, NEW pr, NEW en, NEW m, NEW r,
           Consistent(L, e, pr, en, NoJob, "prompt", m, r),
           NEW q, q \in [Pids -> States],
           \A p \in Pids : q[p] = pr[p] \/ q[p] = Deliver(pr[p], 9)
    PROVE  Consistent(L, e, q, en, NoJob, "exited", m, r)
  <1>1. DOMAIN e = L /\ e \in [L -> Record] /\ pr \in [Pids -> States]
    BY DEF Consistent, Typed
  <1>2. \A b \in L : e[b].jobProcessId \in Pids
    BY <1>1 DEF Record
  <1>3. \A x \in Pids : /\ pr[x] # "unborn" => q[x] # "unborn"
                        /\ q[x] = "gone" => pr[x] = "gone"
                        /\ q[x] \in Alive => pr[x] = q[x]
    BY <1>1, Delivered
  <1>4. Typed(L, e, q, en, NoJob, "exited", m)
    BY DEF Consistent, Typed
  <1>5. Numbered(L, e, NoJob, m)
    BY DEF Consistent
  <1>6. Started(L, e, q, NoJob, "exited")
    BY <1>1, <1>2, <1>3 DEF Consistent, Started
  <1>7. ASSUME r = 0 PROVE Undisturbed(L, e, q, en, NoJob, "exited")
    <2>1. Undisturbed(L, e, pr, en, NoJob, "prompt")
      BY <1>7 DEF Consistent
    <2>2. OneEntry(L, e, q, en, NoJob)
      BY <2>1 DEF Undisturbed, OneEntry
    <2>3. FinishedEnds(e, q)
      BY <1>1, <1>2, <1>3, <2>1 DEF Undisturbed, FinishedEnds
    <2>4. AliveListed(L, e, q, en, NoJob, "exited")
      BY <1>3, <2>1 DEF Undisturbed, AliveListed
    <2>5. StoppedMarked(L, e, q, en, NoJob, "exited")
      BY <1>2, <1>3, <2>1 DEF Undisturbed, StoppedMarked, Alive
    <2>6. NotWaitedFor(L, e, q, en, NoJob, "exited")
      BY <1>2, <1>3, <2>1 DEF Undisturbed, NotWaitedFor
    <2>. QED  BY <2>2, <2>3, <2>4, <2>5, <2>6 DEF Undisturbed
  <1>. QED  BY <1>4, <1>5, <1>6, <1>7 DEF Consistent

(* What a fork leaves: no entry is one of the new process.                 *)
Fork(L, e, pr, q, p, m) ==
    /\ q \in [Pids -> States] /\ q[p] = "running"
    /\ \A x \in Pids : x # p => q[x] = pr[x]
    /\ \A a \in L : /\ e[a].jobProcessId \in Pids
                    /\ e[a].jobProcessId # p
                    /\ q[e[a].jobProcessId] = pr[e[a].jobProcessId]
                    /\ q[e[a].jobProcessId] # "unborn"
    /\ DOMAIN e = L /\ e \in [DOMAIN e -> Record] /\ m \in Nat

(* An unborn process is forked.                                            *)
LEMMA Forked ==
    ASSUME NEW L, NEW e, NEW pr, NEW m, NEW r, NEW en,
           Consistent(L, e, pr, en, NoJob, "prompt", m, r),
           NEW p \in Pids, pr[p] = "unborn"
    PROVE  Fork(L, e, pr, Run(pr, p), p, m)
  <1>. DEFINE q == Run(pr, p)
  <1>1. /\ DOMAIN e = L /\ e \in [L -> Record] /\ pr \in [Pids -> States]
        /\ m \in Nat
    BY DEF Consistent, Typed
  <1>2. /\ q \in [Pids -> States] /\ q[p] = "running"
        /\ \A x \in Pids : x # p => q[x] = pr[x]
    BY <1>1 DEF States, Run
  <1>3. \A a \in L : /\ e[a].jobProcessId \in Pids
                     /\ e[a].jobProcessId # p
                     /\ pr[e[a].jobProcessId] # "unborn"
    BY <1>1 DEF Record, Consistent, Started
  <1>. HIDE DEF q
  <1>4. Fork(L, e, pr, q, p, m)
    BY <1>1, <1>2, <1>3 DEF Fork
  <1>. QED  BY <1>4 DEF q

(* A command with &.                                                       *)
LEMMA StartedInBackground ==
    ASSUME NEW L, L \subseteq Addrs, NEW e, NEW pr, NEW m, NEW r, NEW en,
           Consistent(L, e, pr, en, NoJob, "prompt", m, r),
           \A b \in L : e[b].jobId <= m,
           NEW p \in Pids, pr[p] = "unborn",
           NEW q, q = Run(pr, p),
           NEW a \in Addrs \ L,
           NEW f, f = Add(e, a, m + 1, p, "Background")
    PROVE  Consistent(L \cup {a}, f, q, en, NoJob, "prompt", m + 1, r)
  <1>. DEFINE K == L \cup {a}
  <1>1. /\ q \in [Pids -> States] /\ q[p] = "running"
        /\ \A x \in Pids : x # p => q[x] = pr[x]
        /\ \A b \in L : /\ e[b].jobProcessId \in Pids
                        /\ e[b].jobProcessId # p
                        /\ q[e[b].jobProcessId] = pr[e[b].jobProcessId]
                        /\ q[e[b].jobProcessId] # "unborn"
        /\ DOMAIN e = L /\ e \in [DOMAIN e -> Record] /\ m \in Nat
    <2>1. Fork(L, e, pr, q, p, m)
      BY Forked
    <2>. QED  BY <2>1 DEF Fork
  <1>2. /\ DOMAIN f = K /\ f \in [DOMAIN f -> Record]
        /\ \A b \in L : f[b] = e[b] /\ b # a
        /\ f[a].jobId = m + 1 /\ f[a].jobProcessId = p
        /\ f[a].jobStatus = "Background"
    <2>1. m + 1 \in Nat \cup {-1} /\ a \notin DOMAIN e /\ "Background" \in Statuses
      BY <1>1 DEF Statuses
    <2>2. Added(e, f, a, m + 1, p, "Background")
      BY <1>1, <2>1, EntryAdded
    <2>. QED  BY <1>1, <2>2 DEF Added
  <1>3. Typed(K, f, q, en, NoJob, "prompt", m + 1)
    <2>1. m + 1 \in Nat
      BY <1>1
    <2>. QED  BY <1>1, <1>2, <2>1 DEF Consistent, Typed
  <1>4. Numbered(K, f, NoJob, m + 1)
    <2>1. \A b \in L : e[b].jobId > 0 /\ e[b].jobId \in Int /\ e[b].jobId # m + 1
      BY <1>1 DEF Consistent, Numbered, Record
    <2>2. m + 1 > 0
      BY <1>1
    <2>3. \A b, d \in L : e[b].jobId = e[d].jobId => b = d
      BY DEF Consistent, Numbered
    <2>. QED  BY <1>2, <2>1, <2>2, <2>3 DEF Numbered
  <1>5. Started(K, f, q, NoJob, "prompt")
    BY <1>1, <1>2 DEF Started
  <1>6. ASSUME r = 0 PROVE Undisturbed(K, f, q, en, NoJob, "prompt")
    <2>1. Undisturbed(L, e, pr, en, NoJob, "prompt")
      BY <1>6 DEF Consistent
    <2>2. OneEntry(K, f, q, en, NoJob)
      BY <1>1, <1>2, <2>1 DEF Undisturbed, OneEntry
    <2>3. FinishedEnds(f, q)
      BY <1>1, <1>2, <2>1 DEF Undisturbed, FinishedEnds
    <2>4. AliveListed(K, f, q, en, NoJob, "prompt")
      BY <1>1, <1>2, <2>1 DEF Undisturbed, AliveListed
    <2>5. StoppedMarked(K, f, q, en, NoJob, "prompt")
      BY <1>1, <1>2, <2>1 DEF Undisturbed, StoppedMarked
    <2>6. NotWaitedFor(K, f, q, en, NoJob, "prompt")
      BY <1>1, <1>2, <2>1 DEF Undisturbed, NotWaitedFor
    <2>. QED  BY <2>2, <2>3, <2>4, <2>5, <2>6 DEF Undisturbed
  <1>. QED  BY <1>3, <1>4, <1>5, <1>6 DEF Consistent

(* A command without &.                                                    *)
LEMMA StartedInForeground ==
    ASSUME NEW L, L \subseteq Addrs, NEW e, NEW pr, NEW m, NEW r, NEW en,
           Consistent(L, e, pr, en, NoJob, "prompt", m, r),
           \A b \in L : e[b].jobId <= m,
           NEW p \in Pids, pr[p] = "unborn",
           NEW q, q = Run(pr, p),
           NEW a \in Addrs \ L,
           NEW f, f = Add(e, a, -1, p, "Foreground")
    PROVE  Consistent(L, f, q, en, a, "wait", m, r)
  <1>1. /\ q \in [Pids -> States] /\ q[p] = "running"
        /\ \A x \in Pids : x # p => q[x] = pr[x]
        /\ \A b \in L : /\ e[b].jobProcessId \in Pids
                        /\ e[b].jobProcessId # p
                        /\ q[e[b].jobProcessId] = pr[e[b].jobProcessId]
                        /\ q[e[b].jobProcessId] # "unborn"
        /\ DOMAIN e = L /\ e \in [DOMAIN e -> Record] /\ m \in Nat
    <2>1. Fork(L, e, pr, q, p, m)
      BY Forked
    <2>. QED  BY <2>1 DEF Fork
  <1>2. /\ DOMAIN f = L \cup {a} /\ f \in [DOMAIN f -> Record]
        /\ \A b \in L : f[b] = e[b] /\ b # a
        /\ f[a].jobId = -1 /\ f[a].jobProcessId = p
        /\ f[a].jobStatus = "Foreground"
    <2>1. Added(e, f, a, -1, p, "Foreground")
      BY <1>1, EntryAdded DEF Statuses
    <2>. QED  BY <1>1, <2>1 DEF Added
  <1>3. Typed(L, f, q, en, a, "wait", m)
    <2>1. a \in Addrs /\ a # NoJob
      BY AddrsAssumption
    <2>. QED  BY <1>1, <1>2, <2>1 DEF Consistent, Typed
  <1>4. Numbered(L, f, a, m)
    BY <1>2 DEF Consistent, Numbered
  <1>5. Started(L, f, q, a, "wait")
    BY <1>1, <1>2 DEF Started
  <1>6. ASSUME r = 0 PROVE Undisturbed(L, f, q, en, a, "wait")
    <2>1. Undisturbed(L, e, pr, en, NoJob, "prompt")
      BY <1>6 DEF Consistent
    <2>2. OneEntry(L, f, q, en, a)
      BY <1>1, <1>2, <2>1 DEF Undisturbed, OneEntry
    <2>3. FinishedEnds(f, q)
      BY <1>1, <1>2, <2>1 DEF Undisturbed, FinishedEnds
    <2>4. AliveListed(L, f, q, en, a, "wait")
      BY <1>1, <1>2, <2>1 DEF Undisturbed, AliveListed
    <2>5. StoppedMarked(L, f, q, en, a, "wait")
      BY <1>1, <1>2, <2>1 DEF Undisturbed, StoppedMarked
    <2>6. NotWaitedFor(L, f, q, en, a, "wait")
      BY <1>1, <1>2, <2>1 DEF Undisturbed, NotWaitedFor
    <2>. QED  BY <2>2, <2>3, <2>4, <2>5, <2>6 DEF Undisturbed
  <1>. QED  BY <1>3, <1>4, <1>5, <1>6 DEF Consistent

(* The first process of a pipe is in no list.                              *)
LEMMA HalfPipeStarted ==
    ASSUME NEW L, L \subseteq Addrs, NEW e, NEW pr, NEW m, NEW r, NEW en,
           Consistent(L, e, pr, en, NoJob, "prompt", m, r),
           NEW p \in Pids, pr[p] = "unborn",
           NEW q, q = Run(pr, p),
           NEW n, n = [en EXCEPT ![p] = "first"]
    PROVE  Consistent(L, e, q, n, NoJob, "prompt", m, r)
  <1>1. /\ q \in [Pids -> States] /\ q[p] = "running"
        /\ \A x \in Pids : x # p => q[x] = pr[x]
        /\ \A b \in L : /\ e[b].jobProcessId \in Pids
                        /\ e[b].jobProcessId # p
                        /\ q[e[b].jobProcessId] = pr[e[b].jobProcessId]
                        /\ q[e[b].jobProcessId] # "unborn"
        /\ DOMAIN e = L /\ e \in [DOMAIN e -> Record] /\ m \in Nat
    <2>1. Fork(L, e, pr, q, p, m)
      BY Forked
    <2>. QED  BY <2>1 DEF Fork
  <1>2. /\ n \in [Pids -> {"plain", "first", "second", "stray"}] /\ n[p] = "first"
        /\ \A x \in Pids : x # p => n[x] = en[x]
    BY DEF Consistent, Typed
  <1>3. Typed(L, e, q, n, NoJob, "prompt", m)
    BY <1>1, <1>2 DEF Consistent, Typed
  <1>4. Numbered(L, e, NoJob, m)
    BY DEF Consistent
  <1>5. Started(L, e, q, NoJob, "prompt")
    BY <1>1 DEF Started
  <1>6. ASSUME r = 0 PROVE Undisturbed(L, e, q, n, NoJob, "prompt")
    <2>1. Undisturbed(L, e, pr, en, NoJob, "prompt")
      BY <1>6 DEF Consistent
    <2>2. OneEntry(L, e, q, n, NoJob)
      BY <1>1, <1>2, <2>1 DEF Undisturbed, OneEntry
    <2>3. FinishedEnds(e, q)
      BY <1>1, <2>1 DEF Undisturbed, FinishedEnds
    <2>4. AliveListed(L, e, q, n, NoJob, "prompt")
      BY <1>1, <1>2, <2>1 DEF Undisturbed, AliveListed
    <2>5. StoppedMarked(L, e, q, n, NoJob, "prompt")
      BY <1>1, <1>2, <2>1 DEF Undisturbed, StoppedMarked
    <2>6. NotWaitedFor(L, e, q, n, NoJob, "prompt")
      BY <1>1, <1>2, <2>1 DEF Undisturbed, NotWaitedFor
    <2>. QED  BY <2>2, <2>3, <2>4, <2>5, <2>6 DEF Undisturbed
  <1>. QED  BY <1>3, <1>4, <1>5, <1>6 DEF Consistent

(* The second one is listed and waited for.                                *)
LEMMA PipeStarted ==
    ASSUME NEW L, L \subseteq Addrs, NEW e, NEW pr, NEW m, NEW r, NEW en,
           Consistent(L, e, pr, en, NoJob, "prompt", m, r),
           \A b \in L : e[b].jobId <= m,
           NEW p \in Pids, pr[p] = "unborn",
           NEW q, q = Run(pr, p),
           NEW n, n = [en EXCEPT ![p] = "second"],
           NEW a \in Addrs \ L,
           NEW f, f = Add(e, a, m + 1, p, "Foreground")
    PROVE  Consistent(L \cup {a}, f, q, n, a, "wait", m + 1, r)
  <1>. DEFINE K == L \cup {a}
  <1>1. /\ q \in [Pids -> States] /\ q[p] = "running"
        /\ \A x \in Pids : x # p => q[x] = pr[x]
        /\ \A b \in L : /\ e[b].jobProcessId \in Pids
                        /\ e[b].jobProcessId # p
                        /\ q[e[b].jobProcessId] = pr[e[b].jobProcessId]
                        /\ q[e[b].jobProcessId] # "unborn"
        /\ DOMAIN e = L /\ e \in [DOMAIN e -> Record] /\ m \in Nat
    <2>1. Fork(L, e, pr, q, p, m)
      BY Forked
    <2>. QED  BY <2>1 DEF Fork
  <1>2. /\ DOMAIN f = K /\ f \in [DOMAIN f -> Record]
        /\ \A b \in L : f[b] = e[b] /\ b # a
        /\ f[a].jobId = m + 1 /\ f[a].jobProcessId = p
        /\ f[a].jobStatus = "Foreground"
    <2>1. m + 1 \in Nat \cup {-1} /\ a \notin DOMAIN e /\ "Foreground" \in Statuses
      BY <1>1 DEF Statuses
    <2>2. Added(e, f, a, m + 1, p, "Foreground")
      BY <1>1, <2>1, EntryAdded
    <2>. QED  BY <1>1, <2>2 DEF Added
  <1>3. /\ n \in [Pids -> {"plain", "first", "second", "stray"}] /\ n[p] = "second"
        /\ \A x \in Pids : x # p => n[x] = en[x]
    BY DEF Consistent, Typed
  <1>4. Typed(K, f, q, n, a, "wait", m + 1)
    <2>1. a \in Addrs /\ a # NoJob /\ m + 1 \in Nat
      BY <1>1, AddrsAssumption
    <2>. QED  BY <1>1, <1>2, <1>3, <2>1 DEF Typed
  <1>5. Numbered(K, f, a, m + 1)
    <2>1. \A b \in L : e[b].jobId > 0 /\ e[b].jobId \in Int /\ e[b].jobId # m + 1
      BY <1>1 DEF Consistent, Numbered, Record
    <2>2. m + 1 > 0
      BY <1>1
    <2>3. \A b, d \in L : e[b].jobId = e[d].jobId => b = d
      BY DEF Consistent, Numbered
    <2>. QED  BY <1>2, <2>1, <2>2, <2>3 DEF Numbered
  <1>6. Started(K, f, q, a, "wait")
    BY <1>1, <1>2 DEF Started
  <1>7. ASSUME r = 0 PROVE Undisturbed(K, f, q, n, a, "wait")
    <2>1. Undisturbed(L, e, pr, en, NoJob, "prompt")
      BY <1>7 DEF Consistent
    <2>2. OneEntry(K, f, q, n, a)
      BY <1>1, <1>2, <2>1 DEF Undisturbed, OneEntry
    <2>3. FinishedEnds(f, q)
      BY <1>1, <1>2, <2>1 DEF Undisturbed, FinishedEnds
    <2>4. AliveListed(K, f, q, n, a, "wait")
      BY <1>1, <1>2, <1>3, <2>1 DEF Undisturbed, AliveListed
    <2>5. StoppedMarked(K, f, q, n, a, "wait")
      BY <1>1, <1>2, <2>1 DEF Undisturbed, StoppedMarked
    <2>6. NotWaitedFor(K, f, q, n, a, "wait")
      BY <1>1, <1>2, <1>3, <2>1 DEF Undisturbed, NotWaitedFor
    <2>. QED  BY <2>2, <2>3, <2>4, <2>5, <2>6 DEF Undisturbed
  <1>. QED  BY <1>4, <1>5, <1>6, <1>7 DEF Consistent

-----------------------------------------------------------------------------
(* What happens between the commands.                                      *)

(* The entries of a consistent state.                                      *)
LEMMA EntryFacts ==
    ASSUME NEW L, L \subseteq Addrs, NEW e, NEW pr, NEW en, NEW fg, NEW c,
           NEW m, NEW r, Consistent(L, e, pr, en, fg, c, m, r)
    PROVE  /\ L \subseteq DOMAIN e
           /\ e \in [DOMAIN e -> Record] /\ pr \in [Pids -> States]
           /\ \A a \in DOMAIN e : /\ e[a].jobProcessId \in Pids
                                  /\ e[a].jobId \in Int
           /\ c \notin {"prompt", "exited"} => fg \in DOMAIN e /\ fg # NoJob
  <1>1. /\ DOMAIN e = L \cup ({fg} \ {NoJob}) /\ e \in [DOMAIN e -> Record]
        /\ pr \in [Pids -> States]
        /\ fg = NoJob <=> c \in {"prompt", "exited"}
    BY DEF Consistent, Typed
  <1>2. \A a \in DOMAIN e : e[a].jobProcessId \in Pids /\ e[a].jobId \in Int
    BY <1>1 DEF Record
  <1>. QED  BY <1>1, <1>2

(* A process exits.                                                        *)
LEMMA Died ==
    ASSUME NEW L, L \subseteq Addrs, NEW e, NEW pr, NEW en, NEW fg, NEW c,
           NEW m, NEW r, Consistent(L, e, pr, en, fg, c, m, r),
           NEW p \in Pids, pr[p] \in {"running", "dying"},
           NEW q, q = [pr EXCEPT ![p] = "zombie"]
    PROVE  Consistent(L, e, q, en, fg, c, m, r)
  <1>1. /\ L \subseteq DOMAIN e
        /\ e \in [DOMAIN e -> Record] /\ pr \in [Pids -> States]
        /\ \A a \in DOMAIN e : e[a].jobProcessId \in Pids
        /\ c \notin {"prompt", "exited"} => fg \in DOMAIN e /\ fg # NoJob
    BY EntryFacts
  <1>2. /\ q \in [Pids -> States]
        /\ \A x \in Pids : \/ q[x] = pr[x]
                           \/ pr[x] \in {"running", "dying"} /\ q[x] = "zombie"
    BY <1>1 DEF States
  <1>3. Typed(L, e, q, en, fg, c, m)
    BY <1>2 DEF Consistent, Typed
  <1>4. Numbered(L, e, fg, m)
    BY DEF Consistent
  <1>5. Started(L, e, q, fg, c)
    BY <1>1, <1>2 DEF Consistent, Started
  <1>6. ASSUME r = 0 PROVE Undisturbed(L, e, q, en, fg, c)
    <2>1. Undisturbed(L, e, pr, en, fg, c)
      BY <1>6 DEF Consistent
    <2>2. OneEntry(L, e, q, en, fg)
      <3>1. fg # NoJob => fg \in DOMAIN e
        BY DEF Consistent, Typed
      <3>2. fg # NoJob /\ q[e[fg].jobProcessId] = "running"
                => pr[e[fg].jobProcessId] = "running"
        BY <1>1, <1>2, <3>1
      <3>. QED  BY <2>1, <3>2 DEF Undisturbed, OneEntry
    <2>3. FinishedEnds(e, q)
      BY <1>1, <1>2, <2>1 DEF Undisturbed, FinishedEnds, Alive
    <2>4. AliveListed(L, e, q, en, fg, c)
      BY <1>1, <1>2, <2>1 DEF Undisturbed, AliveListed, Alive
    <2>5. StoppedMarked(L, e, q, en, fg, c)
      BY <1>1, <1>2, <2>1 DEF Undisturbed, StoppedMarked
    <2>6. NotWaitedFor(L, e, q, en, fg, c)
      BY <1>1, <1>2, <2>1 DEF Undisturbed, NotWaitedFor
    <2>. QED  BY <2>2, <2>3, <2>4, <2>5, <2>6 DEF Undisturbed
  <1>. QED  BY <1>3, <1>4, <1>5, <1>6 DEF Consistent

(* A signal that does not come from the shell: the process is an exception *)
(* of every part that speaks of single processes from now on.              *)
LEMMA Strayed ==
    ASSUME NEW L, L \subseteq Addrs, NEW e, NEW pr, NEW en, NEW fg, NEW c,
           NEW m, NEW r, Consistent(L, e, pr, en, fg, c, m, r),
           NEW p \in Pids, pr[p] \in Alive, NEW sig \in 1..64,
           NEW q, q = [pr EXCEPT ![p] = Deliver(@, sig)],
           NEW n, n = [en EXCEPT ![p] = "stray"]
    PROVE  Consistent(L, e, q, n, fg, c, m, r)
  <1>1. /\ L \subseteq DOMAIN e
        /\ e \in [DOMAIN e -> Record] /\ pr \in [Pids -> States]
        /\ \A a \in DOMAIN e : e[a].jobProcessId \in Pids
        /\ c \notin {"prompt", "exited"} => fg \in DOMAIN e /\ fg # NoJob
    BY EntryFacts
  <1>2. /\ fg # NoJob => fg \in DOMAIN e
        /\ en \in [Pids -> {"plain", "first", "second", "stray"}]
    BY DEF Consistent, Typed
  <1>3. /\ q \in [Pids -> States] /\ q[p] # "unborn" /\ q[p] # "gone"
        /\ \A x \in Pids : x # p => q[x] = pr[x]
    <2>1. /\ Deliver(pr[p], sig) \in States
          /\ Deliver(pr[p], sig) # "unborn" /\ Deliver(pr[p], sig) # "gone"
      BY <1>1, Delivered DEF Alive
    <2>. QED  BY <1>1, <2>1
  <1>4. /\ n \in [Pids -> {"plain", "first", "second", "stray"}]
        /\ n[p] = "stray" /\ \A x \in Pids : x # p => n[x] = en[x]
    BY <1>2
  <1>5. Typed(L, e, q, n, fg, c, m)
    BY <1>3, <1>4 DEF Consistent, Typed
  <1>6. Numbered(L, e, fg, m)
    BY DEF Consistent
  <1>7. Started(L, e, q, fg, c)
    BY <1>1, <1>3 DEF Consistent, Started
  <1>8. ASSUME r = 0 PROVE Undisturbed(L, e, q, n, fg, c)
    <2>1. Undisturbed(L, e, pr, en, fg, c)
      BY <1>8 DEF Consistent
    <2>2. OneEntry(L, e, q, n, fg)
      BY <1>1, <1>2, <1>3, <1>4, <2>1 DEF Undisturbed, OneEntry
    <2>3. FinishedEnds(e, q)
      BY <1>1, <1>3, <2>1 DEF Undisturbed, FinishedEnds
    <2>4. AliveListed(L, e, q, n, fg, c)
      BY <1>1, <1>3, <1>4, <2>1 DEF Undisturbed, AliveListed
    <2>5. StoppedMarked(L, e, q, n, fg, c)
      BY <1>1, <1>3, <1>4, <2>1 DEF Undisturbed, StoppedMarked
    <2>6. NotWaitedFor(L, e, q, n, fg, c)
      BY <1>1, <1>3, <1>4, <2>1 DEF Undisturbed, NotWaitedFor
    <2>. QED  BY <2>2, <2>3, <2>4, <2>5, <2>6 DEF Undisturbed
  <1>. QED  BY <1>5, <1>6, <1>7, <1>8 DEF Consistent

(* fg continues its job.                                                   *)
LEMMA Continued ==
    ASSUME NEW L, L \subseteq Addrs, NEW e, NEW pr, NEW en, NEW fg,
           NEW m, NEW r, Consistent(L, e, pr, en, fg, "fg_cont", m, r),
           NEW p, p = e[fg].jobProcessId,
           NEW q, q = [pr EXCEPT ![p] = Deliver(@, 18)]
    PROVE  Consistent(L, e, q, en, fg, "fg_remove", m, r)
  <1>1. /\ L \subseteq DOMAIN e
        /\ e \in [DOMAIN e -> Record] /\ pr \in [Pids -> States]
        /\ \A a \in DOMAIN e : e[a].jobProcessId \in Pids
        /\ fg \in DOMAIN e /\ fg # NoJob /\ p \in Pids
    BY EntryFacts
  <1>2. /\ DOMAIN q = Pids /\ q[p] = Deliver(pr[p], 18)
        /\ \A x \in Pids : x # p => q[x] = pr[x]
    BY <1>1
  <1>3. /\ q \in [Pids -> States] /\ q[p] # "stopped"
        /\ \A x \in Pids : /\ pr[x] # "unborn" => q[x] # "unborn"
                           /\ q[x] = "gone" => pr[x] = "gone"
                           /\ q[x] \in Alive => pr[x] \in Alive
                           /\ q[x] = "stopped" => pr[x] = "stopped"
    <2>1. \A x \in Pids : /\ q[x] \in States
                          /\ pr[x] # "unborn" => q[x] # "unborn"
                          /\ q[x] = "gone" => pr[x] = "gone"
                          /\ q[x] \in Alive => pr[x] \in Alive
      BY <1>1, <1>2, Delivered
    <2>2. q[p] # "stopped"
      BY <1>1, <1>2, Delivered
    <2>3. q = [x \in Pids |-> q[x]]
      BY <1>1
    <2>. QED  BY <1>2, <2>1, <2>2, <2>3
  <1>4. fg \in L /\ e[fg].jobId > 0
    BY DEF Consistent, Started, Numbered
  <1>5. Typed(L, e, q, en, fg, "fg_remove", m)
    BY <1>1, <1>3 DEF Consistent, Typed
  <1>6. Numbered(L, e, fg, m)
    BY DEF Consistent
  <1>7. Started(L, e, q, fg, "fg_remove")
    BY <1>1, <1>3 DEF Consistent, Started
  <1>8. ASSUME r = 0 PROVE Undisturbed(L, e, q, en, fg, "fg_remove")
    <2>1. Undisturbed(L, e, pr, en, fg, "fg_cont")
      BY <1>8 DEF Consistent
    <2>2. OneEntry(L, e, q, en, fg)
      BY <1>4, <2>1 DEF Undisturbed, OneEntry
    <2>3. FinishedEnds(e, q)
      BY <1>1, <1>3, <2>1 DEF Undisturbed, FinishedEnds
    <2>4. AliveListed(L, e, q, en, fg, "fg_remove")
      BY <1>3, <2>1 DEF Undisturbed, AliveListed
    <2>5. StoppedMarked(L, e, q, en, fg, "fg_remove")
      BY <1>1, <1>3, <2>1 DEF Undisturbed, StoppedMarked
    <2>6. NotWaitedFor(L, e, q, en, fg, "fg_remove")
      BY <1>1, <1>3, <2>1 DEF Undisturbed, NotWaitedFor
    <2>. QED  BY <2>2, <2>3, <2>4, <2>5, <2>6 DEF Undisturbed
  <1>. QED  BY <1>5, <1>6, <1>7, <1>8 DEF Consistent

(* fg takes its job out of the list.                                       *)
LEMMA Removed ==
    ASSUME NEW L, L \subseteq Addrs, NEW e, NEW pr, NEW en, NEW fg,
           NEW m, NEW r, Consistent(L, e, pr, en, fg, "fg_remove", m, r),
           NEW n \in Nat
    PROVE  Consistent(L \ {fg}, e, pr, en, fg, "wait", n, r)
  <1>. DEFINE K == L \ {fg}
  <1>1. /\ L \subseteq DOMAIN e /\ fg \in DOMAIN e /\ fg # NoJob
        /\ \A a \in DOMAIN e : e[a].jobProcessId \in Pids
    BY EntryFacts
  <1>2. fg \in L /\ e[fg].jobId > 0 /\ fg \notin K /\ K \subseteq L
    BY DEF Consistent, Started, Numbered
  <1>3. Typed(K, e, pr, en, fg, "wait", n)
    BY <1>1, <1>2 DEF Consistent, Typed
  <1>4. Numbered(K, e, fg, n)
    BY <1>1, <1>2 DEF Consistent, Numbered
  <1>5. Started(K, e, pr, fg, "wait")
    BY DEF Consistent, Started
  <1>6. ASSUME r = 0 PROVE Undisturbed(K, e, pr, en, fg, "wait")
    <2>1. Undisturbed(L, e, pr, en, fg, "fg_remove")
      BY <1>6 DEF Consistent
    <2>2. OneEntry(K, e, pr, en, fg)
      BY <1>2, <2>1 DEF Undisturbed, OneEntry
    <2>3. FinishedEnds(e, pr)
      BY <2>1 DEF Undisturbed
    <2>4. AliveListed(K, e, pr, en, fg, "wait")
      BY <1>2, <2>1 DEF Undisturbed, AliveListed, Alive
    <2>5. StoppedMarked(K, e, pr, en, fg, "wait")
      BY <1>2, <2>1 DEF Undisturbed, StoppedMarked
    <2>6. NotWaitedFor(K, e, pr, en, fg, "wait")
      BY <1>2, <2>1 DEF Undisturbed, NotWaitedFor, OneEntry
    <2>. QED  BY <2>2, <2>3, <2>4, <2>5, <2>6 DEF Undisturbed
  <1>. QED  BY <1>3, <1>4, <1>5, <1>6 DEF Consistent

(* The shell's waitpid returns.                                            *)
LEMMA Waited ==
    ASSUME NEW L, L \subseteq Addrs, NEW e, NEW pr, NEW en, NEW fg,
           NEW m, NEW r, Consistent(L, e, pr, en, fg, "wait", m, r),
           NEW p, p = e[fg].jobProcessId,
           pr[p] \in {"stopped", "zombie", "gone"},
           NEW q, q = [pr EXCEPT ![p] = IF @ = "zombie" THEN "gone" ELSE @]
    PROVE  Consistent(L, e, q, en, fg, "reset", m, r)
  <1>1. /\ L \subseteq DOMAIN e
        /\ e \in [DOMAIN e -> Record] /\ pr \in [Pids -> States]
        /\ \A a \in DOMAIN e : e[a].jobProcessId \in Pids
        /\ fg \in DOMAIN e /\ fg # NoJob /\ p \in Pids
    BY EntryFacts
  <1>2. /\ q \in [Pids -> States]
        /\ \A x \in Pids : \/ q[x] = pr[x]
                           \/ x = p /\ pr[x] = "zombie" /\ q[x] = "gone"
    BY <1>1 DEF States
  <1>3. Typed(L, e, q, en, fg, "reset", m)
    BY <1>1, <1>2 DEF Consistent, Typed
  <1>4. Numbered(L, e, fg, m)
    BY DEF Consistent
  <1>5. Started(L, e, q, fg, "reset")
    BY <1>1, <1>2 DEF Consistent, Started
  <1>6. ASSUME r = 0 PROVE Undisturbed(L, e, q, en, fg, "reset")
    <2>1. Undisturbed(L, e, pr, en, fg, "wait")
      BY <1>6 DEF Consistent
    <2>2. OneEntry(L, e, q, en, fg)
      BY <1>1, <1>2, <2>1 DEF Undisturbed, OneEntry
    <2>3. FinishedEnds(e, q)
      BY <1>1, <1>2, <2>1 DEF Undisturbed, FinishedEnds, Alive
    <2>4. AliveListed(L, e, q, en, fg, "reset")
      BY <1>2, <2>1 DEF Undisturbed, AliveListed, Alive
    <2>5. StoppedMarked(L, e, q, en, fg, "reset")
      BY <1>1, <1>2, <2>1 DEF Undisturbed, StoppedMarked
    <2>6. NotWaitedFor(L, e, q, en, fg, "reset")
      BY <1>1, <1>2, <2>1 DEF Undisturbed, NotWaitedFor
    <2>. QED  BY <2>2, <2>3, <2>4, <2>5, <2>6 DEF Undisturbed
  <1>. QED  BY <1>3, <1>4, <1>5, <1>6 DEF Consistent

(* The shell has no foreground job any more.                               *)
LEMMA Unset ==
    ASSUME NEW L, L \subseteq Addrs, NEW e, NEW pr, NEW en, NEW fg,
           NEW m, NEW r, Consistent(L, e, pr, en, fg, "reset", m, r)
    PROVE  Consistent(L, Reachable(e, L), pr, en, NoJob, "prompt", m, r)
  <1>. DEFINE f == Reachable(e, L)
  <1>1. L \subseteq DOMAIN e /\ e \in [DOMAIN e -> Record]
    BY EntryFacts
  <1>2. DOMAIN f = L /\ f \in [L -> Record] /\ \A a \in L : f[a] = e[a]
    BY <1>1 DEF Reachable
  <1>. HIDE DEF f
  <1>3. Typed(L, f, pr, en, NoJob, "prompt", m)
    BY <1>2 DEF Consistent, Typed
  <1>4. Numbered(L, f, NoJob, m)
    BY <1>2 DEF Consistent, Numbered
  <1>5. Started(L, f, pr, NoJob, "prompt")
    BY <1>1, <1>2 DEF Consistent, Started
  <1>6. ASSUME r = 0 PROVE Undisturbed(L, f, pr, en, NoJob, "prompt")
    <2>1. Undisturbed(L, e, pr, en, fg, "reset")
      BY <1>6 DEF Consistent
    <2>2. OneEntry(L, f, pr, en, NoJob)
      BY <1>2, <2>1 DEF Undisturbed, OneEntry
    <2>3. FinishedEnds(f, pr)
      BY <1>1, <1>2, <2>1 DEF Undisturbed, FinishedEnds
    <2>4. AliveListed(L, f, pr, en, NoJob, "prompt")
      BY <1>2, <2>1 DEF Undisturbed, AliveListed
    <2>5. StoppedMarked(L, f, pr, en, NoJob, "prompt")
      BY <1>2, <2>1 DEF Undisturbed, StoppedMarked
    <2>6. NotWaitedFor(L, f, pr, en, NoJob, "prompt")
      BY <1>2, <2>1 DEF Undisturbed, NotWaitedFor
    <2>. QED  BY <2>2, <2>3, <2>4, <2>5, <2>6 DEF Undisturbed
  <1>. QED  BY <1>3, <1>4, <1>5, <1>6 DEF Consistent, f

-----------------------------------------------------------------------------
(* The handlers.  r is raced before the key and n after it: n is 0 only if *)
(* the shell was in waitpid with its process running.                      *)

(* ctrl-C.                                                                 *)
LEMMA Interrupted ==
    ASSUME NEW L, L \subseteq Addrs, NEW e, NEW pr, NEW en, NEW fg, NEW c,
           NEW m, NEW r, Consistent(L, e, pr, en, fg, c, m, r), fg # NoJob,
           NEW p, p = e[fg].jobProcessId,
           NEW q, q = [pr EXCEPT ![p] = Deliver(@, 9)],
           NEW n, n = 0 => r = 0 /\ c = "wait" /\ pr[p] = "running"
    PROVE  Consistent(L, setJobStatus(e, fg, "Finished"), q, en, fg, c, m, n)
  <1>. DEFINE f == setJobStatus(e, fg, "Finished")
  <1>1. /\ L \subseteq DOMAIN e
        /\ e \in [DOMAIN e -> Record] /\ pr \in [Pids -> States]
        /\ \A a \in DOMAIN e : e[a].jobProcessId \in Pids
        /\ fg \in DOMAIN e /\ p \in Pids
    <2>1. c \notin {"prompt", "exited"}
      BY DEF Consistent, Typed
    <2>. QED  BY <2>1, EntryFacts
  <1>2. /\ DOMAIN f = DOMAIN e /\ f \in [DOMAIN e -> Record]
        /\ \A b \in DOMAIN e :
              /\ f[b].jobId = e[b].jobId
              /\ f[b].jobProcessId = e[b].jobProcessId
              /\ f[b].jobStatus = IF b = fg THEN "Finished" ELSE e[b].jobStatus
    BY <1>1, StatusSet DEF Statuses
  <1>. HIDE DEF f
  <1>3. /\ DOMAIN q = Pids /\ q[p] = Deliver(pr[p], 9)
        /\ \A x \in Pids : x # p => q[x] = pr[x]
    BY <1>1
  <1>4. /\ q \in [Pids -> States] /\ q[p] \notin Alive
        /\ \A x \in Pids : /\ pr[x] # "unborn" => q[x] # "unborn"
                           /\ q[x] = "gone" => pr[x] = "gone"
                           /\ q[x] \in Alive => q[x] = pr[x] /\ x # p
    <2>1. \A x \in Pids : /\ q[x] \in States
                          /\ pr[x] # "unborn" => q[x] # "unborn"
                          /\ q[x] = "gone" => pr[x] = "gone"
      BY <1>1, <1>3, Delivered
    <2>2. q[p] \notin Alive
      BY <1>1, <1>3, Delivered
    <2>3. q = [x \in Pids |-> q[x]]
      BY <1>1
    <2>. QED  BY <1>3, <2>1, <2>2, <2>3
  <1>5. Typed(L, f, q, en, fg, c, m)
    BY <1>2, <1>4 DEF Consistent, Typed
  <1>6. Numbered(L, f, fg, m)
    BY <1>1, <1>2 DEF Consistent, Numbered
  <1>7. Started(L, f, q, fg, c)
    BY <1>1, <1>2, <1>4 DEF Consistent, Started
  <1>8. ASSUME n = 0 PROVE Undisturbed(L, f, q, en, fg, c)
    <2>1. Undisturbed(L, e, pr, en, fg, "wait") /\ c = "wait"
          /\ pr[p] = "running"
      BY <1>8 DEF Consistent
    <2>2. OneEntry(L, f, q, en, fg)
      BY <1>1, <1>2, <2>1 DEF Undisturbed, OneEntry
    <2>3. FinishedEnds(f, q)
      BY <1>1, <1>2, <1>4, <2>1 DEF Undisturbed, FinishedEnds
    <2>4. AliveListed(L, f, q, en, fg, c)
      BY <1>1, <1>2, <1>4, <2>1 DEF Undisturbed, AliveListed
    <2>5. StoppedMarked(L, f, q, en, fg, c)
      <3>1. \A a \in L : q[f[a].jobProcessId] = "stopped" =>
                pr[e[a].jobProcessId] = "stopped" /\ a # fg
        BY <1>1, <1>2, <1>4 DEF Alive
      <3>. QED  BY <1>1, <1>2, <2>1, <3>1 DEF Undisturbed, StoppedMarked
    <2>6. NotWaitedFor(L, f, q, en, fg, c)
      BY <1>1, <1>2, <1>4, <2>1 DEF Undisturbed, NotWaitedFor
    <2>. QED  BY <2>2, <2>3, <2>4, <2>5, <2>6 DEF Undisturbed
  <1>. QED  BY <1>5, <1>6, <1>7, <1>8 DEF Consistent, f

(* What ctrl-Z does to the processes and to the entry of the foreground    *)
(* job.                                                                    *)
Stop(e, pr, q, f, fg, p) ==
    /\ DOMAIN f = DOMAIN e /\ f \in [DOMAIN e -> Record]
    /\ \A b \in DOMAIN e :
          /\ f[b].jobId = e[b].jobId
          /\ f[b].jobProcessId = e[b].jobProcessId
          /\ f[b].jobStatus = IF b = fg THEN "Stopped" ELSE e[b].jobStatus
    /\ q \in [Pids -> States]
    /\ pr[p] \in Alive => q[p] = "stopped"
    /\ pr[p] # "running" => q[p] # "running"
    /\ \A x \in Pids : /\ x # p => q[x] = pr[x]
                       /\ pr[x] # "unborn" => q[x] # "unborn"
                       /\ q[x] = "gone" => pr[x] = "gone"
                       /\ q[x] \in Alive => pr[x] \in Alive

(* The signal of ctrl-Z stops the process if it is alive, and the entry of *)
(* the foreground job is marked.                                           *)
LEMMA StopFacts ==
    ASSUME NEW e, e \in [DOMAIN e -> Record], NEW pr \in [Pids -> States],
           NEW fg \in DOMAIN e, NEW p \in Pids
    PROVE  Stop(e, pr, [pr EXCEPT ![p] = Deliver(@, 19)],
                setJobStatus(e, fg, "Stopped"), fg, p)
  <1>. DEFINE f == setJobStatus(e, fg, "Stopped")
              q == [pr EXCEPT ![p] = Deliver(@, 19)]
  <1>1. /\ DOMAIN f = DOMAIN e /\ f \in [DOMAIN e -> Record]
        /\ \A b \in DOMAIN e :
              /\ f[b].jobId = e[b].jobId
              /\ f[b].jobProcessId = e[b].jobProcessId
              /\ f[b].jobStatus = IF b = fg THEN "Stopped" ELSE e[b].jobStatus
    BY StatusSet DEF Statuses
  <1>2. /\ DOMAIN q = Pids /\ q[p] = Deliver(pr[p], 19)
        /\ \A x \in Pids : x # p => q[x] = pr[x]
        /\ q = [x \in Pids |-> q[x]]
    OBVIOUS
  <1>3. /\ pr[p] \in Alive => q[p] = "stopped"
        /\ pr[p] # "running" => q[p] # "running"
    <2>1. pr[p] \in Alive => Deliver(pr[p], 19) = "stopped"
      BY Delivered
    <2>2. pr[p] \notin Alive => Deliver(pr[p], 19) = pr[p]
      BY Delivered
    <2>. QED  BY <1>2, <2>1, <2>2
  <1>. HIDE DEF f, q
  <1>4. \A x \in Pids : /\ q[x] \in States
                        /\ pr[x] # "unborn" => q[x] # "unborn"
                        /\ q[x] = "gone" => pr[x] = "gone"
                        /\ q[x] \in Alive => pr[x] \in Alive
    BY <1>2, Delivered
  <1>5. q \in [Pids -> States]
    BY <1>2, <1>4
  <1>6. Stop(e, pr, q, f, fg, p)
    BY <1>1, <1>2, <1>3, <1>4, <1>5 DEF Stop
  <1>. QED  BY <1>6 DEF f, q

(* ctrl-Z with a job that fg took out of the list, or that is still in it. *)
LEMMA Relisted ==
    ASSUME NEW L, L \subseteq Addrs, NEW e, NEW pr, NEW en, NEW fg, NEW c,
           NEW m, NEW r, Consistent(L, e, pr, en, fg, c, m, r), fg # NoJob,
           e[fg].jobId # -1,
           NEW p, p = e[fg].jobProcessId,
           NEW q, NEW f, Stop(e, pr, q, f, fg, p),
           NEW n, n = 0 => r = 0 /\ c = "wait" /\ pr[p] = "running"
    PROVE  Consistent(L \cup {fg}, f, q, en, fg, c, m, n)
  <1>. DEFINE K == L \cup {fg}
  <1>1. /\ L \subseteq DOMAIN e
        /\ \A a \in DOMAIN e : e[a].jobProcessId \in Pids
        /\ fg \in DOMAIN e /\ p \in Pids /\ K \subseteq DOMAIN e
    <2>1. c \notin {"prompt", "exited"}
      BY DEF Consistent, Typed
    <2>. QED  BY <2>1, EntryFacts, ZenonT(40)
  <1>2. /\ DOMAIN f = DOMAIN e /\ f \in [DOMAIN f -> Record]
        /\ \A b \in DOMAIN e :
              /\ f[b].jobId = e[b].jobId
              /\ f[b].jobProcessId = e[b].jobProcessId
              /\ f[b].jobStatus = IF b = fg THEN "Stopped" ELSE e[b].jobStatus
    BY DEF Stop
  <1>3. /\ q \in [Pids -> States]
        /\ pr[p] \in Alive => q[p] = "stopped"
        /\ \A x \in Pids : /\ x # p => q[x] = pr[x]
                           /\ pr[x] # "unborn" => q[x] # "unborn"
                           /\ q[x] = "gone" => pr[x] = "gone"
                           /\ q[x] \in Alive => pr[x] \in Alive
    BY DEF Stop
  <1>4. Typed(K, f, q, en, fg, c, m)
    BY <1>2, <1>3 DEF Consistent, Typed
  <1>5. Numbered(K, f, fg, m)
    <2>1. /\ \A a \in L : e[a].jobId > 0
          /\ \A a, b \in L : e[a].jobId = e[b].jobId => a = b
          /\ e[fg].jobId > 0 /\ \A a \in L : e[a].jobId = e[fg].jobId => a = fg
      BY DEF Consistent, Numbered
    <2>. QED  BY <1>1, <1>2, <2>1 DEF Numbered
  <1>6. Started(K, f, q, fg, c)
    BY <1>1, <1>2, <1>3 DEF Consistent, Started
  <1>7. ASSUME n = 0 PROVE Undisturbed(K, f, q, en, fg, c)
    <2>1. /\ Undisturbed(L, e, pr, en, fg, "wait") /\ c = "wait"
          /\ pr[p] = "running" /\ q[p] = "stopped"
      BY <1>3, <1>7 DEF Consistent, Alive
    <2>2. /\ \A a, b \in L :
                /\ e[a].jobProcessId = e[b].jobProcessId
                /\ en[e[a].jobProcessId] # "stray"
                => a = b
          /\ en[p] # "stray" => \A a \in L : e[a].jobProcessId = p => a = fg
      BY <2>1 DEF Undisturbed, OneEntry
    <2>3. OneEntry(K, f, q, en, fg)
      BY <1>1, <1>2, <2>2 DEF OneEntry
    <2>4. FinishedEnds(f, q)
      BY <1>1, <1>2, <1>3, <2>1 DEF Undisturbed, FinishedEnds
    <2>5. AliveListed(K, f, q, en, fg, c)
      BY <1>1, <1>2, <1>3, <2>1 DEF Undisturbed, AliveListed
    <2>6. StoppedMarked(K, f, q, en, fg, c)
      BY <1>1, <1>2, <1>3, <2>1, <2>2 DEF Undisturbed, StoppedMarked
    <2>7. NotWaitedFor(K, f, q, en, fg, c)
      BY <1>1, <1>2, <1>3, <2>1 DEF Undisturbed, NotWaitedFor
    <2>. QED  BY <2>3, <2>4, <2>5, <2>6, <2>7 DEF Undisturbed
  <1>. QED  BY <1>4, <1>5, <1>6, <1>7 DEF Consistent

(* ctrl-Z with a command that has no entry in the list yet.                *)
LEMMA NewlyListed ==
    ASSUME NEW L, L \subseteq Addrs, NEW e, NEW pr, NEW en, NEW fg, NEW c,
           NEW m, NEW r, Consistent(L, e, pr, en, fg, c, m, r), fg # NoJob,
           e[fg].jobId = -1,
           NEW p, p = e[fg].jobProcessId,
           NEW q, NEW f, Stop(e, pr, q, f, fg, p),
           NEW a \in Addrs \ DOMAIN f,
           NEW g, g = Add(f, a, m + 1, p, "Stopped"),
           NEW n, n = 0 => r = 0 /\ c = "wait" /\ pr[p] = "running"
    PROVE  Consistent(L \cup {a}, g, q, en, fg, c, m + 1, n)
  <1>. DEFINE K == L \cup {a}
  <1>1. /\ L \subseteq DOMAIN e
        /\ \A b \in DOMAIN e : e[b].jobProcessId \in Pids
        /\ \A b \in DOMAIN e : e[b].jobId \in Int
        /\ fg \in DOMAIN e /\ p \in Pids
    <2>1. c \notin {"prompt", "exited"}
      BY DEF Consistent, Typed
    <2>. QED  BY <2>1, EntryFacts
  <1>2. /\ DOMAIN f = DOMAIN e /\ f \in [DOMAIN f -> Record]
        /\ \A b \in DOMAIN e :
              /\ f[b].jobId = e[b].jobId
              /\ f[b].jobProcessId = e[b].jobProcessId
              /\ f[b].jobStatus = IF b = fg THEN "Stopped" ELSE e[b].jobStatus
    BY DEF Stop
  <1>3. /\ q \in [Pids -> States]
        /\ pr[p] \in Alive => q[p] = "stopped"
        /\ \A x \in Pids : /\ x # p => q[x] = pr[x]
                           /\ pr[x] # "unborn" => q[x] # "unborn"
                           /\ q[x] = "gone" => pr[x] = "gone"
                           /\ q[x] \in Alive => pr[x] \in Alive
    BY DEF Stop
  <1>4. m \in Nat /\ m + 1 \in Nat
    BY DEF Consistent, Typed
  <1>5. /\ DOMAIN g = DOMAIN e \cup {a} /\ g \in [DOMAIN g -> Record]
        /\ \A b \in DOMAIN e : g[b] = f[b] /\ b # a
        /\ g[a].jobId = m + 1 /\ g[a].jobProcessId = p
        /\ g[a].jobStatus = "Stopped"
    <2>1. m + 1 \in Nat \cup {-1} /\ a \notin DOMAIN f /\ "Stopped" \in Statuses
      BY <1>4 DEF Statuses
    <2>2. Added(f, g, a, m + 1, p, "Stopped")
      BY <1>1, <1>2, <2>1, EntryAdded
    <2>. QED  BY <1>2, <2>2 DEF Added
  <1>6. /\ K \subseteq DOMAIN g /\ fg # a
        /\ \A b \in DOMAIN e :
              /\ g[b].jobId = e[b].jobId
              /\ g[b].jobProcessId = e[b].jobProcessId
              /\ g[b].jobStatus = IF b = fg THEN "Stopped" ELSE e[b].jobStatus
    BY <1>1, <1>2, <1>5
  <1>7. Typed(K, g, q, en, fg, c, m + 1)
    BY <1>3, <1>4, <1>5 DEF Consistent, Typed
  <1>8. /\ \A b \in L : e[b].jobId > 0 /\ e[b].jobId <= m
        /\ \A b, d \in L : e[b].jobId = e[d].jobId => b = d
        /\ fg \notin L
    BY DEF Consistent, Numbered
  <1>9. Numbered(K, g, fg, m + 1)
    <2>1. \A b \in L : e[b].jobId <= m + 1 /\ e[b].jobId # m + 1
      BY <1>1, <1>4, <1>8
    <2>2. m + 1 > 0 /\ m + 1 <= m + 1
      BY <1>4
    <2>. QED  BY <1>1, <1>5, <1>6, <1>8, <2>1, <2>2 DEF Numbered
  <1>10. Started(K, g, q, fg, c)
    BY <1>1, <1>3, <1>5, <1>6 DEF Consistent, Started
  <1>11. ASSUME n = 0 PROVE Undisturbed(K, g, q, en, fg, c)
    <2>1. /\ Undisturbed(L, e, pr, en, fg, "wait") /\ c = "wait"
          /\ pr[p] = "running" /\ q[p] = "stopped"
      BY <1>3, <1>11 DEF Consistent, Alive
    <2>2. /\ \A b, d \in L :
                /\ e[b].jobProcessId = e[d].jobProcessId
                /\ en[e[b].jobProcessId] # "stray"
                => b = d
          /\ en[p] # "stray" => \A b \in L : e[b].jobProcessId # p
      BY <1>8, <2>1 DEF Undisturbed, OneEntry
    <2>3. OneEntry(K, g, q, en, fg)
      BY <1>1, <1>5, <1>6, <2>1, <2>2 DEF OneEntry
    <2>4. FinishedEnds(g, q)
      BY <1>1, <1>3, <1>5, <1>6, <2>1 DEF Undisturbed, FinishedEnds
    <2>5. AliveListed(K, g, q, en, fg, c)
      BY <1>1, <1>3, <1>5, <1>6, <2>1 DEF Undisturbed, AliveListed
    <2>6. StoppedMarked(K, g, q, en, fg, c)
      BY <1>1, <1>3, <1>5, <1>6, <2>1, <2>2 DEF Undisturbed, StoppedMarked
    <2>7. NotWaitedFor(K, g, q, en, fg, c)
      BY <1>1, <1>3, <1>5, <1>6, <2>1, <2>2 DEF Undisturbed, NotWaitedFor
    <2>. QED  BY <2>3, <2>4, <2>5, <2>6, <2>7 DEF Undisturbed
  <1>. QED  BY <1>7, <1>9, <1>10, <1>11 DEF Consistent

-----------------------------------------------------------------------------
(* Every step keeps the invariant.                                         *)

(* The state when a command has swept the list.                            *)
LEMMA AtPrompt ==
    ASSUME IInv, pc = "prompt"
    PROVE  /\ current_foreground_job = NoJob /\ raced \in 0..Races
           /\ Distinct(Unfinished) /\ ToSet(Unfinished) \subseteq Addrs
           /\ DOMAIN Swept = ToSet(Unfinished)
           /\ \A a \in ToSet(Unfinished) : Swept[a] = entry[a]
           /\ \A a \in ToSet(Unfinished) : Swept[a].jobId <= MaxUnfinished
           /\ Consistent(ToSet(Unfinished), Swept, Reaped, role, NoJob, "prompt",
                         MaxUnfinished, raced)
  <1>1. current_foreground_job = NoJob /\ raced \in 0..Races
    BY DEF IInv, Consistent, Typed
  <1>. QED  BY <1>1, SweptConsistent, ToSetFacts

(* A command that does nothing more.                                       *)
LEMMA OnlyRemoveFinishedInv ==
    ASSUME IInv, pc = "prompt", OnlyRemoveFinished
    PROVE  IInv'
  <1>1. /\ jobsList' = Unfinished /\ entry' = Swept /\ proc' = Reaped
        /\ role' = role /\ maxJobID' = MaxUnfinished /\ raced' = raced
        /\ current_foreground_job' = current_foreground_job /\ pc' = "prompt"
    BY DEF OnlyRemoveFinished, Swept
  <1>. QED  BY <1>1, AtPrompt DEF IInv

(* jobs.                                                                   *)
LEMMA JobsCommandInv ==
    ASSUME IInv, JobsCommand
    PROVE  IInv'
  <1>1. /\ jobsList' = SortedJobs /\ entry' = Swept /\ proc' = Reaped
        /\ role' = role /\ maxJobID' = MaxUnfinished /\ raced' = raced
        /\ current_foreground_job' = current_foreground_job
        /\ pc = "prompt" /\ pc' = "prompt"
    BY DEF JobsCommand, Swept
  <1>2. /\ current_foreground_job = NoJob /\ raced \in 0..Races
        /\ Distinct(Unfinished)
        /\ Consistent(ToSet(Unfinished), Swept, Reaped, role, NoJob, "prompt",
                      MaxUnfinished, raced)
    BY <1>1, AtPrompt
  <1>3. Distinct(SortedJobs) /\ ToSet(SortedJobs) = ToSet(Unfinished)
    BY <1>2, SortedFacts
  <1>. QED  BY <1>1, <1>2, <1>3 DEF IInv

(* fg.                                                                     *)
LEMMA ForegroundCommandInv ==
    ASSUME IInv, NEW i, ForegroundCommand(i)
    PROVE  IInv'
  <1>1. pc = "prompt"
    BY DEF ForegroundCommand
  <1>2. CASE OnlyRemoveFinished
    BY <1>1, <1>2, OnlyRemoveFinishedInv
  <1>3. CASE ~ OnlyRemoveFinished
    <2>. DEFINE job == FgJob(i)
    <2>1. /\ job # NoJob /\ jobsList' = Unfinished /\ proc' = Reaped
          /\ entry' = setJobStatus(Swept, job, "Foreground")
          /\ role' = role /\ maxJobID' = MaxUnfinished /\ raced' = raced
          /\ current_foreground_job' = job /\ pc' = "fg_cont"
      BY <1>3 DEF ForegroundCommand, Swept
    <2>2. /\ raced \in 0..Races
          /\ Distinct(Unfinished) /\ ToSet(Unfinished) \subseteq Addrs
          /\ Consistent(ToSet(Unfinished), Swept, Reaped, role, NoJob, "prompt",
                        MaxUnfinished, raced)
      BY <1>1, AtPrompt
    <2>3. job \in ToSet(Unfinished)
      BY <2>1, <2>2, JobByIdFacts DEF FgJob
    <2>. HIDE DEF job
    <2>4. Consistent(ToSet(Unfinished), setJobStatus(Swept, job, "Foreground"),
                     Reaped, role, job, "fg_cont", MaxUnfinished, raced)
      BY <2>2, <2>3, Foregrounded
    <2>. QED  BY <2>1, <2>2, <2>4 DEF IInv
  <1>. QED  BY <1>2, <1>3

(* bg.                                                                     *)
LEMMA BackgroundCommandInv ==
    ASSUME IInv, NEW i, BackgroundCommand(i)
    PROVE  IInv'
  <1>1. pc = "prompt"
    BY DEF BackgroundCommand
  <1>2. CASE OnlyRemoveFinished
    BY <1>1, <1>2, OnlyRemoveFinishedInv
  <1>3. CASE ~ OnlyRemoveFinished
    <2>. DEFINE job == BgJob(i)
    <2>1. /\ job # NoJob /\ jobsList' = Unfinished
          /\ proc' = [Reaped EXCEPT ![Pid(job)] = Deliver(@, 18)]
          /\ entry' = setJobStatus(Swept, job, "Background")
          /\ role' = role /\ maxJobID' = MaxUnfinished /\ raced' = raced
          /\ current_foreground_job' = current_foreground_job /\ pc' = "prompt"
      BY <1>1, <1>3 DEF BackgroundCommand, Swept
    <2>2. /\ current_foreground_job = NoJob /\ raced \in 0..Races
          /\ Distinct(Unfinished) /\ ToSet(Unfinished) \subseteq Addrs
          /\ \A a \in ToSet(Unfinished) : Swept[a] = entry[a]
          /\ Consistent(ToSet(Unfinished), Swept, Reaped, role, NoJob, "prompt",
                        MaxUnfinished, raced)
      BY <1>1, AtPrompt
    <2>3. job \in ToSet(Unfinished)
      BY <2>1, <2>2, JobByIdFacts DEF BgJob
    <2>. HIDE DEF job
    <2>4. Pid(job) = Swept[job].jobProcessId
      BY <2>2, <2>3 DEF Pid
    <2>5. Consistent(ToSet(Unfinished), setJobStatus(Swept, job, "Background"),
                     proc', role, NoJob, "prompt", MaxUnfinished, raced)
      <3>. DEFINE s == "Background"
                  sig == 18
      <3>1. /\ s \in Statuses /\ sig \in 1..64 /\ s # "Finished"
            /\ sig = 18 /\ sig # 19
            /\ proc' = [Reaped EXCEPT ![Pid(job)] = Deliver(@, sig)]
        BY <2>1 DEF Statuses
      <3>. HIDE DEF s, sig
      <3>2. Consistent(ToSet(Unfinished), setJobStatus(Swept, job, s),
                       proc', role, NoJob, "prompt", MaxUnfinished, raced)
        BY <2>2, <2>3, <2>4, <3>1, Signalled
      <3>. QED  BY <3>2 DEF s
    <2>. QED  BY <2>1, <2>2, <2>5 DEF IInv
  <1>. QED  BY <1>2, <1>3

(* kill.                                                                   *)
LEMMA KillCommandInv ==
    ASSUME IInv, NEW i, KillCommand(i)
    PROVE  IInv'
  <1>1. pc = "prompt"
    BY DEF KillCommand
  <1>2. CASE OnlyRemoveFinished
    BY <1>1, <1>2, OnlyRemoveFinishedInv
  <1>3. CASE ~ OnlyRemoveFinished
    <2>. DEFINE job == getJobById(Unfinished, i)
    <2>0. PICK sig \in Signals :
              /\ proc' = [Reaped EXCEPT ![Pid(job)] = Deliver(@, sig)]
              /\ entry' = setJobStatus(Swept, job, StatusAfter(sig, Status(job)))
      BY <1>1, <1>3 DEF KillCommand, Swept
    <2>. DEFINE s == StatusAfter(sig, Status(job))
    <2>1. /\ job # NoJob /\ jobsList' = Unfinished
          /\ proc' = [Reaped EXCEPT ![Pid(job)] = Deliver(@, sig)]
          /\ entry' = setJobStatus(Swept, job, s)
          /\ role' = role /\ maxJobID' = MaxUnfinished /\ raced' = raced
          /\ current_foreground_job' = current_foreground_job /\ pc' = "prompt"
      BY <1>1, <1>3, <2>0 DEF KillCommand, Swept
    <2>2. /\ current_foreground_job = NoJob /\ raced \in 0..Races
          /\ Distinct(Unfinished) /\ ToSet(Unfinished) \subseteq Addrs
          /\ DOMAIN Swept = ToSet(Unfinished)
          /\ \A a \in ToSet(Unfinished) : Swept[a] = entry[a]
          /\ Consistent(ToSet(Unfinished), Swept, Reaped, role, NoJob, "prompt",
                        MaxUnfinished, raced)
      BY <1>1, AtPrompt
    <2>3. job \in ToSet(Unfinished)
      BY <2>1, <2>2, JobByIdFacts
    <2>. HIDE DEF job
    <2>4. /\ Pid(job) = Swept[job].jobProcessId
          /\ Status(job) = Swept[job].jobStatus /\ Status(job) \in Statuses
      <3>1. Swept \in [ToSet(Unfinished) -> Record]
        BY <2>2 DEF Consistent, Typed
      <3>. QED  BY <2>2, <2>3, <3>1 DEF Pid, Status, Record
    <2>5. /\ s \in Statuses /\ sig \in 1..64
          /\ s = "Finished" => sig = 9 \/ Status(job) = "Finished"
          /\ sig = 19 => s = "Stopped"
          /\ sig \notin {9, 18, 19} => s = Swept[job].jobStatus
      BY <2>4, ChoicesAssumption DEF StatusAfter, Statuses
    <2>. HIDE DEF s
    <2>6. Consistent(ToSet(Unfinished), setJobStatus(Swept, job, s),
                     proc', role, NoJob, "prompt", MaxUnfinished, raced)
      BY <2>1, <2>2, <2>3, <2>4, <2>5, Signalled, ZenonT(40)
    <2>. QED  BY <2>1, <2>2, <2>6 DEF IInv
  <1>. QED  BY <1>2, <1>3

(* quit.                                                                   *)
LEMMA QuitCommandInv ==
    ASSUME IInv, NEW killAll \in BOOLEAN, QuitCommand(killAll)
    PROVE  IInv'
  <1>1. /\ pc = "prompt" /\ pc' = "exited" /\ jobsList' = Unfinished
        /\ proc' = IF killAll THEN killAllJobs ELSE Reaped
        /\ entry' = Swept /\ role' = role /\ maxJobID' = MaxUnfinished
        /\ raced' = raced /\ current_foreground_job' = current_foreground_job
    BY DEF QuitCommand, Swept
  <1>2. /\ current_foreground_job = NoJob /\ raced \in 0..Races
        /\ Distinct(Unfinished)
        /\ Consistent(ToSet(Unfinished), Swept, Reaped, role, NoJob, "prompt",
                      MaxUnfinished, raced)
    BY <1>1, AtPrompt
  <1>3. Reaped \in [Pids -> States]
    BY <1>2 DEF Consistent, Typed
  <1>4. /\ proc' \in [Pids -> States]
        /\ \A p \in Pids : proc'[p] = Reaped[p]
                           \/ proc'[p] = Deliver(Reaped[p], 9)
    <2>1. CASE ~ killAll
      BY <1>1, <1>3, <2>1
    <2>2. CASE killAll
      <3>. DEFINE listed == {Pid(a) : a \in KeptJobs}
      <3>1. proc' = [p \in Pids |-> IF p \in listed THEN Deliver(Reaped[p], 9)
                                                    ELSE Reaped[p]]
        BY <1>1, <2>2 DEF killAllJobs
      <3>. HIDE DEF listed
      <3>2. \A p \in Pids : Deliver(Reaped[p], 9) \in States
        BY <1>3, Delivered
      <3>. QED  BY <1>3, <3>1, <3>2
    <2>. QED  BY <2>1, <2>2
  <1>5. Consistent(ToSet(Unfinished), Swept, proc', role, NoJob, "exited",
                   MaxUnfinished, raced)
    BY <1>2, <1>4, Ended
  <1>. QED  BY <1>1, <1>2, <1>5 DEF IInv

(* A command with &.                                                       *)
LEMMA StartBackgroundInv ==
    ASSUME IInv, StartBackground
    PROVE  IInv'
  <1>1. pc = "prompt" /\ pc' = pc /\ raced' = raced /\ role' = role
        /\ current_foreground_job' = current_foreground_job
    BY DEF StartBackground
  <1>2. PICK p \in Unborn, a \in Addrs :
             /\ proc' = [Reaped EXCEPT ![p] = "running"]
             /\ AddJob(Unfinished, Swept, MaxUnfinished, p, "Background", a)
    BY DEF StartBackground, Swept
  <1>3. /\ current_foreground_job = NoJob /\ raced \in 0..Races
        /\ Distinct(Unfinished) /\ ToSet(Unfinished) \subseteq Addrs
        /\ DOMAIN Swept = ToSet(Unfinished)
        /\ \A b \in ToSet(Unfinished) : Swept[b].jobId <= MaxUnfinished
        /\ Consistent(ToSet(Unfinished), Swept, Reaped, role, NoJob, "prompt",
                      MaxUnfinished, raced)
    BY <1>1, AtPrompt
  <1>4. p \in Pids /\ Reaped[p] = "unborn"
    BY DEF Unborn, Reaped
  <1>5. /\ a \in Addrs \ ToSet(Unfinished)
        /\ jobsList' = Append(Unfinished, a)
        /\ entry' = Add(Swept, a, MaxUnfinished + 1, p, "Background")
        /\ maxJobID' = MaxUnfinished + 1
        /\ proc' = Run(Reaped, p)
    BY <1>2, <1>3 DEF AddJob, Add, Run
  <1>6. /\ Distinct(jobsList')
        /\ ToSet(jobsList') = ToSet(Unfinished) \cup {a}
    BY <1>3, <1>5, AppendFacts
  <1>7. Consistent(ToSet(Unfinished) \cup {a}, entry', proc', role, NoJob,
                   "prompt", MaxUnfinished + 1, raced)
    BY <1>3, <1>4, <1>5, StartedInBackground
  <1>. QED  BY <1>1, <1>3, <1>5, <1>6, <1>7 DEF IInv

(* A command without &.                                                    *)
LEMMA StartForegroundInv ==
    ASSUME IInv, StartForeground
    PROVE  IInv'
  <1>. DEFINE a == Min(Addrs \ DOMAIN Swept)
  <1>1. /\ pc = "prompt" /\ pc' = "wait" /\ raced' = raced /\ role' = role
        /\ jobsList' = Unfinished /\ maxJobID' = MaxUnfinished
        /\ Addrs \ DOMAIN Swept # {} /\ current_foreground_job' = a
    BY DEF StartForeground, Swept
  <1>2. PICK p \in Unborn :
             /\ proc' = Run(Reaped, p)
             /\ entry' = Add(Swept, a, -1, p, "Foreground")
    BY DEF StartForeground, Swept, Add, Run
  <1>3. /\ raced \in 0..Races
        /\ Distinct(Unfinished) /\ ToSet(Unfinished) \subseteq Addrs
        /\ DOMAIN Swept = ToSet(Unfinished)
        /\ \A b \in ToSet(Unfinished) : Swept[b].jobId <= MaxUnfinished
        /\ Consistent(ToSet(Unfinished), Swept, Reaped, role, NoJob, "prompt",
                      MaxUnfinished, raced)
    BY <1>1, AtPrompt
  <1>4. p \in Pids /\ Reaped[p] = "unborn"
    BY DEF Unborn, Reaped
  <1>5. a \in Addrs \ ToSet(Unfinished)
    <2>1. Addrs \ DOMAIN Swept \in SUBSET Nat
      BY AddrsAssumption
    <2>. QED  BY <1>1, <1>3, <2>1, FirstFacts
  <1>. HIDE DEF a
  <1>6. Consistent(ToSet(Unfinished), entry', proc', role, a, "wait",
                   MaxUnfinished, raced)
    BY <1>2, <1>3, <1>4, <1>5, StartedInForeground
  <1>. QED  BY <1>1, <1>3, <1>6 DEF IInv

(* A pipe of which only the first process was started.                     *)
LEMMA StartHalfPipeInv ==
    ASSUME IInv, StartHalfPipe
    PROVE  IInv'
  <1>1. /\ pc = "prompt" /\ pc' = "prompt" /\ raced' = raced
        /\ jobsList' = Unfinished /\ maxJobID' = MaxUnfinished
        /\ entry' = Swept /\ current_foreground_job' = current_foreground_job
    BY DEF StartHalfPipe, Swept
  <1>2. PICK p \in Unborn : /\ proc' = Run(Reaped, p)
                            /\ role' = [role EXCEPT ![p] = "first"]
    BY DEF StartHalfPipe, Run
  <1>3. /\ current_foreground_job = NoJob /\ raced \in 0..Races
        /\ Distinct(Unfinished) /\ ToSet(Unfinished) \subseteq Addrs
        /\ Consistent(ToSet(Unfinished), Swept, Reaped, role, NoJob, "prompt",
                      MaxUnfinished, raced)
    BY <1>1, AtPrompt
  <1>4. p \in Pids /\ Reaped[p] = "unborn"
    BY DEF Unborn, Reaped
  <1>5. Consistent(ToSet(Unfinished), Swept, proc', role', NoJob, "prompt",
                   MaxUnfinished, raced)
    BY <1>2, <1>3, <1>4, HalfPipeStarted
  <1>. QED  BY <1>1, <1>3, <1>5 DEF IInv

(* A pipe: its first process is started, then its second.                  *)
LEMMA StartPipeInv ==
    ASSUME IInv, StartPipe
    PROVE  IInv'
  <1>1. pc = "prompt" /\ pc' = "wait" /\ raced' = raced
    BY DEF StartPipe
  <1>2. PICK p \in Unborn, q \in Unborn, a \in Addrs :
             /\ p # q
             /\ proc' = [Reaped EXCEPT ![p] = "running", ![q] = "running"]
             /\ role' = [role EXCEPT ![p] = "first", ![q] = "second"]
             /\ AddJob(Unfinished, Swept, MaxUnfinished, q, "Foreground", a)
             /\ current_foreground_job' = a
    BY DEF StartPipe, Swept
  <1>3. /\ current_foreground_job = NoJob /\ raced \in 0..Races
        /\ Distinct(Unfinished) /\ ToSet(Unfinished) \subseteq Addrs
        /\ DOMAIN Swept = ToSet(Unfinished)
        /\ \A b \in ToSet(Unfinished) : Swept[b].jobId <= MaxUnfinished
        /\ Consistent(ToSet(Unfinished), Swept, Reaped, role, NoJob, "prompt",
                      MaxUnfinished, raced)
    BY <1>1, AtPrompt
  <1>4. /\ p \in Pids /\ Reaped[p] = "unborn"
        /\ q \in Pids /\ Reaped[q] = "unborn"
    BY DEF Unborn, Reaped
  <1>5. /\ a \in Addrs \ ToSet(Unfinished)
        /\ jobsList' = Append(Unfinished, a)
        /\ entry' = Add(Swept, a, MaxUnfinished + 1, q, "Foreground")
        /\ maxJobID' = MaxUnfinished + 1
    BY <1>2, <1>3 DEF AddJob, Add
  <1>. DEFINE half == Run(Reaped, p)
              roles == [role EXCEPT ![p] = "first"]
  <1>6. /\ proc' = Run(half, q) /\ half[q] = "unborn"
        /\ role' = [roles EXCEPT ![q] = "second"]
    BY <1>2, <1>4 DEF Run, Reaped
  <1>7. Consistent(ToSet(Unfinished), Swept, half, roles, NoJob, "prompt",
                   MaxUnfinished, raced)
    BY <1>3, <1>4, HalfPipeStarted
  <1>. HIDE DEF half, roles
  <1>8. /\ Distinct(jobsList')
        /\ ToSet(jobsList') = ToSet(Unfinished) \cup {a}
    BY <1>3, <1>5, AppendFacts
  <1>9. Consistent(ToSet(Unfinished) \cup {a}, entry', proc', role', a, "wait",
                   MaxUnfinished + 1, raced)
    BY <1>3, <1>4, <1>5, <1>6, <1>7, PipeStarted
  <1>. QED  BY <1>1, <1>2, <1>3, <1>5, <1>8, <1>9 DEF IInv

(* The state of the shell, named as in the lemmas above.                   *)
LEMMA Anywhere ==
    ASSUME IInv
    PROVE  /\ Distinct(jobsList) /\ ToSet(jobsList) \subseteq Addrs
           /\ raced \in 0..Races
           /\ Consistent(ToSet(jobsList), entry, proc, role,
                         current_foreground_job, pc, maxJobID, raced)
  BY ToSetFacts DEF IInv

(* A process ends.                                                         *)
LEMMA ExitInv ==
    ASSUME IInv, NEW p \in Pids, Exit(p)
    PROVE  IInv'
  <1>1. /\ proc[p] \in {"running", "dying"}
        /\ proc' = [proc EXCEPT ![p] = "zombie"]
        /\ jobsList' = jobsList /\ entry' = entry /\ role' = role /\ pc' = pc
        /\ maxJobID' = maxJobID /\ raced' = raced
        /\ current_foreground_job' = current_foreground_job
    BY DEF Exit
  <1>2. Consistent(ToSet(jobsList), entry, proc', role, current_foreground_job,
                   pc, maxJobID, raced)
    BY <1>1, Anywhere, Died
  <1>. QED  BY <1>1, <1>2, Anywhere DEF IInv

(* A process is signalled by something else than the shell.                *)
LEMMA SignalFromElsewhereInv ==
    ASSUME IInv, NEW p \in Pids, SignalFromElsewhere(p)
    PROVE  IInv'
  <1>1. /\ proc[p] \in Alive
        /\ role' = [role EXCEPT ![p] = "stray"]
        /\ jobsList' = jobsList /\ entry' = entry /\ pc' = pc
        /\ maxJobID' = maxJobID /\ raced' = raced
        /\ current_foreground_job' = current_foreground_job
    BY DEF SignalFromElsewhere
  <1>2. PICK sig \in {9, 18, 19} : proc' = [proc EXCEPT ![p] = Deliver(@, sig)]
    BY DEF SignalFromElsewhere
  <1>3. sig \in 1..64
    OBVIOUS
  <1>4. Consistent(ToSet(jobsList), entry, proc', role', current_foreground_job,
                   pc, maxJobID, raced)
    BY <1>1, <1>2, <1>3, Anywhere, Strayed
  <1>. QED  BY <1>1, <1>4, Anywhere DEF IInv

(* fg: SIGCONT.                                                            *)
LEMMA ForegroundContinueInv ==
    ASSUME IInv, ForegroundContinue
    PROVE  IInv'
  <1>1. /\ pc = "fg_cont" /\ pc' = "fg_remove"
        /\ proc' = [proc EXCEPT
              ![entry[current_foreground_job].jobProcessId] = Deliver(@, 18)]
        /\ jobsList' = jobsList /\ entry' = entry /\ role' = role
        /\ maxJobID' = maxJobID /\ raced' = raced
        /\ current_foreground_job' = current_foreground_job
    BY DEF ForegroundContinue, Target, Pid
  <1>2. Consistent(ToSet(jobsList), entry, proc', role, current_foreground_job,
                   "fg_remove", maxJobID, raced)
    BY <1>1, Anywhere, Continued
  <1>. QED  BY <1>1, <1>2, Anywhere DEF IInv

(* fg: removeJobById finds the foreground job itself, since ids are        *)
(* unique.                                                                 *)
LEMMA ForegroundRemoveInv ==
    ASSUME IInv, ForegroundRemove
    PROVE  IInv'
  <1>. DEFINE fg == current_foreground_job
              job == getJobById(jobsList, Id(fg))
  <1>1. /\ pc = "fg_remove" /\ pc' = "wait"
        /\ jobsList' = RemoveFirst(jobsList, job)
        /\ maxJobID' = IF job # NoJob /\ Id(fg) = maxJobID THEN maxJobID - 1
                                                          ELSE maxJobID
        /\ proc' = proc /\ entry' = entry /\ role' = role /\ raced' = raced
        /\ current_foreground_job' = current_foreground_job
    BY DEF ForegroundRemove
  <1>2. /\ Distinct(jobsList) /\ ToSet(jobsList) \subseteq Addrs
        /\ raced \in 0..Races
        /\ Consistent(ToSet(jobsList), entry, proc, role, fg, "fg_remove",
                      maxJobID, raced)
    BY <1>1, Anywhere
  <1>3. /\ fg \in ToSet(jobsList) /\ Id(fg) > 0 /\ maxJobID \in Nat
        /\ \A a, b \in ToSet(jobsList) : Id(a) = Id(b) => a = b
    BY <1>2 DEF Consistent, Started, Numbered, Typed, Id
  <1>4. job = fg
    BY <1>2, <1>3, JobByIdFacts
  <1>5. maxJobID' \in Nat
    BY <1>1, <1>3
  <1>6. /\ Distinct(jobsList')
        /\ ToSet(jobsList') = ToSet(jobsList) \ {fg}
    BY <1>1, <1>2, <1>3, <1>4, RemoveFirstFacts
  <1>. HIDE DEF fg, job
  <1>7. Consistent(ToSet(jobsList) \ {fg}, entry, proc, role, fg, "wait",
                   maxJobID', raced)
    BY <1>2, <1>5, Removed
  <1>. QED  BY <1>1, <1>2, <1>6, <1>7 DEF IInv, fg

(* waitpid.                                                                *)
LEMMA WaitInv ==
    ASSUME IInv, Wait
    PROVE  IInv'
  <1>1. /\ pc = "wait" /\ pc' = "reset"
        /\ proc[entry[current_foreground_job].jobProcessId]
              \in {"stopped", "zombie", "gone"}
        /\ proc' = [proc EXCEPT ![entry[current_foreground_job].jobProcessId] =
                                    IF @ = "zombie" THEN "gone" ELSE @]
        /\ jobsList' = jobsList /\ entry' = entry /\ role' = role
        /\ maxJobID' = maxJobID /\ raced' = raced
        /\ current_foreground_job' = current_foreground_job
    BY DEF Wait, Target, Pid
  <1>2. Consistent(ToSet(jobsList), entry, proc', role, current_foreground_job,
                   "reset", maxJobID, raced)
    BY <1>1, Anywhere, Waited
  <1>. QED  BY <1>1, <1>2, Anywhere DEF IInv

(* setCurrentForegroundJob(nullptr).                                       *)
LEMMA ResetInv ==
    ASSUME IInv, Reset
    PROVE  IInv'
  <1>1. /\ pc = "reset" /\ pc' = "prompt" /\ current_foreground_job' = NoJob
        /\ entry' = Reachable(entry, ToSet(jobsList))
        /\ jobsList' = jobsList /\ proc' = proc /\ role' = role
        /\ maxJobID' = maxJobID /\ raced' = raced
    BY DEF Reset
  <1>2. Consistent(ToSet(jobsList), entry', proc, role, NoJob, "prompt",
                   maxJobID, raced)
    BY <1>1, Anywhere, Unset
  <1>. QED  BY <1>1, <1>2, Anywhere DEF IInv

(* A key leaves raced at 0 only when the shell is in waitpid and its       *)
(* process runs.                                                           *)
LEMMA KeyFacts ==
    ASSUME IInv, KeyPressed
    PROVE  /\ current_foreground_job # NoJob /\ raced' \in 0..Races
           /\ raced' = 0 => /\ raced = 0 /\ pc = "wait"
                            /\ proc[entry[current_foreground_job].jobProcessId]
                                  = "running"
  <1>1. raced \in 0..Races /\ Races \in Nat
    BY ChoicesAssumption DEF IInv
  <1>2. Cardinality(Strays) \in Nat
    <2>1. Strays \subseteq Pids
      BY DEF Strays
    <2>. QED  BY <2>1, PidsAssumption, FS_Subset, FS_CardinalityType
  <1>. QED  BY <1>1, <1>2 DEF KeyPressed, Target, Pid

(* ctrl-C.                                                                 *)
LEMMA ctrlCHandlerInv ==
    ASSUME IInv, ctrlCHandler
    PROVE  IInv'
  <1>. DEFINE fg == current_foreground_job
  <1>1. /\ KeyPressed /\ pc' = pc
        /\ proc' = [proc EXCEPT ![entry[fg].jobProcessId] = Deliver(@, 9)]
        /\ entry' = setJobStatus(entry, fg, "Finished")
        /\ jobsList' = jobsList /\ role' = role /\ maxJobID' = maxJobID
        /\ current_foreground_job' = fg
    BY DEF ctrlCHandler, Target, Pid
  <1>2. /\ fg # NoJob /\ raced' \in 0..Races
        /\ raced' = 0 => /\ raced = 0 /\ pc = "wait"
                         /\ proc[entry[fg].jobProcessId] = "running"
    BY <1>1, KeyFacts
  <1>3. Consistent(ToSet(jobsList), entry', proc', role, fg, pc, maxJobID, raced')
    BY <1>1, <1>2, Anywhere, Interrupted
  <1>. QED  BY <1>1, <1>2, <1>3, Anywhere DEF IInv

(* ctrl-Z.                                                                 *)
LEMMA ctrlZHandlerInv ==
    ASSUME IInv, ctrlZHandler
    PROVE  IInv'
  <1>. DEFINE fg == current_foreground_job
              p == entry[fg].jobProcessId
              f == setJobStatus(entry, fg, "Stopped")
              L == ToSet(jobsList)
  <1>1. /\ KeyPressed /\ pc' = pc /\ role' = role
        /\ proc' = [proc EXCEPT ![p] = Deliver(@, 19)]
        /\ current_foreground_job' = fg
    BY DEF ctrlZHandler, Target, Pid
  <1>2. /\ fg # NoJob /\ raced' \in 0..Races
        /\ raced' = 0 => raced = 0 /\ pc = "wait" /\ proc[p] = "running"
    BY <1>1, KeyFacts
  <1>3. /\ Distinct(jobsList) /\ L \subseteq Addrs
        /\ Consistent(L, entry, proc, role, fg, pc, maxJobID, raced)
    BY Anywhere
  <1>4. /\ L \subseteq DOMAIN entry
        /\ entry \in [DOMAIN entry -> Record] /\ proc \in [Pids -> States]
        /\ fg \in DOMAIN entry /\ p \in Pids
    <2>1. pc \notin {"prompt", "exited"}
      BY <1>2, <1>3 DEF Consistent, Typed
    <2>. QED  BY <1>3, <2>1, EntryFacts
  <1>5. Stop(entry, proc, proc', f, fg, p) /\ DOMAIN f = DOMAIN entry
    <2>1. Stop(entry, proc, proc', f, fg, p)
      BY <1>1, <1>4, StopFacts
    <2>. QED  BY <2>1 DEF Stop
  <1>6. CASE Id(fg) = -1
    <2>1. PICK a \in Addrs : AddJob(jobsList, f, maxJobID, p, "Stopped", a)
      BY <1>6 DEF ctrlZHandler, StoppedEntries, Target, Pid
    <2>2. /\ a \in Addrs \ DOMAIN f /\ jobsList' = Append(jobsList, a)
          /\ entry' = Add(f, a, maxJobID + 1, p, "Stopped")
          /\ maxJobID' = maxJobID + 1
      BY <2>1 DEF AddJob, Add
    <2>3. a \notin L
      BY <1>4, <1>5, <2>2
    <2>4. Distinct(jobsList') /\ ToSet(jobsList') = L \cup {a}
      BY <1>3, <2>2, <2>3, AppendFacts
    <2>5. entry[fg].jobId = -1
      BY <1>6 DEF Id
    <2>. HIDE DEF fg, p, f, L
    <2>6. Consistent(L \cup {a}, entry', proc', role, fg, pc, maxJobID + 1, raced')
      BY <1>2, <1>3, <1>5, <2>2, <2>5, NewlyListed DEF p
    <2>. QED  BY <1>1, <1>2, <2>2, <2>4, <2>6 DEF IInv
  <1>7. CASE Id(fg) # -1
    <2>1. /\ entry' = f /\ jobsList' = AddEntry(jobsList, fg)
          /\ maxJobID' = maxJobID
      BY <1>7 DEF ctrlZHandler, StoppedEntries
    <2>2. entry[fg].jobId # -1
      BY <1>7 DEF Id
    <2>3. \A b \in L : Id(b) = Id(fg) => b = fg
      BY <1>2, <1>3, <2>2 DEF Consistent, Numbered, Id
    <2>4. Distinct(jobsList') /\ ToSet(jobsList') = L \cup {fg}
      <3>1. CASE getJobById(jobsList, Id(fg)) = NoJob
        <4>1. fg \notin L /\ fg \in Addrs
          <5>1. \A b \in L : Id(b) # Id(fg)
            <6>1. NoJob \notin ToSet(jobsList)
              BY <1>3, AddrsAssumption
            <6>. QED  BY <1>3, <3>1, <6>1, JobByIdFacts
          <5>2. fg \in Addrs
            BY <1>2, <1>3 DEF Consistent, Typed
          <5>. QED  BY <5>1, <5>2
        <4>2. jobsList' = Append(jobsList, fg)
          BY <2>1, <3>1 DEF AddEntry
        <4>. QED  BY <1>3, <4>1, <4>2, AppendFacts
      <3>2. CASE getJobById(jobsList, Id(fg)) # NoJob
        <4>1. fg \in L
          BY <1>3, <2>3, <3>2, JobByIdFacts
        <4>2. jobsList' = jobsList
          BY <2>1, <3>2 DEF AddEntry
        <4>. QED  BY <1>3, <4>1, <4>2
      <3>. QED  BY <3>1, <3>2
    <2>. HIDE DEF fg, p, f, L
    <2>5. Consistent(L \cup {fg}, f, proc', role, fg, pc, maxJobID, raced')
      BY <1>2, <1>3, <1>5, <2>2, Relisted DEF p
    <2>. QED  BY <1>1, <1>2, <2>1, <2>4, <2>5 DEF IInv
  <1>. QED  BY <1>6, <1>7

-----------------------------------------------------------------------------
(* The invariant holds at the start.                                       *)
LEMMA InitInv == Init => IInv
  <1>. SUFFICES ASSUME Init PROVE IInv
    OBVIOUS
  <1>1. /\ jobsList = <<>> /\ entry = <<>> /\ current_foreground_job = NoJob
        /\ pc = "prompt" /\ raced = 0 /\ maxJobID = 0
        /\ proc = [p \in Pids |-> "unborn"] /\ role = [p \in Pids |-> "plain"]
    BY DEF Init
  <1>2. Distinct(jobsList) /\ ToSet(jobsList) = {} /\ DOMAIN entry = {}
    BY <1>1 DEF Distinct, ToSet
  <1>3. entry \in [DOMAIN entry -> Record]
    BY <1>1, <1>2
  <1>4. Typed({}, entry, proc, role, NoJob, "prompt", 0)
    BY <1>1, <1>2, <1>3 DEF Typed, States
  <1>5. Numbered({}, entry, NoJob, 0) /\ Started({}, entry, proc, NoJob, "prompt")
    BY <1>2 DEF Numbered, Started
  <1>6. Undisturbed({}, entry, proc, role, NoJob, "prompt")
    BY <1>1, <1>2 DEF Undisturbed, OneEntry, FinishedEnds, AliveListed,
                      StoppedMarked, NotWaitedFor, Alive
  <1>7. raced \in 0..Races
    BY <1>1, ChoicesAssumption
  <1>. QED  BY <1>1, <1>2, <1>4, <1>5, <1>6, <1>7 DEF IInv, Consistent

(* Every step keeps it.                                                    *)
LEMMA NextInv == IInv /\ [Next]_vars => IInv'
  <1>. SUFFICES ASSUME IInv, [Next]_vars PROVE IInv'
    OBVIOUS
  <1>1. CASE \E p \in Pids : Exit(p)
    BY <1>1, ExitInv
  <1>17. CASE \E p \in Pids : SignalFromElsewhere(p)
    BY <1>17, SignalFromElsewhereInv
  <1>2. CASE JobsCommand
    BY <1>2, JobsCommandInv
  <1>3. CASE OtherCommand
    BY <1>3, OnlyRemoveFinishedInv DEF OtherCommand
  <1>4. CASE \E i \in Arguments : ForegroundCommand(i)
    BY <1>4, ForegroundCommandInv
  <1>5. CASE \E i \in Arguments : BackgroundCommand(i)
    BY <1>5, BackgroundCommandInv
  <1>6. CASE \E i \in Arguments : KillCommand(i)
    BY <1>6, KillCommandInv
  <1>7. CASE \E killAll \in BOOLEAN : QuitCommand(killAll)
    BY <1>7, QuitCommandInv
  <1>8. CASE ForegroundContinue
    BY <1>8, ForegroundContinueInv
  <1>9. CASE ForegroundRemove
    BY <1>9, ForegroundRemoveInv
  <1>10. CASE ExternalCommand \/ RedirectionCommand
    BY <1>10, StartBackgroundInv, StartForegroundInv
       DEF ExternalCommand, RedirectionCommand
  <1>11. CASE PipeCommand
    BY <1>11, StartPipeInv, StartHalfPipeInv DEF PipeCommand
  <1>12. CASE Wait
    BY <1>12, WaitInv
  <1>13. CASE Reset
    BY <1>13, ResetInv
  <1>14. CASE ctrlZHandler
    BY <1>14, ctrlZHandlerInv
  <1>15. CASE ctrlCHandler
    BY <1>15, ctrlCHandlerInv
  <1>16. CASE UNCHANGED vars
    BY <1>16 DEF vars, IInv
  <1>. QED  BY <1>1, <1>2, <1>3, <1>4, <1>5, <1>6, <1>7, <1>8, <1>9, <1>10,
               <1>11, <1>12, <1>13, <1>14, <1>15, <1>16, <1>17 DEF Next

(* The inductive invariant is an invariant of the job control.             *)
THEOREM Invariance == Spec => []IInv
  BY InitInv, NextInv, PTL DEF Spec

(* The list and the shell point to entries that exist, whatever the        *)
(* commands do and whenever keys come.                                     *)
THEOREM TypeCorrect == Spec => []TypeOK
  <1>1. IInv => TypeOK
    BY DEF IInv, Consistent, Typed, TypeOK, Distinct, Record, States
  <1>. QED  BY <1>1, Invariance, PTL

(* No two jobs in the list have the same id, whenever keys come, and none  *)
(* of them the same process when no key comes at a bad moment and only the *)
(* shell signals the process.                                              *)
THEOREM IdsAreUnique == Spec => []UniqueIds
  <1>1. ASSUME IInv PROVE UniqueIds
    <2>. DEFINE L == ToSet(jobsList)
    <2>1. /\ Numbered(L, entry, current_foreground_job, maxJobID)
          /\ raced = 0 => OneEntry(L, entry, proc, role, current_foreground_job)
      BY <1>1 DEF IInv, Consistent, Undisturbed
    <2>2. /\ \A i, j \in 1..Len(jobsList) : jobsList[i] = jobsList[j] => i = j
          /\ \A i \in 1..Len(jobsList) : jobsList[i] \in L
      BY <1>1, ToSetFacts DEF IInv, Distinct
    <2>. HIDE DEF L
    <2>3. \A a \in ToSet(jobsList) : Id(a) > 0
      BY <2>1 DEF Numbered, Id, L
    <2>4. ASSUME NEW i \in 1..Len(jobsList), NEW j \in 1..Len(jobsList),
                 \/ Id(jobsList[i]) = Id(jobsList[j])
                 \/ /\ raced = 0 /\ role[Pid(jobsList[i])] # "stray"
                    /\ Pid(jobsList[i]) = Pid(jobsList[j])
          PROVE  i = j
      <3>1. jobsList[i] = jobsList[j]
        BY <2>1, <2>2, <2>4 DEF Numbered, OneEntry, Id, Pid
      <3>. QED  BY <2>2, <3>1
    <2>. QED  BY <2>3, <2>4 DEF UniqueIds
  <1>. QED  BY <1>1, Invariance, PTL

(* Unless a key comes at a bad moment, no live process is missing from the *)
(* list at the prompt, the first processes of pipes and the processes that *)
(* something else than the shell has signalled excepted.                   *)
THEOREM LiveProcessesAreListed == Spec => []ListedUnlessRaced
  <1>1. ASSUME IInv PROVE ListedUnlessRaced
    <2>. SUFFICES ASSUME raced = 0, pc = "prompt", NEW p \in Pids,
                         proc[p] \in Alive, role[p] \notin {"first", "stray"}
                  PROVE  Listed(p)
      BY DEF ListedUnlessRaced, AllChildrenListed
    <2>1. AliveListed(ToSet(jobsList), entry, proc, role, current_foreground_job,
                      "prompt")
      BY <1>1 DEF IInv, Consistent, Undisturbed
    <2>. QED  BY <2>1 DEF AliveListed, Listed, Pid
  <1>. QED  BY <1>1, Invariance, PTL

(* Unless a key comes at a bad moment or the user sends one of the signals *)
(* 20 to 22, a job that the shell has stopped is shown as stopped at the   *)
(* prompt.                                                                 *)
THEOREM StoppedJobsAreMarked == Spec => []StoppedIsMarked
  <1>1. ASSUME IInv PROVE StoppedIsMarked
    <2>. SUFFICES ASSUME raced = 0, pc = "prompt", Signals \cap 20..22 = {},
                         NEW a \in ToSet(jobsList), proc[Pid(a)] = "stopped",
                         role[Pid(a)] # "stray"
                  PROVE  Status(a) = "Stopped"
      BY DEF StoppedIsMarked
    <2>1. StoppedMarked(ToSet(jobsList), entry, proc, role,
                        current_foreground_job, "prompt")
      BY <1>1 DEF IInv, Consistent, Undisturbed
    <2>. QED  BY <2>1 DEF StoppedMarked, Pid, Status
  <1>. QED  BY <1>1, Invariance, PTL

(* Unless a key comes at a bad moment, no job at the prompt is one whose   *)
(* process was waited for, the jobs of pipes and of processes that         *)
(* something else than the shell has signalled excepted.                   *)
THEOREM ListedJobsAreUnfinished == Spec => []ListedUnfinished
  <1>1. ASSUME IInv PROVE ListedUnfinished
    <2>. SUFFICES ASSUME raced = 0, pc = "prompt",
                         NEW a \in ToSet(jobsList), proc[Pid(a)] = "gone"
                  PROVE  role[Pid(a)] \in {"second", "stray"}
      BY DEF ListedUnfinished
    <2>1. NotWaitedFor(ToSet(jobsList), entry, proc, role,
                       current_foreground_job, "prompt")
      BY <1>1 DEF IInv, Consistent, Undisturbed
    <2>. QED  BY <2>1 DEF NotWaitedFor, Pid
  <1>. QED  BY <1>1, Invariance, PTL
=============================================================================
