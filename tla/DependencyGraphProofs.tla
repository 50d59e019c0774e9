------------------------ MODULE DependencyGraphProofs ------------------------
(***************************************************************************)
(* Lemmas about the operators of DependencyGraph, for any trace, however   *)
(* large: what its searches find, what a process tree is like, and what    *)
(* sorting and folding make of a set.                                      *)
(***************************************************************************)
EXTENDS DependencyGraph, FiniteSetTheorems, WellFoundedInduction, TLAPS

(* The accesses that build the graph name processes and files of the       *)
(* trace; giving a child the outputs of its parent adds no reads.          *)
LEMMA BuildReads ==
  ASSUME NEW procs, NEW accesses \in SUBSET Access
  PROVE  build_dependency_graph(procs, accesses).reads \subseteq Pids \X Files
BY DEF build_dependency_graph, Access

LEMMA ReadersAreProcesses ==
  ASSUME NEW graph, NEW F
  PROVE  ReadersOf(graph, F) \subseteq Pids
BY DEF ReadersOf, Readers

-----------------------------------------------------------------------------
(* A search that adds what a set reaches until nothing is new: the closure *)
(* under children behind get_descendant_pids, the closure under readers of *)
(* outputs behind compute_impact.                                          *)

Grows(U, step) ==
  /\ step \in [SUBSET U -> SUBSET U]
  /\ \A A \in SUBSET U : A \subseteq step[A]
  /\ \A A, B \in SUBSET U : A \subseteq B => step[A] \subseteq step[B]

Solves(U, step, f) ==
  f = [A \in SUBSET U |-> IF step[A] = A THEN A ELSE f[step[A]]]

(* What is in every closed set above A. *)
Reached(U, step, A) ==
  {u \in U : \A S \in SUBSET U : A \subseteq S /\ step[S] \subseteq S => u \in S}

LEMMA ReachedByStep ==
  ASSUME NEW U, NEW step, Grows(U, step), NEW A \in SUBSET U
  PROVE  /\ step[A] \in SUBSET U
         /\ Reached(U, step, A) = IF step[A] = A THEN A ELSE Reached(U, step, step[A])
<1>1. step[A] \in SUBSET U /\ A \subseteq step[A]
  BY DEF Grows
<1>2. CASE step[A] = A
  BY <1>1, <1>2 DEF Reached
<1>3. ASSUME NEW S \in SUBSET U, step[S] \subseteq S
      PROVE  A \subseteq S <=> step[A] \subseteq S
  <2>1. A \subseteq S => step[A] \subseteq step[S]
    BY DEF Grows
  <2> QED BY <1>1, <1>3, <2>1
<1>4. Reached(U, step, A) = Reached(U, step, step[A])
  BY <1>3 DEF Reached
<1> QED BY <1>1, <1>2, <1>4

LEMMA SomeSolution ==
  ASSUME NEW U, NEW step, Grows(U, step)
  PROVE  Solves(U, step, [A \in SUBSET U |-> Reached(U, step, A)])
<1> DEFINE f == [A \in SUBSET U |-> Reached(U, step, A)]
<1>1. \A A \in SUBSET U : f[A] = IF step[A] = A THEN A ELSE f[step[A]]
  BY ReachedByStep
<1> QED BY <1>1 DEF Solves

(* The recursion has one solution: every round leaves less that is not     *)
(* reached.                                                                *)
LEMMA OneSolution ==
  ASSUME NEW U, NEW step, Grows(U, step), IsFiniteSet(U),
         NEW f, Solves(U, step, f), NEW A \in SUBSET U
  PROVE  f[A] = Reached(U, step, A)
<1> DEFINE Wrong == {U \ B : B \in {C \in SUBSET U : f[C] # Reached(U, step, C)}}
<1> SUFFICES ASSUME Wrong # {} PROVE FALSE
  OBVIOUS
<1>1. IsWellFoundedOn(StrictSubsetOrdering(U), SUBSET U)
  BY FS_StrictSubsetOrderingWellFounded, FS_FiniteSubsetsOfFinite
<1>2. Wrong \subseteq SUBSET U
  OBVIOUS
<1> HIDE DEF Wrong
<1>3. PICK left \in Wrong : \A other \in Wrong : <<other, left>> \notin StrictSubsetOrdering(U)
  BY <1>1, <1>2, WFMin
<1>4. PICK B \in SUBSET U : left = U \ B /\ f[B] # Reached(U, step, B)
  BY <1>3 DEF Wrong
<1>5. step[B] \in SUBSET U /\ B \subseteq step[B]
  BY DEF Grows
<1>6. f[B] = IF step[B] = B THEN B ELSE f[step[B]]
  BY DEF Solves
<1>7. step[B] # B /\ f[step[B]] # Reached(U, step, step[B])
  BY <1>4, <1>6, ReachedByStep
<1>8. U \ step[B] \in Wrong
  BY <1>5, <1>7 DEF Wrong
<1>9. <<U \ step[B], left>> \in StrictSubsetOrdering(U)
  BY <1>4, <1>5, <1>7 DEF StrictSubsetOrdering
<1> QED BY <1>3, <1>8, <1>9

Wave(graph) == [A \in SUBSET Pids |-> A \cup Triggered(graph, A)]

LEMMA WaveGrows ==
  ASSUME NEW graph
  PROVE  Grows(Pids, Wave(graph))
<1>1. \A A \in SUBSET Pids : Triggered(graph, A) \subseteq Pids
  BY ReadersAreProcesses DEF Triggered
<1>2. \A A, B \in SUBSET Pids : A \subseteq B => Triggered(graph, A) \subseteq Triggered(graph, B)
  BY DEF Triggered
<1> QED BY <1>1, <1>2 DEF Grows, Wave

LEMMA SearchIsExact ==
  ASSUME NEW graph, NEW F
  PROVE  rebuild_bfs(graph, F) = MustRerun(graph, F)
<1> DEFINE Searches(f) == f = [A \in SUBSET Pids |->
                                 LET next == A \cup Triggered(graph, A)
                                 IN  IF next = A THEN A ELSE f[next]]
           search == CHOOSE f : Searches(f)
<1>1. rebuild_bfs(graph, F) = search[ReadersOf(graph, F)]
  BY DEF rebuild_bfs
<1>2. \A f : Searches(f) <=> Solves(Pids, Wave(graph), f)
  BY DEF Solves, Wave
<1> HIDE DEF Searches
<1>3. Solves(Pids, Wave(graph), search)
  BY <1>2, SomeSolution, WaveGrows
<1> HIDE DEF search
<1>4. search[ReadersOf(graph, F)] = Reached(Pids, Wave(graph), ReadersOf(graph, F))
  BY <1>3, OneSolution, WaveGrows, ReadersAreProcesses, GraphAssumption
<1>5. \A S \in SUBSET Pids : Wave(graph)[S] \subseteq S <=> Triggered(graph, S) \subseteq S
  BY DEF Wave
<1> QED BY <1>1, <1>4, <1>5 DEF Reached, MustRerun, ClosedUnder

-----------------------------------------------------------------------------
(* The process tree                                                        *)

Below(procs) ==
  [A \in SUBSET DOMAIN procs |-> A \cup UNION {Children(procs, q) : q \in A}]

LEMMA BelowGrows ==
  ASSUME NEW procs
  PROVE  Grows(DOMAIN procs, Below(procs))
<1>1. \A A \in SUBSET DOMAIN procs : UNION {Children(procs, q) : q \in A} \subseteq DOMAIN procs
  BY DEF Children
<1>2. \A A, B \in SUBSET DOMAIN procs : A \subseteq B =>
        UNION {Children(procs, q) : q \in A} \subseteq UNION {Children(procs, q) : q \in B}
  OBVIOUS
<1> QED BY <1>1, <1>2 DEF Grows, Below

LEMMA DescendantsAreReached ==
  ASSUME NEW procs, IsFiniteSet(DOMAIN procs), NEW p
  PROVE  Descendants(procs, p) = Reached(DOMAIN procs, Below(procs), Children(procs, p))
<1> DEFINE Searches(f) == f = [S \in SUBSET DOMAIN procs |->
                                 LET T == S \cup UNION {Children(procs, q) : q \in S}
                                 IN  IF T = S THEN S ELSE f[T]]
           search == CHOOSE f : Searches(f)
<1>1. Descendants(procs, p) = search[Children(procs, p)]
  BY DEF Descendants
<1>2. \A f : Searches(f) <=> Solves(DOMAIN procs, Below(procs), f)
  BY DEF Solves, Below
<1> HIDE DEF Searches
<1>3. Solves(DOMAIN procs, Below(procs), search)
  BY <1>2, SomeSolution, BelowGrows
<1> HIDE DEF search
<1>4. Children(procs, p) \in SUBSET DOMAIN procs
  BY DEF Children
<1> QED BY <1>1, <1>3, <1>4, OneSolution, BelowGrows

(* The descendants are the least set that has the children and theirs.     *)
LEMMA DescendantsAre ==
  ASSUME NEW procs, IsFiniteSet(DOMAIN procs), NEW p
  PROVE  /\ Descendants(procs, p) \subseteq DOMAIN procs
         /\ Children(procs, p) \subseteq Descendants(procs, p)
         /\ \A q \in Descendants(procs, p) : Children(procs, q) \subseteq Descendants(procs, p)
         /\ \A S \in SUBSET DOMAIN procs :
              /\ Children(procs, p) \subseteq S
              /\ \A q \in S : Children(procs, q) \subseteq S
              => Descendants(procs, p) \subseteq S
<1> DEFINE D == Reached(DOMAIN procs, Below(procs), Children(procs, p))
<1>1. Descendants(procs, p) = D
  BY DescendantsAreReached
<1>2. \A S \in SUBSET DOMAIN procs :
        Below(procs)[S] \subseteq S <=> \A q \in S : Children(procs, q) \subseteq S
  BY DEF Below
<1>3. D \subseteq DOMAIN procs
  BY DEF Reached
<1>4. \A q : Children(procs, q) \subseteq DOMAIN procs
  BY DEF Children
<1>5. Children(procs, p) \subseteq D
  BY <1>4 DEF Reached
<1>6. ASSUME NEW q \in D, NEW c \in Children(procs, q) PROVE c \in D
  <2> SUFFICES ASSUME NEW S \in SUBSET DOMAIN procs, Children(procs, p) \subseteq S,
                      Below(procs)[S] \subseteq S
               PROVE  c \in S
    BY <1>4 DEF Reached
  <2>1. q \in S
    BY DEF Reached
  <2> QED BY <1>2, <2>1
<1>7. ASSUME NEW S \in SUBSET DOMAIN procs, Children(procs, p) \subseteq S,
             \A q \in S : Children(procs, q) \subseteq S
      PROVE  D \subseteq S
  BY <1>2, <1>7 DEF Reached
<1> HIDE DEF D
<1> QED BY <1>1, <1>3, <1>5, <1>6, <1>7

LEMMA ParentOfDescendant ==
  ASSUME NEW procs, IsFiniteSet(DOMAIN procs), NEW p, NEW q \in Descendants(procs, p)
  PROVE  procs[q].ppid = p \/ procs[q].ppid \in Descendants(procs, p)
<1> DEFINE S == {d \in Descendants(procs, p) :
                   procs[d].ppid = p \/ procs[d].ppid \in Descendants(procs, p)}
<1>1. S \in SUBSET DOMAIN procs /\ Children(procs, p) \subseteq S
  BY DescendantsAre DEF Children
<1>2. \A d \in S : Children(procs, d) \subseteq S
  BY DescendantsAre DEF Children
<1>3. Descendants(procs, p) \subseteq S
  BY <1>1, <1>2, DescendantsAre
<1> QED BY <1>3

LEMMA DescendantOfDescendant ==
  ASSUME NEW procs, IsFiniteSet(DOMAIN procs), NEW p, NEW q \in Descendants(procs, p)
  PROVE  Descendants(procs, q) \subseteq Descendants(procs, p)
BY DescendantsAre

LEMMA NotBelowItself ==
  ASSUME NEW procs, IsFiniteSet(DOMAIN procs), Acyclic(procs), NEW p
  PROVE  p \notin Descendants(procs, p)
<1> SUFFICES ASSUME p \in Descendants(procs, p) PROVE FALSE
  OBVIOUS
<1>1. PICK top \in Descendants(procs, p) : procs[top].ppid \notin Descendants(procs, p)
  BY DescendantsAre DEF Acyclic
<1> QED BY <1>1, ParentOfDescendant

(* Two processes above a third are above one another.                      *)
LEMMA AboveIsALine ==
  ASSUME NEW procs, IsFiniteSet(DOMAIN procs), Acyclic(procs), NEW p, NEW c,
         NEW q \in Descendants(procs, p), q \in Descendants(procs, c)
  PROVE  c = p \/ c \in Descendants(procs, p) \/ p \in Descendants(procs, c)
<1> DEFINE Both == Descendants(procs, p) \cap Descendants(procs, c)
<1>1. Both \in SUBSET DOMAIN procs /\ Both # {}
  BY DescendantsAre
<1>2. PICK top \in Both : procs[top].ppid \notin Both
  BY <1>1 DEF Acyclic
<1>3. procs[top].ppid = p \/ procs[top].ppid \in Descendants(procs, p)
  BY <1>2, ParentOfDescendant
<1>4. procs[top].ppid = c \/ procs[top].ppid \in Descendants(procs, c)
  BY <1>2, ParentOfDescendant
<1> QED BY <1>2, <1>3, <1>4

(* Of some processes there is one with none of the others below it,        *)
LEMMA DeepestExists ==
  ASSUME NEW procs, IsFiniteSet(DOMAIN procs), Acyclic(procs),
         NEW X \in SUBSET DOMAIN procs, X # {}
  PROVE  \E x \in X : Descendants(procs, x) \cap X = {}
<1> DEFINE T == {Descendants(procs, x) : x \in X}
<1>1. IsWellFoundedOn(StrictSubsetOrdering(DOMAIN procs), SUBSET DOMAIN procs)
  BY FS_StrictSubsetOrderingWellFounded, FS_FiniteSubsetsOfFinite
<1>2. T \subseteq SUBSET DOMAIN procs /\ T # {}
  BY DescendantsAre
<1> HIDE DEF T
<1>3. PICK least \in T : \A other \in T : <<other, least>> \notin StrictSubsetOrdering(DOMAIN procs)
  BY <1>1, <1>2, WFMin
<1>4. PICK x \in X : least = Descendants(procs, x)
  BY <1>3 DEF T
<1>5. ASSUME NEW y \in Descendants(procs, x) \cap X PROVE FALSE
  <2>1. Descendants(procs, y) \in T
    BY DEF T
  <2>2. /\ Descendants(procs, y) \subseteq Descendants(procs, x)
        /\ y \notin Descendants(procs, y)
    BY DescendantOfDescendant, NotBelowItself
  <2>3. <<Descendants(procs, y), least>> \in StrictSubsetOrdering(DOMAIN procs)
    BY <1>2, <1>4, <2>1, <2>2 DEF StrictSubsetOrdering
  <2> QED BY <1>3, <2>1, <2>3
<1> QED BY <1>4, <1>5

(* and of the members of C above q there is one that is below none.        *)
LEMMA TopmostExists ==
  ASSUME NEW procs, IsFiniteSet(DOMAIN procs), Acyclic(procs),
         NEW C \in SUBSET DOMAIN procs, NEW c0 \in C, NEW q \in Descendants(procs, c0)
  PROVE  \E c \in C : /\ q \in Descendants(procs, c)
                      /\ \A other \in C : c \notin Descendants(procs, other)
<1> DEFINE Above == {c \in C : q \in Descendants(procs, c)}
           All == Above \cup UNION {Descendants(procs, c) : c \in Above}
<1>1. All \in SUBSET DOMAIN procs /\ All # {}
  BY DescendantsAre
<1>2. PICK top \in All : procs[top].ppid \notin All
  BY <1>1 DEF Acyclic
<1>3. \A c \in Above : top \notin Descendants(procs, c)
  BY <1>2, ParentOfDescendant
<1>4. top \in Above
  BY <1>2, <1>3
<1>5. ASSUME NEW other \in C, top \in Descendants(procs, other) PROVE FALSE
  BY <1>3, <1>4, <1>5, DescendantOfDescendant
<1> QED BY <1>4, <1>5
-----------------------------------------------------------------------------
(* Sorting                                                                 *)

Orders(R, S) ==
  /\ \A a, b \in S : a # b => <<a, b>> \in R \/ <<b, a>> \in R
  /\ \A a, b \in S : <<a, b>> \in R => <<b, a>> \notin R
  /\ \A a, b, c \in S : <<a, b>> \in R /\ <<b, c>> \in R => <<a, c>> \in R

(* A finite set that is ordered can be written down in its order: every    *)
(* element has as many before it as its place says.                        *)
LEMMA SortingExists ==
  ASSUME NEW S, IsFiniteSet(S), NEW R, Orders(R, S)
  PROVE  \E s \in SetToSeqs(S) : \A i, j \in DOMAIN s : i < j => <<s[i], s[j]>> \in R
<1> DEFINE n == Cardinality(S)
           upto(x) == {y \in S : y = x \/ <<y, x>> \in R}
           rank == [x \in S |-> Cardinality(upto(x))]
<1>1. n \in Nat /\ IsFiniteSet(1..n) /\ Cardinality(1..n) = n
  BY FS_CardinalityType, FS_Interval
<1>2. ASSUME NEW x \in S PROVE IsFiniteSet(upto(x)) /\ rank[x] \in 1..n
  <2>1. upto(x) \subseteq S /\ upto(x) # {}
    OBVIOUS
  <2>2. IsFiniteSet(upto(x)) /\ Cardinality(upto(x)) <= n
    BY <2>1, FS_Subset
  <2>3. Cardinality(upto(x)) \in Nat /\ Cardinality(upto(x)) # 0
    BY <2>1, <2>2, FS_CardinalityType, FS_EmptySet
  <2> QED BY <1>1, <2>2, <2>3
<1>3. ASSUME NEW x \in S, NEW y \in S, <<x, y>> \in R PROVE rank[x] < rank[y]
  <2>1. upto(x) \subseteq upto(y)
    BY <1>3 DEF Orders
  <2>2. y \in upto(y) /\ y \notin upto(x)
    BY <1>3 DEF Orders
  <2>3. /\ Cardinality(upto(x)) <= Cardinality(upto(y))
        /\ Cardinality(upto(x)) # Cardinality(upto(y))
    BY <1>2, <2>1, <2>2, FS_Subset
  <2>4. rank[x] <= rank[y] /\ rank[x] # rank[y]
    BY <2>3
  <2>5. rank[x] \in 1..n /\ rank[y] \in 1..n
    BY <1>2
  <2> HIDE DEF rank, n
  <2> QED BY <1>1, <2>4, <2>5
<1> HIDE DEF rank, n
<1>4. rank \in Injection(S, 1..n)
  <2>1. rank \in [S -> 1..n]
    BY <1>2 DEF rank
  <2>2. ASSUME NEW x \in S, NEW y \in S, x # y PROVE rank[x] # rank[y]
    <3>1. rank[x] < rank[y] \/ rank[y] < rank[x]
      BY <1>3, <2>2 DEF Orders
    <3>2. rank[x] \in 1..n /\ rank[y] \in 1..n
      BY <1>2
    <3> QED BY <1>1, <3>1, <3>2
  <2> QED BY <2>1, <2>2 DEF Injection, IsInjective
<1>5. rank \in Surjection(S, 1..n)
  BY <1>1, <1>4, FS_Injection DEF n
<1> DEFINE s == [i \in 1..n |-> CHOOSE x \in S : rank[x] = i]
<1>6. \A i \in 1..n : s[i] \in S /\ rank[s[i]] = i
  BY <1>5 DEF Surjection
<1>7. s \in [1..n -> S] /\ DOMAIN s = 1..n
  BY <1>6
<1> HIDE DEF s
<1>8. s \in SetToSeqs(S)
  BY <1>6, <1>7 DEF SetToSeqs, n
<1>9. ASSUME NEW i \in 1..n, NEW j \in 1..n, i < j PROVE <<s[i], s[j]>> \in R
  <2>1. s[i] # s[j]
    BY <1>1, <1>6, <1>9
  <2>2. ~(rank[s[j]] < rank[s[i]])
    BY <1>1, <1>6, <1>9
  <2> QED BY <1>3, <1>6, <2>1, <2>2 DEF Orders
<1> QED BY <1>7, <1>8, <1>9

(* Such a sequence has every element, once.                                *)
LEMMA EachElementOnce ==
  ASSUME NEW S, IsFiniteSet(S), NEW s \in SetToSeqs(S)
  PROVE  /\ s \in Seq(S) /\ Len(s) \in Nat /\ DOMAIN s = 1..Len(s)
         /\ \A i \in 1..Len(s) : s[i] \in S
         /\ \A i, j \in 1..Len(s) : s[i] = s[j] => i = j
         /\ \A x \in S : \E i \in 1..Len(s) : s[i] = x
<1> DEFINE n == Cardinality(S)
<1>1. n \in Nat /\ IsFiniteSet(1..n) /\ Cardinality(1..n) = n
  BY FS_CardinalityType, FS_Interval
<1>2. s \in [1..n -> S] /\ \A i, j \in 1..n : i # j => s[i] # s[j]
  BY DEF SetToSeqs
<1>3. s \in Seq(S) /\ Len(s) = n
  BY <1>1, <1>2
<1>4. s \in Injection(1..n, S)
  BY <1>2 DEF Injection, IsInjective
<1>5. s \in Surjection(1..n, S)
  BY <1>1, <1>4, FS_Injection
<1> QED BY <1>1, <1>2, <1>3, <1>5 DEF Surjection

LEMMA InOrderOfNumbers ==
  ASSUME NEW S \in SUBSET Int, IsFiniteSet(S)
  PROVE  /\ InOrder(S, <) \in SetToSeqs(S)
         /\ \A i, j \in DOMAIN InOrder(S, <) : i < j => InOrder(S, <)[i] < InOrder(S, <)[j]
<1> DEFINE R == {e \in S \X S : e[1] < e[2]}
<1>1. Orders(R, S)
  BY DEF Orders
<1>2. \A a, b \in S : <<a, b>> \in R <=> a < b
  OBVIOUS
<1> HIDE DEF R
<1>3. PICK s \in SetToSeqs(S) : \A i, j \in DOMAIN s : i < j => <<s[i], s[j]>> \in R
  BY <1>1, SortingExists
<1>4. \A i \in DOMAIN s : s[i] \in S
  BY DEF SetToSeqs
<1>5. \A i, j \in DOMAIN s : i < j => s[i] < s[j]
  BY <1>2, <1>3, <1>4
<1> QED BY <1>5 DEF InOrder

(* The order of rows.                                                      *)
LEMMA ByStartIsSorted ==
  ASSUME NEW procs, IsFiniteSet(DOMAIN procs), DOMAIN procs \subseteq Int,
         \A p \in DOMAIN procs : procs[p].start \in Int,
         NEW S \in SUBSET DOMAIN procs
  PROVE  ByStart(procs, S) \in SetToSeqs(S)
<1> DEFINE before(a, b) == \/ procs[a].start < procs[b].start
                           \/ procs[a].start = procs[b].start /\ a < b
           R == {e \in S \X S : before(e[1], e[2])}
<1>1. Orders(R, S) /\ IsFiniteSet(S)
  BY FS_Subset DEF Orders
<1>2. \A a, b \in S : <<a, b>> \in R <=> before(a, b)
  OBVIOUS
<1> HIDE DEF R
<1>3. PICK s \in SetToSeqs(S) : \A i, j \in DOMAIN s : i < j => <<s[i], s[j]>> \in R
  BY <1>1, SortingExists
<1>4. \A i \in DOMAIN s : s[i] \in S
  BY DEF SetToSeqs
<1>5. \A i, j \in DOMAIN s : i < j => before(s[i], s[j])
  BY <1>2, <1>3, <1>4
<1> QED BY <1>5 DEF ByStart, InOrder
-----------------------------------------------------------------------------
(* Folding                                                                 *)

LEMMA AllNaturals ==
  ASSUME NEW T \in SUBSET Nat, 0 \in T, \A n \in T : n + 1 \in T
  PROVE  T = Nat
<1> SUFFICES ASSUME Nat \ T # {} PROVE FALSE
  OBVIOUS
<1>1. PICK n \in Nat \ T : \A m \in Nat \ T : <<m, n>> \notin OpToRel(<, Nat)
  BY WFMin, NatLessThanWellFounded
<1>2. \A m \in Nat \ T : ~(m < n)
  BY <1>1 DEF OpToRel
<1>3. n - 1 \in Nat /\ n - 1 < n /\ n - 1 + 1 = n
  OBVIOUS
<1>4. n - 1 \in T
  BY <1>2, <1>3
<1> QED BY <1>3, <1>4

Folds(U, base, pick, op, f, s) ==
  f[s] = IF s = {} THEN base ELSE op[pick[s]][f[s \ {pick[s]}]]

(* A fold over a finite set that takes one element after the other.        *)
LEMMA FoldingExists ==
  ASSUME NEW U, IsFiniteSet(U), NEW V, NEW base \in V, NEW pick, NEW op,
         \A s \in SUBSET U : s # {} => pick[s] \in s,
         \A x \in U, v \in V : op[x][v] \in V
  PROVE  \E f \in [SUBSET U -> V] : \A s \in SUBSET U : Folds(U, base, pick, op, f, s)
<1> DEFINE Upto(n) == {s \in SUBSET U : Cardinality(s) <= n}
           Done == {n \in Nat : \E f \in [SUBSET U -> V] :
                      \A s \in Upto(n) : Folds(U, base, pick, op, f, s)}
<1>0. \A s \in SUBSET U : IsFiniteSet(s) /\ Cardinality(s) \in Nat
  BY FS_Subset, FS_CardinalityType
<1>1. 0 \in Done
  <2>1. [s \in SUBSET U |-> base] \in [SUBSET U -> V]
    OBVIOUS
  <2>2. \A s \in Upto(0) : s = {}
    BY <1>0, FS_EmptySet
  <2> QED BY <2>1, <2>2 DEF Folds
<1>2. ASSUME NEW n \in Done PROVE n + 1 \in Done
  <2>1. PICK f \in [SUBSET U -> V] : \A s \in Upto(n) : Folds(U, base, pick, op, f, s)
    OBVIOUS
  <2> DEFINE next(s) == IF s = {} THEN base ELSE op[pick[s]][f[s \ {pick[s]}]]
             h == [s \in SUBSET U |-> next(s)]
  <2>2. h \in [SUBSET U -> V]
    OBVIOUS
  <2>3. \A s \in Upto(n) : h[s] = f[s]
    BY <2>1 DEF Folds
  <2>4. ASSUME NEW s \in Upto(n + 1), s # {} PROVE s \ {pick[s]} \in Upto(n)
    <3>1. Cardinality(s \ {pick[s]}) = Cardinality(s) - 1
      BY <1>0, <2>4, FS_RemoveElement
    <3> QED BY <1>0, <3>1
  <2>5. \A s \in Upto(n + 1) : h[s] = next(s)
    OBVIOUS
  <2> HIDE DEF h
  <2>6. \A s \in Upto(n + 1) : Folds(U, base, pick, op, h, s)
    BY <2>3, <2>4, <2>5 DEF Folds
  <2>7. n + 1 \in Nat
    OBVIOUS
  <2> QED BY <2>2, <2>6, <2>7
<1>3. Done \subseteq Nat
  OBVIOUS
<1> HIDE DEF Done
<1>4. Done = Nat
  BY <1>1, <1>2, <1>3, AllNaturals
<1>5. Cardinality(U) \in Nat /\ SUBSET U = Upto(Cardinality(U))
  BY <1>0, FS_Subset
<1>6. PICK f \in [SUBSET U -> V] :
        \A s \in Upto(Cardinality(U)) : Folds(U, base, pick, op, f, s)
  BY <1>4, <1>5 DEF Done
<1> QED BY <1>5, <1>6

(* Whatever the empty fold is and each step keeps, the whole fold is.      *)
FoldKeeps(U, V, pick, f) ==
  /\ f[{}] \in V
  /\ \A s \in SUBSET U : s # {} => pick[s] \in s
  /\ \A s \in SUBSET U : s # {} /\ f[s \ {pick[s]}] \in V => f[s] \in V

LEMMA FoldIsTyped ==
  ASSUME NEW U, IsFiniteSet(U), NEW V, NEW pick, NEW f, FoldKeeps(U, V, pick, f)
  PROVE  f[U] \in V
<1> USE DEF FoldKeeps
<1> DEFINE Wrong == {s \in SUBSET U : f[s] \notin V}
<1> SUFFICES ASSUME Wrong # {} PROVE FALSE
  OBVIOUS
<1>2. Wrong \subseteq SUBSET U
  OBVIOUS
<1> HIDE DEF Wrong
<1>1. IsWellFoundedOn(StrictSubsetOrdering(U), SUBSET U)
  BY FS_StrictSubsetOrderingWellFounded, FS_FiniteSubsetsOfFinite
<1>3. PICK s \in Wrong : \A other \in Wrong : <<other, s>> \notin StrictSubsetOrdering(U)
  BY <1>1, <1>2, WFMin
<1>4. s \in SUBSET U /\ s # {} /\ f[s] \notin V
  BY DEF Wrong
<1>5. s \ {pick[s]} \in Wrong
  BY <1>4 DEF Wrong
<1>6. <<s \ {pick[s]}, s>> \in StrictSubsetOrdering(U)
  BY <1>4 DEF StrictSubsetOrdering
<1> QED BY <1>3, <1>5, <1>6

(* A sum of durations is a number.                                         *)
LEMMA TotalDurationIsNatural ==
  ASSUME NEW graph, NEW S, IsFiniteSet(S), \A p \in S : Duration(graph, p) \in Nat
  PROVE  TotalDuration(graph, S) \in Nat
<1> DEFINE pick == [s \in SUBSET S |-> CHOOSE x \in s : TRUE]
           op == [p \in S |-> [sum \in Nat |-> Duration(graph, p) + sum]]
           Sums(f) == f = [s \in SUBSET S |->
                             IF s = {} THEN 0
                             ELSE LET x == CHOOSE x \in s : TRUE
                                  IN  Duration(graph, x) + f[s \ {x}]]
           sums == CHOOSE f : Sums(f)
<1>1. TotalDuration(graph, S) = sums[S]
  BY DEF TotalDuration, MapThenSumSet, MapThenFoldSet
<1>2. \A s \in SUBSET S : s # {} => pick[s] \in s
  OBVIOUS
<1>3. \A x \in S, v \in Nat : op[x][v] = Duration(graph, x) + v
  OBVIOUS
<1>4. \A x \in S, v \in Nat : op[x][v] \in Nat
  BY <1>3
<1>5. \A s \in SUBSET S : pick[s] = CHOOSE x \in s : TRUE
  OBVIOUS
<1> HIDE DEF pick, op, Sums
<1>6. PICK f \in [SUBSET S -> Nat] : \A s \in SUBSET S : Folds(S, 0, pick, op, f, s)
  <2>1. 0 \in Nat
    OBVIOUS
  <2> QED BY <1>2, <1>4, <2>1, FoldingExists
<1>7. ASSUME NEW s \in SUBSET S, s # {}
      PROVE  f[s] = Duration(graph, pick[s]) + f[s \ {pick[s]}]
  <2>1. pick[s] \in S /\ s \ {pick[s]} \in SUBSET S
    BY <1>2, <1>7
  <2>2. f[s] = op[pick[s]][f[s \ {pick[s]}]]
    BY <1>6, <1>7 DEF Folds
  <2> QED BY <1>3, <2>1, <2>2
<1>8. Sums(f)
  <2>1. f[{}] = 0
    BY <1>6 DEF Folds
  <2>2. f = [s \in SUBSET S |-> f[s]]
    OBVIOUS
  <2>3. \A s \in SUBSET S : f[s] = IF s = {} THEN 0
                              ELSE LET x == CHOOSE x \in s : TRUE
                                   IN  Duration(graph, x) + f[s \ {x}]
    BY <1>5, <1>7, <2>1, Zenon
  <2> QED BY <2>2, <2>3, Zenon DEF Sums
<1>9. Sums(sums)
  BY <1>8
<1> HIDE DEF sums
<1>10. sums[{}] = 0
  BY <1>9, Zenon DEF Sums
<1>11. ASSUME NEW s \in SUBSET S, s # {}
       PROVE  sums[s] = Duration(graph, pick[s]) + sums[s \ {pick[s]}]
  BY <1>5, <1>9, <1>11, Zenon DEF Sums
<1>12. ASSUME NEW s \in SUBSET S, s # {}, sums[s \ {pick[s]}] \in Nat
       PROVE  sums[s] \in Nat
  <2>1. Duration(graph, pick[s]) \in Nat
    BY <1>2, <1>12
  <2>2. \A a, b \in Nat : a + b \in Nat
    OBVIOUS
  <2> QED BY <1>11, <1>12, <2>1, <2>2, Zenon
<1>13. sums[S] \in Nat
  <2>1. sums[{}] \in Nat
    BY <1>10
  <2>2. \A s \in SUBSET S : s # {} /\ sums[s \ {pick[s]}] \in Nat => sums[s] \in Nat
    BY <1>12
  <2>3. IsFiniteSet(S)
    OBVIOUS
  <2>4. FoldKeeps(S, Nat, pick, sums)
    BY <1>2, <2>1, <2>2 DEF FoldKeeps
  <2> QED BY <2>3, <2>4, FoldIsTyped, Zenon
<1> QED BY <1>1, <1>13
LEMMA GreatestExists ==
  ASSUME NEW S \in SUBSET Int, IsFiniteSet(S), S # {}
  PROVE  Max(S) \in S
<1> DEFINE s == InOrder(S, <)
           n == Len(s)
<1>1. s \in SetToSeqs(S) /\ \A i, j \in DOMAIN s : i < j => s[i] < s[j]
  BY InOrderOfNumbers
<1>2. /\ n \in Nat /\ DOMAIN s = 1..n
      /\ \A i \in 1..n : s[i] \in S
      /\ \A x \in S : \E i \in 1..n : s[i] = x
  BY <1>1, EachElementOnce
<1> HIDE DEF s, n
<1>3. n \in DOMAIN s
  <2>1. PICK i \in 1..n : s[i] \in S
    BY <1>2
  <2> QED BY <1>2, <2>1
<1>4. ASSUME NEW x \in S PROVE s[n] >= x
  <2>1. PICK i \in 1..n : s[i] = x
    BY <1>2
  <2>2. CASE i = n
    BY <1>2, <1>3, <2>1, <2>2
  <2>3. CASE i < n
    <3>1. s[i] < s[n]
      BY <1>1, <1>2, <1>3, <2>3
    <3>2. s[i] \in Int /\ s[n] \in Int
      BY <1>2, <1>3
    <3> QED BY <2>1, <3>1, <3>2
  <2>4. i = n \/ i < n
    BY <1>2
  <2> QED BY <2>2, <2>3, <2>4, Zenon
<1>5. s[n] \in S
  BY <1>2, <1>3
<1> QED BY <1>4, <1>5 DEF Max

(* Giving children the outputs of their parents, who writes a file is a    *)
(* process still.                                                          *)
LEMMA BuildWrites ==
  ASSUME NEW procs, IsFiniteSet(DOMAIN procs), DOMAIN procs \subseteq Pids,
         \A p \in DOMAIN procs : procs[p].ppid \in Nat,
         NEW accesses \in SUBSET Access
  PROVE  build_dependency_graph(procs, accesses).writes \subseteq Pids \X Files
<1> DEFINE recorded ==
             [procs |-> procs,
              reads |-> {<<a.pid, a.file>> : a \in {b \in accesses : is_input_mode(b.mode)}},
              writes |-> {<<a.pid, a.file>> : a \in {b \in accesses : is_output_mode(b.mode)}}]
           order == ParentsInOrder(procs)
           With(W) == [procs |-> procs, reads |-> recorded.reads, writes |-> W]
           V == {With(W) : W \in SUBSET (Pids \X Files)}
           Inherits(f) == f = [s \in SUBSET DOMAIN order |->
                                 IF s = {} THEN recorded
                                 ELSE LET i == Max(s) IN Inherit(f[s \ {i}], order[i])]
           inherited == CHOOSE f : Inherits(f)
<1>1. build_dependency_graph(procs, accesses).writes = inherited[DOMAIN order].writes
  BY DEF build_dependency_graph, FoldLeft, MapThenFoldSet
<1>2. /\ recorded \in V
      /\ \A v \in V : v.writes \subseteq Pids \X Files
  <2>1. {<<a.pid, a.file>> : a \in {b \in accesses : is_output_mode(b.mode)}}
          \subseteq Pids \X Files
    BY DEF Access
  <2>2. recorded = With({<<a.pid, a.file>> : a \in {b \in accesses : is_output_mode(b.mode)}})
    OBVIOUS
  <2>3. \A W : With(W).writes = W
    OBVIOUS
  <2> HIDE DEF recorded, With
  <2>4. recorded \in V
    BY <2>1, <2>2
  <2> QED BY <2>3, <2>4
<1>3. ASSUME NEW v \in V, NEW q PROVE Inherit(v, q) \in V
  <2>1. PICK W \in SUBSET (Pids \X Files) : v = With(W)
    OBVIOUS
  <2> DEFINE more == {c \in Children(v.procs, q) : Outputs(v, c) = {} /\ ReadsAny(v, c)}
                       \X Outputs(v, q)
  <2>2. v.procs = procs
    BY <2>1
  <2>3. more \subseteq Pids \X Files
    BY <2>2 DEF Children, Outputs
  <2> HIDE DEF more, recorded
  <2>4. [v EXCEPT !.writes = @ \cup more] = With(W \cup more)
    <3>1. \A R, A, B : [[procs |-> procs, reads |-> R, writes |-> A] EXCEPT !.writes = B]
                        = [procs |-> procs, reads |-> R, writes |-> B]
      OBVIOUS
    <3>2. v = [procs |-> procs, reads |-> recorded.reads, writes |-> W] /\ v.writes = W
      BY <2>1
    <3> QED BY <3>1, <3>2, Zenon
  <2>5. Inherit(v, q) = [v EXCEPT !.writes = @ \cup more]
    BY DEF Inherit, more
  <2> QED BY <2>3, <2>4, <2>5
<1> HIDE DEF recorded, V
<1>4. IsFiniteSet(DOMAIN order) /\ DOMAIN order \in SUBSET Int
  <2> DEFINE parent == [p \in DOMAIN procs |-> procs[p].ppid]
  <2>1. parent \in Surjection(DOMAIN procs, Parents(procs))
    BY DEF Parents, Surjection
  <2>2. IsFiniteSet(Parents(procs))
    BY <2>1, FS_Surjection
  <2>3. Parents(procs) \in SUBSET Int
    BY DEF Parents
  <2>4. order \in SetToSeqs(Parents(procs))
    BY <2>2, <2>3, InOrderOfNumbers DEF ParentsInOrder
  <2>5. Len(order) \in Nat /\ DOMAIN order = 1..Len(order)
    BY <2>2, <2>4, EachElementOnce
  <2> QED BY <2>5, FS_Interval
<1> HIDE DEF order
<1> DEFINE pick == [s \in SUBSET DOMAIN order |-> Max(s)]
           op == [i \in DOMAIN order |-> [v \in V |-> Inherit(v, order[i])]]
<1>5. \A s \in SUBSET DOMAIN order : s # {} => pick[s] \in s
  BY <1>4, GreatestExists, FS_Subset
<1>6. \A i \in DOMAIN order, v \in V : op[i][v] = Inherit(v, order[i]) /\ op[i][v] \in V
  BY <1>3
<1>7. \A s \in SUBSET DOMAIN order : pick[s] = Max(s)
  OBVIOUS
<1> HIDE DEF pick, op, Inherits
<1>8. PICK f \in [SUBSET DOMAIN order -> V] :
        \A s \in SUBSET DOMAIN order : Folds(DOMAIN order, recorded, pick, op, f, s)
  BY <1>2, <1>4, <1>5, <1>6, FoldingExists
<1>9. ASSUME NEW s \in SUBSET DOMAIN order, s # {}
      PROVE  f[s] = Inherit(f[s \ {pick[s]}], order[pick[s]])
  <2>1. pick[s] \in DOMAIN order /\ s \ {pick[s]} \in SUBSET DOMAIN order
    BY <1>5, <1>9
  <2>2. f[s] = op[pick[s]][f[s \ {pick[s]}]]
    BY <1>8, <1>9 DEF Folds
  <2> QED BY <1>6, <2>1, <2>2
<1>10. Inherits(f)
  <2>1. f[{}] = recorded
    BY <1>8 DEF Folds
  <2>2. f = [s \in SUBSET DOMAIN order |-> f[s]]
    OBVIOUS
  <2>3. \A s \in SUBSET DOMAIN order :
          f[s] = IF s = {} THEN recorded
                 ELSE LET i == Max(s) IN Inherit(f[s \ {i}], order[i])
    BY <1>7, <1>9, <2>1, Zenon
  <2> QED BY <2>2, <2>3, Zenon DEF Inherits
<1>11. Inherits(inherited)
  BY <1>10
<1> HIDE DEF inherited
<1>12. inherited[{}] = recorded
  BY <1>11, Zenon DEF Inherits
<1>13. ASSUME NEW s \in SUBSET DOMAIN order, s # {}
       PROVE  inherited[s] = Inherit(inherited[s \ {pick[s]}], order[pick[s]])
  BY <1>7, <1>11, <1>13, Zenon DEF Inherits
<1>14. inherited[DOMAIN order] \in V
  <2>1. ASSUME NEW s \in SUBSET DOMAIN order, s # {}, inherited[s \ {pick[s]}] \in V
        PROVE  inherited[s] \in V
    BY <1>3, <1>13, <2>1
  <2>2. inherited[{}] \in V
    BY <1>2, <1>12, Zenon
  <2> HIDE DEF With
  <2>3. FoldKeeps(DOMAIN order, V, pick, inherited)
    BY <1>5, <2>1, <2>2 DEF FoldKeeps
  <2> QED BY <1>4, <2>3, FoldIsTyped, Zenon
<1> QED BY <1>1, <1>2, <1>14
=============================================================================
