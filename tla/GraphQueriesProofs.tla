-------------------------- MODULE GraphQueriesProofs --------------------------
(***************************************************************************)
(* Races, rdeps and impact answer what they are asked, for any trace whose *)
(* processes form a forest.                                                *)
(***************************************************************************)
EXTENDS GraphQueries, DependencyGraphProofs, SequenceTheorems

LEMMA Joined ==
  ASSUME NEW V, NEW s \in Seq(V), NEW t \in Seq(V)
  PROVE  /\ s \o t \in Seq(V) /\ Len(s \o t) = Len(s) + Len(t)
         /\ \A k \in 1..Len(s) + Len(t) :
              (s \o t)[k] = IF k <= Len(s) THEN s[k] ELSE t[k - Len(s)]
OBVIOUS

(* Flattening a sequence of sequences keeps what is in them, no more.      *)
Joining(seqs, f, i) == IF i = 1 THEN seqs[i] ELSE f[i - 1] \o seqs[i]

Gathers(V, seqs, m, x) ==
  /\ x \in Seq(V)
  /\ \A k \in 1..Len(x) : \E i \in 1..m : \E j \in 1..Len(seqs[i]) : x[k] = seqs[i][j]
  /\ \A i \in 1..m : \A j \in 1..Len(seqs[i]) : \E k \in 1..Len(x) : x[k] = seqs[i][j]

IsFlattening(V, n, seqs, f) ==
  f \in [1..n -> Seq(V)] /\ \A i \in 1..n : f[i] = Joining(seqs, f, i)

LEMMA JoiningIsASequence ==
  ASSUME NEW V, NEW seqs, NEW f, NEW m \in Nat, m # 0,
         f[m] \in Seq(V), seqs[m + 1] \in Seq(V)
  PROVE  Joining(seqs, f, m + 1) \in Seq(V)
<1>1. m + 1 # 1 /\ m + 1 - 1 = m
  OBVIOUS
<1> DEFINE i == m + 1
<1>2. i # 1 /\ f[i - 1] \in Seq(V) /\ seqs[i] \in Seq(V)
  BY <1>1
<1> HIDE DEF i
<1>3. Joining(seqs, f, i) = f[i - 1] \o seqs[i]
  BY <1>2 DEF Joining
<1>4. Joining(seqs, f, i) \in Seq(V)
  BY <1>2, <1>3, Joined
<1> QED BY <1>4 DEF i

LEMMA FlatteningExists ==
  ASSUME NEW V, NEW n \in Nat, NEW seqs \in [1..n -> Seq(V)]
  PROVE  \E f : IsFlattening(V, n, seqs, f)
<1> DEFINE next(f, i) == Joining(seqs, f, i)
           Upto(m) == \E f \in [1..n -> Seq(V)] :
                        \A i \in 1..n : i <= m => f[i] = next(f, i)
           Done == {m \in Nat : Upto(m)}
<1>1. 0 \in Done
  BY DEF Done
<1>2. ASSUME NEW m \in Done PROVE m + 1 \in Done
  <2>1. m \in Nat /\ Upto(m)
    OBVIOUS
  <2>2. PICK f \in [1..n -> Seq(V)] : \A i \in 1..n : i <= m => f[i] = next(f, i)
    BY <2>1
  <2>3. CASE m + 1 \in 1..n
    <3> DEFINE more == next(f, m + 1)
               h == [f EXCEPT ![m + 1] = more]
    <3>1. more \in Seq(V)
      <4>1. CASE m = 0
        BY <2>3, <4>1 DEF Joining
      <4>2. CASE m # 0
        <5>1. m \in 1..n /\ m + 1 # 1 /\ m + 1 - 1 = m
          BY <2>1, <2>3, <4>2
        <5>2. f[m] \in Seq(V) /\ seqs[m + 1] \in Seq(V)
          BY <2>3, <5>1
        <5>3. Joining(seqs, f, m + 1) \in Seq(V)
          <6>1. m \in Nat /\ m # 0
            BY <2>1, <4>2
          <6> QED BY <5>2, <6>1, JoiningIsASequence, Zenon
        <5> QED BY <5>3, Zenon
      <4> QED BY <4>1, <4>2
    <3> HIDE DEF more
    <3>2. h \in [1..n -> Seq(V)] /\ h[m + 1] = more
      BY <2>3, <3>1
    <3>3. \A i \in 1..n : i <= m => h[i] = f[i] /\ i # m + 1
      BY <2>1
    <3> HIDE DEF h
    <3>4. ASSUME NEW i \in 1..n, i <= m + 1 PROVE h[i] = next(h, i)
      <4>1. CASE i = m + 1 /\ i = 1
        BY <3>2, <4>1 DEF more, Joining
      <4>2. CASE i = m + 1 /\ i # 1
        <5>1. m \in 1..n /\ m <= m /\ i - 1 = m
          BY <2>1, <4>2
        <5>2. h[m] = f[m]
          BY <3>3, <5>1
        <5>3. h[i] = f[m] \o seqs[i]
          BY <3>2, <4>2, <5>1 DEF more, Joining
        <5> QED BY <4>2, <5>1, <5>2, <5>3 DEF Joining
      <4>3. CASE i # m + 1
        <5>1. i <= m
          BY <2>1, <3>4, <4>3
        <5>2. h[i] = next(f, i)
          BY <2>2, <3>3, <5>1
        <5>3. i # 1 => h[i - 1] = f[i - 1]
          <6>1. i # 1 => i - 1 \in 1..n /\ i - 1 <= m
            BY <5>1
          <6> QED BY <3>3, <6>1
        <5> QED BY <5>2, <5>3 DEF Joining
      <4> QED BY <4>1, <4>2, <4>3
    <3>5. Upto(m + 1)
      BY <3>2, <3>4
    <3>6. m + 1 \in Nat
      BY <2>1
    <3> HIDE DEF Upto
    <3> QED BY <3>5, <3>6
  <2>4. CASE m + 1 \notin 1..n
    <3>1. \A i \in 1..n : i <= m
      BY <2>1, <2>4
    <3>2. \A i \in 1..n : i <= m + 1 => f[i] = next(f, i)
      BY <2>2, <3>1
    <3>3. m + 1 \in Nat
      BY <2>1
    <3> HIDE DEF next
    <3> QED BY <3>2, <3>3
  <2> QED BY <2>3, <2>4
<1>3. Done \subseteq Nat
  OBVIOUS
<1> HIDE DEF Done
<1>4. n \in Done
  BY <1>1, <1>2, <1>3, AllNaturals
<1>5. PICK f \in [1..n -> Seq(V)] : \A i \in 1..n : i <= n => f[i] = next(f, i)
  BY <1>4 DEF Done
<1>6. \A i \in 1..n : f[i] = Joining(seqs, f, i)
  BY <1>5
<1> QED BY <1>6, Zenon DEF IsFlattening

LEMMA GathersOneMore ==
  ASSUME NEW V, NEW n \in Nat, NEW seqs \in [1..n -> Seq(V)],
         NEW m \in Nat, m + 1 \in 1..n, NEW s, Gathers(V, seqs, m, s)
  PROVE  Gathers(V, seqs, m + 1, s \o seqs[m + 1])
<1> DEFINE t == seqs[m + 1]
           a == Len(s)
           b == Len(t)
<1>1. s \in Seq(V) /\ t \in Seq(V)
  BY DEF Gathers
<1>2. a \in Nat /\ b \in Nat
  BY <1>1
<1>3. t = seqs[m + 1] /\ Len(t) = b /\ Len(s) = a
  OBVIOUS
<1> HIDE DEF t
<1>4. /\ s \o t \in Seq(V) /\ Len(s \o t) = a + b
      /\ \A k \in 1..a + b : (s \o t)[k] = IF k <= a THEN s[k] ELSE t[k - a]
  BY <1>1, Joined
<1>5. \A k \in 1..a : (s \o t)[k] = s[k] /\ k \in 1..Len(s \o t)
  BY <1>1
<1>6. \A k \in 1..b : (s \o t)[a + k] = t[k] /\ a + k \in 1..Len(s \o t)
  BY <1>1
<1> HIDE DEF a, b
<1>7. ASSUME NEW k \in 1..Len(s \o t)
      PROVE  \E i \in 1..(m + 1) : \E j \in 1..Len(seqs[i]) : (s \o t)[k] = seqs[i][j]
  <2>1. CASE k <= a
    <3>1. k \in 1..Len(s) /\ (s \o t)[k] = s[k]
      BY <1>2, <1>3, <1>4, <1>5, <2>1
    <3>2. PICK i \in 1..m : \E j \in 1..Len(seqs[i]) : s[k] = seqs[i][j]
      BY <3>1 DEF Gathers
    <3>3. i \in 1..(m + 1)
      OBVIOUS
    <3> QED BY <3>1, <3>2, <3>3
  <2>2. CASE ~(k <= a)
    <3>1. k - a \in 1..b /\ a + (k - a) = k
      BY <1>2, <1>4, <2>2
    <3>2. (s \o t)[k] = t[k - a]
      BY <1>6, <3>1
    <3>3. m + 1 \in 1..(m + 1)
      OBVIOUS
    <3> QED BY <1>3, <3>1, <3>2, <3>3
  <2> QED BY <2>1, <2>2
<1>8. ASSUME NEW i \in 1..(m + 1), NEW j \in 1..Len(seqs[i])
      PROVE  \E k \in 1..Len(s \o t) : (s \o t)[k] = seqs[i][j]
  <2>1. CASE i = m + 1
    <3>1. j \in 1..b /\ seqs[i][j] = t[j]
      BY <1>3, <2>1
    <3> QED BY <1>6, <3>1
  <2>2. CASE i # m + 1
    <3>1. i \in 1..m
      BY <2>2
    <3>2. PICK k \in 1..Len(s) : s[k] = seqs[i][j]
      BY <3>1 DEF Gathers
    <3> QED BY <1>3, <1>5, <3>2
  <2> QED BY <2>1, <2>2
<1> QED BY <1>3, <1>4, <1>7, <1>8 DEF Gathers

LEMMA FlatteningKeeps ==
  ASSUME NEW V, NEW n \in Nat, NEW seqs \in [1..n -> Seq(V)]
  PROVE  Gathers(V, seqs, n, FlattenSeq(seqs))
<1>1. seqs \in Seq(Seq(V)) /\ Len(seqs) = n
  OBVIOUS
<1>2. CASE n = 0
  <2>1. seqs = <<>>
    BY <1>1, <1>2
  <2>2. FlattenSeq(seqs) = <<>>
    BY <1>1, <1>2, <2>1 DEF FlattenSeq
  <2> QED BY <1>2, <2>2 DEF Gathers
<1>3. CASE n # 0
  <2> DEFINE Flattens(f) == f = [i \in 1..n |-> IF i = 1 THEN seqs[i] ELSE f[i - 1] \o seqs[i]]
             flat == CHOOSE f : Flattens(f)
             Done == {m \in Nat : m = 0 \/ m > n \/ Gathers(V, seqs, m, flat[m])}
  <2>1. FlattenSeq(seqs) = flat[n]
    BY <1>1, <1>3 DEF FlattenSeq
  <2>2. \A f : Flattens(f) <=> f = [i \in 1..n |-> Joining(seqs, f, i)]
    BY Zenon DEF Joining
  <2> HIDE DEF Flattens
  <2>3. PICK f : IsFlattening(V, n, seqs, f)
    BY FlatteningExists
  <2>4. f = [i \in 1..n |-> Joining(seqs, f, i)]
    <3>1. f = [i \in 1..n |-> f[i]]
      BY <2>3 DEF IsFlattening
    <3> QED BY <2>3, <3>1, Zenon DEF IsFlattening
  <2>5. Flattens(flat)
    BY <2>2, <2>4
  <2> HIDE DEF flat
  <2>6. \A i \in 1..n : flat[i] = Joining(seqs, flat, i)
    BY <2>2, <2>5
  <2>7. ASSUME NEW m \in Done PROVE m + 1 \in Done
    <3>0. m \in Nat /\ m + 1 \in Nat
      OBVIOUS
    <3>1. CASE m = 0
      <4>1. flat[1] = seqs[1] /\ seqs[1] \in Seq(V)
        BY <1>3, <2>6 DEF Joining
      <4>2. 1 \in 1..1 /\ \A i \in 1..1 : i = 1
        OBVIOUS
      <4>3. Gathers(V, seqs, 1, flat[1])
        BY <4>1, <4>2 DEF Gathers
      <4> QED BY <3>1, <4>3
    <3>2. CASE m + 1 > n
      BY <3>0, <3>2
    <3>3. CASE m # 0 /\ m + 1 <= n
      <4>1. m + 1 \in 1..n /\ m + 1 # 1 /\ m + 1 - 1 = m
        BY <3>0, <3>3
      <4>2. Gathers(V, seqs, m, flat[m])
        BY <3>0, <3>3
      <4>3. flat[m + 1] = flat[m] \o seqs[m + 1]
        <5> DEFINE i == m + 1
        <5>1. i \in 1..n /\ i # 1 /\ i - 1 = m
          BY <4>1
        <5> HIDE DEF i, Done
        <5>2. flat[i] = flat[i - 1] \o seqs[i]
          BY <2>6, <5>1, Zenon DEF Joining
        <5>3. flat[i] = flat[m] \o seqs[i]
          BY <5>1, <5>2, Zenon
        <5> QED BY <5>3 DEF i
      <4>4. Gathers(V, seqs, m + 1, flat[m + 1])
        BY <3>0, <4>1, <4>2, <4>3, GathersOneMore
      <4> QED BY <3>0, <4>4
    <3> HIDE DEF Done
    <3> QED BY <3>0, <3>1, <3>2, <3>3
  <2>8. Done \subseteq Nat /\ 0 \in Done
    OBVIOUS
  <2> HIDE DEF Done
  <2>9. n \in Done
    BY <2>7, <2>8, AllNaturals
  <2>10. Gathers(V, seqs, n, flat[n])
    BY <1>3, <2>9 DEF Done
  <2> QED BY <2>1, <2>10
<1> QED BY <1>2, <1>3

(* A sorted set of numbers has each of them once.                          *)
LEMMA SortedIs ==
  ASSUME NEW S \in SUBSET Int, IsFiniteSet(S)
  PROVE  /\ Sorted(S) \in Seq(S) /\ Len(Sorted(S)) \in Nat
         /\ DOMAIN Sorted(S) = 1..Len(Sorted(S))
         /\ \A i \in 1..Len(Sorted(S)) : Sorted(S)[i] \in S
         /\ \A i, j \in 1..Len(Sorted(S)) : Sorted(S)[i] = Sorted(S)[j] => i = j
         /\ \A x \in S : \E i \in 1..Len(Sorted(S)) : Sorted(S)[i] = x
<1>1. Sorted(S) \in SetToSeqs(S)
  BY InOrderOfNumbers DEF Sorted
<1> QED BY <1>1, EachElementOnce
-----------------------------------------------------------------------------
(* Whatever question is asked, the graph and the question stay as they     *)
(* were, and the graph relates processes with files.                       *)
GraphInv ==
  /\ g.reads \subseteq Pids \X Files /\ g.writes \subseteq Pids \X Files
  /\ DOMAIN g.procs \subseteq Pids /\ g.procs \in [DOMAIN g.procs -> Row]
  /\ Acyclic(g.procs) /\ ask.depth \in Int

LEMMA GraphInitially == ASSUME Init PROVE GraphInv
<1>0. PICK kind \in DOMAIN Questions : \E q \in Questions[kind] :
        g = build_dependency_graph(q.procs, q.accesses) /\ ask = q.ask
  BY DEF Init
<1>1. PICK q \in Questions[kind] :
        g = build_dependency_graph(q.procs, q.accesses) /\ ask = q.ask
  BY <1>0
<1>2. /\ DOMAIN q.procs \subseteq Pids /\ q.procs \in [DOMAIN q.procs -> Row]
      /\ Acyclic(q.procs) /\ q.accesses \in SUBSET Access /\ ask.depth \in Int
  BY <1>1, QuestionsAssumption
<1>3. IsFiniteSet(DOMAIN q.procs) /\ \A p \in DOMAIN q.procs : q.procs[p].ppid \in Nat
  BY <1>2, GraphAssumption, FS_Subset DEF Row
<1>4. g.reads \subseteq Pids \X Files /\ g.writes \subseteq Pids \X Files
  BY <1>1, <1>2, <1>3, BuildReads, BuildWrites
<1>5. g.procs = q.procs
  BY <1>1 DEF build_dependency_graph
<1> QED BY <1>2, <1>4, <1>5 DEF GraphInv

LEMMA FinitelyMany ==
  ASSUME NEW graph, NEW x
  PROVE  /\ Readers(graph, x) \in SUBSET Int /\ IsFiniteSet(Readers(graph, x))
         /\ Outputs(graph, x) \in SUBSET Int /\ IsFiniteSet(Outputs(graph, x))
<1>1. Readers(graph, x) \in SUBSET Pids /\ Outputs(graph, x) \in SUBSET Files
  BY DEF Readers, Outputs
<1>2. Pids \in SUBSET Int /\ IsFiniteSet(Pids) /\ Files \in SUBSET Int /\ IsFiniteSet(Files)
  BY GraphAssumption, QuestionsAssumption
<1> QED BY <1>1, <1>2, FS_Subset

LEMMA GraphStays == ASSUME GraphInv, [Next]_vars PROVE g' = g /\ ask' = ask /\ GraphInv'
<1>1. g' = g /\ ask' = ask
  BY DEF Next, vars, Enter, Leave, Numbered, LookAtFile, DeadlinePasses, Finish, Descend, Return
<1> QED BY <1>1 DEF GraphInv

(* The two loops of a frame go over everything somebody makes from its     *)
(* file, and nothing else.                                                 *)
LEMMA ConsumersAre ==
  ASSUME GraphInv, NEW f
  PROVE  /\ Consumers(f) \in Seq(Pids \X Files)
         /\ \A k \in 1..Len(Consumers(f)) :
              Consumers(f)[k] \in g.writes /\ <<Consumers(f)[k][1], f>> \in g.reads
         /\ \A w \in g.writes : <<w[1], f>> \in g.reads =>
              \E k \in 1..Len(Consumers(f)) : Consumers(f)[k] = w
<1> DEFINE readers == Sorted(Readers(g, f))
           n == Len(readers)
           outputs(p) == Sorted(Outputs(g, p))
           pairs(p) == [i \in DOMAIN outputs(p) |-> <<p, outputs(p)[i]>>]
           seqs == [i \in 1..n |-> pairs(readers[i])]
<1>3. /\ n \in Nat /\ DOMAIN readers = 1..n
      /\ \A i \in 1..n : readers[i] \in Readers(g, f)
      /\ \A x \in Readers(g, f) : \E i \in 1..n : readers[i] = x
  BY FinitelyMany, SortedIs
<1>4. Consumers(f) = FlattenSeq(seqs)
  BY <1>3 DEF Consumers
<1> HIDE DEF readers, n
<1>5. ASSUME NEW p \in Pids
      PROVE  /\ Len(pairs(p)) = Len(outputs(p)) /\ pairs(p) \in Seq(Pids \X Files)
             /\ \A j \in 1..Len(outputs(p)) : /\ pairs(p)[j] = <<p, outputs(p)[j]>>
                                              /\ outputs(p)[j] \in Outputs(g, p)
             /\ \A x \in Outputs(g, p) : \E j \in 1..Len(outputs(p)) : outputs(p)[j] = x
  <2> DEFINE s == outputs(p)
             m == Len(s)
  <2>1. /\ m \in Nat /\ DOMAIN s = 1..m
        /\ \A j \in 1..m : s[j] \in Outputs(g, p)
        /\ \A x \in Outputs(g, p) : \E j \in 1..m : s[j] = x
    BY FinitelyMany, SortedIs
  <2>2. pairs(p) = [j \in 1..m |-> <<p, s[j]>>]
    BY <2>1
  <2> HIDE DEF s, m
  <2>3. \A j \in 1..m : <<p, s[j]>> \in Pids \X Files
    BY <2>1 DEF Outputs
  <2>4. [j \in 1..m |-> <<p, s[j]>>] \in Seq(Pids \X Files)
    BY <2>1, <2>3
  <2>5. Len([j \in 1..m |-> <<p, s[j]>>]) = m
    BY <2>1
  <2>6. Len(pairs(p)) = m /\ pairs(p) \in Seq(Pids \X Files)
    BY <2>2, <2>4, <2>5, Zenon
  <2>7. \A j \in 1..m : pairs(p)[j] = <<p, s[j]>>
    BY <2>2
  <2> QED BY <2>1, <2>6, <2>7 DEF s, m
<1> HIDE DEF outputs, pairs
<1>6. \A i \in 1..n : readers[i] \in Pids /\ <<readers[i], f>> \in g.reads
  BY <1>3 DEF Readers
<1>7. seqs \in [1..n -> Seq(Pids \X Files)]
  BY <1>5, <1>6
<1>8. \A i \in 1..n : seqs[i] = pairs(readers[i])
  OBVIOUS
<1> HIDE DEF seqs
<1>9. Gathers(Pids \X Files, seqs, n, Consumers(f))
  <2>1. Gathers(Pids \X Files, seqs, n, FlattenSeq(seqs))
    BY <1>3, <1>7, FlatteningKeeps
  <2> QED BY <1>4, <2>1, Zenon
<1>10. ASSUME NEW k \in 1..Len(Consumers(f))
       PROVE  Consumers(f)[k] \in g.writes /\ <<Consumers(f)[k][1], f>> \in g.reads
  <2>1. PICK i \in 1..n : \E j \in 1..Len(seqs[i]) : Consumers(f)[k] = seqs[i][j]
    BY <1>9 DEF Gathers
  <2>2. PICK j \in 1..Len(seqs[i]) : Consumers(f)[k] = seqs[i][j]
    BY <2>1
  <2>3. /\ Consumers(f)[k] = <<readers[i], outputs(readers[i])[j]>>
        /\ outputs(readers[i])[j] \in Outputs(g, readers[i])
    BY <1>5, <1>6, <1>8, <2>2
  <2> QED BY <1>6, <2>3 DEF Outputs
<1>11. ASSUME NEW w \in g.writes, <<w[1], f>> \in g.reads
       PROVE  \E k \in 1..Len(Consumers(f)) : Consumers(f)[k] = w
  <2>1. w \in Pids \X Files
    BY DEF GraphInv
  <2>2. w[1] \in Readers(g, f) /\ w[1] \in Pids /\ w[2] \in Outputs(g, w[1]) /\ w = <<w[1], w[2]>>
    BY <1>11, <2>1 DEF Readers, Outputs
  <2>3. PICK i \in 1..n : readers[i] = w[1]
    BY <1>3, <2>2
  <2>4. PICK j \in 1..Len(outputs(w[1])) : outputs(w[1])[j] = w[2]
    BY <1>5, <2>2
  <2>5. j \in 1..Len(seqs[i]) /\ seqs[i][j] = w
    <3>1. seqs[i] = pairs(w[1])
      BY <1>8, <2>3
    <3>2. Len(pairs(w[1])) = Len(outputs(w[1])) /\ pairs(w[1])[j] = <<w[1], w[2]>>
      BY <1>5, <2>2, <2>4
    <3> QED BY <2>2, <3>1, <3>2
  <2> QED BY <1>9, <2>5 DEF Gathers
<1>12. Consumers(f) \in Seq(Pids \X Files)
  BY <1>9 DEF Gathers
<1> QED BY <1>10, <1>11, <1>12
-----------------------------------------------------------------------------
(* rdeps.  Every frame stands for a node of the tree; what somebody makes  *)
(* from a node is in the tree, or its frame still has to go over it.       *)
Node(f, level) == [file |-> f, level |-> level]
Nodes == {Node(e.file, e.level) : e \in result} \cup {Node(ask.file, 0)}
Frames == [file : Files \cup {ask.file}, depth : Int, todo : Seq(Pids \X Files)]

RdepsTree ==
  /\ visited = {e.file : e \in result} \cup {ask.file}
  /\ \A e, d \in result : e.file = d.file => e = d
  /\ \A e \in result :
       /\ e.file # ask.file
       /\ \E p \in Pids : <<p, e.of>> \in g.reads /\ <<p, e.file>> \in g.writes
       /\ e.level \in Nat /\ e.level <= ask.depth
       /\ Node(e.of, e.level - 1) \in Nodes

RdepsStack ==
  /\ stack \in Seq(Frames)
  /\ \A i \in 1..Len(stack) :
       /\ stack[i].depth = ask.depth - (i - 1)
       /\ Node(stack[i].file, i - 1) \in Nodes
       /\ stack[i].todo # <<>> => stack[i].depth > 0
       /\ \A k \in 1..Len(stack[i].todo) :
            /\ stack[i].todo[k] \in g.writes
            /\ <<stack[i].todo[k][1], stack[i].file>> \in g.reads

InTodo(w, f, frame) ==
  frame.file = f /\ \E k \in 1..Len(frame.todo) : frame.todo[k] = w

RdepsComplete ==
  \A n \in Nodes : n.level < ask.depth =>
    \A w \in g.writes : <<w[1], n.file>> \in g.reads =>
      w[2] \in visited \/ \E i \in 1..Len(stack) : InTodo(w, n.file, stack[i])

RdepsInv ==
  ask.kind = "rdeps" =>
    /\ phase \in {"recurse", "done"} /\ (phase = "done" => stack = <<>>)
    /\ RdepsTree /\ RdepsStack /\ RdepsComplete
LEMMA FrameFits ==
  ASSUME GraphInv, NEW f \in Files \cup {ask.file}, NEW depth \in Int
  PROVE  /\ Frame(f, depth) \in Frames
         /\ Frame(f, depth).file = f /\ Frame(f, depth).depth = depth
         /\ Frame(f, depth).todo # <<>> => depth > 0
         /\ \A k \in 1..Len(Frame(f, depth).todo) :
              /\ Frame(f, depth).todo[k] \in g.writes
              /\ <<Frame(f, depth).todo[k][1], f>> \in g.reads
         /\ depth > 0 => \A w \in g.writes : <<w[1], f>> \in g.reads =>
                            InTodo(w, f, Frame(f, depth))
<1> DEFINE todo == IF depth <= 0 THEN <<>> ELSE Consumers(f)
<1>1. Frame(f, depth) = [file |-> f, depth |-> depth, todo |-> todo]
  BY DEF Frame
<1>2. /\ todo \in Seq(Pids \X Files) /\ (todo # <<>> => depth > 0)
      /\ \A k \in 1..Len(todo) : todo[k] \in g.writes /\ <<todo[k][1], f>> \in g.reads
      /\ depth > 0 => \A w \in g.writes : <<w[1], f>> \in g.reads =>
                         \E k \in 1..Len(todo) : todo[k] = w
  <2>1. CASE depth <= 0
    BY <2>1
  <2>2. CASE ~(depth <= 0)
    <3>1. todo = Consumers(f) /\ depth > 0
      BY <2>2
    <3> HIDE DEF todo
    <3> QED BY <3>1, ConsumersAre
  <2> QED BY <2>1, <2>2
<1> HIDE DEF todo
<1> QED BY <1>1, <1>2 DEF Frames, InTodo

LEMMA RestIs ==
  ASSUME stack \in Seq(Frames), stack # <<>>, Top.todo # <<>>
  PROVE  /\ Len(stack) \in Nat /\ Len(stack) \in 1..Len(stack) /\ Top = stack[Len(stack)]
         /\ Rest \in Seq(Frames) /\ Len(Rest) = Len(stack)
         /\ \A i \in 1..Len(stack) : /\ Rest[i].file = stack[i].file
                                     /\ Rest[i].depth = stack[i].depth
                                     /\ i # Len(stack) => Rest[i] = stack[i]
         /\ Rest[Len(stack)].todo = Tail(Top.todo)
<1> DEFINE n == Len(stack)
           frame == [stack[n] EXCEPT !.todo = Tail(@)]
<1>1. n \in Nat /\ n \in 1..n /\ Top = stack[n] /\ stack[n] \in Frames
  BY DEF Top, Last
<1>2. Rest = [stack EXCEPT ![n] = frame]
  BY DEF Rest
<1>3. stack[n].todo \in Seq(Pids \X Files) /\ stack[n].todo # <<>>
  BY <1>1 DEF Frames
<1>4. Tail(stack[n].todo) \in Seq(Pids \X Files)
  BY <1>3
<1>5. /\ frame \in Frames /\ frame.todo = Tail(stack[n].todo)
      /\ frame.file = stack[n].file /\ frame.depth = stack[n].depth
  BY <1>1, <1>4 DEF Frames
<1> HIDE DEF frame
<1>6. /\ Rest \in Seq(Frames) /\ Len(Rest) = n /\ Rest[n] = frame
      /\ \A i \in 1..n : i # n => Rest[i] = stack[i]
  BY <1>1, <1>2, <1>5
<1> QED BY <1>1, <1>5, <1>6

LEMMA TailIs ==
  ASSUME NEW s \in Seq(Pids \X Files), s # <<>>
  PROVE  /\ Head(s) \in Pids \X Files /\ Len(s) \in Nat /\ 1 \in 1..Len(s) /\ Head(s) = s[1]
         /\ \A k \in 1..Len(Tail(s)) : k + 1 \in 1..Len(s) /\ Tail(s)[k] = s[k + 1]
         /\ \A k \in 1..Len(s) : k # 1 => k - 1 \in 1..Len(Tail(s)) /\ Tail(s)[k - 1] = s[k]
OBVIOUS

(* A pair whose file is in the tree already is passed over. *)
LEMMA DescendPasses ==
  ASSUME GraphInv, RdepsTree, RdepsStack, RdepsComplete,
         stack # <<>>, Top.todo # <<>>, Head(Top.todo)[2] \in visited,
         stack' = Rest, UNCHANGED <<g, ask, visited, result>>
  PROVE  RdepsTree' /\ RdepsStack' /\ RdepsComplete'
<1> DEFINE n == Len(stack)
           s == Top.todo
<1>1. /\ n \in Nat /\ n \in 1..n /\ Top = stack[n] /\ Len(stack') = n /\ stack' \in Seq(Frames)
      /\ \A i \in 1..n : /\ stack'[i].file = stack[i].file
                         /\ stack'[i].depth = stack[i].depth
                         /\ i # n => stack'[i] = stack[i]
      /\ stack'[n].todo = Tail(s)
  BY RestIs DEF RdepsStack
<1>2. s \in Seq(Pids \X Files) /\ s # <<>> /\ stack[n].todo = s
  <2>1. stack[n] \in Frames
    BY <1>1 DEF RdepsStack
  <2>2. stack[n].todo \in Seq(Pids \X Files)
    BY <2>1 DEF Frames
  <2> QED BY <1>1, <2>2
<1> HIDE DEF s, n
<1>3. Nodes' = Nodes /\ Frames' = Frames
  BY DEF Nodes, Frames
<1>4. RdepsTree'
  BY <1>3 DEF RdepsTree
<1>5. RdepsStack'
  <2>1. ASSUME NEW i \in 1..n
        PROVE  /\ stack'[i].depth = ask'.depth - (i - 1)
               /\ Node(stack'[i].file, i - 1) \in Nodes'
               /\ stack'[i].todo # <<>> => stack'[i].depth > 0
               /\ \A k \in 1..Len(stack'[i].todo) :
                    /\ stack'[i].todo[k] \in g'.writes
                    /\ <<stack'[i].todo[k][1], stack'[i].file>> \in g'.reads
    <3>0. /\ stack[i].depth = ask.depth - (i - 1) /\ Node(stack[i].file, i - 1) \in Nodes
          /\ stack[i].todo # <<>> => stack[i].depth > 0
          /\ \A k \in 1..Len(stack[i].todo) :
               /\ stack[i].todo[k] \in g.writes
               /\ <<stack[i].todo[k][1], stack[i].file>> \in g.reads
      BY DEF RdepsStack, n
    <3>1. CASE i # n
      BY <1>1, <1>3, <3>0, <3>1
    <3>2. CASE i = n
      <4>1. \A k \in 1..Len(Tail(s)) : /\ Tail(s)[k] \in g.writes
                                       /\ <<Tail(s)[k][1], stack[i].file>> \in g.reads
        BY <1>2, <3>0, <3>2, TailIs
      <4>2. /\ stack'[i].todo = Tail(s) /\ stack'[i].file = stack[i].file
            /\ stack'[i].depth = stack[i].depth
        BY <1>1, <3>2
      <4>3. stack[i].depth > 0
        BY <1>2, <3>0, <3>2
      <4>4. stack'[i].depth = ask'.depth - (i - 1) /\ Node(stack'[i].file, i - 1) \in Nodes'
        BY <1>3, <3>0, <4>2
      <4> HIDE DEF RdepsTree, RdepsStack, RdepsComplete
      <4> QED BY <4>1, <4>2, <4>3, <4>4
    <3> QED BY <3>1, <3>2
  <2> QED BY <1>1, <1>3, <2>1 DEF RdepsStack
<1>6. RdepsComplete'
  <2>1. ASSUME NEW m \in Nodes, m.level < ask.depth, NEW w \in g.writes,
               <<w[1], m.file>> \in g.reads, w[2] \notin visited
        PROVE  \E i \in 1..n : InTodo(w, m.file, stack'[i])
    <3>1. PICK i \in 1..n : InTodo(w, m.file, stack[i])
      BY <2>1 DEF RdepsComplete, n
    <3>2. CASE i # n
      BY <1>1, <3>1, <3>2
    <3>3. CASE i = n
      <4>1. PICK k \in 1..Len(s) : s[k] = w
        BY <1>2, <3>1, <3>3 DEF InTodo
      <4>2. k # 1
        BY <1>2, <2>1, <4>1, TailIs DEF s
      <4>3. k - 1 \in 1..Len(Tail(s)) /\ Tail(s)[k - 1] = w
        BY <1>2, <4>1, <4>2, TailIs
      <4>4. stack'[n].file = m.file /\ stack'[n].todo = Tail(s)
        BY <1>1, <3>1, <3>3 DEF InTodo
      <4> QED BY <3>3, <4>3, <4>4 DEF InTodo
    <3> QED BY <3>2, <3>3
  <2> QED BY <1>1, <1>3, <2>1 DEF RdepsComplete
<1> QED BY <1>4, <1>5, <1>6
(* A file that is new becomes a node below the top frame's, and a frame.   *)
LEMMA DescendGrows ==
  ASSUME GraphInv, RdepsTree, RdepsStack, RdepsComplete,
         stack # <<>>, Top.todo # <<>>, Head(Top.todo)[2] \notin visited,
         visited' = visited \cup {Head(Top.todo)[2]},
         result' = result \cup {TreeNode(Top.file, Head(Top.todo)[2], Len(stack))},
         stack' = Append(Rest, Frame(Head(Top.todo)[2], Top.depth - 1)),
         UNCHANGED <<g, ask>>
  PROVE  RdepsTree' /\ RdepsStack' /\ RdepsComplete'
<1> DEFINE n == Len(stack)
           s == Top.todo
           pair == Head(s)
           new == TreeNode(Top.file, pair[2], n)
           frame == Frame(pair[2], Top.depth - 1)
<1>0. /\ n \in Nat /\ n \in 1..n /\ Top = stack[n] /\ Len(Rest) = n /\ Rest \in Seq(Frames)
      /\ \A i \in 1..n : /\ Rest[i].file = stack[i].file
                         /\ Rest[i].depth = stack[i].depth
                         /\ i # n => Rest[i] = stack[i]
      /\ Rest[n].todo = Tail(s)
  BY RestIs DEF RdepsStack
<1>1. stack[n] \in Frames
  BY <1>0 DEF RdepsStack
<1>2. s \in Seq(Pids \X Files) /\ s # <<>> /\ stack[n].todo = s
  <2>1. stack[n].todo \in Seq(Pids \X Files)
    BY <1>1 DEF Frames
  <2> QED BY <1>0, <2>1
<1>3. /\ Top.depth = ask.depth - (n - 1) /\ Top.depth > 0
      /\ Node(Top.file, n - 1) \in Nodes
      /\ \A k \in 1..Len(s) : s[k] \in g.writes /\ <<s[k][1], Top.file>> \in g.reads
  BY <1>0, <1>2 DEF RdepsStack
<1> HIDE DEF n, s
<1>4. /\ pair \in Pids \X Files /\ pair \in g.writes /\ <<pair[1], Top.file>> \in g.reads
      /\ pair = s[1]
  BY <1>2, <1>3, TailIs
<1>5. pair = Head(Top.todo) /\ pair[2] \notin visited /\ pair = <<pair[1], pair[2]>>
  BY <1>4 DEF s
<1> HIDE DEF pair
<1>6. /\ new.file = pair[2] /\ new.of = Top.file /\ new.level = n
      /\ result' = result \cup {new}
  BY <1>5 DEF TreeNode, n
<1>7. ask.depth \in Int /\ Top.depth \in Int /\ Top.depth - 1 \in Int
  BY <1>0, <1>3 DEF GraphInv
<1>8. /\ frame \in Frames /\ frame.file = pair[2] /\ frame.depth = Top.depth - 1
      /\ frame.todo # <<>> => Top.depth - 1 > 0
      /\ \A k \in 1..Len(frame.todo) :
           frame.todo[k] \in g.writes /\ <<frame.todo[k][1], pair[2]>> \in g.reads
      /\ Top.depth - 1 > 0 => \A w \in g.writes : <<w[1], pair[2]>> \in g.reads =>
                            InTodo(w, pair[2], frame)
  BY <1>4, <1>7, FrameFits
<1>9. stack' = Append(Rest, frame)
  BY <1>5
<1> HIDE DEF new, frame
<1>10. /\ stack' \in Seq(Frames) /\ Len(stack') = n + 1
       /\ \A i \in 1..n : stack'[i] = Rest[i]
       /\ stack'[n + 1] = frame
  BY <1>0, <1>8, <1>9
<1>11. Nodes' = Nodes \cup {Node(pair[2], n)} /\ Frames' = Frames
  <2>1. Nodes' = {Node(e.file, e.level) : e \in result \cup {new}} \cup {Node(ask.file, 0)}
    BY <1>6 DEF Nodes
  <2>2. {Node(e.file, e.level) : e \in result \cup {new}}
          = {Node(e.file, e.level) : e \in result} \cup {Node(pair[2], n)}
    BY <1>6
  <2> QED BY <2>1, <2>2 DEF Nodes, Frames
<1>12. RdepsTree'
  <2>1. visited' = {e.file : e \in result'} \cup {ask'.file}
    BY <1>5, <1>6 DEF RdepsTree
  <2>2. \A e, d \in result' : e.file = d.file => e = d
    <3>1. \A e \in result : e.file # new.file
      BY <1>5, <1>6 DEF RdepsTree
    <3> QED BY <1>6, <3>1 DEF RdepsTree
  <2>3. ASSUME NEW e \in result'
        PROVE  /\ e.file # ask'.file
               /\ \E p \in Pids : <<p, e.of>> \in g'.reads /\ <<p, e.file>> \in g'.writes
               /\ e.level \in Nat /\ e.level <= ask'.depth
               /\ Node(e.of, e.level - 1) \in Nodes'
    <3>1. CASE e \in result
      BY <1>11, <3>1 DEF RdepsTree
    <3>2. CASE e = new
      <4>1. n <= ask.depth
        BY <1>0, <1>3, <1>7
      <4>2. pair[2] # ask.file
        BY <1>5 DEF RdepsTree
      <4>3. /\ e.file = pair[2] /\ e.of = Top.file /\ e.level = n
            /\ ask' = ask /\ g' = g
        BY <1>0, <1>6, <3>2
      <4>4. \E p \in Pids : <<p, e.of>> \in g'.reads /\ <<p, e.file>> \in g'.writes
        <5>1. /\ pair[1] \in Pids /\ <<pair[1], e.of>> \in g'.reads
              /\ <<pair[1], e.file>> \in g'.writes
          BY <1>4, <1>5, <4>3
        <5> QED BY <5>1
      <4>5. e.level \in Nat /\ Node(e.of, e.level - 1) \in Nodes'
        <5>1. n \in Nat /\ Node(Top.file, n - 1) \in Nodes'
          BY <1>0, <1>3, <1>11
        <5> QED BY <4>3, <5>1
      <4> QED BY <4>1, <4>2, <4>3, <4>4, <4>5
    <3> QED BY <1>6, <3>1, <3>2
  <2> QED BY <2>1, <2>2, <2>3 DEF RdepsTree
<1>13. RdepsStack'
  <2>1. ASSUME NEW i \in 1..(n + 1)
        PROVE  /\ stack'[i].depth = ask'.depth - (i - 1)
               /\ Node(stack'[i].file, i - 1) \in Nodes'
               /\ stack'[i].todo # <<>> => stack'[i].depth > 0
               /\ \A k \in 1..Len(stack'[i].todo) :
                    /\ stack'[i].todo[k] \in g'.writes
                    /\ <<stack'[i].todo[k][1], stack'[i].file>> \in g'.reads
    <3>1. CASE i = n + 1
      <4>1. Top.depth - 1 = ask.depth - (n + 1 - 1) /\ n + 1 - 1 = n
        BY <1>0, <1>3, <1>7
      <4>2. stack'[i] = frame /\ i - 1 = n
        BY <1>0, <1>10, <3>1
      <4> QED BY <1>8, <1>11, <3>1, <4>1, <4>2
    <3>2. CASE i # n + 1
      <4>0. /\ i \in 1..n /\ stack'[i] = Rest[i] 
            /\ Rest[i].file = stack[i].file /\ Rest[i].depth = stack[i].depth
        BY <1>0, <1>10, <3>2
      <4>1. /\ stack[i].depth = ask.depth - (i - 1) /\ Node(stack[i].file, i - 1) \in Nodes
            /\ stack[i].todo # <<>> => stack[i].depth > 0
            /\ \A k \in 1..Len(stack[i].todo) :
                 /\ stack[i].todo[k] \in g.writes
                 /\ <<stack[i].todo[k][1], stack[i].file>> \in g.reads
        BY <4>0 DEF RdepsStack, n
      <4>2. CASE i # n
        <5>1. stack'[i] = stack[i]
          BY <1>0, <4>0, <4>2
        <5> QED BY <1>11, <4>1, <5>1
      <4>3. CASE i = n
        <5>1. \A k \in 1..Len(Tail(s)) : /\ Tail(s)[k] \in g.writes
                                         /\ <<Tail(s)[k][1], stack[i].file>> \in g.reads
          BY <1>2, <4>1, <4>3, TailIs
        <5>2. /\ stack'[i].todo = Tail(s) /\ stack'[i].file = stack[i].file
              /\ stack'[i].depth = stack[i].depth /\ stack[i].depth > 0
          BY <1>0, <1>2, <4>0, <4>1, <4>3
        <5>3. Node(stack'[i].file, i - 1) \in Nodes'
          BY <1>11, <4>1, <5>2
        <5> QED BY <4>1, <5>1, <5>2, <5>3
      <4> QED BY <4>2, <4>3
    <3> QED BY <3>1, <3>2
  <2> QED BY <1>10, <1>11, <2>1 DEF RdepsStack
<1>14. RdepsComplete'
  <2>1. ASSUME NEW m \in Nodes', m.level < ask.depth, NEW w \in g.writes,
               <<w[1], m.file>> \in g.reads, w[2] \notin visited'
        PROVE  \E i \in 1..(n + 1) : InTodo(w, m.file, stack'[i])
    <3>1. CASE m = Node(pair[2], n)
      <4>1. m.file = pair[2] /\ m.level = n
        BY <3>1 DEF Node
      <4>2. Top.depth - 1 > 0
        BY <1>0, <1>3, <1>7, <2>1, <4>1
      <4>3. n + 1 \in 1..(n + 1)
        BY <1>0
      <4> QED BY <1>8, <1>10, <2>1, <4>1, <4>2, <4>3
    <3>2. CASE m \in Nodes
      <4>0. w[2] \notin visited /\ w[2] # pair[2]
        BY <1>5, <2>1
      <4>1. PICK i \in 1..n : InTodo(w, m.file, stack[i])
        BY <2>1, <3>2, <4>0 DEF RdepsComplete, n
      <4>2. i \in 1..(n + 1) /\ stack'[i] = Rest[i]
        BY <1>0, <1>10
      <4>3. CASE i # n
        BY <1>0, <4>1, <4>2, <4>3
      <4>4. CASE i = n
        <5>1. PICK k \in 1..Len(s) : s[k] = w
          BY <1>2, <4>1, <4>4 DEF InTodo
        <5>2. k # 1
          BY <1>4, <4>0, <5>1
        <5>3. k - 1 \in 1..Len(Tail(s)) /\ Tail(s)[k - 1] = w
          BY <1>2, <5>1, <5>2, TailIs
        <5>4. stack'[i].file = m.file /\ stack'[i].todo = Tail(s)
          BY <1>0, <4>1, <4>2, <4>4 DEF InTodo
        <5> QED BY <4>2, <5>3, <5>4 DEF InTodo
      <4> QED BY <4>3, <4>4
    <3> QED BY <1>11, <2>1, <3>1, <3>2
  <2> QED BY <1>10, <2>1 DEF RdepsComplete
<1> QED BY <1>12, <1>13, <1>14
LEMMA FrontIs ==
  ASSUME NEW S, NEW s \in Seq(S), s # <<>>
  PROVE  /\ Front(s) \in Seq(S) /\ Len(Front(s)) = Len(s) - 1
         /\ Len(s) \in Nat /\ Len(s) - 1 \in Nat
         /\ \A i \in 1..(Len(s) - 1) : i \in 1..Len(s) /\ Front(s)[i] = s[i]
         /\ \A i \in 1..Len(s) : i = Len(s) \/ i \in 1..(Len(s) - 1)
         /\ Len(s) \in 1..Len(s) /\ Last(s) = s[Len(s)] /\ Last(s) \in S
<1>1. Len(s) \in Nat /\ Len(s) - 1 \in Nat /\ Len(s) \in 1..Len(s)
  OBVIOUS
<1>2. Front(s) = SubSeq(s, 1, Len(s) - 1) /\ Last(s) = s[Len(s)]
  BY DEF Front, Last
<1>3. /\ Front(s) \in Seq(S) /\ Len(Front(s)) = Len(s) - 1
      /\ \A i \in 1..(Len(s) - 1) : Front(s)[i] = s[i]
  <2> DEFINE n == Len(s)
  <2>0. \A i \in 1..n : s[i] \in S
    OBVIOUS
  <2>5. n \in Nat /\ n - 1 \in Nat
    BY <1>1
  <2> HIDE DEF n
  <2>1. /\ n \in Nat /\ n - 1 \in Int /\ 1 \in Int /\ \A i \in 1..(n - 1) : s[i] \in S
        /\ n - 1 - 1 + 1 = n - 1 /\ \A i \in 1..(n - 1) : 1 + i - 1 = i
        /\ n - 1 = IF 1 <= n - 1 THEN n - 1 - 1 + 1 ELSE 0
    BY <2>0, <2>5
  <2>2. /\ SubSeq(s, 1, n - 1) \in Seq(S)
        /\ Len(SubSeq(s, 1, n - 1)) = IF 1 <= n - 1 THEN n - 1 - 1 + 1 ELSE 0
        /\ \A i \in 1..(n - 1 - 1 + 1) : SubSeq(s, 1, n - 1)[i] = s[1 + i - 1]
    BY <2>1, SubSeqProperties
  <2>3. Len(SubSeq(s, 1, n - 1)) = n - 1
    BY <2>1, <2>2
  <2>4. \A i \in 1..(n - 1) : SubSeq(s, 1, n - 1)[i] = s[i]
    BY <2>1, <2>2
  <2> QED BY <1>2, <2>2, <2>3, <2>4, Zenon DEF n
<1>4. \A i \in 1..(Len(s) - 1) : i \in 1..Len(s)
  BY <1>1
<1> QED BY <1>1, <1>2, <1>3, <1>4

(* A frame is left when it has nothing to go over. *)
LEMMA ReturnKeepsTree ==
  ASSUME RdepsTree, RdepsStack, RdepsComplete, stack # <<>>, Top.todo = <<>>,
         stack' = Front(stack), UNCHANGED <<g, ask, visited, result>>
  PROVE  /\ RdepsTree' /\ RdepsStack' /\ RdepsComplete'
         /\ Len(stack) = 1 => stack' = <<>>
<1> DEFINE n == Len(stack)
<1>1. /\ n \in Nat /\ n # 0 /\ stack[n].todo = <<>> /\ stack \in Seq(Frames)
  BY DEF Top, Last, RdepsStack
<1>2. /\ stack' \in Seq(Frames) /\ Len(stack') = n - 1
      /\ \A i \in 1..(n - 1) : i \in 1..n /\ stack'[i] = stack[i]
      /\ n = 1 => stack' = <<>>
  <2>1. /\ stack' \in Seq(Frames) /\ Len(stack') = n - 1
        /\ \A i \in 1..(n - 1) : i \in 1..n /\ stack'[i] = stack[i]
    BY <1>1, FrontIs
  <2>2. Len(stack') = 0 => stack' = <<>>
    BY <2>1
  <2> QED BY <2>1, <2>2
<1>3. \A i \in 1..n : i = n \/ i \in 1..(n - 1)
  BY <1>1
<1> HIDE DEF n
<1>4. Nodes' = Nodes /\ Frames' = Frames
  BY DEF Nodes, Frames
<1>5. RdepsTree'
  BY <1>4 DEF RdepsTree
<1>6. RdepsStack'
  BY <1>2, <1>4 DEF RdepsStack, n
<1>7. RdepsComplete'
  <2>1. ASSUME NEW m \in Nodes, m.level < ask.depth, NEW w \in g.writes,
               <<w[1], m.file>> \in g.reads, w[2] \notin visited
        PROVE  \E i \in 1..(n - 1) : InTodo(w, m.file, stack'[i])
    <3>1. PICK i \in 1..n : InTodo(w, m.file, stack[i])
      BY <2>1 DEF RdepsComplete, n
    <3>2. i # n
      BY <1>1, <3>1 DEF InTodo
    <3> QED BY <1>2, <1>3, <3>1, <3>2
  <2> QED BY <1>2, <1>4, <2>1 DEF RdepsComplete
<1> QED BY <1>2, <1>5, <1>6, <1>7 DEF n

LEMMA RdepsInitially == ASSUME Init PROVE RdepsInv
<1> SUFFICES ASSUME ask.kind = "rdeps" PROVE RdepsInv
  BY DEF RdepsInv
<1> DEFINE frame == Frame(ask.file, ask.depth)
<1>1. /\ phase = "recurse" /\ stack = <<frame>> /\ visited = {ask.file} /\ result = {}
  BY DEF Init, InitRdeps
<1>2. GraphInv
  BY GraphInitially
<1>3. /\ frame \in Frames
      /\ frame.file = ask.file /\ frame.depth = ask.depth
      /\ frame.todo # <<>> => ask.depth > 0
      /\ \A k \in 1..Len(frame.todo) :
           frame.todo[k] \in g.writes /\ <<frame.todo[k][1], ask.file>> \in g.reads
      /\ ask.depth > 0 => \A w \in g.writes : <<w[1], ask.file>> \in g.reads =>
                            InTodo(w, ask.file, frame)
  BY <1>2, FrameFits DEF GraphInv
<1> HIDE DEF frame
<1>4. Nodes = {Node(ask.file, 0)}
  BY <1>1 DEF Nodes
<1>5. stack \in Seq(Frames) /\ Len(stack) = 1 /\ stack[1] = frame /\ 1 \in 1..1
      /\ \A i \in 1..1 : i = 1 /\ i - 1 = 0
  BY <1>1, <1>3
<1>6. RdepsTree
  BY <1>1 DEF RdepsTree
<1>7. RdepsStack
  <2>1. ask.depth = ask.depth - 0
    BY <1>2 DEF GraphInv
  <2> QED BY <1>3, <1>4, <1>5, <2>1 DEF RdepsStack
<1>8. RdepsComplete
  <2>1. Node(ask.file, 0).file = ask.file /\ Node(ask.file, 0).level = 0
    BY DEF Node
  <2>2. 0 < ask.depth => ask.depth > 0
    BY <1>2 DEF GraphInv
  <2> QED BY <1>3, <1>4, <1>5, <2>1, <2>2 DEF RdepsComplete
<1> QED BY <1>1, <1>6, <1>7, <1>8 DEF RdepsInv

LEMMA RdepsStep == ASSUME GraphInv, RdepsInv, [Next]_vars PROVE GraphInv' /\ RdepsInv'
<1>1. g' = g /\ ask' = ask /\ GraphInv'
  BY GraphStays
<1>3. ASSUME ask.kind = "rdeps" PROVE RdepsInv'
  <2>0. /\ phase \in {"recurse", "done"} /\ (phase = "done" => stack = <<>>)
        /\ RdepsTree /\ RdepsStack /\ RdepsComplete
    BY <1>3 DEF RdepsInv
  <2>1. CASE Descend
    <3>0. phase' = "recurse" /\ stack # <<>> /\ Top.todo # <<>>
      BY <2>1 DEF Descend
    <3>1. CASE Head(Top.todo)[2] \in visited
      <4>1. stack' = Rest /\ UNCHANGED <<g, ask, visited, result>>
        BY <2>1, <3>1 DEF Descend
      <4> QED BY <2>0, <3>0, <3>1, <4>1, DescendPasses DEF RdepsInv
    <3>2. CASE Head(Top.todo)[2] \notin visited
      <4>1. /\ visited' = visited \cup {Head(Top.todo)[2]}
            /\ result' = result \cup {TreeNode(Top.file, Head(Top.todo)[2], Len(stack))}
            /\ stack' = Append(Rest, Frame(Head(Top.todo)[2], Top.depth - 1))
            /\ UNCHANGED <<g, ask>>
        BY <2>1, <3>2 DEF Descend
      <4> QED BY <2>0, <3>0, <3>2, <4>1, DescendGrows DEF RdepsInv
    <3> QED BY <3>1, <3>2
  <2>2. CASE Return
    <3>1. /\ stack # <<>> /\ Top.todo = <<>> /\ stack' = Front(stack)
          /\ UNCHANGED <<g, ask, visited, result>>
          /\ phase' = "done" => Len(stack) = 1
          /\ phase' \in {"recurse", "done"}
      BY <2>0, <2>2 DEF Return
    <3> QED BY <2>0, <3>1, ReturnKeepsTree DEF RdepsInv
  <2>3. CASE UNCHANGED vars
    <3>1. Nodes' = Nodes /\ Frames' = Frames
      BY <2>3 DEF Nodes, Frames, vars
    <3>2. RdepsTree' /\ RdepsStack' /\ RdepsComplete'
      BY <2>0, <2>3, <3>1 DEF RdepsTree, RdepsStack, RdepsComplete, vars
    <3> QED BY <2>0, <2>3, <3>2 DEF RdepsInv, vars
  <2>4. ~(Enter \/ Leave \/ Numbered \/ LookAtFile \/ DeadlinePasses \/ Finish)
    BY <2>0 DEF Enter, Leave, Numbered, LookAtFile, DeadlinePasses, Finish
  <2> QED BY <2>1, <2>2, <2>3, <2>4 DEF Next
<1> QED BY <1>1, <1>3 DEF RdepsInv

(* What is made from a file: the tree compute_rdeps_recursive builds has   *)
(* every file once, hangs each below one it is made from, and misses       *)
(* nothing above its last level.                                           *)
THEOREM RdepsIsRight == Spec => []RdepsIsATree
<1>1. Init => GraphInv /\ RdepsInv
  BY GraphInitially, RdepsInitially
<1>2. GraphInv /\ RdepsInv /\ [Next]_vars => (GraphInv /\ RdepsInv)'
  BY RdepsStep
<1>3. GraphInv /\ RdepsInv => RdepsIsATree
  <2> SUFFICES ASSUME GraphInv, RdepsInv, phase = "done", ask.kind = "rdeps"
               PROVE  RdepsIsATree
    BY DEF RdepsIsATree
  <2>1. RdepsTree /\ RdepsComplete /\ stack = <<>>
    BY DEF RdepsInv
  <2> DEFINE nodes == {[file |-> e.file, level |-> e.level] : e \in result}
                        \cup {[file |-> ask.file, level |-> 0]}
  <2>2. nodes = Nodes
    BY DEF Nodes, Node
  <2> HIDE DEF nodes
  <2>3. \A e \in result : [file |-> e.of, level |-> e.level - 1] \in nodes
    BY <2>1, <2>2 DEF RdepsTree, Node
  <2>4. \A f \in visited : \E m \in nodes : m.file = f
    <3>1. \A e \in result : Node(e.file, e.level) \in nodes /\ Node(e.file, e.level).file = e.file
      BY <2>2 DEF Nodes, Node
    <3>2. Node(ask.file, 0) \in nodes /\ Node(ask.file, 0).file = ask.file
      BY <2>2 DEF Nodes, Node
    <3>3. visited = {e.file : e \in result} \cup {ask.file}
      BY <2>1 DEF RdepsTree
    <3> QED BY <3>1, <3>2, <3>3
  <2>5. \A m \in nodes : m.level < ask.depth => \A w \in g.writes :
          <<w[1], m.file>> \in g.reads => \E o \in nodes : o.file = w[2]
    BY <2>1, <2>2, <2>4 DEF RdepsComplete
  <2> QED BY <2>1, <2>3, <2>5 DEF RdepsIsATree, RdepsTree, nodes
<1> QED BY <1>1, <1>2, <1>3, PTL DEF Spec
-----------------------------------------------------------------------------
(* impact.  What has been looked at is listed with what its search found;  *)
(* what has not is waiting, unless the deadline passed.                    *)
Cost(f) == TotalDuration(g, MustRerun(g, {f}))
Listed == {e.file : e \in result}

ImpactInv ==
  ask.kind = "impact" =>
    /\ phase \in {"look", "done"}
    /\ files \in Seq(SourceFiles)
    /\ \A e \in result : e.file \in SourceFiles /\ e = ImpactOf(e.file)
    /\ ~cut => /\ phase = "look" => \A f \in SourceFiles \ Listed :
                                     \E i \in 1..Len(files) : files[i] = f
               /\ phase = "done" => \A f \in SourceFiles \ Listed :
                    Cardinality(result) = ask.top /\ \A e \in result : Cost(f) <= e.duration

LEMMA CostIsNatural == ASSUME GraphInv, NEW f PROVE Cost(f) \in Nat
<1>1. IsFiniteSet(MustRerun(g, {f}))
  BY GraphAssumption, FS_Subset DEF MustRerun
<1>2. ASSUME NEW p PROVE Duration(g, p) \in Nat
  <2>1. p \in DOMAIN g.procs => g.procs[p].end \in Nat /\ g.procs[p].start \in Nat
    BY DEF GraphInv, Row
  <2> QED BY <2>1 DEF Duration
<1> QED BY <1>1, <1>2, TotalDurationIsNatural DEF Cost

LEMMA ImpactOfIs ==
  ASSUME NEW f
  PROVE  /\ ImpactOf(f).file = f
         /\ ImpactOf(f).count = Cardinality(MustRerun(g, {f}))
         /\ ImpactOf(f).duration = Cost(f)
BY SearchIsExact DEF ImpactOf, Cost

LEMMA SourceFilesAreFew ==
  IsFiniteSet(SourceFiles) /\ SourceFiles \in SUBSET Int
<1>1. SourceFiles \in SUBSET Files
  BY DEF SourceFiles
<1>2. Files \in SUBSET Int /\ IsFiniteSet(Files)
  BY GraphAssumption, QuestionsAssumption
<1> QED BY <1>1, <1>2, FS_Subset

LEMMA ImpactInitially == ASSUME Init PROVE ImpactInv
<1> SUFFICES ASSUME ask.kind = "impact" PROVE ImpactInv
  BY DEF ImpactInv
<1>1. phase = "look" /\ files = Sorted(SourceFiles) /\ result = {} /\ ~cut
  BY DEF Init, InitImpact
<1>2. /\ files \in Seq(SourceFiles)
      /\ \A f \in SourceFiles : \E i \in 1..Len(files) : files[i] = f
  BY <1>1, SourceFilesAreFew, SortedIs
<1> QED BY <1>1, <1>2 DEF ImpactInv

(* The ranking keeps the costliest, so many as were asked for.             *)
LEMMA RankingIsRight ==
  ASSUME GraphInv, result = {ImpactOf(f) : f \in SourceFiles},
         NEW T \in TopEntries(ask.top, result), NEW f \in SourceFiles,
         \A e \in T : e.file # f
  PROVE  Cardinality(T) = ask.top /\ \A e \in T : Cost(f) <= e.duration
<1>1. IsFiniteSet(result)
  <2> DEFINE entry == [s \in SourceFiles |-> ImpactOf(s)]
  <2>1. entry \in Surjection(SourceFiles, result)
    BY DEF Surjection
  <2> QED BY <2>1, SourceFilesAreFew, FS_Surjection
<1>2. ImpactOf(f) \in result /\ ImpactOf(f) \notin T
  BY ImpactOfIs
<1>3. /\ T \in SUBSET result
      /\ Cardinality(T) = IF ask.top > 0 /\ ask.top < Cardinality(result)
                          THEN ask.top ELSE Cardinality(result)
      /\ \A t \in T : ~cmp_impact_desc(ImpactOf(f), t)
  BY <1>2 DEF TopEntries, kSubset
<1>4. Cardinality(T) = ask.top
  BY <1>1, <1>2, <1>3, FS_Subset
<1>5. ASSUME NEW t \in T PROVE Cost(f) <= t.duration
  <2>1. PICK s \in SourceFiles : t = ImpactOf(s)
    BY <1>3
  <2>2. t.duration \in Nat /\ Cost(f) \in Nat /\ ImpactOf(f).duration = Cost(f)
    <3>1. Cost(f) \in Nat /\ Cost(s) \in Nat
      BY CostIsNatural
    <3>2. ImpactOf(f).duration = Cost(f) /\ ImpactOf(s).duration = Cost(s)
      BY ImpactOfIs
    <3> QED BY <2>1, <3>1, <3>2, Zenon
  <2>3. ~(ImpactOf(f).duration > t.duration)
    BY <1>3 DEF cmp_impact_desc
  <2> QED BY <2>2, <2>3
<1> QED BY <1>4, <1>5

LEMMA ImpactStep ==
  ASSUME GraphInv, ImpactInv, [Next]_vars, ask' = ask, g' = g, ask.kind = "impact"
  PROVE  ImpactInv'
<1>0. /\ phase \in {"look", "done"} /\ files \in Seq(SourceFiles)
      /\ \A e \in result : e.file \in SourceFiles /\ e = ImpactOf(e.file)
  BY DEF ImpactInv
<1>1. SourceFiles' = SourceFiles /\ \A f : ImpactOf(f)' = ImpactOf(f) /\ Cost(f)' = Cost(f)
  BY DEF SourceFiles, ImpactOf, Cost
<1>2. CASE LookAtFile
  <2> DEFINE f == Head(files)
  <2>1. /\ phase = "look" /\ phase' = "look" /\ cut' = cut /\ files # <<>>
        /\ files' = Tail(files) /\ result' = result \cup {ImpactOf(f)}
    BY <1>2 DEF LookAtFile
  <2>2. /\ f \in SourceFiles /\ Tail(files) \in Seq(SourceFiles) /\ f = files[1]
        /\ \A i \in 1..Len(files) : i # 1 =>
             i - 1 \in 1..Len(Tail(files)) /\ Tail(files)[i - 1] = files[i]
    BY <1>0, <2>1
  <2> HIDE DEF f
  <2>3. \A e \in result' : e.file \in SourceFiles /\ e = ImpactOf(e.file)
    BY <1>0, <2>1, <2>2, ImpactOfIs
  <2>4. ASSUME ~cut, NEW s \in SourceFiles, s \notin Listed'
        PROVE  \E i \in 1..Len(files') : files'[i] = s
    <3>1. s \notin Listed /\ s # f
      BY <2>1, <2>4, ImpactOfIs DEF Listed
    <3>2. PICK i \in 1..Len(files) : files[i] = s
      BY <2>1, <2>4, <3>1 DEF ImpactInv
    <3> QED BY <2>1, <2>2, <3>1, <3>2
  <2> QED BY <1>1, <2>1, <2>2, <2>3, <2>4 DEF ImpactInv
<1>3. CASE DeadlinePasses
  <2>1. files' = <<>> /\ cut' /\ phase' = phase /\ result' = result
    BY <1>3 DEF DeadlinePasses
  <2> QED BY <1>0, <1>1, <2>1 DEF ImpactInv
<1>4. CASE Finish
  <2>1. /\ phase = "look" /\ files = <<>> /\ phase' = "done" /\ cut' = cut /\ files' = files
        /\ result' \in TopEntries(ask.top, result)
    BY <1>4 DEF Finish
  <2>2. result' \subseteq result
    BY <2>1 DEF TopEntries, kSubset
  <2>3. ASSUME ~cut, NEW f \in SourceFiles, f \notin Listed'
        PROVE  Cardinality(result') = ask.top /\ \A e \in result' : Cost(f) <= e.duration
    <3>1. SourceFiles \subseteq Listed
      BY <2>1, <2>3 DEF ImpactInv
    <3>2. result = {ImpactOf(s) : s \in SourceFiles}
      BY <1>0, <3>1 DEF Listed
    <3>3. \A e \in result' : e.file # f
      BY <2>3 DEF Listed
    <3> QED BY <2>1, <3>2, <3>3, RankingIsRight
  <2> QED BY <1>0, <1>1, <2>1, <2>2, <2>3 DEF ImpactInv
<1>5. CASE UNCHANGED vars
  BY <1>0, <1>1, <1>5 DEF ImpactInv, Listed, vars
<1>6. ~(Enter \/ Leave \/ Numbered \/ Descend \/ Return)
  BY <1>0 DEF Enter, Leave, Numbered, Descend, Return
<1> QED BY <1>2, <1>3, <1>4, <1>5, <1>6 DEF Next

(* What a change of a source file costs: compute_impact lists what a       *)
(* rebuild of the processes it reaches takes, and the costliest first.     *)
THEOREM ImpactIsRight == Spec => []ImpactIsExact
<1>1. Init => GraphInv /\ ImpactInv
  BY GraphInitially, ImpactInitially
<1>2. GraphInv /\ ImpactInv /\ [Next]_vars => (GraphInv /\ ImpactInv)'
  <2> SUFFICES ASSUME GraphInv, ImpactInv, [Next]_vars PROVE (GraphInv /\ ImpactInv)'
    OBVIOUS
  <2>1. g' = g /\ ask' = ask /\ GraphInv'
    BY GraphStays
  <2> QED BY <2>1, ImpactStep DEF ImpactInv
<1>3. GraphInv /\ ImpactInv => ImpactIsExact
  <2> SUFFICES ASSUME ImpactInv, phase = "done", ask.kind = "impact" PROVE ImpactIsExact
    BY DEF ImpactIsExact
  <2>1. \A e \in result : e.file \in SourceFiles /\ e = ImpactOf(e.file)
    BY DEF ImpactInv
  <2>2. \A e \in result : /\ e.count = Cardinality(MustRerun(g, {e.file}))
                          /\ e.duration = TotalDuration(g, MustRerun(g, {e.file}))
    BY <2>1, ImpactOfIs DEF Cost
  <2>3. ~cut => \A f \in SourceFiles \ {e.file : e \in result} :
          /\ Cardinality(result) = ask.top
          /\ \A e \in result : TotalDuration(g, MustRerun(g, {f})) <= e.duration
    BY DEF ImpactInv, Cost, Listed
  <2> QED BY <2>1, <2>2, <2>3 DEF ImpactIsExact
<1> QED BY <1>1, <1>2, <1>3, PTL DEF Spec
-----------------------------------------------------------------------------
(* races.  While the tree is numbered a process is fresh, open or left.    *)
(* Who is open is on the stack, below everything of its own that waits; a  *)
(* fresh process waits on the stack once its parent is open.               *)
Entered(p) == dfs_in[p] # Unset
Left(p) == dfs_out[p] # Unset
OnStack(p) == \E i \in 1..Len(stack) : stack[i].pid = p
Under(a) == Descendants(g.procs, a)
Parent(p) == g.procs[p].ppid
Entries == [pid : DOMAIN g.procs, entering : BOOLEAN]
Marker(p) == [pid |-> p, entering |-> FALSE]

DfsStack ==
  /\ stack \in Seq(Entries)
  /\ \A i, j \in 1..Len(stack) : stack[i].pid = stack[j].pid => i = j
  /\ \A i \in 1..Len(stack) : stack[i].entering =>
       /\ ~Entered(stack[i].pid)
       /\ Parent(stack[i].pid) \in DOMAIN g.procs =>
            \E j \in 1..(i - 1) : stack[j] = Marker(Parent(stack[i].pid))
  /\ \A i \in 1..Len(stack) : ~stack[i].entering =>
       /\ Entered(stack[i].pid) /\ ~Left(stack[i].pid)
       /\ \A j \in (i + 1)..Len(stack) : stack[j].pid \in Under(stack[i].pid)
  /\ \A p \in DOMAIN g.procs : Entered(p) /\ ~Left(p) => OnStack(p)
  /\ \A p \in DOMAIN g.procs :
       ~Entered(p) /\ (Parent(p) \in DOMAIN g.procs => Entered(Parent(p))) => OnStack(p)

(* The numbers of a process enclose those of what is below it, and lie     *)
(* apart from all others.                                                  *)
DfsNumbers ==
  /\ timer \in Nat /\ dfs_in \in [Pids -> Int] /\ dfs_out \in [Pids -> Int]
  /\ \A p \in DOMAIN g.procs :
       /\ Entered(p) => 0 <= dfs_in[p] /\ dfs_in[p] < timer
       /\ Left(p) => Entered(p) /\ dfs_in[p] < dfs_out[p] /\ dfs_out[p] < timer
  /\ \A a \in DOMAIN g.procs : \A b \in Under(a) :
       /\ Entered(b) => Entered(a) /\ dfs_in[a] < dfs_in[b]
       /\ Left(a) => Left(b) /\ dfs_out[b] < dfs_out[a]
  /\ \A a, b \in DOMAIN g.procs : Entered(a) /\ Entered(b) /\ a # b =>
       /\ dfs_in[a] # dfs_in[b]
       /\ dfs_in[a] < dfs_in[b] /\ b \notin Under(a) => Left(a) /\ dfs_out[a] < dfs_in[b]

AncestorsKnown ==
  \A a, b \in DOMAIN g.procs : a # b => (IsAncestor(a, b) <=> b \in Under(a))

LookedAt ==
  /\ files \in Seq(Files) /\ result \subseteq UNION {RacesOn(f) : f \in Files}
  /\ ~cut => \A f \in Files :
       RacesOn(f) \subseteq result \/ \E i \in 1..Len(files) : files[i] = f

RacesInv ==
  ask.kind = "races" =>
    /\ phase \in {"number", "look", "done"}
    /\ phase = "number" => DfsStack /\ DfsNumbers /\ result = {}
    /\ phase # "number" => AncestorsKnown /\ LookedAt
    /\ phase = "done" => files = <<>>
LEMMA Forest ==
  ASSUME GraphInv
  PROVE  /\ IsFiniteSet(DOMAIN g.procs) /\ DOMAIN g.procs \in SUBSET Int
         /\ \A p \in DOMAIN g.procs : p \in Pids /\ g.procs[p].start \in Int
<1>1. DOMAIN g.procs \in SUBSET Pids /\ Pids \in SUBSET Int /\ IsFiniteSet(Pids)
  BY GraphAssumption DEF GraphInv
<1>2. \A p \in DOMAIN g.procs : g.procs[p].start \in Int
  BY DEF GraphInv, Row
<1> QED BY <1>1, <1>2, FS_Subset

(* A sequence of fresh entries, one for each process of a set. *)
Waiting(s, S) ==
  /\ s \in Seq(Entries)
  /\ \A i \in 1..Len(s) : s[i].entering /\ s[i].pid \in S
  /\ \A i, j \in 1..Len(s) : s[i].pid = s[j].pid => i = j
  /\ \A x \in S : \E i \in 1..Len(s) : s[i].pid = x

LEMMA EnteringWaits ==
  ASSUME GraphInv, NEW S \in SUBSET DOMAIN g.procs, NEW s \in SetToSeqs(S)
  PROVE  Waiting(Entering(s), S)
<1> DEFINE n == Len(s)
<1>0. IsFiniteSet(S)
  BY Forest, FS_Subset
<1>1. /\ n \in Nat /\ DOMAIN s = 1..n
      /\ \A i \in 1..n : s[i] \in S
      /\ \A i, j \in 1..n : s[i] = s[j] => i = j
      /\ \A x \in S : \E i \in 1..n : s[i] = x
  BY <1>0, EachElementOnce
<1>2. Entering(s) = [i \in 1..n |-> [pid |-> s[i], entering |-> TRUE]]
  BY <1>1 DEF Entering
<1> HIDE DEF n
<1>3. \A i \in 1..n : /\ [pid |-> s[i], entering |-> TRUE] \in Entries
                      /\ Entering(s)[i] = [pid |-> s[i], entering |-> TRUE]
                      /\ Entering(s)[i].pid = s[i] /\ Entering(s)[i].entering
  BY <1>1, <1>2 DEF Entries
<1>4. [i \in 1..n |-> [pid |-> s[i], entering |-> TRUE]] \in [1..n -> Entries]
  BY <1>3
<1>5. Entering(s) \in Seq(Entries) /\ Len(Entering(s)) = n
  BY <1>1, <1>2, <1>4
<1>9. \A i \in 1..n : Entering(s)[i].pid = s[i]
  BY <1>3
<1>6. \A i, j \in 1..n : Entering(s)[i].pid = Entering(s)[j].pid => i = j
  BY <1>1, <1>9
<1>7. \A x \in S : \E i \in 1..n : Entering(s)[i].pid = x
  BY <1>1, <1>9
<1>8. \A i \in 1..n : Entering(s)[i].entering /\ Entering(s)[i].pid \in S
  BY <1>1, <1>3
<1> HIDE DEF n
<1> QED BY <1>5, <1>6, <1>7, <1>8 DEF Waiting

LEMMA ReverseWaits ==
  ASSUME NEW S, NEW s, Waiting(s, S) PROVE Waiting(Reverse(s), S)
<1> DEFINE n == Len(s)
<1>1. s \in Seq(Entries) /\ n \in Nat /\ \A i \in 1..n : s[i] \in Entries
  BY DEF Waiting
<1>2. Reverse(s) = [i \in 1..n |-> s[(n - i) + 1]]
  BY DEF Reverse
<1> HIDE DEF n
<1>3. \A i \in 1..n : (n - i) + 1 \in 1..n /\ (n - ((n - i) + 1)) + 1 = i
  BY <1>1
<1>4. \A i \in 1..n : Reverse(s)[i] = s[(n - i) + 1] /\ Reverse(s)[i] \in Entries
  BY <1>1, <1>2, <1>3
<1>5. Reverse(s) \in [1..n -> Entries]
  BY <1>2, <1>4
<1>6. Reverse(s) \in Seq(Entries) /\ Len(Reverse(s)) = n
  BY <1>1, <1>5
<1>7. \A i \in 1..n : Reverse(s)[i].entering /\ Reverse(s)[i].pid \in S
  BY <1>3, <1>4 DEF Waiting, n
<1>8. ASSUME NEW i \in 1..n, NEW j \in 1..n, Reverse(s)[i].pid = Reverse(s)[j].pid PROVE i = j
  <2>1. \A a, b \in 1..n : s[a].pid = s[b].pid => a = b
    BY DEF Waiting, n
  <2>2. s[(n - i) + 1].pid = s[(n - j) + 1].pid
    BY <1>4, <1>8
  <2>3. (n - i) + 1 = (n - j) + 1
    BY <1>3, <2>1, <2>2, Zenon
  <2> QED BY <1>1, <2>3
<1>9. ASSUME NEW x \in S PROVE \E i \in 1..n : Reverse(s)[i].pid = x
  <2>1. PICK i \in 1..n : s[i].pid = x
    BY DEF Waiting, n
  <2> QED BY <1>3, <1>4, <2>1
<1> QED BY <1>6, <1>7, <1>8, <1>9 DEF Waiting

LEMMA ChildrenWait ==
  ASSUME GraphInv, NEW p
  PROVE  Waiting(Reverse(Entering(ByStart(g.procs, Children(g.procs, p)))), Children(g.procs, p))
<1>1. Children(g.procs, p) \in SUBSET DOMAIN g.procs
  BY DEF Children
<1>2. ByStart(g.procs, Children(g.procs, p)) \in SetToSeqs(Children(g.procs, p))
  BY <1>1, Forest, ByStartIsSorted
<1> QED BY <1>1, <1>2, EnteringWaits, ReverseWaits

(* Entering a process leaves its marker in its place, with its children on *)
(* top.                                                                    *)
Grown(p, n, k) ==
  /\ n = Len(stack) /\ stack[n] = [pid |-> p, entering |-> TRUE]
  /\ stack' \in Seq(Entries) /\ Len(stack') = n + k
  /\ \A i \in 1..(n - 1) : stack'[i] = stack[i]
  /\ stack'[n] = Marker(p)
  /\ \A i \in (n + 1)..(n + k) :
       stack'[i].entering /\ stack'[i].pid \in Children(g.procs, p)
  /\ \A i, j \in (n + 1)..(n + k) : stack'[i].pid = stack'[j].pid => i = j
  /\ \A c \in Children(g.procs, p) : \E i \in (n + 1)..(n + k) : stack'[i].pid = c
  /\ dfs_in' = [dfs_in EXCEPT ![p] = timer]

LEMMA EntryLeft ==
  \A x, old, new : [[pid |-> x, entering |-> old] EXCEPT !.entering = new]
                    = [pid |-> x, entering |-> new]
OBVIOUS

LEMMA EnterGrows ==
  ASSUME GraphInv, stack \in Seq(Entries), Enter
  PROVE  \E p \in DOMAIN g.procs, n \in Nat \ {0}, k \in Nat : Grown(p, n, k)
<1> DEFINE n == Len(stack)
           p == Top.pid
           kids == Reverse(Entering(ByStart(g.procs, Children(g.procs, p))))
           k == Len(kids)
           front == Front(stack)
           base == front \o <<Marker(p)>>
<1>1. stack # <<>> /\ Top.entering /\ dfs_in' = [dfs_in EXCEPT ![p] = timer]
  BY DEF Enter
<1>2. /\ front \in Seq(Entries) /\ Len(front) = n - 1 /\ n \in Nat /\ n - 1 \in Nat
      /\ \A i \in 1..(n - 1) : i \in 1..n /\ front[i] = stack[i]
      /\ Top = stack[n] /\ Top \in Entries
  BY <1>1, FrontIs DEF Top
<1>3. /\ p \in DOMAIN g.procs /\ stack[n] = [pid |-> p, entering |-> TRUE]
      /\ [Top EXCEPT !.entering = FALSE] = Marker(p) /\ Marker(p) \in Entries
  <2>1. Top.pid \in DOMAIN g.procs /\ Top = [pid |-> Top.pid, entering |-> Top.entering]
    BY <1>2 DEF Entries
  <2>2. [pid |-> p, entering |-> FALSE] \in Entries
    BY <2>1 DEF Entries
  <2>3. Top.entering = TRUE
    BY <1>1, <1>2 DEF Entries
  <2>5. Top = [pid |-> p, entering |-> TRUE]
    BY <2>1, <2>3, Zenon
  <2> HIDE DEF p
  <2>6. [Top EXCEPT !.entering = FALSE] = [pid |-> p, entering |-> FALSE]
    BY <2>5, EntryLeft, Zenon
  <2>7. p \in DOMAIN g.procs
    BY <2>1 DEF p
  <2> QED BY <1>2, <2>2, <2>5, <2>6, <2>7, Zenon DEF Marker
<1>4. stack' = base \o kids
  BY <1>3 DEF Enter
<1>5. Waiting(kids, Children(g.procs, p))
  BY ChildrenWait
<1> HIDE DEF n, p, kids, front
<1>6. /\ <<Marker(p)>> \in Seq(Entries) /\ Len(<<Marker(p)>>) = 1 /\ <<Marker(p)>>[1] = Marker(p)
  BY <1>3
<1>7. /\ base \in Seq(Entries) /\ Len(base) = n
      /\ \A i \in 1..(n - 1) : base[i] = stack[i]
      /\ base[n] = Marker(p)
  <2>1. /\ base \in Seq(Entries) /\ Len(base) = (n - 1) + 1
        /\ \A i \in 1..((n - 1) + 1) : base[i] = IF i <= n - 1 THEN front[i]
                                                 ELSE <<Marker(p)>>[i - (n - 1)]
    <3> DEFINE t == <<Marker(p)>>
    <3>0. t \in Seq(Entries) /\ Len(t) = 1
      BY <1>6
    <3> HIDE DEF t
    <3>1. /\ front \o t \in Seq(Entries) /\ Len(front \o t) = Len(front) + Len(t)
          /\ \A i \in 1..Len(front) + Len(t) :
               (front \o t)[i] = IF i <= Len(front) THEN front[i] ELSE t[i - Len(front)]
      BY <1>2, <3>0, Joined
    <3> QED BY <1>2, <3>0, <3>1, Zenon DEF t
  <2>2. (n - 1) + 1 = n /\ n \in 1..n /\ ~(n <= n - 1) /\ n - (n - 1) = 1
    BY <1>2
  <2>3. \A i \in 1..(n - 1) : i \in 1..n /\ i <= n - 1
    BY <1>2
  <2>4. base[n] = <<Marker(p)>>[1]
    BY <2>1, <2>2, Zenon
  <2>5. \A i \in 1..(n - 1) : base[i] = front[i]
    BY <2>1, <2>2, <2>3, Zenon
  <2> QED BY <1>2, <1>6, <2>1, <2>2, <2>4, <2>5
<1> HIDE DEF base
<1>8. kids \in Seq(Entries) /\ k \in Nat
  BY <1>5 DEF Waiting
<1>9. /\ stack' \in Seq(Entries) /\ Len(stack') = n + k
      /\ \A i \in 1..n : stack'[i] = base[i]
      /\ \A i \in 1..k : stack'[n + i] = kids[i]
  <2>1. /\ stack' \in Seq(Entries) /\ Len(stack') = n + k
        /\ \A i \in 1..n + k : stack'[i] = IF i <= n THEN base[i] ELSE kids[i - n]
    <3>1. /\ base \o kids \in Seq(Entries) /\ Len(base \o kids) = Len(base) + Len(kids)
          /\ \A i \in 1..Len(base) + Len(kids) :
               (base \o kids)[i] = IF i <= Len(base) THEN base[i] ELSE kids[i - Len(base)]
      BY <1>7, <1>8, Joined
    <3> QED BY <1>4, <1>7, <3>1, Zenon
  <2> HIDE DEF k
  <2>2. \A i \in 1..n : i \in 1..n + k /\ i <= n
    BY <1>2, <1>8
  <2>3. \A i \in 1..k : n + i \in 1..n + k /\ ~(n + i <= n) /\ (n + i) - n = i
    BY <1>2, <1>8
  <2>4. \A i \in 1..n : stack'[i] = base[i]
    BY <2>1, <2>2, Zenon
  <2>5. \A i \in 1..k : stack'[n + i] = kids[i]
    BY <2>1, <2>3, Zenon
  <2> QED BY <2>1, <2>4, <2>5
<1>10. /\ \A i \in 1..k : kids[i].entering /\ kids[i].pid \in Children(g.procs, p)
       /\ \A i, j \in 1..k : kids[i].pid = kids[j].pid => i = j
       /\ \A c \in Children(g.procs, p) : \E i \in 1..k : kids[i].pid = c
  BY <1>5 DEF Waiting
<1> HIDE DEF k
<1>11. \A i \in (n + 1)..(n + k) : i - n \in 1..k /\ n + (i - n) = i
  BY <1>2, <1>8
<1>12. /\ \A i \in (n + 1)..(n + k) :
            stack'[i].entering /\ stack'[i].pid \in Children(g.procs, p)
       /\ \A i \in (n + 1)..(n + k) : stack'[i] = kids[i - n]
  BY <1>9, <1>10, <1>11
<1>13. \A i, j \in (n + 1)..(n + k) : stack'[i].pid = stack'[j].pid => i = j
  <2> SUFFICES ASSUME NEW i \in (n + 1)..(n + k), NEW j \in (n + 1)..(n + k),
                      stack'[i].pid = stack'[j].pid
               PROVE  i = j
    OBVIOUS
  <2>1. i - n \in 1..k /\ j - n \in 1..k /\ kids[i - n].pid = kids[j - n].pid
    BY <1>11, <1>12
  <2>2. i - n = j - n
    BY <1>10, <2>1, Zenon
  <2> QED BY <1>2, <2>2
<1>14. \A c \in Children(g.procs, p) : \E i \in (n + 1)..(n + k) : stack'[i].pid = c
  <2> SUFFICES ASSUME NEW c \in Children(g.procs, p)
               PROVE  \E i \in (n + 1)..(n + k) : stack'[i].pid = c
    OBVIOUS
  <2>1. PICK i \in 1..k : kids[i].pid = c
    BY <1>10
  <2>2. n + i \in (n + 1)..(n + k)
    BY <1>2, <1>8
  <2> QED BY <1>9, <2>1, <2>2
<1>15. n \in 1..n /\ \A i \in 1..(n - 1) : i \in 1..n
  BY <1>2
<1>16. stack'[n] = Marker(p) /\ \A i \in 1..(n - 1) : stack'[i] = stack[i]
  BY <1>7, <1>9, <1>15
<1>17. n \in Nat \ {0} /\ n = Len(stack)
  BY <1>2 DEF n
<1>18. dfs_in' = [dfs_in EXCEPT ![p] = timer]
  BY <1>1 DEF p
<1>19. Grown(p, n, k)
  BY <1>3, <1>9, <1>12, <1>13, <1>14, <1>16, <1>17, <1>18, Zenon DEF Grown
<1> QED BY <1>3, <1>8, <1>17, <1>19
LEMMA UnderIs ==
  ASSUME GraphInv, NEW a
  PROVE  /\ Under(a) \subseteq DOMAIN g.procs /\ Children(g.procs, a) \subseteq Under(a)
         /\ a \notin Under(a)
         /\ \A b \in Under(a) : /\ Children(g.procs, b) \subseteq Under(a)
                                /\ Parent(b) = a \/ Parent(b) \in Under(a)
BY Forest, DescendantsAre, NotBelowItself, ParentOfDescendant DEF Under, Parent, GraphInv

(* What is above a process that is being entered is open.                  *)
LEMMA AboveIsOpen ==
  ASSUME GraphInv, DfsStack, DfsNumbers, NEW i \in 1..Len(stack), stack[i].entering,
         NEW a \in DOMAIN g.procs, stack[i].pid \in Under(a)
  PROVE  Entered(a)
<1> DEFINE p == stack[i].pid
<1>1. Parent(p) \in DOMAIN g.procs /\ (Parent(p) = a \/ Parent(p) \in Under(a))
  BY UnderIs
<1>2. PICK j \in 1..(i - 1) : stack[j] = Marker(Parent(p))
  BY <1>1 DEF DfsStack
<1>3. j \in 1..Len(stack) /\ ~stack[j].entering /\ stack[j].pid = Parent(p)
  BY <1>2 DEF Marker
<1>4. Entered(Parent(p))
  BY <1>3 DEF DfsStack
<1> QED BY <1>1, <1>4 DEF DfsNumbers

(* The children of a process that is being entered do not wait yet.        *)
LEMMA ChildrenAreFresh ==
  ASSUME GraphInv, DfsStack, DfsNumbers, NEW p \in DOMAIN g.procs,
         stack # <<>>, stack[Len(stack)] = [pid |-> p, entering |-> TRUE],
         NEW c \in Children(g.procs, p)
  PROVE  ~Entered(c) /\ ~OnStack(c) /\ c # p /\ c \in DOMAIN g.procs /\ Parent(c) = p
<1> DEFINE n == Len(stack)
<1>1. n \in Nat /\ n \in 1..n
  BY DEF DfsStack
<1>2. stack[n].pid = p /\ stack[n].entering
  OBVIOUS
<1>3. ~Entered(p)
  BY <1>1, <1>2 DEF DfsStack
<1>4. c \in Under(p) /\ c \in DOMAIN g.procs /\ c # p /\ Parent(c) = p
  BY UnderIs DEF Children, Parent
<1>5. ~Entered(c)
  BY <1>3, <1>4 DEF DfsNumbers
<1>6. ASSUME NEW i \in 1..n, stack[i].pid = c PROVE FALSE
  <2>1. CASE stack[i].entering
    <3>1. PICK j \in 1..(i - 1) : stack[j] = Marker(p)
      BY <1>4, <1>6, <2>1 DEF DfsStack
    <3>2. j \in 1..n /\ stack[j].pid = p /\ j # n
      BY <1>1, <3>1 DEF Marker
    <3> QED BY <1>1, <1>2, <3>2 DEF DfsStack
  <2>2. CASE ~stack[i].entering
    BY <1>5, <1>6, <2>2 DEF DfsStack
  <2> QED BY <2>1, <2>2
<1> QED BY <1>4, <1>5, <1>6 DEF OnStack

LEMMA StackAgain ==
  ASSUME g' = g, stack' \in Seq(Entries), NEW m, Len(stack') = m,
         \A i, j \in 1..m : stack'[i].pid = stack'[j].pid => i = j,
         \A i \in 1..m : stack'[i].entering =>
           /\ dfs_in'[stack'[i].pid] = Unset
           /\ Parent(stack'[i].pid) \in DOMAIN g.procs =>
                \E j \in 1..(i - 1) : stack'[j] = Marker(Parent(stack'[i].pid)),
         \A i \in 1..m : ~stack'[i].entering =>
           /\ dfs_in'[stack'[i].pid] # Unset /\ dfs_out'[stack'[i].pid] = Unset
           /\ \A j \in (i + 1)..m : stack'[j].pid \in Under(stack'[i].pid),
         \A q \in DOMAIN g.procs : dfs_in'[q] # Unset /\ dfs_out'[q] = Unset =>
           \E i \in 1..m : stack'[i].pid = q,
         \A q \in DOMAIN g.procs :
           /\ dfs_in'[q] = Unset
           /\ Parent(q) \in DOMAIN g.procs => dfs_in'[Parent(q)] # Unset
           => \E i \in 1..m : stack'[i].pid = q
  PROVE  DfsStack'
<1>1. Entries' = Entries
  BY DEF Entries
<1> HIDE DEF Unset
<1>2. \A i \in 1..Len(stack') : stack'[i].entering =>
        /\ ~(dfs_in'[stack'[i].pid] # Unset)
        /\ g'.procs[stack'[i].pid].ppid \in DOMAIN g'.procs =>
             \E j \in 1..(i - 1) :
               stack'[j] = [pid |-> g'.procs[stack'[i].pid].ppid, entering |-> FALSE]
  BY Zenon DEF Parent, Marker
<1>3. \A i \in 1..Len(stack') : ~stack'[i].entering =>
        /\ dfs_in'[stack'[i].pid] # Unset /\ ~(dfs_out'[stack'[i].pid] # Unset)
        /\ \A j \in (i + 1)..Len(stack') :
             stack'[j].pid \in Descendants(g'.procs, stack'[i].pid)
  BY Zenon DEF Under
<1>4. \A q \in DOMAIN g'.procs : dfs_in'[q] # Unset /\ ~(dfs_out'[q] # Unset) =>
        \E i \in 1..Len(stack') : stack'[i].pid = q
  BY Zenon
<1>5. \A q \in DOMAIN g'.procs :
        ~(dfs_in'[q] # Unset) /\ (g'.procs[q].ppid \in DOMAIN g'.procs =>
                                     dfs_in'[g'.procs[q].ppid] # Unset) =>
        \E i \in 1..Len(stack') : stack'[i].pid = q
  BY Zenon DEF Parent
<1> QED BY <1>1, <1>2, <1>3, <1>4, <1>5, Zenon
           DEF DfsStack, OnStack, Entered, Left, Under, Parent, Marker

LEMMA PidsDiffer ==
  ASSUME DfsStack, NEW n, n = Len(stack)
  PROVE  \A i, j \in 1..n : stack[i].pid = stack[j].pid => i = j
BY Zenon DEF DfsStack

LEMMA EnterKeepsStack ==
  ASSUME GraphInv, DfsStack, DfsNumbers, Enter PROVE DfsStack'
<1>0. stack \in Seq(Entries) /\ stack # <<>> /\ g' = g /\ dfs_out' = dfs_out
  BY DEF DfsStack, Enter
<1>1. PICK p \in DOMAIN g.procs, n \in Nat \ {0}, k \in Nat : Grown(p, n, k)
  BY <1>0, EnterGrows
<1>2. /\ n = Len(stack) /\ stack[n] = [pid |-> p, entering |-> TRUE]
      /\ stack' \in Seq(Entries) /\ Len(stack') = n + k
      /\ stack'[n] = Marker(p)
      /\ dfs_in' = [dfs_in EXCEPT ![p] = timer]
  BY <1>1 DEF Grown
<1>3. \A i \in 1..(n - 1) : i \in 1..n /\ i # n /\ stack'[i] = stack[i]
  BY <1>1 DEF Grown
<1>4. /\ \A i \in (n + 1)..(n + k) : stack'[i].entering /\ stack'[i].pid \in Children(g.procs, p)
      /\ \A i, j \in (n + 1)..(n + k) : stack'[i].pid = stack'[j].pid => i = j
      /\ \A c \in Children(g.procs, p) : \E i \in (n + 1)..(n + k) : stack'[i].pid = c
  BY <1>1, Zenon DEF Grown
<1>5. /\ \A i \in 1..(n + k) : i \in 1..(n - 1) \/ i = n \/ i \in (n + 1)..(n + k)
      /\ \A i \in 1..(n - 1) : i \in 1..(n + k)
      /\ \A i \in 1..n : i = n \/ i \in 1..(n - 1)
      /\ \A i \in (n + 1)..(n + k) : i \in 1..(n + k) /\ n \in 1..(i - 1) /\ i # n
      /\ n \in 1..n /\ n \in 1..(n + k)
  OBVIOUS
<1>6. stack[n].pid = p /\ stack[n].entering /\ ~stack'[n].entering /\ stack'[n].pid = p
  BY <1>2 DEF Marker
<1>7. ~Entered(p) /\ ~Left(p)
  BY <1>2, <1>5, <1>6 DEF DfsStack, DfsNumbers
<1>8. \A c \in Children(g.procs, p) :
        ~Entered(c) /\ ~OnStack(c) /\ c # p /\ c \in DOMAIN g.procs /\ Parent(c) = p
  BY <1>0, <1>2, ChildrenAreFresh
<1>9. /\ dfs_in'[p] # Unset /\ \A q \in DOMAIN g.procs : q # p => (dfs_in'[q] # Unset <=> Entered(q))
      /\ \A q : dfs_out'[q] # Unset <=> Left(q)
      /\ \A q : Under(q)' = Under(q) /\ Parent(q)' = Parent(q)
  <2>1. p \in DOMAIN dfs_in /\ \A q \in DOMAIN g.procs : q \in DOMAIN dfs_in
    BY Forest DEF DfsNumbers
  <2>2. timer # Unset
    BY DEF DfsNumbers, Unset
  <2> QED BY <1>0, <1>2, <2>1, <2>2 DEF Entered, Left, Under, Parent
<1>10. \A i \in 1..(n - 1) : stack[i].pid # p /\ stack[i].pid \in DOMAIN g.procs
  <2>1. \A i \in 1..n : stack[i].pid \in DOMAIN g.procs
    <3>1. \A i \in 1..n : stack[i] \in Entries
      BY <1>0, <1>2
    <3> QED BY <3>1 DEF Entries
  <2>2. \A i, j \in 1..n : stack[i].pid = stack[j].pid => i = j
    BY <1>2, PidsDiffer
  <2> QED BY <1>3, <1>5, <1>6, <2>1, <2>2, Zenon
<1>11. \A q \in DOMAIN g.procs : q # p /\ OnStack(q) => \E i \in 1..(n + k) : stack'[i].pid = q
  <2> SUFFICES ASSUME NEW q \in DOMAIN g.procs, q # p, OnStack(q)
               PROVE  \E i \in 1..(n + k) : stack'[i].pid = q
    OBVIOUS
  <2>1. PICK i \in 1..n : stack[i].pid = q
    BY <1>2, Zenon DEF OnStack
  <2>2. i \in 1..(n - 1)
    BY <1>5, <1>6, <2>1, Zenon
  <2> QED BY <1>3, <1>5, <2>1, <2>2, Zenon
<1>12. \A i, j \in 1..(n + k) : stack'[i].pid = stack'[j].pid => i = j
  <2> SUFFICES ASSUME NEW i \in 1..(n + k), NEW j \in 1..(n + k),
                      stack'[i].pid = stack'[j].pid
               PROVE  i = j
    OBVIOUS
  <2>1. ASSUME NEW a \in 1..(n - 1), NEW b \in (n + 1)..(n + k) PROVE stack'[a].pid # stack'[b].pid
    <3>1. OnStack(stack[a].pid)
      BY <1>2, <1>3 DEF OnStack
    <3> QED BY <1>3, <1>4, <1>8, <3>1
  <2>2. \A a \in 1..(n - 1) : stack'[a].pid # p
    BY <1>3, <1>10
  <2>3. \A b \in (n + 1)..(n + k) : stack'[b].pid # p
    BY <1>4, <1>8
  <2>4. \A a, b \in 1..(n - 1) : stack'[a].pid = stack'[b].pid => a = b
    <3>1. \A a, b \in 1..n : stack[a].pid = stack[b].pid => a = b
      BY <1>2, PidsDiffer
    <3> QED BY <1>3, <3>1, Zenon
  <2> QED BY <1>4, <1>5, <1>6, <2>1, <2>2, <2>3, <2>4
<1>13. ASSUME NEW i \in 1..(n + k), stack'[i].entering
       PROVE  /\ dfs_in'[stack'[i].pid] = Unset
              /\ Parent(stack'[i].pid) \in DOMAIN g.procs =>
                   \E j \in 1..(i - 1) : stack'[j] = Marker(Parent(stack'[i].pid))
  <2>1. CASE i \in 1..(n - 1)
    <3>1. ~Entered(stack[i].pid) /\ (Parent(stack[i].pid) \in DOMAIN g.procs =>
             \E j \in 1..(i - 1) : stack[j] = Marker(Parent(stack[i].pid)))
      BY <1>2, <1>3, <1>13, <2>1 DEF DfsStack
    <3>2. \A j \in 1..(i - 1) : j \in 1..(n - 1)
      BY <2>1
    <3>3. dfs_in'[stack'[i].pid] = Unset
      BY <1>3, <1>9, <1>10, <2>1, <3>1
    <3> QED BY <1>3, <2>1, <3>1, <3>2, <3>3
  <2>2. CASE i = n
    BY <1>6, <1>13, <2>2
  <2>3. CASE i \in (n + 1)..(n + k)
    <3>1. /\ stack'[i].pid \in Children(g.procs, p) /\ n \in 1..(i - 1)
      BY <1>4, <1>5, <2>3
    <3>2. dfs_in'[stack'[i].pid] = Unset /\ Parent(stack'[i].pid) = p
      BY <1>8, <1>9, <3>1
    <3> QED BY <1>2, <3>1, <3>2
  <2> QED BY <1>5, <2>1, <2>2, <2>3
<1>14. ASSUME NEW i \in 1..(n + k), ~stack'[i].entering
       PROVE  /\ dfs_in'[stack'[i].pid] # Unset /\ dfs_out'[stack'[i].pid] = Unset
              /\ \A j \in (i + 1)..(n + k) : stack'[j].pid \in Under(stack'[i].pid)
  <2>1. CASE i \in 1..(n - 1)
    <3> DEFINE a == stack[i].pid
    <3>0. stack'[i].pid = a /\ a # p /\ a \in DOMAIN g.procs
      BY <1>3, <1>10, <2>1
    <3>1. Entered(a) /\ ~Left(a) /\ \A j \in (i + 1)..n : stack[j].pid \in Under(a)
      BY <1>2, <1>3, <1>14, <2>1 DEF DfsStack
    <3> HIDE DEF a
    <3>2. n \in (i + 1)..n
      BY <2>1
    <3>3. p \in Under(a)
      BY <1>6, <3>1, <3>2
    <3>4. Children(g.procs, p) \subseteq Under(a)
      BY <3>3, UnderIs
    <3>5. ASSUME NEW j \in (i + 1)..(n + k) PROVE stack'[j].pid \in Under(a)
      <4>1. j \in 1..(n + k) /\ (j \in 1..(n - 1) => j \in (i + 1)..n)
        BY <2>1
      <4> QED BY <1>3, <1>4, <1>5, <1>6, <3>1, <3>3, <3>4, <4>1
    <3> QED BY <1>9, <3>0, <3>1, <3>5
  <2>2. CASE i = n
    <3>1. \A j \in (n + 1)..(n + k) : stack'[j].pid \in Under(p)
      BY <1>4, UnderIs
    <3> QED BY <1>6, <1>7, <1>9, <2>2, <3>1
  <2>3. CASE i \in (n + 1)..(n + k)
    BY <1>4, <1>14, <2>3
  <2> QED BY <1>5, <2>1, <2>2, <2>3
<1>15. ASSUME NEW q \in DOMAIN g.procs, dfs_in'[q] # Unset, dfs_out'[q] = Unset
       PROVE  \E i \in 1..(n + k) : stack'[i].pid = q
  <2>1. CASE q = p
    BY <1>5, <1>6, <2>1
  <2>2. CASE q # p
    <3>1. OnStack(q)
      BY <1>9, <1>15, <2>2 DEF DfsStack
    <3> QED BY <1>11, <2>2, <3>1
  <2> QED BY <2>1, <2>2
<1>16. ASSUME NEW q \in DOMAIN g.procs, dfs_in'[q] = Unset,
              Parent(q) \in DOMAIN g.procs => dfs_in'[Parent(q)] # Unset
       PROVE  \E i \in 1..(n + k) : stack'[i].pid = q
  <2>1. CASE Parent(q) = p
    <3>1. q \in Children(g.procs, p)
      BY <2>1 DEF Children, Parent
    <3> QED BY <1>4, <1>5, <3>1
  <2>2. CASE Parent(q) # p
    <3>1. q # p /\ ~Entered(q)
      BY <1>9, <1>16
    <3>2. Parent(q) \in DOMAIN g.procs => Entered(Parent(q))
      BY <1>9, <1>16, <2>2
    <3>3. OnStack(q)
      BY <3>1, <3>2 DEF DfsStack
    <3> QED BY <1>11, <3>1, <3>3
  <2> QED BY <2>1, <2>2
<1> QED
  BY <1>0, <1>2, <1>12, <1>13, <1>14, <1>15, <1>16, StackAgain
LEMMA NumbersAgain ==
  ASSUME g' = g, timer' \in Nat, dfs_in' \in [Pids -> Int], dfs_out' \in [Pids -> Int],
         \A p \in DOMAIN g.procs :
           /\ dfs_in'[p] # Unset => 0 <= dfs_in'[p] /\ dfs_in'[p] < timer'
           /\ dfs_out'[p] # Unset =>
                dfs_in'[p] # Unset /\ dfs_in'[p] < dfs_out'[p] /\ dfs_out'[p] < timer',
         \A a \in DOMAIN g.procs : \A b \in Under(a) :
           /\ dfs_in'[b] # Unset => dfs_in'[a] # Unset /\ dfs_in'[a] < dfs_in'[b]
           /\ dfs_out'[a] # Unset => dfs_out'[b] # Unset /\ dfs_out'[b] < dfs_out'[a],
         \A a, b \in DOMAIN g.procs : dfs_in'[a] # Unset /\ dfs_in'[b] # Unset /\ a # b =>
           /\ dfs_in'[a] # dfs_in'[b]
           /\ dfs_in'[a] < dfs_in'[b] /\ b \notin Under(a) =>
                dfs_out'[a] # Unset /\ dfs_out'[a] < dfs_in'[b]
  PROVE  DfsNumbers'
BY Zenon DEF DfsNumbers, Entered, Left, Under

LEMMA EnterKeepsNumbers ==
  ASSUME GraphInv, DfsStack, DfsNumbers, Enter PROVE DfsNumbers'
<1> DEFINE n == Len(stack)
           p == Top.pid
<1>1. /\ stack # <<>> /\ Top.entering /\ g' = g /\ dfs_out' = dfs_out /\ timer' = timer + 1
      /\ dfs_in' = [dfs_in EXCEPT ![p] = timer] /\ stack \in Seq(Entries)
  BY DEF Enter, DfsStack
<1>2. n \in Nat /\ n \in 1..n /\ Top = stack[n] /\ Top \in Entries
  BY <1>1, FrontIs DEF Top
<1>3. stack[n].pid = p /\ stack[n].entering /\ p \in DOMAIN g.procs
  BY <1>1, <1>2 DEF Entries
<1>4. ~Entered(p) /\ ~Left(p)
  BY <1>2, <1>3 DEF DfsStack, DfsNumbers
<1>5. \A a \in DOMAIN g.procs : p \in Under(a) => Entered(a)
  BY <1>2, <1>3, AboveIsOpen
<1>6. \A a \in DOMAIN g.procs : Entered(a) /\ ~Left(a) => p \in Under(a)
  <2> SUFFICES ASSUME NEW a \in DOMAIN g.procs, Entered(a), ~Left(a) PROVE p \in Under(a)
    OBVIOUS
  <2>1. PICK i \in 1..n : stack[i].pid = a
    BY DEF DfsStack, OnStack
  <2>2. i # n /\ ~stack[i].entering
    BY <1>3, <1>4, <2>1 DEF DfsStack
  <2>3. n \in (i + 1)..n
    BY <1>2, <2>2
  <2> QED BY <1>3, <2>1, <2>2, <2>3 DEF DfsStack
<1> HIDE DEF n, p
<1>7. /\ timer \in Nat /\ dfs_in \in [Pids -> Int] /\ dfs_out \in [Pids -> Int]
      /\ \A q \in DOMAIN g.procs : q \in Pids
  BY Forest DEF DfsNumbers
<1>8. /\ dfs_in'[p] = timer /\ dfs_in'[p] # Unset
      /\ \A q \in DOMAIN g.procs : q # p => dfs_in'[q] = dfs_in[q]
      /\ dfs_in' \in [Pids -> Int] /\ timer' \in Nat
  BY <1>1, <1>3, <1>7 DEF Unset
<1>9. \A q \in DOMAIN g.procs :
        /\ dfs_in[q] \in Int /\ dfs_out[q] \in Int
        /\ Entered(q) => 0 <= dfs_in[q] /\ dfs_in[q] < timer
        /\ Left(q) => Entered(q) /\ dfs_in[q] < dfs_out[q] /\ dfs_out[q] < timer
  BY <1>7 DEF DfsNumbers
<1>10. ASSUME NEW q \in DOMAIN g.procs
       PROVE  /\ dfs_in'[q] # Unset => 0 <= dfs_in'[q] /\ dfs_in'[q] < timer'
              /\ dfs_out'[q] # Unset =>
                   dfs_in'[q] # Unset /\ dfs_in'[q] < dfs_out'[q] /\ dfs_out'[q] < timer'
  <2>1. CASE q = p
    BY <1>1, <1>4, <1>7, <1>8, <2>1 DEF Left
  <2>2. CASE q # p
    BY <1>1, <1>7, <1>8, <1>9, <2>2 DEF Entered, Left
  <2> QED BY <2>1, <2>2
<1>11. ASSUME NEW a \in DOMAIN g.procs, NEW b \in Under(a)
       PROVE  /\ dfs_in'[b] # Unset => dfs_in'[a] # Unset /\ dfs_in'[a] < dfs_in'[b]
              /\ dfs_out'[a] # Unset => dfs_out'[b] # Unset /\ dfs_out'[b] < dfs_out'[a]
  <2>0. b \in DOMAIN g.procs /\ a # b
    BY UnderIs
  <2>1. CASE b = p
    BY <1>1, <1>5, <1>8, <1>9, <2>0, <2>1 DEF Entered, DfsNumbers, Left
  <2>2. CASE b # p
    <3>1. Entered(b) => Entered(a) /\ dfs_in[a] < dfs_in[b]
      BY DEF DfsNumbers
    <3>2. Left(a) => Left(b) /\ dfs_out[b] < dfs_out[a]
      BY DEF DfsNumbers
    <3>3. Entered(b) => a # p
      BY <1>4, <3>1
    <3> QED BY <1>1, <1>8, <2>0, <2>2, <3>1, <3>2, <3>3 DEF Entered, Left
  <2> QED BY <2>1, <2>2
<1>12. ASSUME NEW a \in DOMAIN g.procs, NEW b \in DOMAIN g.procs,
              dfs_in'[a] # Unset, dfs_in'[b] # Unset, a # b
       PROVE  /\ dfs_in'[a] # dfs_in'[b]
              /\ dfs_in'[a] < dfs_in'[b] /\ b \notin Under(a) =>
                   dfs_out'[a] # Unset /\ dfs_out'[a] < dfs_in'[b]
  <2>1. CASE b = p
    <3>1. Entered(a) /\ dfs_in'[a] = dfs_in[a]
      BY <1>8, <1>12, <2>1 DEF Entered
    <3>2. b \notin Under(a) => Left(a)
      BY <1>6, <2>1, <3>1
    <3> QED BY <1>1, <1>7, <1>8, <1>9, <2>1, <3>1, <3>2 DEF Left
  <2>2. CASE a = p
    <3>1. Entered(b) /\ dfs_in'[b] = dfs_in[b]
      BY <1>8, <1>12, <2>2 DEF Entered
    <3> QED BY <1>7, <1>8, <1>9, <2>2, <3>1
  <2>3. CASE a # p /\ b # p
    <3>1. Entered(a) /\ Entered(b) /\ dfs_in'[a] = dfs_in[a] /\ dfs_in'[b] = dfs_in[b]
      BY <1>8, <1>12, <2>3 DEF Entered
    <3>2. /\ dfs_in[a] # dfs_in[b]
          /\ dfs_in[a] < dfs_in[b] /\ b \notin Under(a) => Left(a) /\ dfs_out[a] < dfs_in[b]
      BY <1>12, <3>1 DEF DfsNumbers
    <3> QED BY <1>1, <3>1, <3>2 DEF Left
  <2> QED BY <2>1, <2>2, <2>3
<1> QED BY <1>1, <1>7, <1>8, <1>10, <1>11, <1>12, NumbersAgain
LEMMA LeaveShape ==
  ASSUME GraphInv, DfsStack, DfsNumbers, Leave
  PROVE  \E p \in DOMAIN g.procs, n \in Nat \ {0} :
           /\ n = Len(stack) /\ stack[n].pid = p /\ ~stack[n].entering
           /\ Entered(p) /\ ~Left(p)
           /\ stack' \in Seq(Entries) /\ Len(stack') = n - 1
           /\ \A i \in 1..(n - 1) : i \in 1..n /\ i # n /\ stack'[i] = stack[i]
           /\ g' = g /\ dfs_in' = dfs_in /\ timer' = timer + 1
           /\ dfs_out' = [dfs_out EXCEPT ![p] = timer]
<1> DEFINE n == Len(stack)
<1>1. /\ stack # <<>> /\ ~Top.entering /\ g' = g /\ dfs_in' = dfs_in /\ timer' = timer + 1
      /\ dfs_out' = [dfs_out EXCEPT ![Top.pid] = timer] /\ stack \in Seq(Entries)
      /\ stack' = Front(stack)
  BY DEF Leave, DfsStack
<1>2. /\ n \in Nat \ {0} /\ n \in 1..n /\ Top = stack[n] /\ Top \in Entries
      /\ stack' \in Seq(Entries) /\ Len(stack') = n - 1
      /\ \A i \in 1..(n - 1) : i \in 1..n /\ stack'[i] = stack[i]
  BY <1>1, FrontIs DEF Top
<1>3. Top.pid \in DOMAIN g.procs
  BY <1>2 DEF Entries
<1>4. Entered(Top.pid) /\ ~Left(Top.pid)
  BY <1>1, <1>2 DEF DfsStack
<1>5. \A i \in 1..(n - 1) : i # n
  BY <1>2
<1> QED BY <1>1, <1>2, <1>3, <1>4, <1>5

LEMMA LeaveKeepsStack ==
  ASSUME GraphInv, DfsStack, DfsNumbers, Leave PROVE DfsStack'
<1>1. PICK p \in DOMAIN g.procs, n \in Nat \ {0} :
           /\ n = Len(stack) /\ stack[n].pid = p /\ ~stack[n].entering
           /\ Entered(p) /\ ~Left(p)
           /\ stack' \in Seq(Entries) /\ Len(stack') = n - 1
           /\ \A i \in 1..(n - 1) : i \in 1..n /\ i # n /\ stack'[i] = stack[i]
           /\ g' = g /\ dfs_in' = dfs_in /\ timer' = timer + 1
           /\ dfs_out' = [dfs_out EXCEPT ![p] = timer]
  BY LeaveShape
<1>2. n \in 1..n /\ \A i \in 1..n : i = n \/ i \in 1..(n - 1)
  OBVIOUS
<1>0. \A i, j \in 1..n : stack[i].pid = stack[j].pid => i = j
  BY <1>1, PidsDiffer
<1>3. \A i \in 1..(n - 1) : stack[i].pid # p
  BY <1>0, <1>1, <1>2, Zenon
<1>4. dfs_out'[p] # Unset /\ \A q : q # p => dfs_out'[q] = dfs_out[q]
  <2>1. p \in DOMAIN dfs_out /\ timer # Unset
    BY Forest DEF DfsNumbers, Unset
  <2> QED BY <1>1, <2>1
<1>5. \A i, j \in 1..(n - 1) : stack'[i].pid = stack'[j].pid => i = j
  BY <1>0, <1>1, Zenon
<1>6. ASSUME NEW i \in 1..(n - 1), stack'[i].entering
      PROVE  /\ dfs_in'[stack'[i].pid] = Unset
             /\ Parent(stack'[i].pid) \in DOMAIN g.procs =>
                  \E j \in 1..(i - 1) : stack'[j] = Marker(Parent(stack'[i].pid))
  <2>1. /\ ~Entered(stack[i].pid)
        /\ Parent(stack[i].pid) \in DOMAIN g.procs =>
             \E j \in 1..(i - 1) : stack[j] = Marker(Parent(stack[i].pid))
    BY <1>1, <1>6 DEF DfsStack
  <2>2. \A j \in 1..(i - 1) : j \in 1..(n - 1)
    OBVIOUS
  <2> QED BY <1>1, <2>1, <2>2 DEF Entered
<1>7. ASSUME NEW i \in 1..(n - 1), ~stack'[i].entering
      PROVE  /\ dfs_in'[stack'[i].pid] # Unset /\ dfs_out'[stack'[i].pid] = Unset
             /\ \A j \in (i + 1)..(n - 1) : stack'[j].pid \in Under(stack'[i].pid)
  <2>1. /\ Entered(stack[i].pid) /\ ~Left(stack[i].pid)
        /\ \A j \in (i + 1)..n : stack[j].pid \in Under(stack[i].pid)
    BY <1>1, <1>7 DEF DfsStack
  <2>2. \A j \in (i + 1)..(n - 1) : j \in (i + 1)..n /\ j \in 1..(n - 1)
    OBVIOUS
  <2>3. stack'[i] = stack[i] /\ stack[i].pid # p /\ dfs_in' = dfs_in
    BY <1>1, <1>3
  <2>4. dfs_in'[stack'[i].pid] # Unset
    BY <2>1, <2>3 DEF Entered
  <2>5. dfs_out'[stack'[i].pid] = Unset
    BY <1>4, <2>1, <2>3 DEF Left
  <2>6. \A j \in (i + 1)..(n - 1) : stack'[j].pid \in Under(stack'[i].pid)
    <3>1. \A j \in (i + 1)..(n - 1) : stack'[j] = stack[j]
      BY <1>1, <2>2
    <3> QED BY <2>1, <2>2, <2>3, <3>1, Zenon
  <2> QED BY <2>4, <2>5, <2>6
<1>8. ASSUME NEW q \in DOMAIN g.procs, OnStack(q), q # p
      PROVE  \E i \in 1..(n - 1) : stack'[i].pid = q
  BY <1>1, <1>2, <1>8 DEF OnStack
<1>9. ASSUME NEW q \in DOMAIN g.procs, dfs_in'[q] # Unset, dfs_out'[q] = Unset
      PROVE  \E i \in 1..(n - 1) : stack'[i].pid = q
  <2>1. q # p /\ Entered(q) /\ ~Left(q)
    BY <1>1, <1>4, <1>9 DEF Entered, Left
  <2> QED BY <1>8, <2>1 DEF DfsStack
<1>10. ASSUME NEW q \in DOMAIN g.procs, dfs_in'[q] = Unset,
              Parent(q) \in DOMAIN g.procs => dfs_in'[Parent(q)] # Unset
       PROVE  \E i \in 1..(n - 1) : stack'[i].pid = q
  <2>1. q # p /\ ~Entered(q) /\ (Parent(q) \in DOMAIN g.procs => Entered(Parent(q)))
    BY <1>1, <1>10 DEF Entered
  <2> QED BY <1>8, <2>1 DEF DfsStack
<1>11. g' = g /\ stack' \in Seq(Entries) /\ Len(stack') = n - 1
  BY <1>1
<1> QED BY <1>11, <1>5, <1>6, <1>7, <1>9, <1>10, StackAgain

(* Everything below a process is left before it.                           *)
LEMMA BelowIsLeft ==
  ASSUME GraphInv, DfsStack, DfsNumbers, NEW p \in DOMAIN g.procs, stack # <<>>,
         stack[Len(stack)].pid = p, ~stack[Len(stack)].entering,
         NEW x \in Under(p)
  PROVE  Left(x)
<1> DEFINE n == Len(stack)
           Late == {b \in Under(p) : ~Left(b)}
<1> SUFFICES ASSUME Late # {} PROVE FALSE
  OBVIOUS
<1>1. n \in Nat /\ n \in 1..n
  BY DEF DfsStack
<1>2. Late \in SUBSET DOMAIN g.procs
  BY UnderIs
<1>3. PICK b \in Late : Parent(b) \notin Late
  BY <1>2 DEF GraphInv, Acyclic, Parent
<1>4. /\ b \in Under(p) /\ b \in DOMAIN g.procs /\ b # p /\ ~Left(b)
      /\ Parent(b) = p \/ Parent(b) \in Under(p)
      /\ Parent(b) \in DOMAIN g.procs /\ (Parent(b) # p => Left(Parent(b)))
  BY <1>3, UnderIs
<1>5. Entered(p) /\ ~Left(p)
  BY <1>1 DEF DfsStack
<1>6. CASE Entered(b)
  <2>1. PICK i \in 1..n : stack[i].pid = b
    BY <1>4, <1>6 DEF DfsStack, OnStack
  <2>2. ~stack[i].entering /\ i # n
    BY <1>4, <1>6, <2>1 DEF DfsStack
  <2>3. n \in (i + 1)..n
    BY <1>1, <2>2
  <2>4. p \in Under(b)
    BY <2>1, <2>2, <2>3 DEF DfsStack
  <2>5. p \in Under(p)
    BY <1>4, <2>4, Forest, DescendantOfDescendant DEF Under
  <2> QED BY <2>5, UnderIs
<1>7. CASE ~Entered(b)
  <2>1. Entered(Parent(b))
    BY <1>4, <1>5 DEF DfsNumbers
  <2>2. PICK i \in 1..n : stack[i].pid = b
    BY <1>4, <1>7, <2>1 DEF DfsStack, OnStack
  <2>3. stack[i].entering
    BY <1>7, <2>2 DEF DfsStack
  <2>4. PICK j \in 1..(i - 1) : stack[j] = Marker(Parent(b))
    BY <1>4, <2>2, <2>3 DEF DfsStack
  <2>5. j \in 1..n /\ j # n /\ stack[j].pid = Parent(b) /\ ~stack[j].entering
    BY <1>1, <2>4 DEF Marker
  <2>6. ~Left(Parent(b))
    BY <2>5 DEF DfsStack
  <2>7. stack[j].pid = p
    BY <1>4, <2>5, <2>6
  <2> QED BY <1>1, <2>5, <2>7 DEF DfsStack
<1> QED BY <1>6, <1>7

LEMMA LeaveKeepsNumbers ==
  ASSUME GraphInv, DfsStack, DfsNumbers, Leave PROVE DfsNumbers'
<1>1. PICK p \in DOMAIN g.procs, n \in Nat \ {0} :
           /\ n = Len(stack) /\ stack[n].pid = p /\ ~stack[n].entering
           /\ Entered(p) /\ ~Left(p)
           /\ g' = g /\ dfs_in' = dfs_in /\ timer' = timer + 1
           /\ dfs_out' = [dfs_out EXCEPT ![p] = timer]
  BY LeaveShape
<1>2. \A b \in Under(p) : Left(b)
  BY <1>1, BelowIsLeft DEF Leave
<1>3. /\ timer \in Nat /\ dfs_in \in [Pids -> Int] /\ dfs_out \in [Pids -> Int]
      /\ \A q \in DOMAIN g.procs : q \in Pids
  BY Forest DEF DfsNumbers
<1>4. /\ dfs_out'[p] = timer /\ dfs_out'[p] # Unset
      /\ \A q \in DOMAIN g.procs : q # p => dfs_out'[q] = dfs_out[q]
      /\ dfs_out' \in [Pids -> Int] /\ timer' \in Nat
  BY <1>1, <1>3 DEF Unset
<1>5. \A q \in DOMAIN g.procs :
        /\ dfs_in[q] \in Int /\ dfs_out[q] \in Int
        /\ Entered(q) => 0 <= dfs_in[q] /\ dfs_in[q] < timer
        /\ Left(q) => Entered(q) /\ dfs_in[q] < dfs_out[q] /\ dfs_out[q] < timer
  BY <1>3 DEF DfsNumbers
<1>6. ASSUME NEW q \in DOMAIN g.procs
      PROVE  /\ dfs_in'[q] # Unset => 0 <= dfs_in'[q] /\ dfs_in'[q] < timer'
             /\ dfs_out'[q] # Unset =>
                  dfs_in'[q] # Unset /\ dfs_in'[q] < dfs_out'[q] /\ dfs_out'[q] < timer'
  <2>1. CASE q = p
    BY <1>1, <1>3, <1>4, <1>5, <2>1 DEF Entered
  <2>2. CASE q # p
    BY <1>1, <1>3, <1>4, <1>5, <2>2 DEF Entered, Left
  <2> QED BY <2>1, <2>2
<1>7. ASSUME NEW a \in DOMAIN g.procs, NEW b \in Under(a)
      PROVE  /\ dfs_in'[b] # Unset => dfs_in'[a] # Unset /\ dfs_in'[a] < dfs_in'[b]
             /\ dfs_out'[a] # Unset => dfs_out'[b] # Unset /\ dfs_out'[b] < dfs_out'[a]
  <2>0. b \in DOMAIN g.procs /\ a # b
    BY UnderIs
  <2>1. /\ Entered(b) => Entered(a) /\ dfs_in[a] < dfs_in[b]
        /\ Left(a) => Left(b) /\ dfs_out[b] < dfs_out[a]
    BY DEF DfsNumbers
  <2>2. CASE a = p
    BY <1>1, <1>2, <1>4, <1>5, <2>0, <2>1, <2>2 DEF Entered, Left
  <2>3. CASE a # p
    <3>1. Left(a) => b # p
      BY <1>1, <2>1
    <3> QED BY <1>1, <1>4, <2>0, <2>1, <2>3, <3>1 DEF Entered, Left
  <2> QED BY <2>2, <2>3
<1>8. ASSUME NEW a \in DOMAIN g.procs, NEW b \in DOMAIN g.procs,
             dfs_in'[a] # Unset, dfs_in'[b] # Unset, a # b
      PROVE  /\ dfs_in'[a] # dfs_in'[b]
             /\ dfs_in'[a] < dfs_in'[b] /\ b \notin Under(a) =>
                  dfs_out'[a] # Unset /\ dfs_out'[a] < dfs_in'[b]
  <2>1. /\ dfs_in[a] # dfs_in[b]
        /\ dfs_in[a] < dfs_in[b] /\ b \notin Under(a) => Left(a) /\ dfs_out[a] < dfs_in[b]
    BY <1>1, <1>8 DEF DfsNumbers, Entered
  <2> QED BY <1>1, <1>4, <2>1 DEF Left
<1> QED BY <1>1, <1>3, <1>4, <1>6, <1>7, <1>8, NumbersAgain

(* When nothing is left to number, the numbers tell who is above whom.     *)
LEMMA NumbersTellAncestors ==
  ASSUME GraphInv, DfsStack, DfsNumbers, stack = <<>> PROVE AncestorsKnown
<1>1. \A p : ~OnStack(p)
  BY DEF OnStack
<1>2. \A p \in DOMAIN g.procs : Entered(p)
  <2> DEFINE Fresh == {p \in DOMAIN g.procs : ~Entered(p)}
  <2> SUFFICES ASSUME Fresh # {} PROVE FALSE
    OBVIOUS
  <2>1. PICK p \in Fresh : Parent(p) \notin Fresh
    BY DEF GraphInv, Acyclic, Parent
  <2> QED BY <1>1, <2>1 DEF DfsStack
<1>3. \A p \in DOMAIN g.procs : Left(p)
  BY <1>1, <1>2 DEF DfsStack
<1>4. ASSUME NEW a \in DOMAIN g.procs, NEW b \in DOMAIN g.procs, a # b
      PROVE  IsAncestor(a, b) <=> b \in Under(a)
  <2>1. /\ dfs_in[a] \in Int /\ dfs_in[b] \in Int /\ dfs_out[a] \in Int /\ dfs_out[b] \in Int
        /\ dfs_in[a] # Unset /\ dfs_in[b] # Unset
        /\ dfs_in[b] < dfs_out[b] /\ dfs_in[a] # dfs_in[b]
    BY <1>2, <1>3, <1>4, Forest DEF DfsNumbers, Entered
  <2>2. CASE b \in Under(a)
    <3>1. dfs_in[a] < dfs_in[b] /\ dfs_out[b] < dfs_out[a]
      BY <1>2, <1>3, <2>2 DEF DfsNumbers
    <3> QED BY <2>1, <2>2, <3>1 DEF IsAncestor
  <2>3. CASE b \notin Under(a)
    <3>1. dfs_in[a] < dfs_in[b] => dfs_out[a] < dfs_in[b]
      BY <1>2, <1>4, <2>3 DEF DfsNumbers
    <3> QED BY <2>1, <2>3, <3>1 DEF IsAncestor
  <2> QED BY <2>2, <2>3
<1> QED BY <1>4 DEF AncestorsKnown
LEMMA RootsWait ==
  ASSUME GraphInv
  PROVE  Waiting(Entering(Sorted(Roots(g.procs))), Roots(g.procs))
<1>1. Roots(g.procs) \in SUBSET DOMAIN g.procs
  BY DEF Roots
<1>2. Roots(g.procs) \in SUBSET Int /\ IsFiniteSet(Roots(g.procs))
  BY <1>1, Forest, FS_Subset
<1>3. Sorted(Roots(g.procs)) \in SetToSeqs(Roots(g.procs))
  BY <1>2, InOrderOfNumbers DEF Sorted
<1> QED BY <1>1, <1>3, EnteringWaits

LEMMA RacesInitially == ASSUME Init PROVE RacesInv
<1> SUFFICES ASSUME ask.kind = "races" PROVE RacesInv
  BY DEF RacesInv
<1>0. GraphInv
  BY GraphInitially
<1>1. /\ phase = "number" /\ stack = Entering(Sorted(Roots(g.procs))) /\ result = {}
      /\ dfs_in = [p \in Pids |-> Unset] /\ dfs_out = dfs_in /\ timer = 0
  BY DEF Init, InitRaces
<1>2. \A p \in DOMAIN g.procs : p \in Pids /\ ~Entered(p) /\ ~Left(p)
  BY <1>0, <1>1, Forest DEF Entered, Left
<1>3. DfsNumbers
  <2>1. Unset \in Int
    BY DEF Unset
  <2>2. \A a \in DOMAIN g.procs : \A b \in Under(a) : b \in DOMAIN g.procs
    BY <1>0, UnderIs
  <2> QED BY <1>1, <1>2, <2>1, <2>2 DEF DfsNumbers
<1>4. Waiting(stack, Roots(g.procs))
  BY <1>0, <1>1, RootsWait
<1>5. /\ stack \in Seq(Entries)
      /\ \A i \in 1..Len(stack) : stack[i].entering /\ stack[i].pid \in Roots(g.procs)
      /\ \A i, j \in 1..Len(stack) : stack[i].pid = stack[j].pid => i = j
      /\ \A x \in Roots(g.procs) : OnStack(x)
  BY <1>4 DEF Waiting, OnStack
<1>6. \A i \in 1..Len(stack) : /\ stack[i].pid \in DOMAIN g.procs
                               /\ Parent(stack[i].pid) \notin DOMAIN g.procs
  BY <1>5 DEF Roots, Parent
<1>7. \A p \in DOMAIN g.procs : Parent(p) \notin DOMAIN g.procs => OnStack(p)
  BY <1>5 DEF Roots, Parent
<1>8. DfsStack
  BY <1>2, <1>5, <1>6, <1>7 DEF DfsStack
<1> QED BY <1>1, <1>3, <1>8 DEF RacesInv
(* Nobody reads a file, so nobody races for it.                            *)
LEMMA UnreadIsSafe ==
  ASSUME NEW f, Readers(g, f) = {} PROVE RacesOn(f) = {}
BY DEF RacesOn, Racing

LEMMA RacesStep ==
  ASSUME GraphInv, RacesInv, [Next]_vars, ask' = ask, g' = g, ask.kind = "races"
  PROVE  RacesInv'
<1>0. /\ phase \in {"number", "look", "done"}
      /\ phase = "number" => DfsStack /\ DfsNumbers /\ result = {}
      /\ phase # "number" => AncestorsKnown /\ LookedAt
      /\ phase = "done" => files = <<>>
  BY DEF RacesInv
<1>1. CASE Enter
  <2>1. phase = "number" /\ phase' = phase /\ result' = result
    BY <1>1 DEF Enter
  <2>2. DfsStack' /\ DfsNumbers'
    BY <1>0, <1>1, <2>1, EnterKeepsStack, EnterKeepsNumbers
  <2> QED BY <1>0, <2>1, <2>2 DEF RacesInv
<1>2. CASE Leave
  <2>1. phase = "number" /\ phase' = phase /\ result' = result
    BY <1>2 DEF Leave
  <2>2. DfsStack' /\ DfsNumbers'
    BY <1>0, <1>2, <2>1, LeaveKeepsStack, LeaveKeepsNumbers
  <2> QED BY <1>0, <2>1, <2>2 DEF RacesInv
<1>3. ASSUME dfs_in' = dfs_in, dfs_out' = dfs_out
      PROVE  (AncestorsKnown => AncestorsKnown') /\ \A f : RacesOn(f)' = RacesOn(f)
  BY <1>3 DEF AncestorsKnown, IsAncestor, Under, RacesOn, Racing, Overlap
<1>4. CASE Numbered
  <2> DEFINE read == {f \in Files : Readers(g, f) # {}}
  <2>1. /\ phase = "number" /\ phase' = "look" /\ files' = Sorted(read) /\ stack = <<>>
        /\ dfs_in' = dfs_in /\ dfs_out' = dfs_out /\ result' = result /\ cut' = cut
    BY <1>4 DEF Numbered
  <2>2. read \in SUBSET Int /\ read \in SUBSET Files /\ IsFiniteSet(read)
    <3>1. read \in SUBSET Files /\ Files \in SUBSET Int /\ IsFiniteSet(Files)
      BY GraphAssumption, QuestionsAssumption
    <3> HIDE DEF read
    <3> QED BY <3>1, FS_Subset
  <2>3. files' \in Seq(Files) /\ \A f \in read : \E i \in 1..Len(files') : files'[i] = f
    <3> HIDE DEF read
    <3>1. /\ Sorted(read) \in Seq(read)
          /\ \A f \in read : \E i \in 1..Len(Sorted(read)) : Sorted(read)[i] = f
      BY <2>2, SortedIs
    <3>2. ASSUME NEW s \in Seq(read) PROVE s \in Seq(Files)
      <4>1. Len(s) \in Nat /\ s \in [1..Len(s) -> read] /\ \A f \in read : f \in Files
        BY <2>2
      <4>2. s \in [1..Len(s) -> Files]
        BY <4>1
      <4> QED BY <4>1, <4>2
    <3>3. files' = Sorted(read)
      BY <2>1, Zenon
    <3> QED BY <3>1, <3>2, <3>3, Zenon
  <2>4. AncestorsKnown'
    BY <1>0, <1>3, <2>1, NumbersTellAncestors
  <2>5. \A f \in Files \ read : RacesOn(f)' = {}
    BY <1>3, <2>1, UnreadIsSafe
  <2>6. LookedAt'
    BY <1>0, <2>1, <2>3, <2>5 DEF LookedAt
  <2> QED BY <2>1, <2>4, <2>6 DEF RacesInv
<1>5. CASE LookAtFile
  <2> DEFINE f == Head(files)
  <2>1. /\ phase = "look" /\ phase' = "look" /\ cut' = cut /\ files # <<>>
        /\ files' = Tail(files) /\ result' = result \cup RacesOn(f)
        /\ dfs_in' = dfs_in /\ dfs_out' = dfs_out
    BY <1>5 DEF LookAtFile
  <2>2. files \in Seq(Files)
    BY <1>0, <2>1 DEF LookedAt
  <2>3. /\ f \in Files /\ Tail(files) \in Seq(Files) /\ f = files[1]
        /\ \A i \in 1..Len(files) : i # 1 =>
             i - 1 \in 1..Len(Tail(files)) /\ Tail(files)[i - 1] = files[i]
    BY <2>1, <2>2
  <2> HIDE DEF f
  <2>4. result' \subseteq UNION {RacesOn(x) : x \in Files}
    BY <1>0, <2>1, <2>3 DEF LookedAt
  <2>5. ASSUME ~cut, NEW x \in Files, ~(RacesOn(x) \subseteq result')
        PROVE  \E i \in 1..Len(files') : files'[i] = x
    <3>1. ~(RacesOn(x) \subseteq result) /\ x # f
      BY <2>1, <2>5
    <3>2. PICK i \in 1..Len(files) : files[i] = x
      BY <1>0, <2>1, <2>5, <3>1 DEF LookedAt
    <3> QED BY <2>1, <2>3, <3>1, <3>2
  <2>6. UNION {RacesOn(x)' : x \in Files} = UNION {RacesOn(x) : x \in Files}
    BY <1>3, <2>1
  <2>7. LookedAt'
    BY <1>3, <2>1, <2>3, <2>4, <2>5, <2>6 DEF LookedAt
  <2> QED BY <1>0, <1>3, <2>1, <2>7 DEF RacesInv
<1>6. CASE DeadlinePasses
  <2>1. /\ phase = "look" /\ phase' = phase /\ files' = <<>> /\ cut' /\ result' = result
        /\ dfs_in' = dfs_in /\ dfs_out' = dfs_out
    BY <1>6 DEF DeadlinePasses
  <2>2. UNION {RacesOn(x)' : x \in Files} = UNION {RacesOn(x) : x \in Files}
    BY <1>3, <2>1
  <2>3. LookedAt'
    BY <1>0, <2>1, <2>2 DEF LookedAt
  <2> QED BY <1>0, <1>3, <2>1, <2>3 DEF RacesInv
<1>7. ASSUME UNCHANGED <<files, cut, result, dfs_in, dfs_out>>, LookedAt PROVE LookedAt'
  <2>1. UNION {RacesOn(x)' : x \in Files} = UNION {RacesOn(x) : x \in Files}
    BY <1>3, <1>7
  <2>2. result' \subseteq UNION {RacesOn(x)' : x \in Files}
    BY <1>7, <2>1 DEF LookedAt
  <2>3. ~cut => \A f \in Files :
          RacesOn(f)' \subseteq result' \/ \E i \in 1..Len(files') : files'[i] = f
    BY <1>3, <1>7 DEF LookedAt
  <2> QED BY <1>7, <2>2, <2>3 DEF LookedAt
<1>8. CASE Finish
  <2>1. /\ phase = "look" /\ phase' = "done" /\ files = <<>>
        /\ UNCHANGED <<files, cut, result, dfs_in, dfs_out>>
    BY <1>8 DEF Finish
  <2> QED BY <1>0, <1>3, <1>7, <2>1 DEF RacesInv
<1>9. CASE UNCHANGED vars
  <2>1. UNCHANGED <<phase, stack, timer, files, cut, result, dfs_in, dfs_out>>
    BY <1>9 DEF vars
  <2>2. CASE phase = "number"
    <3>1. DfsStack'
      BY <1>0, <2>1, <2>2 DEF DfsStack, Entries, OnStack, Entered, Left, Under, Parent, Marker
    <3>2. DfsNumbers'
      BY <1>0, <2>1, <2>2 DEF DfsNumbers, Entered, Left, Under
    <3> QED BY <1>0, <2>1, <2>2, <3>1, <3>2 DEF RacesInv
  <2>3. CASE phase # "number"
    BY <1>0, <1>3, <1>7, <2>1, <2>3 DEF RacesInv
  <2> QED BY <2>2, <2>3
<1>10. ~(Descend \/ Return)
  BY <1>0 DEF Descend, Return
<1> QED BY <1>1, <1>2, <1>4, <1>5, <1>6, <1>8, <1>9, <1>10 DEF Next
(* What a reported race says, read in either direction.                    *)
Race(x) ==
  /\ {x[2], x[3]} \subseteq DOMAIN g.procs
  /\ <<x[2], x[1]>> \in g.writes /\ <<x[3], x[1]>> \in g.reads
  /\ x[2] # x[3] /\ Overlap(x[2], x[3]) > 0
  /\ x[2] \notin Descendants(g.procs, x[3])
  /\ x[3] \notin Descendants(g.procs, x[2])
Entry(f, p, q) == [file |-> f, writer |-> p, reader |-> q, overlap |-> Overlap(p, q)]

LEMMA RacesAreThese ==
  ASSUME GraphInv, AncestorsKnown, NEW f \in Files
  PROVE  /\ \A e \in RacesOn(f) :
              \E p, q \in DOMAIN g.procs : e = Entry(f, p, q) /\ Race(<<f, p, q>>)
         /\ \A p, q \in Pids : Race(<<f, p, q>>) => Entry(f, p, q) \in RacesOn(f)
<1>0. DOMAIN g.procs \subseteq Pids
  BY DEF GraphInv
<1>1. \A p, q \in DOMAIN g.procs : p # q =>
        /\ IsAncestor(p, q) <=> q \in Descendants(g.procs, p)
        /\ IsAncestor(q, p) <=> p \in Descendants(g.procs, q)
  BY DEF AncestorsKnown, Under
<1>2. ASSUME NEW e \in RacesOn(f)
      PROVE  \E p, q \in DOMAIN g.procs : e = Entry(f, p, q) /\ Race(<<f, p, q>>)
  <2>1. PICK x \in Racing(f) : e = Entry(f, x[1], x[2])
    BY DEF RacesOn, Entry
  <2>2. /\ x[1] \in Writers(g, f) /\ x[2] \in Readers(g, f)
        /\ x[1] \in DOMAIN g.procs /\ x[2] \in DOMAIN g.procs
        /\ x[1] # x[2] /\ Overlap(x[1], x[2]) > 0
        /\ ~IsAncestor(x[1], x[2]) /\ ~IsAncestor(x[2], x[1])
    BY DEF Racing
  <2>3. Race(<<f, x[1], x[2]>>)
    BY <1>1, <2>2 DEF Race, Writers, Readers
  <2> QED BY <2>1, <2>2, <2>3
<1>3. ASSUME NEW p \in Pids, NEW q \in Pids, Race(<<f, p, q>>)
      PROVE  Entry(f, p, q) \in RacesOn(f)
  <2>1. /\ p \in DOMAIN g.procs /\ q \in DOMAIN g.procs
        /\ <<p, f>> \in g.writes /\ <<q, f>> \in g.reads
        /\ p # q /\ Overlap(p, q) > 0
        /\ p \notin Descendants(g.procs, q) /\ q \notin Descendants(g.procs, p)
    BY <1>3 DEF Race
  <2>2. p \in Writers(g, f) /\ q \in Readers(g, f)
    BY <2>1 DEF Writers, Readers
  <2>3. <<p, q>> \in Racing(f)
    BY <1>1, <2>1, <2>2 DEF Racing
  <2> QED BY <2>3 DEF RacesOn, Entry
<1> QED BY <1>2, <1>3

(* Who raced: detect_races reports that a file was read while a process    *)
(* that is neither above nor below the reader wrote it exactly when this   *)
(* happened; what the deadline leaves out is missing, nothing is made up.  *)
THEOREM RacesAreRight == Spec => []RacesAreExact
<1>1. Init => GraphInv /\ RacesInv
  BY GraphInitially, RacesInitially
<1>2. GraphInv /\ RacesInv /\ [Next]_vars => (GraphInv /\ RacesInv)'
  <2> SUFFICES ASSUME GraphInv, RacesInv, [Next]_vars PROVE (GraphInv /\ RacesInv)'
    OBVIOUS
  <2>1. g' = g /\ ask' = ask /\ GraphInv'
    BY GraphStays
  <2> QED BY <2>1, RacesStep DEF RacesInv
<1>3. GraphInv /\ RacesInv => RacesAreExact
  <2> SUFFICES ASSUME GraphInv, RacesInv, phase = "done", ask.kind = "races"
               PROVE  RacesAreExact
    BY DEF RacesAreExact
  <2> DEFINE exact == {x \in Files \X Pids \X Pids : Race(x)}
             reported == {<<e.file, e.writer, e.reader>> : e \in result}
  <2>1. files = <<>> /\ AncestorsKnown /\ LookedAt
    BY DEF RacesInv
  <2>2. DOMAIN g.procs \subseteq Pids
    BY DEF GraphInv
  <2>3. ASSUME NEW e \in result PROVE <<e.file, e.writer, e.reader>> \in exact
    <3>1. PICK f \in Files : e \in RacesOn(f)
      BY <2>1 DEF LookedAt
    <3>2. PICK p, q \in DOMAIN g.procs : e = Entry(f, p, q) /\ Race(<<f, p, q>>)
      BY <2>1, <3>1, RacesAreThese
    <3>3. <<e.file, e.writer, e.reader>> = <<f, p, q>>
      BY <3>2 DEF Entry
    <3> QED BY <2>2, <3>2, <3>3
  <2>4. ASSUME ~cut, NEW x \in exact PROVE x \in reported
    <3>1. PICK f \in Files, p \in Pids, q \in Pids : x = <<f, p, q>> /\ Race(<<f, p, q>>)
      OBVIOUS
    <3>2. RacesOn(f) \subseteq result
      BY <2>1, <2>4 DEF LookedAt
    <3>3. Entry(f, p, q) \in result
      BY <2>1, <3>1, <3>2, RacesAreThese
    <3>4. x = <<Entry(f, p, q).file, Entry(f, p, q).writer, Entry(f, p, q).reader>>
      BY <3>1 DEF Entry
    <3> QED BY <3>3, <3>4
  <2>5. IF cut THEN reported \subseteq exact ELSE reported = exact
    BY <2>3, <2>4
  <2> QED BY <2>5 DEF RacesAreExact, Race
<1> QED BY <1>1, <1>2, <1>3, PTL DEF Spec
=============================================================================
