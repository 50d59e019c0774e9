--------------------------- MODULE RebuildProofs ---------------------------
(***************************************************************************)
(* Proofs about what has to run again, for any trace and any changed       *)
(* files, however large.                                                   *)
(***************************************************************************)
EXTENDS Rebuild, DependencyGraphProofs

-----------------------------------------------------------------------------
(* The worklist behind bdview rebuild and /api/rebuild                     *)

Direct == {<<r[1], r[2], Nobody>> : r \in {e \in g.reads : e[2] \in changed}}
Through(S) ==
  {t \in Pids \X Files \X S : <<t[1], t[2]>> \in g.reads /\ <<t[3], t[2]>> \in g.writes}

(* What the worklist has to say of the rest: followed is what was taken    *)
(* from it.                                                                *)
followed == affected \ worklist

SearchInv ==
  /\ g.reads \subseteq Pids \X Files
  /\ worklist \subseteq affected /\ affected \subseteq Pids
  /\ \A S \in SUBSET Pids : ClosedUnder(g, changed, S) => affected \subseteq S
  /\ phase = "seed" => affected = {} /\ reasons = {}
  /\ phase # "seed" =>
       /\ ReadersOf(g, changed) \subseteq affected
       /\ Triggered(g, followed) \subseteq affected
       /\ reasons = Direct \cup Through(followed)
  /\ phase = "done" =>
       worklist = {} /\ estimate.serial = TotalDuration(g, affected)

LEMMA SeedStep ==
  ASSUME SearchInv, Seed
  PROVE  SearchInv'
<1>1. affected' \subseteq Pids /\ affected' = ReadersOf(g, changed)
  BY ReadersAreProcesses DEF Seed
<1>2. ASSUME NEW S \in SUBSET Pids, ClosedUnder(g, changed, S) PROVE affected' \subseteq S
  BY <1>1, <1>2 DEF ClosedUnder
<1>3. followed' = {}
  BY DEF Seed, followed
<1>4. Triggered(g, followed') = {}
  BY <1>3 DEF Triggered
<1>5. reasons' = Direct
  BY DEF Seed, Direct
<1>6. Through(followed') = {}
  BY <1>3 DEF Through
<1> QED BY <1>1, <1>2, <1>3, <1>4, <1>5, <1>6 DEF SearchInv, Seed, Direct, Through, ClosedUnder

LEMMA HitsAre ==
  ASSUME g.reads \subseteq Pids \X Files, NEW p \in Pids
  PROVE  /\ {r[1] : r \in Hits(p)} = ReadersOf(g, Outputs(g, p))
         /\ {<<r[1], r[2], p>> : r \in Hits(p)} = Through({p})
<1>1. ASSUME NEW r \in Hits(p)
      PROVE  /\ r[1] \in Pids /\ r[2] \in Files /\ r = <<r[1], r[2]>>
             /\ r \in g.reads /\ <<p, r[2]>> \in g.writes /\ r[2] \in Outputs(g, p)
  BY DEF Hits, Outputs
<1>2. {r[1] : r \in Hits(p)} \subseteq ReadersOf(g, Outputs(g, p))
  <2> SUFFICES ASSUME NEW r \in Hits(p) PROVE r[1] \in ReadersOf(g, Outputs(g, p))
    OBVIOUS
  <2>1. r[1] \in Readers(g, r[2]) /\ r[2] \in Outputs(g, p)
    BY <1>1 DEF Readers
  <2> QED BY <2>1 DEF ReadersOf
<1>3. ReadersOf(g, Outputs(g, p)) \subseteq {r[1] : r \in Hits(p)}
  <2> SUFFICES ASSUME NEW f \in Outputs(g, p), NEW q \in Readers(g, f)
               PROVE  q \in {r[1] : r \in Hits(p)}
    BY DEF ReadersOf
  <2>1. <<q, f>> \in Hits(p)
    BY DEF Readers, Hits
  <2> QED BY <2>1
<1>4. {<<r[1], r[2], p>> : r \in Hits(p)} \subseteq Through({p})
  BY <1>1 DEF Through
<1>5. Through({p}) \subseteq {<<r[1], r[2], p>> : r \in Hits(p)}
  <2> SUFFICES ASSUME NEW t \in Through({p})
               PROVE  t \in {<<r[1], r[2], p>> : r \in Hits(p)}
    OBVIOUS
  <2>1. /\ t[1] \in Pids /\ t[2] \in Files /\ t[3] = p /\ t = <<t[1], t[2], p>>
        /\ <<t[1], t[2]>> \in g.reads /\ <<p, t[2]>> \in g.writes
    BY DEF Through
  <2>2. <<t[1], t[2]>> \in Hits(p)
    BY <2>1 DEF Hits, Outputs
  <2> QED BY <2>1, <2>2
<1> QED BY <1>2, <1>3, <1>4, <1>5

LEMMA PropagateStep ==
  ASSUME SearchInv, NEW p \in Pids, Propagate(p)
  PROVE  SearchInv'
<1> DEFINE hit == ReadersOf(g, Outputs(g, p))
<1>1. /\ affected' = affected \cup hit
      /\ worklist' = (worklist \ {p}) \cup (hit \ affected)
      /\ reasons' = reasons \cup Through({p})
      /\ phase = "propagate" /\ p \in worklist /\ UNCHANGED <<g, changed, phase>>
  BY HitsAre DEF SearchInv, Propagate, NewReaders
<1>2. hit \subseteq Pids
  BY ReadersAreProcesses
<1>3. followed' = followed \cup {p}
  BY <1>1 DEF SearchInv, followed
<1>4. Triggered(g, followed') = Triggered(g, followed) \cup hit
  BY <1>3 DEF Triggered
<1>5. Through(followed') = Through(followed) \cup Through({p})
  BY <1>3 DEF Through
<1>6. ASSUME NEW S \in SUBSET Pids, ClosedUnder(g, changed, S) PROVE affected' \subseteq S
  <2>1. affected \subseteq S
    BY <1>6 DEF SearchInv
  <2>2. hit \subseteq S
    BY <1>1, <1>6, <2>1 DEF ClosedUnder, Triggered, SearchInv
  <2> QED BY <1>1, <2>1, <2>2
<1> HIDE DEF hit
<1>7. worklist' \subseteq affected' /\ affected' \subseteq Pids
  BY <1>1, <1>2 DEF SearchInv
<1>8. /\ ReadersOf(g, changed) \subseteq affected'
      /\ Triggered(g, followed') \subseteq affected'
      /\ reasons' = Direct \cup Through(followed')
  BY <1>1, <1>4, <1>5 DEF SearchInv
<1> QED BY <1>1, <1>6, <1>7, <1>8 DEF SearchInv, Direct, Through, ClosedUnder

LEMMA ShowStep ==
  ASSUME SearchInv, Show
  PROVE  SearchInv'
<1>1. /\ UNCHANGED <<g, changed, affected, worklist, reasons>>
      /\ worklist = {} /\ phase = "propagate" /\ phase' = "done"
      /\ estimate'.serial = TotalDuration(g, affected)
  BY DEF Show, compute_rebuild_estimate
<1>2. followed' = followed
  BY <1>1 DEF followed
<1> QED BY <1>1, <1>2 DEF SearchInv, Direct, Through, ClosedUnder

(* A closed set below every closed set is what must run again.             *)
LEMMA WorklistIsExact ==
  ASSUME SearchInv, phase = "done"
  PROVE  affected = MustRerun(g, changed)
<1>1. followed = affected
  BY DEF SearchInv, followed
<1>2. ClosedUnder(g, changed, affected)
  BY <1>1 DEF SearchInv, ClosedUnder
<1> QED BY <1>2 DEF SearchInv, MustRerun

LEMMA SpecSearchInv == Spec => []SearchInv
<1>1. Init => SearchInv
  <2> SUFFICES ASSUME Init PROVE SearchInv
    OBVIOUS
  <2>0. PICK kind \in DOMAIN Questions :
          \E q \in Questions[kind] : g = build_dependency_graph(q.procs, q.accesses)
    BY DEF Init
  <2>1. PICK q \in Questions[kind] :
          g = build_dependency_graph(q.procs, q.accesses)
    BY <2>0
  <2>2. g.reads \subseteq Pids \X Files
    BY <2>1, BuildReads, QuestionAssumption
  <2> QED BY <2>2 DEF Init, SearchInv
<1>2. SearchInv /\ [Next]_vars => SearchInv'
  <2> SUFFICES ASSUME SearchInv, [Next]_vars PROVE SearchInv'
    OBVIOUS
  <2>1. CASE UNCHANGED vars
    BY <2>1 DEF vars, answerVars, SearchInv, followed, Direct, Through, ClosedUnder
  <2> QED BY <2>1, SeedStep, PropagateStep, ShowStep DEF Next
<1> QED BY <1>1, <1>2, PTL DEF Spec

(* What bdview rebuild and the web server say must run again is what must: *)
(* the least set of processes that has the readers of the changed files    *)
(* and the readers of its own outputs, whatever the order of the worklist; *)
(* the search of compute_impact finds the same set, every reason is given  *)
(* and none else, and the estimate counts each process once                *)
(* (rebuild_bfs_reasons, rebuild_bfs, compute_rebuild_estimate).           *)
THEOREM RebuildFindsExactly == Spec => []RebuildIsExact
<1>1. SearchInv => RebuildIsExact
  <2> SUFFICES ASSUME SearchInv, phase = "done" PROVE RebuildIsExact
    BY DEF RebuildIsExact
  <2>1. affected = MustRerun(g, changed) /\ rebuild_bfs(g, changed) = affected
    BY WorklistIsExact, SearchIsExact
  <2>2. followed = affected
    BY DEF SearchInv, followed
  <2>3. reasons = Direct \cup Through(affected)
    BY <2>2 DEF SearchInv
  <2>4. estimate.serial = TotalDuration(g, MustRerun(g, changed))
    BY <2>1 DEF SearchInv
  <2> QED BY <2>1, <2>3, <2>4 DEF RebuildIsExact, Direct, Through
<1> QED BY <1>1, SpecSearchInv, PTL

-----------------------------------------------------------------------------
(* filter_rebuild_set                                                      *)

TreeInv ==
  /\ IsFiniteSet(DOMAIN g.procs) /\ Acyclic(g.procs)
  /\ \A p \in affected : \E r \in reasons : r[1] = p
  /\ phase = "seed" => affected = {}
  /\ phase = "done" => shown = filter_rebuild_set /\ printed = Printed(shown)

LEMMA TreeInvStep ==
  ASSUME SearchInv, TreeInv, [Next]_vars
  PROVE  TreeInv'
<1>1. CASE UNCHANGED vars
  <2>1. UNCHANGED <<g, changed, collapse, phase, affected, reasons, shown, printed>>
    BY <1>1 DEF vars, answerVars
  <2>2. (filter_rebuild_set)' = filter_rebuild_set /\ Printed(shown)' = Printed(shown)
    BY <2>1 DEF filter_rebuild_set, Printed, CollapsedShown, Collapsed, Hidden, HasOutputChild,
                ChainFiles, Folded
  <2> QED BY <2>1, <2>2 DEF TreeInv
<1>2. CASE Seed
  <2>1. /\ g' = g /\ affected' = ReadersOf(g, changed) /\ phase' = "propagate"
        /\ reasons' = {<<r[1], r[2], Nobody>> : r \in {e \in g.reads : e[2] \in changed}}
    BY <1>2 DEF Seed
  <2>2. ASSUME NEW p \in affected' PROVE \E r \in reasons' : r[1] = p
    <3>1. PICK f \in changed : <<p, f>> \in g.reads
      BY <2>1, <2>2 DEF ReadersOf, Readers
    <3>2. <<p, f, Nobody>> \in reasons'
      BY <2>1, <3>1
    <3> QED BY <3>2
  <2> QED BY <2>1, <2>2 DEF TreeInv
<1>3. ASSUME NEW p \in Pids, Propagate(p) PROVE TreeInv'
  <2>1. /\ UNCHANGED <<g, phase>> /\ phase = "propagate"
        /\ affected' = affected \cup NewReaders(p)
        /\ reasons' = reasons \cup {<<r[1], r[2], p>> : r \in Hits(p)}
    BY <1>3 DEF Propagate
  <2>2. ASSUME NEW q, q \in NewReaders(p) PROVE \E r \in reasons' : r[1] = q
    <3>1. PICK hit \in Hits(p) : hit[1] = q
      BY <2>2 DEF NewReaders
    <3>2. <<hit[1], hit[2], p>> \in reasons'
      BY <2>1, <3>1
    <3>3. <<hit[1], hit[2], p>>[1] = q
      BY <3>1
    <3> QED BY <3>2, <3>3
  <2> QED BY <2>1, <2>2 DEF TreeInv
<1>4. CASE Show
  <2>1. /\ UNCHANGED <<g, changed, collapse, affected, worklist, reasons>>
        /\ shown' = filter_rebuild_set /\ printed' = Printed(shown') /\ phase' = "done"
    BY <1>4 DEF Show
  <2>2. /\ (filter_rebuild_set)' = filter_rebuild_set
    BY <2>1 DEF filter_rebuild_set, CollapsedShown, Collapsed, Hidden, HasOutputChild
  <2>3. Printed(shown)' = Printed(shown')
    BY <2>1 DEF Printed, ChainFiles, Folded, Collapsed
  <2> QED BY <2>1, <2>2, <2>3 DEF TreeInv
<1> QED BY <1>1, <1>2, <1>3, <1>4 DEF Next

(* A process folded into a command that is listed.                         *)
LEMMA FoldedIsListed ==
  ASSUME SearchInv, TreeInv, phase = "done", NEW p \in affected,
         NEW l \in shown.processes, p \in Folded(shown, l)
  PROVE  printed[l].reads # {}
<1>1. printed[l].reads = {r[2] : r \in {s \in reasons : s[1] \in Folded(shown, l)}}
  BY DEF TreeInv, Printed
<1>2. PICK r \in reasons : r[1] = p
  BY DEF TreeInv
<1>3. r[2] \in printed[l].reads
  BY <1>1, <1>2
<1> QED BY <1>3

(* What runs below a collapsed command is folded into the topmost one.     *)
LEMMA TopmostIsListed ==
  ASSUME SearchInv, TreeInv, phase = "done", NEW q \in Hidden
  PROVE  \E c \in Collapsed : /\ c \in shown.processes
                              /\ q \in Descendants(g.procs, c)
                              /\ q \in Folded(shown, c)
<1>1. PICK c0 \in Collapsed : q \in Descendants(g.procs, c0)
  BY DEF Hidden
<1>2. Collapsed \in SUBSET DOMAIN g.procs
  BY DEF Collapsed
<1>3. PICK c \in Collapsed : /\ q \in Descendants(g.procs, c)
                             /\ \A other \in Collapsed : c \notin Descendants(g.procs, other)
  BY <1>1, <1>2, TopmostExists DEF TreeInv
<1>4. c \notin Hidden
  BY <1>3 DEF Hidden
<1>5. c \in shown.processes
  BY <1>3, <1>4 DEF TreeInv, filter_rebuild_set, CollapsedShown
<1>6. q \in affected
  BY DEF Hidden
<1>7. shown.collapsed_children[c] = affected \cap Descendants(g.procs, c)
  BY <1>3 DEF TreeInv, filter_rebuild_set
<1> QED BY <1>3, <1>5, <1>6, <1>7 DEF Folded

(* An affected process with outputs, not folded, below which nothing       *)
(* affected has any.                                                       *)
LEMMA LeafIsListed ==
  ASSUME SearchInv, TreeInv, phase = "done", NEW p \in affected,
         Outputs(g, p) # {}, p \notin Hidden,
         p \in Collapsed \/ p \notin HasOutputChild
  PROVE  p \in shown.processes
BY DEF TreeInv, filter_rebuild_set, CollapsedShown

LEMMA ForgottenNothing ==
  ASSUME SearchInv, TreeInv, phase = "done", NEW p \in affected, Outputs(g, p) # {}
  PROVE  \E l \in shown.processes :
           \/ l \in Descendants(g.procs, p)
           \/ p \in Folded(shown, l) /\ printed[l].reads # {}
<1>0. IsFiniteSet(DOMAIN g.procs) /\ Acyclic(g.procs)
  BY DEF TreeInv
<1>1. CASE p \in Hidden
  BY <1>1, TopmostIsListed, FoldedIsListed
<1>2. CASE p \notin Hidden /\ (p \in Collapsed \/ p \notin HasOutputChild)
  <2>1. p \in shown.processes /\ p \in Folded(shown, p)
    BY <1>2, LeafIsListed DEF Folded
  <2> QED BY <2>1, FoldedIsListed
<1>3. CASE p \notin Hidden /\ p \notin Collapsed /\ p \in HasOutputChild
  <2> DEFINE D == Descendants(g.procs, p)
             X == {x \in D \cap affected : Outputs(g, x) # {}}
  <2>1. PICK q \in affected \cap DOMAIN g.procs :
          Outputs(g, q) # {} /\ g.procs[q].ppid = p
    BY <1>3 DEF HasOutputChild
  <2>2. q \in X
    BY <1>0, <2>1, DescendantsAre DEF Children
  <2>3. X \in SUBSET DOMAIN g.procs
    BY <1>0, DescendantsAre
  <2>4. PICK x \in X : Descendants(g.procs, x) \cap X = {}
    <3> HIDE DEF X
    <3>1. X # {}
      BY <2>2
    <3> QED BY <1>0, <2>3, <3>1, DeepestExists
  <2>5. CASE x \notin Hidden
    <3>1. x \notin HasOutputChild
      <4> SUFFICES ASSUME x \in HasOutputChild PROVE FALSE
        OBVIOUS
      <4>1. PICK y \in affected \cap DOMAIN g.procs :
              Outputs(g, y) # {} /\ g.procs[y].ppid = x
        BY DEF HasOutputChild
      <4>2. y \in Children(g.procs, x)
        BY <4>1 DEF Children
      <4>3. y \in Descendants(g.procs, x) /\ y \in X
        BY <1>0, <4>1, <4>2, DescendantsAre
      <4> QED BY <2>4, <4>3
    <3> QED BY <2>5, <3>1, LeafIsListed
  <2>6. CASE x \in Hidden
    <3>1. PICK c \in Collapsed : c \in shown.processes /\ x \in Descendants(g.procs, c)
      BY <2>6, TopmostIsListed
    <3>2. c # p /\ p \notin Descendants(g.procs, c)
      BY <1>3 DEF Hidden
    <3>3. c \in D
      BY <1>0, <3>1, <3>2, AboveIsALine
    <3> QED BY <3>1, <3>3
  <2> QED BY <2>5, <2>6
<1> QED BY <1>1, <1>2, <1>3

(* Folding what runs under a collapsed command and leaving out a process   *)
(* whose child writes something as well never hides work: whatever must    *)
(* run again and writes something is listed, or something below it is, or  *)
(* it is folded into a listed command, next to a file that made it run     *)
(* again (filter_rebuild_set, cmd_rebuild).                                *)
THEOREM FilterForgetsNothing == Spec => []NothingIsForgotten
<1>1. Init => TreeInv
  <2> SUFFICES ASSUME Init PROVE TreeInv
    OBVIOUS
  <2>1. PICK kind \in DOMAIN Questions :
          \E q \in Questions[kind] : g = build_dependency_graph(q.procs, q.accesses)
    BY DEF Init
  <2>2. PICK q \in Questions[kind] : g = build_dependency_graph(q.procs, q.accesses)
    BY <2>1
  <2>3. g.procs = q.procs
    BY <2>2 DEF build_dependency_graph
  <2>4. IsFiniteSet(DOMAIN g.procs) /\ Acyclic(g.procs)
    BY <2>3, QuestionAssumption
  <2> QED BY <2>4 DEF Init, TreeInv
<1>2. SearchInv /\ TreeInv /\ [Next]_vars => TreeInv'
  BY TreeInvStep
<1>3. SearchInv /\ TreeInv => NothingIsForgotten
  BY ForgottenNothing DEF NothingIsForgotten
<1> QED BY <1>1, <1>2, <1>3, SpecSearchInv, PTL DEF Spec
=============================================================================
