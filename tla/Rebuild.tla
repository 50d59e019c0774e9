------------------------------ MODULE Rebuild ------------------------------
(***************************************************************************)
(* bdview rebuild and /api/rebuild: from changed files to the commands to  *)
(* run again (src/src/common/view_helpers.cpp).                            *)
(*                                                                         *)
(* rebuild_bfs_reasons keeps a worklist of processes whose outputs are     *)
(* still to be followed, and a reason for every file that reaches a        *)
(* process.  The order of the worklist has no part in the result and is    *)
(* left open.  filter_rebuild_set then folds what runs under a command to  *)
(* collapse, and drops a process whose child writes something as well.     *)
(***************************************************************************)
EXTENDS DependencyGraph

CONSTANT Questions   \* families of traces with the files that changed in them

ASSUME QuestionAssumption ==
  \A kind \in DOMAIN Questions : \A q \in Questions[kind] :
    /\ q.accesses \subseteq Access
    /\ IsFiniteSet(DOMAIN q.procs) /\ Acyclic(q.procs)

VARIABLES g,         \* the dependency graph
          changed,   \* changed files
          collapse,  \* command names to collapse
          phase,
          affected, worklist,
          reasons,   \* reason_map: <<process, file, who wrote it>>
          shown,     \* the RebuildResult
          printed,   \* the files named below each process of it
          estimate   \* the RebuildEstimate

answerVars == <<shown, printed, estimate>>
vars == <<g, changed, collapse, phase, affected, worklist, reasons, answerVars>>

Nobody == 0          \* via_pid of a file the user changed
NoResult == [processes |-> {}, collapsed_children |-> <<>>]

(* A changed argument names a file or the directory of some; only files    *)
(* that somebody reads count.                                              *)
ChangedFiles(graph, args) == {f \in UNION args : Readers(graph, f) # {}}

Init ==
  \E kind \in DOMAIN Questions : \E q \in Questions[kind] :
    /\ g = build_dependency_graph(q.procs, q.accesses)
    /\ changed = ChangedFiles(g, q.args)
    /\ collapse = q.collapse
    /\ phase = "seed"
    /\ affected = {} /\ worklist = {} /\ reasons = {} /\ shown = NoResult
    /\ printed = <<>> /\ estimate = [serial |-> 0, longest |-> 0]

Seed ==
  /\ phase = "seed"
  /\ affected' = ReadersOf(g, changed)
  /\ worklist' = affected'
  /\ reasons' = {<<r[1], r[2], Nobody>> : r \in {e \in g.reads : e[2] \in changed}}
  /\ phase' = "propagate"
  /\ UNCHANGED <<g, changed, collapse, answerVars>>

(* The readers of the outputs of p, with the output. *)
Hits(p) == {r \in g.reads : r[2] \in Outputs(g, p)}

NewReadersNotBelow(p) ==                                      \* Slip
  {r[1] : r \in Hits(p)} \ (affected \cup Children(g.procs, p))
NewReaders(p) == {r[1] : r \in Hits(p)} \ affected

Propagate(p) ==
  /\ phase = "propagate"
  /\ p \in worklist
  /\ affected' = affected \cup NewReaders(p)
  /\ worklist' = (worklist \ {p}) \cup NewReaders(p)
  /\ reasons' = reasons \cup {<<r[1], r[2], p>> : r \in Hits(p)}
  /\ UNCHANGED <<g, changed, collapse, phase, answerVars>>

-----------------------------------------------------------------------------
(* filter_rebuild_set *)
Collapsed == {p \in DOMAIN g.procs : g.procs[p].name \in collapse}
Hidden == affected \cap UNION {Descendants(g.procs, c) : c \in Collapsed}

(* An affected process one of whose children has outputs and is affected. *)
HasOutputChildAny ==                                          \* Slip
  {g.procs[p].ppid : p \in {q \in DOMAIN g.procs : Outputs(g, q) # {}}}
HasOutputChild ==
  {g.procs[p].ppid :
     p \in {q \in affected \cap DOMAIN g.procs :
              /\ Outputs(g, q) # {}
              /\ g.procs[q].ppid \in affected
              /\ Outputs(g, g.procs[q].ppid) # {}}}

CollapsedShown ==
  {c \in Collapsed : \/ Descendants(g.procs, c) \cap Hidden # {}
                     \/ c \in affected}

filter_rebuild_set ==
  [processes |->
     {p \in affected \ (Hidden \cup Collapsed) :
        Outputs(g, p) # {} /\ p \notin HasOutputChild}
       \cup (CollapsedShown \ Hidden),
   collapsed_children |->
     [c \in Collapsed |-> affected \cap Descendants(g.procs, c)]]

(* What is printed below a process: the files that made it or a process    *)
(* folded into it run again, and which files of the chain these write.     *)
ChainFiles == {r[2] : r \in reasons}
Folded(listed, p) ==
  {p} \cup (IF p \in Collapsed THEN listed.collapsed_children[p] ELSE {})
Printed(listed) ==
  [p \in listed.processes |->
     LET together == Folded(listed, p) IN
     [reads |-> {r[2] : r \in {s \in reasons : s[1] \in together}},
      writes |-> ChainFiles \cap UNION {Outputs(g, q) : q \in together}]]

compute_rebuild_estimate ==
  [serial |-> TotalDuration(g, affected),
   longest |-> Max({Duration(g, p) : p \in affected} \cup {0})]

Show ==
  /\ phase = "propagate"
  /\ worklist = {}
  /\ shown' = filter_rebuild_set
  /\ printed' = Printed(shown')
  /\ estimate' = compute_rebuild_estimate
  /\ phase' = "done"
  /\ UNCHANGED <<g, changed, collapse, affected, worklist, reasons>>

Next == Seed \/ Show \/ \E p \in Pids : Propagate(p)

Spec == Init /\ [][Next]_vars

-----------------------------------------------------------------------------
(* Safety: the processes to run again are exactly those that cannot be     *)
(* left out, and the reasons are all the reasons: the reads of changed     *)
(* files and of outputs of processes that run again (rebuild_bfs_reasons,  *)
(* and the search that /api/impact uses instead of it).  The estimate is   *)
(* of all of them, not of those that are listed.                           *)
RebuildIsExact ==
  phase = "done" =>
    /\ affected = MustRerun(g, changed)
    /\ rebuild_bfs(g, changed) = affected
    /\ estimate.serial = TotalDuration(g, MustRerun(g, changed))
    /\ reasons = {<<r[1], r[2], Nobody>> : r \in {e \in g.reads : e[2] \in changed}}
         \cup {t \in Pids \X Files \X affected :
                  <<t[1], t[2]>> \in g.reads /\ <<t[3], t[2]>> \in g.writes}

(* Safety: folding and the leaf filter (filter_rebuild_set) only shorten   *)
(* the list.  Whatever must run again and writes something is listed, or   *)
(* something started below it is, or a collapsed command it runs under is, *)
(* with a file that made it run again.                                     *)
NothingIsForgotten ==
  phase = "done" =>
    \A p \in affected : Outputs(g, p) # {} =>
      \E l \in shown.processes :
        \/ l \in Descendants(g.procs, p)
        \/ p \in Folded(shown, l) /\ printed[l].reads # {}
=============================================================================
