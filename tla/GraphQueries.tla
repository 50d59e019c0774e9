---------------------------- MODULE GraphQueries ----------------------------
(***************************************************************************)
(* The three other questions the viewers ask of the dependency graph       *)
(* (src/src/common/view_helpers.cpp): which files were read while they     *)
(* were written (races), what is made from a file (rdeps), and which       *)
(* source file costs most when it changes (impact).                        *)
(*                                                                         *)
(* Races tells an ancestor by the order in which a depth first search      *)
(* enters and leaves the processes; rdeps is a recursion that shares one   *)
(* set of visited files.  One stack stands for both.  The web server gives *)
(* races and impact a deadline, looked at between two files.               *)
(***************************************************************************)
EXTENDS DependencyGraph

CONSTANT Questions   \* families of traces with a question

(* A trace touches finitely many files, and its processes form a forest.   *)
ASSUME QuestionsAssumption ==
  /\ IsFiniteSet(Files)
  /\ \A kind \in DOMAIN Questions : \A q \in Questions[kind] :
       /\ DOMAIN q.procs \subseteq Pids /\ q.procs \in [DOMAIN q.procs -> Row]
       /\ Acyclic(q.procs) /\ q.accesses \subseteq Access
       /\ q.ask.depth \in Int

VARIABLES g,         \* the dependency graph
          ask,       \* [kind, file, depth, top, deadline]
          phase,
          stack,     \* of entries (races) or frames (rdeps), the last on top
          dfs_in, dfs_out, timer,
          visited,   \* files of the rdeps tree
          files,     \* files still to look at
          result,
          cut        \* the deadline passed

vars == <<g, ask, phase, stack, dfs_in, dfs_out, timer, visited, files, result, cut>>

Unset == -1

(* std::set and std::map keep pids and files sorted. *)
Sorted(S) == InOrder(S, <)

-----------------------------------------------------------------------------
(* races: number the tree. *)
Entering(s) == [i \in DOMAIN s |-> [pid |-> s[i], entering |-> TRUE]]

Top == Last(stack)

Enter ==
  /\ phase = "number" /\ stack # <<>> /\ Top.entering
  /\ dfs_in' = [dfs_in EXCEPT ![Top.pid] = timer]
  /\ timer' = timer + 1
  /\ stack' = Front(stack) \o <<[Top EXCEPT !.entering = FALSE]>>
                \o Reverse(Entering(ByStart(g.procs, Children(g.procs, Top.pid))))
  /\ UNCHANGED <<g, ask, phase, dfs_out, visited, files, result, cut>>

Leave ==
  /\ phase = "number" /\ stack # <<>> /\ ~Top.entering
  /\ dfs_out' = [dfs_out EXCEPT ![Top.pid] = timer]
  /\ timer' = timer + 1
  /\ stack' = Front(stack)
  /\ UNCHANGED <<g, ask, phase, dfs_in, visited, files, result, cut>>

Numbered ==
  /\ phase = "number" /\ stack = <<>>
  /\ phase' = "look"
  /\ files' = Sorted({f \in Files : Readers(g, f) # {}})
  /\ UNCHANGED <<g, ask, stack, dfs_in, dfs_out, timer, visited, result, cut>>

Overlap(p, q) ==
  Min({g.procs[p].end, g.procs[q].end}) - Max({g.procs[p].start, g.procs[q].start})

EnteredFirst(a, b) ==                                         \* Slip
  dfs_in[a] # Unset /\ dfs_in[b] # Unset /\ dfs_in[a] <= dfs_in[b]
IsAncestor(a, b) ==
  /\ dfs_in[a] # Unset /\ dfs_in[b] # Unset
  /\ dfs_in[a] <= dfs_in[b] /\ dfs_out[a] >= dfs_out[b]

Racing(f) ==
  {x \in (Writers(g, f) \cap DOMAIN g.procs) \X (Readers(g, f) \cap DOMAIN g.procs) :
     /\ x[1] # x[2]
     /\ Overlap(x[1], x[2]) > 0
     /\ ~IsAncestor(x[1], x[2]) /\ ~IsAncestor(x[2], x[1])}
RacesOn(f) ==
  {[file |-> f, writer |-> x[1], reader |-> x[2], overlap |-> Overlap(x[1], x[2])] :
     x \in Racing(f)}

-----------------------------------------------------------------------------
(* impact: one search per source file, then the ranking. *)
SourceFiles ==
  {f \in Files : Readers(g, f) # {} /\ Writers(g, f) = {}}

ImpactOf(f) ==
  LET affected == rebuild_bfs(g, {f}) IN
  [file |-> f, count |-> Cardinality(affected),
   duration |-> TotalDuration(g, affected)]

cmp_count_first(a, b) ==                                      \* Slip
  a.count > b.count \/ (a.count = b.count /\ a.duration > b.duration)
cmp_impact_desc(a, b) ==
  a.duration > b.duration \/ (a.duration = b.duration /\ a.count > b.count)

(* detect_races and compute_impact go over files in the same way. *)
LookAtFile ==
  /\ phase = "look" /\ files # <<>>
  /\ result' = result \cup
       (IF ask.kind = "races" THEN RacesOn(Head(files)) ELSE {ImpactOf(Head(files))})
  /\ files' = Tail(files)
  /\ UNCHANGED <<g, ask, phase, stack, dfs_in, dfs_out, timer, visited, cut>>

DeadlinePasses ==
  /\ phase = "look" /\ files # <<>> /\ ask.deadline
  /\ files' = <<>> /\ cut' = TRUE
  /\ UNCHANGED <<g, ask, phase, stack, dfs_in, dfs_out, timer, visited, result>>

(* Entries that compare equal are in no particular order. *)
TopEntries(n, E) ==
  {T \in kSubset(IF n > 0 /\ n < Cardinality(E) THEN n ELSE Cardinality(E), E) :
     \A t \in T : \A e \in E \ T : ~cmp_impact_desc(e, t)}

Finish ==
  /\ phase = "look" /\ files = <<>>
  /\ phase' = "done"
  /\ \/ ask.kind = "races" /\ UNCHANGED result
     \/ ask.kind = "impact" /\ result' \in TopEntries(ask.top, result)
  /\ UNCHANGED <<g, ask, stack, dfs_in, dfs_out, timer, visited, files, cut>>

-----------------------------------------------------------------------------
(* rdeps: a frame of compute_rdeps_recursive, with the <<reader, output>>  *)
(* pairs its two loops still have to go over.                              *)
Consumers(f) ==
  LET pairs(p) == [i \in DOMAIN Sorted(Outputs(g, p)) |-> <<p, Sorted(Outputs(g, p))[i]>>]
      readers == Sorted(Readers(g, f))
  IN  FlattenSeq([i \in DOMAIN readers |-> pairs(readers[i])])

FrameTooDeep(f, depth) ==                                     \* Slip
  [file |-> f, depth |-> depth, todo |-> IF depth < 0 THEN <<>> ELSE Consumers(f)]
Frame(f, depth) ==
  [file |-> f, depth |-> depth, todo |-> IF depth <= 0 THEN <<>> ELSE Consumers(f)]

(* The call for a child sets its via_pid, which names the reader, back to  *)
(* NoProcess.                                                              *)
NoProcess == 0
TreeNode(of, file, level) ==
  [file |-> file, via |-> NoProcess, of |-> of, level |-> level]

Rest == [stack EXCEPT ![Len(stack)].todo = Tail(@)]

Descend ==
  /\ phase = "recurse" /\ stack # <<>> /\ Top.todo # <<>>
  /\ LET pair == Head(Top.todo) IN
     \/ pair[2] \in visited
          /\ stack' = Rest /\ UNCHANGED <<visited, result>>
     \/ /\ pair[2] \notin visited
        /\ visited' = visited \cup {pair[2]}
        /\ result' = result \cup {TreeNode(Top.file, pair[2], Len(stack))}
        /\ stack' = Append(Rest, Frame(pair[2], Top.depth - 1))
  /\ UNCHANGED <<g, ask, phase, dfs_in, dfs_out, timer, files, cut>>

Return ==
  /\ phase = "recurse" /\ stack # <<>> /\ Top.todo = <<>>
  /\ stack' = Front(stack)
  /\ phase' = IF Len(stack) = 1 THEN "done" ELSE phase
  /\ UNCHANGED <<g, ask, dfs_in, dfs_out, timer, visited, files, result, cut>>

-----------------------------------------------------------------------------
InitRaces ==
  /\ phase = "number"
  /\ stack = Entering(Sorted(Roots(g.procs)))
  /\ visited = {} /\ files = <<>>

InitImpact ==
  phase = "look" /\ stack = <<>> /\ visited = {} /\ files = Sorted(SourceFiles)

InitRdeps ==
  /\ phase = "recurse"
  /\ stack = <<Frame(ask.file, ask.depth)>>
  /\ visited = {ask.file} /\ files = <<>>

Init ==
  /\ \E kind \in DOMAIN Questions : \E q \in Questions[kind] :
       g = build_dependency_graph(q.procs, q.accesses) /\ ask = q.ask
  /\ dfs_in = [p \in Pids |-> Unset] /\ dfs_out = dfs_in /\ timer = 0
  /\ result = {} /\ cut = FALSE
  /\ \/ ask.kind = "races" /\ InitRaces
     \/ ask.kind = "impact" /\ InitImpact
     \/ ask.kind = "rdeps" /\ InitRdeps

Next == Enter \/ Leave \/ Numbered \/ LookAtFile \/ DeadlinePasses \/ Finish
          \/ Descend \/ Return

Spec == Init /\ [][Next]_vars

-----------------------------------------------------------------------------
(* Safety: a race is reported exactly when somebody reads a file while a   *)
(* process that is neither above nor below it writes it (detect_races);    *)
(* what the deadline cuts off is missing, and nothing is made up.          *)
RacesAreExact ==
  phase = "done" /\ ask.kind = "races" =>
    LET exact ==
          {x \in Files \X Pids \X Pids :
             /\ {x[2], x[3]} \subseteq DOMAIN g.procs
             /\ <<x[2], x[1]>> \in g.writes /\ <<x[3], x[1]>> \in g.reads
             /\ x[2] # x[3] /\ Overlap(x[2], x[3]) > 0
             /\ x[2] \notin Descendants(g.procs, x[3])
             /\ x[3] \notin Descendants(g.procs, x[2])}
        reported == {<<e.file, e.writer, e.reader>> : e \in result}
    IN  IF cut THEN reported \subseteq exact ELSE reported = exact

(* Safety: the rdeps tree is a tree, and is complete above its depth       *)
(* (compute_rdeps_recursive).  A file is in it once, never the file asked  *)
(* for; it hangs one level below a file that some process reads to write   *)
(* it, though the node does not say which (its via_pid is always 0); and   *)
(* all that is made from a file above the last level is in it somewhere.   *)
RdepsIsATree ==
  phase = "done" /\ ask.kind = "rdeps" =>
    LET root == [file |-> ask.file, level |-> 0]
        nodes == {[file |-> e.file, level |-> e.level] : e \in result} \cup {root}
    IN  /\ \A e, d \in result : e.file = d.file => e = d
        /\ \A e \in result :
             /\ e.file # ask.file
             /\ \E p \in Pids : <<p, e.of>> \in g.reads /\ <<p, e.file>> \in g.writes
             /\ [file |-> e.of, level |-> e.level - 1] \in nodes
             /\ e.level <= ask.depth
        /\ \A n \in nodes : n.level < ask.depth =>
             \A w \in g.writes :
               <<w[1], n.file>> \in g.reads => \E m \in nodes : m.file = w[2]

(* Safety: what impact says of a file is what a rebuild after a change of  *)
(* that file takes, and unless the deadline cut it short no source file it *)
(* leaves out takes longer than one it lists (compute_impact).             *)
ImpactIsExact ==
  phase = "done" /\ ask.kind = "impact" =>
    LET cost(f) == TotalDuration(g, MustRerun(g, {f}))
        listed == {e.file : e \in result}
    IN  /\ listed \subseteq SourceFiles
        /\ \A e \in result : /\ e.count = Cardinality(MustRerun(g, {e.file}))
                             /\ e.duration = cost(e.file)
        /\ ~cut => \A f \in SourceFiles \ listed :
                     Cardinality(result) = ask.top
                       /\ \A e \in result : cost(f) <= e.duration
=============================================================================
