---------------------------- MODULE ProcessViews ----------------------------
(***************************************************************************)
(* What bdview and bdview-web work out from the process rows and the       *)
(* accesses of a trace: the time line, the parallelism, the critical path, *)
(* the hot files and the diagnosis (src/src/bdview_main.cpp,               *)
(* src/src/web/bdview_web.cpp, compact_runs of view_helpers.cpp).          *)
(*                                                                         *)
(* Both programs answer the same questions, often by different code: the   *)
(* server moves runs together and asks sqlite to count where the command   *)
(* counts for itself.  Colours, units, rankings and shortened names are    *)
(* left out.                                                               *)
(***************************************************************************)
EXTENDS DependencyGraph, TLC

CONSTANTS Second,        \* of the clock of the rows
          MaxBuckets,    \* 3600 in the code
          HotReaders,    \* 10
          ManyFailures,  \* 100
          SerialGaps,    \* 3
          Directory      \* of each file

ASSUME ViewAssumption ==
  /\ {Second, MaxBuckets} \subseteq Nat \ {0}
  /\ {HotReaders, ManyFailures, SerialGaps} \subseteq Nat

Ended(procs) == {p \in DOMAIN procs : procs[p].end > 0}
Life(procs, p) == procs[p].end - procs[p].start

(* The span every view starts from; it counts rows that have no end.       *)
MinTime(procs) == Min({procs[p].start : p \in DOMAIN procs})
MaxTime(procs) == Max({procs[p].end : p \in DOMAIN procs})
TotalTime(procs) == MaxTime(procs) - MinTime(procs)

-----------------------------------------------------------------------------
(* compact_runs: a trace recorded by several runs into one database.  A    *)
(* run ends when nobody starts for a second after its last end; the pause  *)
(* is taken out of everything that comes later.                            *)
LastPause(run, pause) == pause                                \* Slip
AllPauses(run, pause) == run.gap + pause

JoinRuns(procs) ==
  LET order == ByStart(procs, DOMAIN procs)
      join(run, p) ==
        LET pause == procs[p].start - run.end
            starts == pause > Second
            gap == IF starts THEN AllPauses(run, pause) ELSE run.gap
        IN  [end |-> IF starts THEN procs[p].end ELSE Max({run.end, procs[p].end}),
             gap |-> gap,
             shift |-> (p :> gap) @@ run.shift]
      first == Head(order)
  IN  FoldLeft(join, [end |-> procs[first].end, gap |-> 0, shift |-> first :> 0], Tail(order))

compact_runs(procs) ==
  IF Cardinality(DOMAIN procs) <= 1 THEN procs
  ELSE LET shift == JoinRuns(procs).shift
       IN  [p \in DOMAIN procs |->
              [procs[p] EXCEPT !.start = @ - shift[p], !.end = @ - shift[p]]]

-----------------------------------------------------------------------------
(* The summary's parallelism: a sweep over the starts (+1) and the ends    *)
(* (-1), the ends first where both fall together.                          *)
Turns(procs) ==
  {<<procs[p].start, 1, p>> : p \in Ended(procs)}
    \cup {<<procs[p].end, -1, p>> : p \in Ended(procs)}

StartsFirst(s, t) ==                                          \* Slip
  s[1] < t[1] \/ (s[1] = t[1] /\ (s[2] > t[2] \/ (s[2] = t[2] /\ s[3] < t[3])))
EndsFirst(s, t) ==
  s[1] < t[1] \/ (s[1] = t[1] /\ (s[2] < t[2] \/ (s[2] = t[2] /\ s[3] < t[3])))

most_at_once(procs) ==
  FoldLeft(LAMBDA n, t : [now |-> n.now + t[2], most |-> Max({n.most, n.now + t[2]})],
           [now |-> 0, most |-> 0], SetToSortSeq(Turns(procs), EndsFirst)).most

(* The histogram: processes per second, or per longer bucket when there    *)
(* would be too many.  A bucket counts who lives in any part of it.        *)
buckets(procs) ==
  LET total == TotalTime(procs)
      wanted == total \div Second + 1
      n == Min({wanted, MaxBuckets})
      width == IF wanted > MaxBuckets THEN total \div n + 1 ELSE Second
      bucket(t) == (t - MinTime(procs)) \div width
      lived(p) == Max({bucket(procs[p].start), 0}) .. Min({bucket(procs[p].end), n - 1})
  IN  [width |-> width,
       counts |-> IF total <= 0 THEN <<>>
                  ELSE [b \in 0..(n - 1) |->
                          Cardinality({p \in Ended(procs) : b \in lived(p)})]]

-----------------------------------------------------------------------------
(* How deep a process is drawn.  The server walks down the tree with a     *)
(* stack of its own; the command climbs from each process until it knows   *)
(* the depth of somebody above.                                            *)
At(s, depth) == [i \in DOMAIN s |-> [pid |-> s[i], depth |-> depth]]

WalkTree(procs) ==
  LET walk[stack \in Seq([pid : Pids, depth : Nat])] ==
        IF stack = <<>> THEN <<>>
        ELSE LET top == Last(stack) IN
             <<top>> \o walk[Front(stack) \o
               Reverse(At(ByStart(procs, Children(procs, top.pid)), top.depth + 1))]
  IN  walk[Reverse(At(ByStart(procs, Roots(procs)), 0))]

Climb(procs, known, p) ==
  LET up[q \in Nat] == IF q \notin DOMAIN procs \/ q \in DOMAIN known THEN <<q>>
                       ELSE <<q>> \o up[procs[q].ppid]
  IN  up[p]

SameDepth(known, p) == IF p \in DOMAIN known THEN known[p] ELSE 0     \* Slip
DepthBelow(known, p) == IF p \in DOMAIN known THEN known[p] + 1 ELSE 0

LearnDepth(procs, known, p) ==
  LET chain == Reverse(Climb(procs, known, p))
  IN  [q \in ToSet(Tail(chain)) |->
         DepthBelow(known, Head(chain)) + SelectInSeq(Tail(chain), LAMBDA r : r = q) - 1]
        @@ known

timeline_depth(procs, shown) ==
  FoldLeft(LAMBDA known, p : LearnDepth(procs, known, p), <<>>,
           ByStart(procs, shown))

(* bdview trace: a process and those above it. *)
get_ancestor_chain(procs, p) == Front(Climb(procs, <<>>, p))

-----------------------------------------------------------------------------
(* The critical path: from the root that took longest, down to the child   *)
(* that ends last.                                                         *)
Foremost(procs, S, Beats(_, _)) ==
  FoldLeft(LAMBDA best, p : IF Beats(p, best) THEN p ELSE best,
           Head(ByStart(procs, S)), ByStart(procs, S))

LastChild(procs, p) ==
  Foremost(procs, Children(procs, p), LAMBDA q, best : procs[q].end > procs[best].end)

critical_path(procs) ==
  LET span(p) == Max({Life(procs, p), 0})
      down[p \in Pids] ==
        IF Children(procs, p) = {} THEN <<p>> ELSE <<p>> \o down[LastChild(procs, p)]
  IN  down[Foremost(procs, Roots(procs), LAMBDA q, best : span(q) > span(best))]

-----------------------------------------------------------------------------
(* Counts of accesses.  The lists sqlite is given (database.cpp) stand     *)
(* beside is_input_mode and is_output_mode.                                *)
SqlReads == {0, 2, 3, 4, 5, 9}
SqlWritesOld == {1, 2, 8, 10, 12, 14, 17}                     \* Slip
SqlWrites == {1, 2, 8, 10, 12, 14, 17, 18}

Count(accesses, Test(_)) == Len(SelectSeq(accesses, Test))
Users(accesses) == {accesses[i].pid : i \in DOMAIN accesses}

(* Uses by file or by directory. *)
Uses(accesses, Key(_), Reads(_), Writes(_)) ==
  [k \in {Key(accesses[i].file) : i \in DOMAIN accesses} |->
     LET these == SelectSeq(accesses, LAMBDA a : Key(a.file) = k) IN
     [total |-> Len(these),
      reads |-> Count(these, LAMBDA a : Reads(a.mode)),
      writes |-> Count(these, LAMBDA a : Writes(a.mode)),
      procs |-> Cardinality(Users(these))]]

hotspots(accesses, Key(_)) == Uses(accesses, Key, is_input_mode, is_output_mode)
get_file_stats_grouped(accesses) ==
  Uses(accesses, LAMBDA f : f, LAMBDA m : m \in SqlReads, LAMBDA m : m \in SqlWrites)

(* Files with many readers: how many, and the most readers of one. *)
HotFiles(accesses, Reads(_)) ==
  LET reading == SelectSeq(accesses, LAMBDA a : Reads(a.mode))
      readers(f) == Users(SelectSeq(reading, LAMBDA a : a.file = f))
      hot == {f \in Files : Cardinality(readers(f)) > HotReaders}
  IN  [files |-> Cardinality(hot),
       worst |-> Max({Cardinality(readers(f)) : f \in hot} \cup {0})]
hot_files(accesses) == HotFiles(accesses, is_input_mode)
get_hotfile_stats(accesses) == HotFiles(accesses, LAMBDA m : m \in SqlReads)

(* What goes in, what comes out, and what stays inside. *)
classify_process_io(accesses) ==
  LET files(Is(_)) == {a.file : a \in {b \in ToSet(accesses) : Is(b.mode)}}
      in == files(is_input_mode)
      out == files(is_output_mode)
  IN  [inputs |-> in \ out, outputs |-> out \ in, internal |-> in \cap out]

-----------------------------------------------------------------------------
(* Diagnosis.  Parents whose children ran one after the other: a child     *)
(* counts when it started after the one that started before it had ended.  *)
(* The processes that took a quarter of the time, among the five longest.  *)
serial_parents(procs) ==
  LET siblings(p) == ByStart(procs, Children(procs, p))
      serial(p) == {i \in 2..Len(siblings(p)) :
                      procs[siblings(p)[i]].start >= procs[siblings(p)[i - 1]].end}
      spent(p) == MapThenSumSet(LAMBDA i : Life(procs, siblings(p)[i]), serial(p))
  IN  {p \in Parents(procs) :
         Cardinality(serial(p)) >= SerialGaps /\ spent(p) > TotalTime(procs) \div 10}

slow_processes(procs) ==
  {p \in DOMAIN procs :
     /\ Life(procs, p) >= TotalTime(procs) \div 4
     /\ Cardinality({q \in DOMAIN procs : Life(procs, q) > Life(procs, p)}) < 5}

(* One process and all below it (bdview-web computes it once, at its       *)
(* start).                                                                 *)
compute_desc(procs) ==
  LET files[p \in DOMAIN procs] ==
        procs[p].file_count + MapThenSumSet(LAMBDA c : files[c], Children(procs, p))
  IN  files
=============================================================================
