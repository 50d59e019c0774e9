------------------------------- MODULE Viewer -------------------------------
(***************************************************************************)
(* bdview-web beside a recording (src/src/web/bdview_web.cpp,              *)
(* src/src/db/database.cpp): the recorder goes on committing while the     *)
(* server starts and while a handler runs.  Every SELECT of a handler is a *)
(* read transaction of its own, so each finds the rows of another moment,  *)
(* and the graph and the sums the server built at its start stay what they *)
(* were.                                                                   *)
(*                                                                         *)
(* The server answers one request after the other in one thread and keeps  *)
(* nothing of a request, so one request is enough.  A command of bdview    *)
(* builds the graph in the same way and is done when it printed; what it   *)
(* prints of a finished recording is the measure of the server's answers.  *)
(***************************************************************************)
EXTENDS ProcessViews

CONSTANTS Recordings   \* families of [events, committed, asks]

VARIABLES db,       \* the committed tables: [procs, accesses, fails, replaced]
          todo,     \* what the recorder will commit, in its order
          server,   \* the graph and the sums over the subtrees
          ask,      \* the request: [kind, pid, file, limit]
          phase,    \* what the server is doing
          reads     \* what the statements returned so far

vars == <<db, todo, server, ask, phase, reads>>

(* db.replaced is kept for the properties: processes whose row an exec has *)
(* deleted and not inserted again.  A read is what a statement returned,   *)
(* and the tables it was read from.                                        *)
EmptyDb == [procs |-> <<>>, accesses |-> <<>>, fails |-> 0, replaced |-> {}]

-----------------------------------------------------------------------------
(* The recorder, see WriterQueue: its events reach the tables in their     *)
(* order, some at a time.  The row of an exec'd process is deleted by one  *)
(* event and inserted by another.                                          *)
CountFiles(d) ==
  [d EXCEPT !.procs = [p \in DOMAIN d.procs |->
     [d.procs[p] EXCEPT !.file_count = Count(d.accesses, LAMBDA a : a.pid = p)]]]

Apply(d, e) ==
  CASE e.kind = "start" ->
         [d EXCEPT !.procs = (e.pid :> e.row) @@ @, !.replaced = @ \ {e.pid}]
    [] e.kind = "delete" ->
         [d EXCEPT !.procs = [p \in DOMAIN @ \ {e.pid} |-> @[p]], !.replaced = @ \cup {e.pid}]
    [] e.kind = "exit" -> [d EXCEPT !.procs[e.pid].end = e.at]
    [] e.kind = "access" ->
         [d EXCEPT !.accesses = Append(@, [pid |-> e.pid, file |-> e.file, mode |-> e.mode])]
    [] e.kind = "failed" -> [d EXCEPT !.fails = @ + 1]
    [] e.kind = "finalize" -> CountFiles(d)

Commit ==
  \E n \in 1..Len(todo) :
    /\ db' = FoldLeft(Apply, db, SubSeq(todo, 1, n))
    /\ todo' = SubSeq(todo, n + 1, Len(todo))
    /\ UNCHANGED <<server, ask, phase, reads>>

-----------------------------------------------------------------------------
(* One SELECT each. *)
Only(procs, P) == [p \in DOMAIN procs \cap P |-> procs[p]]

get_all_processes(d) == d.procs
get_processes_by_pids(d, P) == Only(d.procs, P)
get_children(d, p) == Only(d.procs, Children(d.procs, p))
get_root_processes(d) == Only(d.procs, Roots(d.procs))
get_pids_with_children(d) == Parents(d.procs)
get_descendant_pids(d, p) == Descendants(d.procs, p)
get_all_file_accesses(d) == d.accesses
get_file_accesses_by_pids(d, P) == SelectSeq(d.accesses, LAMBDA a : a.pid \in P)
get_file_accesses_by_name(d, f) == SelectSeq(d.accesses, LAMBDA a : a.file = f)
get_file_access_summary(d) == [m \in Modes |-> Count(d.accesses, LAMBDA a : a.mode = m)]

-----------------------------------------------------------------------------
(* What the handlers, and build_dependency_graph at the start, read and in *)
(* which order.                                                            *)
RowsThenAccesses == <<"rows", "accesses">>                    \* Slip
GraphReads == <<"accesses", "rows">>

ParentsThenChildren == <<"parents", "children">>              \* Slip
ChildrenReads == <<"children", "parents">>

Statements(kind) ==
  CASE kind = "processes" -> <<"parents", "rows">>
    [] kind = "roots" -> <<"parents", "roots">>
    [] kind = "children" -> ChildrenReads
    [] kind = "files" -> <<"descendants", "accesses of these">>
    [] kind = "process_io" -> <<"accesses of the tree">>
    [] kind = "path" -> <<"accesses to the file", "rows of these">>
    [] kind \in {"timeline", "parallelism", "critical"} -> <<"rows">>
    [] kind = "summary" -> <<"rows", "row count", "access count", "fail count", "modes">>
    [] kind = "hotspots" -> <<"file stats">>
    [] kind = "hot directories" -> <<"accesses">>
    [] kind = "diagnostics" -> <<"rows", "rows of the serial", "hot files", "fail count">>

Plan == IF phase = "build" THEN GraphReads ELSE Statements(ask.kind)
Found(statement) == reads[SelectInSeq(Plan, LAMBDA s : s = statement)]
Got(statement) == Found(statement).got
AllRead == Len(reads) = Len(Plan)

(* A process and all below it in a graph (collect_descendant_pids). *)
Tree(g) == Descendants(g.procs, ask.pid) \cup {ask.pid}

Find(statement) ==
  LET these == Last(reads).got IN
  CASE statement = "rows" -> get_all_processes(db)
    [] statement = "parents" -> get_pids_with_children(db)
    [] statement = "roots" -> get_root_processes(db)
    [] statement = "children" -> get_children(db, ask.pid)
    [] statement = "descendants" -> get_descendant_pids(db, ask.pid)
    [] statement = "accesses" -> get_all_file_accesses(db)
    [] statement = "accesses of these" -> get_file_accesses_by_pids(db, these \cup {ask.pid})
    [] statement = "accesses of the tree" -> get_file_accesses_by_pids(db, Tree(server.graph))
    [] statement = "accesses to the file" -> get_file_accesses_by_name(db, ask.file)
    [] statement = "rows of these" -> get_processes_by_pids(db, Users(these))
    [] statement = "rows of the serial" -> get_processes_by_pids(db, serial_parents(these))
    [] statement = "row count" -> Cardinality(DOMAIN db.procs)
    [] statement = "access count" -> Len(db.accesses)
    [] statement = "fail count" -> db.fails
    [] statement = "modes" -> get_file_access_summary(db)
    [] statement = "file stats" -> get_file_stats_grouped(db.accesses)
    [] statement = "hot files" -> get_hotfile_stats(db.accesses)

-----------------------------------------------------------------------------
(* The server opens the database; upgrade_schema counts the accesses when  *)
(* no row has a count yet.                                                 *)
Open ==
  /\ phase = "down"
  /\ db' = IF db.accesses # <<>> /\ \A p \in DOMAIN db.procs : db.procs[p].file_count = 0
           THEN CountFiles(db) ELSE db
  /\ phase' = "build"
  /\ UNCHANGED <<todo, server, ask, reads>>

Select ==
  /\ phase \in {"build", "answer"} /\ ~AllRead
  /\ reads' = Append(reads, [got |-> Find(Plan[Len(reads) + 1]), at |-> db])
  /\ UNCHANGED <<db, todo, server, ask, phase>>

get_dep_graph ==
  /\ phase = "build" /\ AllRead
  /\ server' = [graph |-> build_dependency_graph(Got("rows"), ToSet(Got("accesses"))),
                files |-> compute_desc(Got("rows")),
                replaced |-> Found("rows").at.replaced]
  /\ phase' = "answer" /\ reads' = <<>>
  /\ UNCHANGED <<db, todo, ask>>

Next == Commit \/ Open \/ Select \/ get_dep_graph

Init ==
  /\ \E family \in DOMAIN Recordings : \E r \in Recordings[family] :
       /\ db = FoldLeft(Apply, EmptyDb, SubSeq(r.events, 1, r.committed))
       /\ todo = SubSeq(r.events, r.committed + 1, Len(r.events))
       /\ ask \in r.asks
  /\ server = [graph |-> build_dependency_graph(<<>>, {}), files |-> <<>>, replaced |-> {}]
  /\ phase = "down" /\ reads = <<>>

Spec == Init /\ [][Next]_vars

-----------------------------------------------------------------------------
(* What the handlers make of their reads. *)
InputCount(modes) == MapThenSumSet(LAMBDA m : modes[m], {m \in Modes : is_input_mode(m)})
OutputCount(modes) == MapThenSumSet(LAMBDA m : modes[m], {m \in Modes : is_output_mode(m)})

handle_summary ==
  [processes |-> Got("row count"), accesses |-> Got("access count"),
   failed |-> Got("fail count"), inputs |-> InputCount(Got("modes")),
   outputs |-> OutputCount(Got("modes")), parallel |-> most_at_once(Got("rows"))]

(* The rows of the tree view, with the mark that they can be opened; the   *)
(* children of one process are not moved.                                  *)
Marked(procs) == [p \in DOMAIN procs |-> [row |-> procs[p], has_children |-> p \in Got("parents")]]
Listed == IF ask.kind = "roots" THEN Got("roots") ELSE Got("rows")
handle_processes == Marked(compact_runs(Listed))
handle_process_children == Marked(Got("children"))

handle_process_files == Got("accesses of these")
handle_files_by_path ==
  [p \in Users(Got("accesses to the file")) |-> p \in DOMAIN Got("rows of these")]
handle_process_io == classify_process_io(Got("accesses of the tree"))
handle_critical_path == critical_path(Got("rows"))

handle_timeline ==
  LET procs == compact_runs(Got("rows"))
      drawn == SelectSeq(WalkTree(procs), LAMBDA e : e.pid \in Ended(procs))
  IN  [entries |-> SubSeq(drawn, 1, Min({Len(drawn), ask.limit})),
       truncated |-> Len(drawn) > ask.limit]

handle_parallelism == buckets(compact_runs(Got("rows")))

ByDirectory(f) == Directory[f]
ByFile(f) == f
handle_hotspots ==
  IF ask.kind = "hot directories" THEN hotspots(Got("accesses"), ByDirectory)
  ELSE Got("file stats")

handle_diagnostics ==
  [serial |-> DOMAIN Got("rows of the serial"), slow |-> slow_processes(Got("rows")),
   hot |-> Got("hot files"), failures |-> Got("fail count") > ManyFailures]

(* What bdview prints of the tables d. *)
cmd_summary(d) ==
  [processes |-> Cardinality(DOMAIN d.procs), accesses |-> Len(d.accesses),
   failed |-> d.fails, inputs |-> Count(d.accesses, LAMBDA a : is_input_mode(a.mode)),
   outputs |-> Count(d.accesses, LAMBDA a : is_output_mode(a.mode)),
   parallel |-> most_at_once(d.procs)]

cmd_tree(d) == ToSet(WalkTree(d.procs))
cmd_timeline(d) == timeline_depth(d.procs, Ended(d.procs))
cmd_pio(d) ==
  LET g == build_dependency_graph(d.procs, ToSet(d.accesses))
  IN  classify_process_io(get_file_accesses_by_pids(d, Tree(g)))
cmd_parallel(d) == buckets(d.procs)
cmd_critical(d) == critical_path(d.procs)
cmd_files(d, p) == get_file_accesses_by_pids(d, {p})
cmd_trace(d, f) ==
  [p \in Users(get_file_accesses_by_name(d, f)) |-> get_ancestor_chain(d.procs, p)]
cmd_hotspot(d) ==
  IF ask.kind = "hot directories" THEN hotspots(d.accesses, ByDirectory)
  ELSE hotspots(d.accesses, ByFile)
cmd_diagnose(d) ==
  [serial |-> serial_parents(d.procs) \cap DOMAIN d.procs, slow |-> slow_processes(d.procs),
   hot |-> hot_files(d.accesses), failures |-> d.fails > ManyFailures]

-----------------------------------------------------------------------------
Answered == phase = "answer" /\ AllRead
Asked(kinds) == Answered /\ ask.kind \in kinds

(* Safety: who uses a file has a row, in the server's graph and in the     *)
(* list of a file's users, although accesses and rows are read at two      *)
(* moments; only a process in the middle of an exec has none               *)
(* (get_dep_graph, handle_files_by_path).  A rebuild follows writers to    *)
(* their rows without looking (filter_rebuild_set).                        *)
UsersHaveRows ==
  /\ phase = "answer" =>
       \A use \in server.graph.reads \cup server.graph.writes :
         use[1] \in DOMAIN server.graph.procs \cup server.replaced
  /\ Asked({"path"}) =>
       \A p \in DOMAIN handle_files_by_path :
         handle_files_by_path[p] \/ p \in Found("rows of these").at.replaced

(* Safety: the marks of the tree view can be relied on during a recording. *)
(* A child listed as a leaf had nothing below it when it was read; a       *)
(* process of the full list that can be opened has a child in that list,   *)
(* unless the child was in the middle of an exec (handle_processes,        *)
(* handle_process_children).                                               *)
MarksMatchRows ==
  /\ Asked({"children"}) =>
       \A p \in DOMAIN handle_process_children :
         handle_process_children[p].has_children
           \/ Children(Found("children").at.procs, p) \subseteq Found("parents").at.replaced
  /\ Asked({"processes"}) =>
       \A p \in DOMAIN handle_processes :
         handle_processes[p].has_children =>
           \/ Children(Got("rows"), p) # {}
           \/ Children(Found("parents").at.procs, p) \cap Found("rows").at.replaced # {}

(* Safety: joining runs takes pauses out and nothing else (compact_runs).  *)
(* Of processes that all ended, each lasts as long as before, starts and   *)
(* overlaps are as before, and nothing starts more than a second after     *)
(* everything before it has ended.                                         *)
Paused(procs, p) ==
  /\ \E q \in DOMAIN procs : procs[q].start < procs[p].start
  /\ \A q \in DOMAIN procs :
       procs[q].start < procs[p].start => procs[p].start > procs[q].end + Second
RunsAreJoined ==
  Asked({"processes", "roots"}) /\ Ended(Listed) = DOMAIN Listed =>
    LET shown == [p \in DOMAIN Listed |-> handle_processes[p].row] IN
    /\ \A p \in DOMAIN Listed : Life(shown, p) = Life(Listed, p) /\ ~Paused(shown, p)
    /\ \A p, q \in DOMAIN Listed :
         /\ shown[p].start < shown[q].start <=> Listed[p].start < Listed[q].start
         /\ shown[p].start < shown[q].end <=> Listed[p].start < Listed[q].end

(* Safety: the two counts of parallelism are right and agree               *)
(* (handle_summary, handle_parallelism).  The sweep finds the most         *)
(* processes that ever lived at once; a bucket counts who lived in it, the *)
(* buckets cover the time there is, and when every process ended none of   *)
(* them hides what the sweep finds.                                        *)
MostAtOnce(procs) ==
  Max({Cardinality({q \in Ended(procs) :
         procs[q].start <= procs[p].start /\ procs[p].start < procs[q].end}) :
         p \in Ended(procs)} \cup {0})

ParallelismIsExact ==
  /\ Asked({"summary"}) => handle_summary.parallel = MostAtOnce(Got("rows"))
  /\ Asked({"parallelism"}) /\ Got("rows") # <<>> =>
       LET procs == compact_runs(Got("rows"))
           h == handle_parallelism
           from(b) == MinTime(procs) + b * h.width
       IN  h.counts # <<>> =>
             /\ Cardinality(DOMAIN h.counts) <= MaxBuckets
             /\ MaxTime(procs) < from(Cardinality(DOMAIN h.counts))
             /\ \A b \in DOMAIN h.counts :
                  h.counts[b] = Cardinality({p \in Ended(procs) :
                    procs[p].start < from(b + 1) /\ procs[p].end >= from(b)})
             /\ Ended(Got("rows")) = DOMAIN Got("rows") =>
                  \E b \in DOMAIN h.counts : h.counts[b] >= MostAtOnce(Got("rows"))

(* Safety: of a recording that ended before the server was started, the    *)
(* server says what bdview says, though it goes another way: sqlite's      *)
(* lists of modes instead of is_input_mode and is_output_mode, sums over   *)
(* the graph instead of lists of files, a walk down instead of a climb up. *)
ViewersAgree ==
  Answered /\ todo = <<>> /\ server.graph.procs = db.procs
    /\ (\A i \in DOMAIN reads : reads[i].at = db) =>
    CASE ask.kind = "summary" -> handle_summary = cmd_summary(db)
      [] ask.kind \in {"hotspots", "hot directories"} -> handle_hotspots = cmd_hotspot(db)
      [] ask.kind = "diagnostics" -> handle_diagnostics = cmd_diagnose(db)
      [] ask.kind = "roots" ->
           DOMAIN handle_processes = {e.pid : e \in {x \in cmd_tree(db) : x.depth = 0}}
      [] ask.kind = "processes" ->
           \A e \in cmd_tree(db) :
             handle_processes[e.pid].has_children
               <=> \E x \in cmd_tree(db) : x.depth = e.depth + 1 /\ db.procs[x.pid].ppid = e.pid
      [] ask.kind = "timeline" ->
           Ended(db.procs) = DOMAIN db.procs =>
             \A i \in DOMAIN handle_timeline.entries :
               LET e == handle_timeline.entries[i] IN e.depth = cmd_timeline(db)[e.pid]
      [] ask.kind = "files" /\ ask.pid \in DOMAIN db.procs ->
           /\ Len(handle_process_files) = server.files[ask.pid]
           /\ ToSet(cmd_files(db, ask.pid)) \subseteq ToSet(handle_process_files)
      [] ask.kind = "path" ->
           \A p \in DOMAIN handle_files_by_path :
             handle_files_by_path[p] <=> cmd_trace(db, ask.file)[p] # <<>>
      [] ask.kind = "process_io" -> handle_process_io = cmd_pio(db)
      [] ask.kind = "critical" -> handle_critical_path = cmd_critical(db)
      [] ask.kind = "parallelism" /\ db.procs = compact_runs(db.procs) ->
           handle_parallelism = cmd_parallel(db)
      [] OTHER -> TRUE
=============================================================================
