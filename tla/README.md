# Verification of bdtrace

bdtrace traces a build (or any command) with `ptrace`, writes every process and
file access into an SQLite database, and shows the result with `bdview` (command
line) and `bdview-web` (browser). This directory holds TLA+ models of it, the TLC
configurations that check them, and proofs checked by TLAPS. Paths below are
relative to the repository; `PROJECT.json` maps each definition to its lines.

## 1. Inventory

| Component | Source | State | Operations | What is hard | What makes it correct |
|---|---|---|---|---|---|
| Event queue and writer thread | `src/tracer/trace_session.*` | `queue_`, the writer's deque, `stop_requested_`, `async_`, batch and error counters | `enqueue`, `writer_loop`, `apply_event`, `maybe_commit`, `finalize` | two threads, two condition variables, a bounded queue, sqlite failures, SIGKILL | order, no loss, bounded memory, one owner of the connection, no lost wakeup, losses counted |
| Database | `src/db/database.cpp`, `schema.cpp` | rows, interned paths and their cache, the open transaction, counts | writes, commit, checkpoint, `intern_path`, `populate_counts`, `upgrade_schema`, queries | statements that fail or abort the transaction, death between two statements, old versions | ids resolve, counts agree with rows, an interrupted trace is repaired |
| Event loop and process books | `src/tracer/ptrace_backend.cpp`, `process_state.h`; id maps of `TraceSession` | `procs_`, generations, live pids, awaited re-inserts, dedup memory | `waitpid`, fork/exec/exit/signal handlers, `resume`, `check_stall` | reports in either order, lost exits and resumes, recycled pids, SIGKILL between report and handler | one row per process, events under the right row, nobody left stopped, the trace ends |
| Syscall stops | `decode_syscall_entry`, `handle_seccomp_stop`, `handle_syscall_stop`, `handle_exec_event` | phase, pending syscall, cached directory of each tracee | entry, exit, seccomp and exec stops | entry and exit look alike, stops get lost, kernel versions differ | recorded accesses happened, resolve to the right path, and none is missed |
| Signals, drain, watchdog | `ptrace_backend.cpp:154-225, 419-525` | `g_sig_*`, drain deadline, one-shot alarm | forward, kill, give up | asynchronous handler, deadlines that race with exits | only a request from outside stops the trace, it is heeded, the drain ends, stuck tracees are found |
| Start and seccomp filter | `ptrace_backend.cpp:36-150, 227-331` | mode | fork, exec, filter install | kernel versions | the filter traps what the decoder knows |
| Path normalisation | `ptrace_backend.cpp:850-913` | none | `normalize_path`, `resolve_path` | `.`/`..`, descriptors | same file, normal form |
| Schema upgrade and migration | `database.cpp:74-217`, `schema.cpp` | version, columns, tables | v1 to v6, `migrate_to_interned` | a crash between two steps | upgrade is repeatable and loses no row |
| Analysis | `common/view_helpers.cpp` | none (values computed from a database) | dependency graph, rebuild, races, run compaction, filter, impact, rdeps, process I/O | worklists, shared visited sets, interval arithmetic, rows without an end, deadlines | result = its definition |
| `bdview` | `bdview_main.cpp` | none | reports, rebuild, critical path, parallelism, diagnosis, diff | numeric edges | as above |
| `bdview-web` | `web/bdview_web.cpp` | the graph and sums over subtrees, built once | HTTP handlers, several SELECTs each | both over a database a trace still extends | answers hang together and agree with `bdview` |
| Web interface, command lines, logging, scripts, tests | `static/`, `bdtrace_main.cpp`, `common/log.*`, `scripts/`, `tests/` | presentation | | | |

How they interact. The kernel stops a tracee; `waitpid` reports it to the event
loop; the handler asks the tracee's registers and `/proc`, updates `procs_` and the
id maps, and calls the session (`on_process_start`, `on_file_access`, ...). The
session turns the call into a numbered event and `enqueue`s it; the writer thread
applies it to the database in batches. `finalize` joins the writer, builds indexes
and counts. Later, viewers open the file, repair it when needed and only read.

The hazards, each at its line and with the properties that cover it, are in
`PROJECT.json` under `hazards`.

## 2. Modules

| Module | Models | Role |
|---|---|---|
| `EventLog` | what a session promises the event loop | abstract specification |
| `Database` | the connection: visible and committed content, interning, counts, repair | operators used by `WriterQueue` |
| `WriterQueue` | tracer thread, writer thread, `finalize`, crash, first viewer | state machine, refines `EventLog` |
| `WriterQueueProofs` | | theorems about `Database` and `WriterQueue`, up to the refinement |
| `Processes` | pids, files | common constants |
| `Tracees` | fork, exec, exit, signals, stops, `waitpid` of the kernel (external) | state machine of the environment |
| `SessionBooks` | id maps, dedup and rows of `TraceSession` | operators, one per call of its interface |
| `Tracer` | event loop over `Tracees` and `SessionBooks` | state machine; theorems in `TracerProofs` |
| `SyscallStops` | one tracee's stops, from decoding to record | state machine; theorems in `SyscallStopsProofs` |
| `SignalDrain` | signal and alarm handlers against the event loop: stopping, draining, the watchdog | state machine; theorems in `SignalDrainProofs` |
| `SchemaUpgrade` | `upgrade_schema`, `init_schema`, `migrate_to_interned`, statement by statement | state machine; theorems in `SchemaUpgradeProofs` |
| `DependencyGraph` | the graph, its redirection pass, searches over it | operators |
| `DependencyGraphProofs` | | lemmas about its operators |
| `Rebuild` | worklist, reasons, folding, the printed answer | state machine over `DependencyGraph`; theorems in `RebuildProofs` |
| `GraphQueries` | races, impact, rdeps, their loops and stacks | state machine over `DependencyGraph`; theorems in `GraphQueriesProofs` |
| `ProcessViews` | time line, run compaction, parallelism, critical path, hot files, diagnosis | operators over `DependencyGraph` |
| `Viewer` | the server and the commands beside a recording, SELECT by SELECT | state machine over `ProcessViews` |
| `MC*` | model values and families of inputs for TLC | |

`Tracer` and `WriterQueue` meet at the interface of `TraceSession`: the operators of
`SessionBooks` say which rows result once the queued events are applied, and
`WriterQueue` shows that they are applied completely and in order. `Viewer` takes up what
`WriterQueue` gives it: events reach the tables in their order, some at a time.
`SignalDrain` is the same event loop as `Tracer` seen from the other side: it keeps the
signals and the timer and leaves out what the events record.

Definitions called "Slip" in a comment are plausible bugs. They are used by no
specification; `PROJECT.json` (`mutants`) pairs each with the property that breaks
when it takes the place of the correct definition.

### WriterQueue and Database

One action is one critical section of `mutex_`, or one step between two of them
that the other thread or a crash can tell apart. `tracer` and `writer` say where the
two threads are; the other variables have the names of the fields. `apply_event`
(with `check_write_result` and `maybe_commit`) is one action because it runs without
the lock on data only its thread uses; that this is so is the property
`SingleOwner`. `Database` keeps two contents: `cur`, what the connection
sees, and `base`, what is committed. A statement may succeed, fail, or fail and
abort the open transaction, and so may CREATE INDEX and each UPDATE of `populate_counts`,
whose results `finalize` does not look at; a COMMIT may fail and stay open, or fail and be
rolled back. `Kill` is SIGKILL, `View` the first viewer that opens the file afterwards.

### Tracer, SessionBooks, Tracees

An iteration of the event loop is two actions: `WaitPid` takes a report, then one
`Handle...` action runs the whole handler and resumes the tracee. In between, tracees
run and may be killed. `CheckStall` is the recovery after a blocking wait in which
nothing happened. An `inc` (incarnation) is a real process; a pid may have several.
Rows, accesses and end times carry the incarnation they truly belong to beside the
id the code gave them, and the properties compare the two.

`Tracees` is the kernel. Its constants choose what may go wrong: a child's report
before its parent's fork event (`EarlyReports`), exits and resumes lost as on
2.6.x (`ExitMayBeLost`, `ResumeMayBeLost`), SIGKILL, SIGSTOP, and procs-only mode.

Assumptions, all stated by comments of the code or by ptrace(2): a SIGSTOP that is
passed on stops the tracee until SIGCONT; a resume that `kick_if_stuck` verifies
(up to three attempts) succeeds; `Init` is the state after `start()`; the
`has_fatal_errors` early returns belong to `WriterQueue` only.

### SyscallStops

A thread issues syscalls, each standing for its family (with one path, with two, a
directory change, none). The kernel side moves it from entry to exit, the tracer
side keeps `ProcessState`. Syscalls are numbered and the number stands for the
arguments, so "the path of one syscall joined to the result of another" can be
stated. Paths are relative and stand for the directory they start from: the working
directory, or the one that a `dirfd` names. The decoder knows of no `dirfd`, and its record
has the cached directory either way. A record says whether it is a row of `failed_accesses`
or of `file_accesses`; a failed `execve` is one of the latter, as in the code.

### SignalDrain

A handler may run between any two steps of the loop, so the loop reads `g_sig_pid`,
`g_sig_code` and resets `g_sig_count` in three actions, and `arm_watchdog` and the block in
`waitpid` are two. `signal_handler` is one action, `nested_handler` the other order in which
its assignments can be seen: SIGTERM's handler inside SIGINT's. A tracee runs, has a
status to report, is dead, or is "stuck" because its resume got lost. `DeadlinePasses` is the
passing of the drain deadline; the loop sees it only where the code looks. `asked` records
whether anybody but a living tracee has sent a signal.

### SchemaUpgrade

The database is what its layout is: which columns `processes` has, whether a table of
accesses has paths or ids, whether `failed_accesses` exists, whether the counts were
filled. A program is the list of checks and statements it still has to run; a check
prepends the statements it finds missing. Each statement outside the migration commits by
itself, as in the code, and its failure is ignored where the code ignores it. Two programs
may run at once; a transaction of one makes the statements of the other fail or wait.

### DependencyGraph, Rebuild, GraphQueries

`DependencyGraph` has `build_dependency_graph` as a fold over the parents in the order of
their pids, as the code iterates its set. `MustRerun` is the least closed set, stated
without a search. In `Rebuild` one step of the worklist is one action and the order is left
open; `Show` is the filter, the folding, the printed answer and the estimate.
`GraphQueries` has the explicit stack of `detect_races` (an entry is met twice, to enter
and to leave) and the recursion of `compute_rdeps_recursive` as a stack of frames that
share one visited set; the node of a file names no process, because the recursion resets
what its caller filled in; `DeadlinePasses` may cut races and impact at any file, as the
server's deadline does.

### ProcessViews and Viewer

`ProcessViews` has one operator for each computation of the viewers. Where `bdview` and
`bdview-web` have two copies of the same code there is one operator; where they do the
same by different means (a list of modes in SQL, a climb instead of a walk) there are two,
and `ViewersAgree` compares them. In `Viewer` a handler is the sequence of its SELECTs in
their order, each of which sees the tables of its own moment; what was read, and when, is
kept in `reads`. The server builds the graph at its start, keeps it, and answers one request
(it is single-threaded and keeps nothing of a request). The answer itself is an operator
over the reads, since computing it changes nothing.

## 3. Runs

| Run | Question | Result |
|---|---|---|
| `queue_clean` | without sqlite failures, threaded and synchronous, killed at any point: order, completeness, bounds, one owner, interning, refinement of `EventLog` | holds |
| `queue_faults` | up to three failing or aborting statements, in `finalize` too, SIGKILL, spurious wakeups: is every lost event counted, does a viewer mend what `finalize` could not build, is the fatal verdict final, does every wait end, does `finalize` end, do fatal errors end the trace | holds |
| `queue_lost_commit` | is a batch lost by a failing COMMIT counted | violated |
| `tracer_reuse` | recycled pids and lost exits: right row, right end time, right access | holds |
| `tracer_race` | initial stop before or after the fork event, lost resumes, genuine SIGSTOPs: is every death recorded, is a child's SIGSTOP ever taken for its initial one | holds |
| `tracer_live` | any order of reports, SIGKILL, lost exits and resumes: nobody is left stopped, the trace closes | holds |
| `syscall_decode` | classic and seccomp mode, lost stops, exits that look like entries | holds |
| `drain` | signals of outsiders and of tracees at any point: who stops the trace, does it stop, does the drain end, are stuck tracees found | holds |
| `upgrade` | every version, two programs, a crash or failure anywhere: are the accesses kept, does an undisturbed upgrade complete | holds |
| `rebuild` | every small graph and tree: the exact set, all reasons, nobody forgotten by the filter | holds |
| `graph_queries` | every small tree and use of files: races, rdeps and impact against their definitions | holds |
| `viewer` | a server beside a recording, and finished recordings of every shape | holds |

Bounds. The queue holds 2 events and a batch is 2, so 5 events fill it, make the
tracer wait, cut the last batch short and cross a checkpoint interval of 4 (the
code's 200000, 5000, 50000 keep the same relation: the interval is a multiple of
the batch). Two errors in a row are fatal, three failures allow both a recovered and
a fatal sequence. Two paths are enough for interning to repeat and to differ; the
fault run needs one, since its properties do not look at paths, and all three kinds of
events, since the two counts count different ones.
Three pids (two in the liveness run) and three or four incarnations let a pid be
used twice, by a process and by its parent. `PidStride` is 10, above every pid as
10,000,000 is. Work (accesses, execs, signals, kills) is bounded by 1 to 3 a run:
a dedup loss needs an access of the first owner and of the second. In `syscall_decode`
one thread makes three syscalls of which two may lose a stop: a lost stop affects its
own syscall and the next one, the third shows the resynchronisation.

`drain`: two signals are a request and a tracee's signal, in either order and nested, or two
requests; two tracees are the root and another one; one lost resume. `upgrade`: two programs
at once and a third start afterwards, which finds what the first two left; one mishap, since
two crashes leave nothing that one crash of each program does not. `rebuild` and
`graph_queries` enumerate graphs instead of running long: three processes and three files
make chains, cycles, a process that reads its own output, siblings and grandchildren. Lives
in `graph_queries` and `viewer` overlap, touch, nest, lie apart by less and by more than a
`Second` (2), last no time, or have no end. `MaxBuckets` is 3 so that the histogram is capped;
`HotReaders` and `SerialGaps` are 1 and `ManyFailures` 0 so that three processes can pass
them.

Symmetry is used for paths, directories and programs only, and never in a run with a
liveness property.

Fairness. `WriterQueue!FairSpec` has weak fairness of the tracer's and of the
writer's steps, since both are scheduled threads; none for new events, for the end
of the traced tree, for spurious wakeups or for SIGKILL. `Tracer!FairSpec` has weak
fairness of the loop's own actions only; tracees are obliged to nothing. The stall
recovery is fair because the blocking wait is bounded by an alarm; it is enabled only
while nothing can be reported, which is how the code reaches it. `SignalDrain!Spec` has weak
fairness of the loop, of the timer and the deadline (time passes) and of the delivery of a
pending signal (the kernel's promise), and none of any tracee or sender; `StuckIsKicked` has
as its premise that the other tracees pause, because the timer only runs out in a quiet wait.

Deadlock is checked in the runs of `WriterQueue`, `Tracer` and `SyscallStops`, where a
`Terminated` (`Finished`) step marks the proper ends. The five other machines answer one
question or run out of bounded work and stop there; their configurations say
`CHECK_DEADLOCK FALSE`.

## 4. Disagreements between code and text, and known limits

* `queue_lost_commit`: `maybe_commit`, `writer_loop` and `finalize` ignore the result of
  COMMIT. A failed one loses a batch, the error count stays zero and no warning is
  printed. In the same way `finalize` ignores the results of `create_indexes` and
  `populate_counts` (`trace_session.cpp:322-324`; `database.cpp:553-565` gives up at the first
  UPDATE that fails): indexes and counts may be missing from a trace that says it met no error.
  `LossIsCounted` asks for them where no statement failed or a viewer has opened the
  file since, and never for the `fail_count` that a failure left.

The following are limits of the code that the models reproduce, most of them when a constant
is changed as named; the runs stay clear of them.

Session and database:

* `Faults` with `internRollsBack` or `insertRollsBack` and `InternedIdsResolve`:
  after sqlite rolls a transaction back `intern_cache_` holds ids without a row.
* `upgrade_schema` repairs an interrupted trace by `file_count` alone (`database.cpp:196`),
  although the README of the repository (102-103) promises repair of both: a trace with
  failed accesses only, or killed between the UPDATEs of `populate_counts`, keeps `fail_count`
  zero; and one nonzero count is enough to leave the others alone.
* A crash between the ALTERs of version 3, or between the two of version 5, leaves columns
  missing for ever: the next upgrade looks at the first one only. Tracing into a version 1
  file creates `failed_accesses`, so `timestamp_us` is never added; tracing into version 2 or
  3 migrates the file and then fails to prepare its statements, until a viewer mends it.
* The size shown as progress is published only between transactions and may stay
  at its old value (`trace_session.cpp:127`).

Event loop:

* An exec reported before the fork event (`EarlyReports = "any"` and `OneRowPerProcess`)
  leaves the pid in `expect_reinsert_`; the second INSERT collides and the row keeps parent 0.
* A parent killed while it is stopped at its fork never reports the child (`Kills` with
  `AccessesAreTheirOwn`, `DeathsAreRecorded`): the child's accesses carry an id without a row,
  until an exec of it inserts one.
* An exec translates the parent's pid anew; when that pid has been recycled the row points
  to the wrong parent (`trace_session.cpp:241`).
* `EarlyReports = "any"` with `DeathsAreRecorded`: a child whose first report is its
  death, before the fork event, gets its row afterwards, without an end.
* `EarlyReports = "stop"` and `ExitMayBeLost` with `InitialStopSwallowed`: an entry left by
  a lost exit makes the initial stop of the next owner look genuine.
  There, the fork event then resets the entry, and the next genuine SIGSTOP is swallowed
  (`SignalsReachTracees`).
* The root never gets `traced`, so the first genuine SIGSTOP to it is swallowed;
  `SignalsReachTracees` leaves the root out.
* The root killed between its fork and the report of it leaves an unknown child in ptrace-stop
  when the loop ends.
* `check_stall` resumes with signal 0: a signal whose resume was lost is lost too
  (`ResumeMayBeLost`, `Signals` with syscalls traced, `SignalsReachTracees`).
* The `dirfd` of `openat`, `newfstatat`, `unlinkat`, `renameat` and the like is dropped
  (`ptrace_backend.cpp:967, 989-1021`): a relative path is resolved against the cached working
  directory (892-913) whatever directory it starts from, and another file is recorded.
  `PathsResolve` asks for the paths of calls without one.
* A failed `execve` is stored by `record_access` (`ptrace_backend.cpp:1132-1133`), as an
  execution like any other and without its errno; a search along `PATH` thus leaves files that
  do not exist among the executed ones. `RecordsAreTrue` states the exception.
* `SeccompFirst = TRUE`: on Linux 3.5 to 4.7 the stop after a seccomp stop is the entry stop;
  the exit stop never comes and the seccomp mode, which `ptrace_backend.cpp:151` allows there,
  records no access.
* `Losable` with `"entry"`: a lost entry stop can join one path to another's result.

Signals:

* A request whose record a tracee's signal overwrites, or that arrives between the reads and
  the reset, is lost; the user has to ask again. A tracee killed right after it
  signalled is taken for an outsider, and its signal stops the trace.
* `EarlyAlarm = TRUE`: when half a second passes between `arm_watchdog` and `waitpid`, the wait
  has no timer and `StopIsHeeded` and `StuckIsKicked` fail.
* A scan looks at the first 256 entries of `procs_`. The signal goes to the root only.

Viewers:

* `filter_rebuild_set` follows every affected writer to its row without looking
  (`view_helpers.cpp:849`); `UsersHaveRows` says when there is none: in the middle of an
  exec. Of two nested collapsed commands both may fold the same process in; the leaf filter may drop a writer
  whose own file is in the chain, as long as something below it is listed.
* Redirections are inherited in the order of pids, so after the pids have wrapped a chain of
  shells passes its target on by one level only.
* The tree of rdeps names no process. `compute_rdeps_recursive` sets `via_pid` of a child
  (`view_helpers.cpp:915`), and the call for the child sets it to 0 (894), so that the reader
  that `bdview` (`bdview_main.cpp:621-627`) and the server (`bdview_web.cpp:1572-1577`) would
  print never appears. `RdepsIsATree` asks for the edge only: that some process reads the
  one file and writes the other.
* A file that rdeps meets first at the last level is not expanded where it comes again higher
  up, so a tree of a given depth depends on the order of pids and paths.
* A run that starts with an endless row seems to end before it began; what follows
  is moved to negative times and vanishes from the time line and the histogram
  (`RunsAreJoined` asks for rows that all ended).
* The graph and the sums stay what they were at the server's start; the rest is read afresh.
  The full list reads marks before rows, so a process whose first child is
  committed in between looks like a leaf until the next request.
* `cmd_diagnose` and `handle_diagnostics` divide by a total time that may be zero;
  the critical path takes `roots[0]` of a database that may have rows and no root only if the
  rows form a cycle, which the tracer does not write.

## 5. Proofs

Each theorem below says that a property some run checks holds for every value of the
constants: any number of pids, paths, threads, events, failures, any size of queue and
batch, any trace. An assumption about what may happen is named with the theorem; section 4 and
`queue_lost_commit` say what goes wrong without it.

| Module | Theorem: property | Assumes |
|---|---|---|
| `WriterQueueProofs` | `TypeCorrect`: `TypeOK` | |
| | `QueueIsFifo`: `FifoOrder` | |
| | `MemoryIsBounded`: `BoundedMemory` | |
| | `DatabaseHasOneOwner`: `SingleOwner` | |
| | `RowsAreInOrder`: `RowsInOrder` | |
| | `FatalErrorsAreFinal`: `FatalIsFinal` | |
| | `InternedIdsAreRight`: `InternedIdsResolve` | no rollback among `Faults` |
| | `LossesAreCounted`: `LossIsCounted` | no failing COMMIT among `Faults` |
| | `SessionImplementsEventLog`: `ImplementsEventLog` | |
| `TracerProofs` | `EveryProcessHasOneRow`: `OneRowPerProcess` | `EarlyReports # "any"`, `~Kills` |
| | `DeathsStayApart`: `DeathsAreTheirOwn` | the same |
| | `DeathsGetRecorded`: `DeathsAreRecorded` | the same |
| | `AccessesStayApart`: `AccessesAreTheirOwn` | the same |
| | `DedupIsSafe`: `DedupLosesNothing` | the same |
| | `SignalsArePassedOn`: `SignalsReachTracees` | `EarlyReports # "any"`, `~Kills`; no early report at all or no lost exit; `ProcsOnly` or no lost resumes |
| | `InitialStopsAreSwallowed`: `InitialStopSwallowed` | `EarlyReports # "any"`, `~Kills`; no early report at all or no lost exit |
| `SyscallStopsProofs` | `RecordsHappened`: `RecordsAreTrue` | no lost entry stop |
| | `PathsAreResolved`: `PathsResolve` | |
| | `ALossCostsOneAccess`: `LossesAreBounded` | no lost entry stop, `~SeccompFirst` |
| `SignalDrainProofs` | `StopsOnlyOnRequest`: `StopNeedsRequest` | |
| `SchemaUpgradeProofs` | `UpgradesKeepAccesses`: `AccessesKept` | |
| | `UpgradesComplete`: `UpgradeCompletes` | |
| `RebuildProofs` | `RebuildFindsExactly`: `RebuildIsExact` | |
| | `FilterForgetsNothing`: `NothingIsForgotten` | |
| `GraphQueriesProofs` | `RacesAreRight`: `RacesAreExact` | |
| | `RdepsIsRight`: `RdepsIsATree` | |
| | `ImpactIsRight`: `ImpactIsExact` | |

`DependencyGraphProofs` has the lemmas that `RebuildProofs` and `GraphQueriesProofs` share.
Constants are constrained by the named assumptions of the modules (`NoPathAssumption`,
`QueueAssumption`, `ProcessesAssumption`, `StrideAssumption`, `TraceesAssumption`,
`SyscallAssumption`, `SignalAssumption`, `UpgradeAssumption`, `GraphAssumption`,
`QuestionAssumption`, `QuestionsAssumption`), which TLC evaluates in the runs. The last two
say that a trace is finite and that no process is its own ancestor, which holds because a
parent starts before its child.

### How the arguments go

**Session.** The inductive invariant is `TypeOK /\ Phases /\ FifoOrder /\ BoundedMemory`.
`Phases` relates the two threads: which places the writer can be in while the tracer is at
each of its own, that `pending` holds an event exactly in `enqueue` and `wait_space`, and
that after the join there is no writer left. `SingleOwner` is not inductive: that
`finalize` uses the connection only after the writer has exited follows from `Phases`.
`RowsInOrder` needs that the committed rows are a prefix of the visible ones
(`ConnectionInOrder`); by `FifoOrder` the event applied next has the number `Applied + 1`,
so its row goes after all others. `InternInv` adds that the cache may be trusted while
somebody writes with it, `LossInv` that with no error counted row i holds event i
(`Lossless`) and how much of `finalize` is done at each of its steps (`Stages`). `BuildInv`
says which of indexes and counts are built where nothing has failed, and that a file count
that is not right is zero, which is what `upgrade_schema` looks for. For
`EventLog` every action is shown to map to one of its steps or to a stutter; `Whole` and
`LogInv` give what the last step, closing without a loss, needs.

**Event loop.** An incarnation is *unhandled* from its fork until the handler of its parent's
fork event has run. `Hidden` says that in this time it still occupies its pid, alive, and
nothing of it but its initial stop is reported; `OccupantInv` that a handled occupant's row
is the one its pid's current synthetic id names. From the two, the pid is given to the next
owner only after the death of the last one was handled, and ids of generations do not meet
because `PidStride` exceeds every pid. `SwallowInv` says when an entry that is left of an
earlier owner is certain to be dropped in time. `SignalInv`, which needs nothing of the kernel,
says that whoever is reported stopped is the one whose report is handled, so that a tracee
entered as traced gets its signal. `TracedInv` says that every child past its initial stop is
entered so: neither a fork event that comes late, which finds the entry without a parent and
keeps it, nor the death of an earlier owner, after which the pid has at most a child in its
initial stop, can reset the flag.

**Syscall stops.** `KernelInv` is what the kernel does to a thread, `Decoded` how `ProcessState`
follows it, `DirInv` that the cached directory is the thread's own while no stop of it is
lost. For `LossesAreBounded` a lost stop is a debt: `Judged` says that a stop is taken for the
wrong one only in two situations, `Owed` is one in these, and `Bounded` that the accesses missed
and the debt together never exceed the stops lost.

**Signals.** `BuildSignals` says, while nobody outside has asked, that the sender the handler
recorded is still in `procs_` when the loop looks: a tracee's stop is reported only after the
signal it sent before has been delivered, and the loop judges a signal before it goes back
to `waitpid`, the only place where processes leave the books.

**Upgrade.** Every statement turns a sound database into a sound one (`Sound`), so neither the
order of the statements nor which of them fails matters, and both the committed and the
migrated content are sound whichever of them remains. For `UpgradeCompletes` the list of what
a program still has to do is a plan that goes through four stages: before the migration, about
to begin it, in it, after it (`PlanInv`: it holds the lock exactly in the third). A step never
drops from a plan what the database lacks, and never undoes what is there (`Advances`). So
while no mishap meets a program (`CleanInv`), what a check looks for is there or in the plan
(`Columns`); every table that still has names is about to be copied, and one that another has
copied in the meantime makes the migration give up only where no names are left (`Names`);
and the counts are right, about to be counted or still to be checked (`Counts`). This is so
whatever the others do, since programs that run have met the same mishaps (`Alike`). At the
end of the plan nothing is lacking but what stands behind the column a check looks at: its
companions are missing only where a mishap or a tracer separated them (`UnharmedInv`).

**Rebuild.** `SearchInv`: `affected` is inside every set closed under the changed files, and
what left the worklist has its readers in `affected`; when the worklist is empty the two
make it the least closed set. `compute_impact` searches with a recursive function instead.
That function has one solution because a wrong value at the largest wrong set would need
another at a larger one (`OneSolution`), and this solution is the least set closed under the
step (`Reached`), which is how `Descendants` is handled too. For the filter, of all collapsed
processes above a hidden one the topmost is printed, and of all hidden writers the deepest is
a leaf (`TopmostExists`, `DeepestExists`).

**Races, rdeps, impact.** While the tree is numbered a process is fresh, open or left.
`DfsStack` says what the stack holds of each kind: who is open lies below everything of its own
that waits, and a fresh process waits once its parent is open. `DfsNumbers` says that the
numbers of a process enclose those of what is below it and lie apart from all others.
Entering needs that the children of the process are not on the stack yet
(`ChildrenAreFresh`), leaving that nothing below it is left to leave (`BelowIsLeft`). On the
empty stack the two give `AncestorsKnown`, so that comparing numbers is asking for ancestors.
For rdeps, `RdepsTree` says that the result is a tree whose levels are those of the frames,
`RdepsStack` how the frames hang together, and `RdepsComplete` that whatever is made from a
visited file above the last level is visited or still to be gone over in the file's frame.
For impact, `ImpactInv` says that each entry is right and each source file listed or waiting;
the ranking keeps, of a finite set, those nothing left out exceeds.

Two definitions are written so that they can be reasoned about: a sorted sequence is chosen
among the orderings of its set (`InOrder`), since `SortSeq` is opaque to the provers, and
acyclic trees are those in which every set has a topmost member (`Acyclic`).

### What is only model-checked

Liveness (`ENABLED` is out of the provers' reach): everything that must eventually happen in
`WriterQueue`, `Tracer` and `SignalDrain`. The five invariants of `Viewer`: they are about
folds and recursions over data, what the tables are after some of the events (`UsersHaveRows`,
`MarksMatchRows`), and `WalkTree`, run compaction, the histogram and the answers built from
them (`RunsAreJoined`, `ParallelismIsExact`, `ViewersAgree`). The induction theorems these
need take an operator as a parameter, which no prover here can instantiate.

## 6. Not modelled

Reading strings and registers of tracees, `/proc` parsing, formatting, colours, units,
rankings and logging: pure I/O or layout. Memory contents that another thread changes
between entry and exit. Threads of one process as a group (shared working directory, exec by
a thread that is not the leader). `normalize_path`: one pass over the characters of a path.
`start()`: the models begin after it. Tracing into a file that already holds a trace: the
layout is in `SchemaUpgrade`, the collision of its rows with new ones is not. Of the viewers:
the listings by directory, prefix and page, `slowest`, `failures`, `diff`, files of a process
without its subtree, the filter by minimal duration, JSON, HTTP and the browser. The server
looks the parents of serial children up one by one; the model reads them at one moment.

## 7. What could come next

1. Thread groups in `Tracees` and `SyscallStops`: one working directory for all threads of a
   process, exec by a thread that is not the leader.
2. A second trace in one file: generations start again at zero, so rows of two traces meet.
3. Proofs about `Viewer`, where `UsersHaveRows` and `MarksMatchRows` would follow from the order
   in which a recording's events reach the tables, once the fold that applies them has been
   replaced by its history of tables.
