---------------------------- MODULE WriterQueue ----------------------------
(***************************************************************************)
(* The event queue and the writer thread of a TraceSession                 *)
(* (src/src/tracer/trace_session.cpp).                                     *)
(*                                                                         *)
(* The tracer thread (the ptrace event loop) hands events to a bounded     *)
(* queue under mutex_; the writer thread swaps the whole queue out and     *)
(* applies it to the database outside the lock, committing every           *)
(* BatchSize events.  finalize() stops and joins the writer, commits and   *)
(* builds indexes and counts.  Without a writer thread (pthread_create     *)
(* failed) the tracer applies each event itself.                           *)
(*                                                                         *)
(* One action is one critical section, or one step between two of them     *)
(* that the other thread or a crash can tell apart.  apply_event is one    *)
(* action: what it does between its critical sections is visible to no     *)
(* other thread, and a crash in the middle loses the same uncommitted      *)
(* rows.                                                                   *)
(***************************************************************************)
EXTENDS Database

CONSTANTS MaxQueueEvents,     \* MAX_QUEUE_EVENTS (200000)
          BatchSize,          \* BATCH_SIZE (5000)
          CheckpointInterval, \* WAL_CHECKPOINT_INTERVAL (50000)
          FatalErrors,        \* consecutive errors that are fatal (50)
          Kinds,              \* the kinds of event the event loop produces
          MaxEvents,          \* bound of the model: events produced
          Faults,             \* the failures sqlite may answer with
          MaxFaults,          \* bound of the model: failures
          CanBeKilled         \* bdtrace may be killed with SIGKILL

ASSUME QueueAssumption ==
  /\ MaxQueueEvents \in Nat \ {0}
  /\ BatchSize \in Nat \ {0}
  /\ CheckpointInterval \in Nat \ {0}
  /\ CheckpointInterval % BatchSize = 0
  /\ FatalErrors \in Nat \ {0}
  /\ Kinds \subseteq {"proc", "access", "failed"}
  /\ MaxEvents \in Nat
  /\ Faults \subseteq
       WriteFaults \cup {"commitBusy", "commitRollsBack"} \cup FinishFaults
  /\ MaxFaults \in Nat
  /\ CanBeKilled \in BOOLEAN

VARIABLES
  accepted,            \* events the event loop has produced
  pending,             \* the event enqueue() holds until there is space
  queue,               \* queue_
  local,               \* the writer's own deque, from the event to apply next
  async,               \* async_
  stop_requested,      \* stop_requested_
  finalized,           \* finalized_
  in_transaction,      \* in_transaction_
  event_count,         \* event_count_
  total_event_count,   \* total_event_count_
  write_error_count,   \* write_error_count_
  consecutive_errors,  \* consecutive_errors_
  db_size_cache,       \* db_size_cache_, in committed rows
  tracer,              \* where the tracer thread is
  writer,              \* where the writer thread is
  db,                  \* the sqlite connection
  failures,            \* sqlite failures so far
  life                 \* "running", "killed", or "viewed" by a later bdview

queueVars == <<accepted, pending, queue, local>>
sessionVars == <<async, stop_requested, finalized>>
batchVars == <<in_transaction, event_count, total_event_count,
               write_error_count, consecutive_errors>>
vars == <<accepted, pending, queue, local, async, stop_requested, finalized,
          in_transaction, event_count, total_event_count, write_error_count,
          consecutive_errors, db_size_cache, tracer, writer, db, failures, life>>

TracerStates == {"loop", "enqueue", "wait_space", "finalize", "join", "commit",
                 "index", "reset_counts", "file_counts", "fail_counts", "closed"}
WriterStates == {"none", "lock", "wait_events", "apply", "publish",
                 "last_commit", "exited"}

TracerAt(place) == life = "running" /\ tracer = place
WriterAt(place) == life = "running" /\ writer = place

HasFatalErrors == consecutive_errors >= FatalErrors

(* The failure the next sqlite call meets, out of those in `kinds'. *)
Failure(kinds) ==
  {"none"} \cup (IF failures < MaxFaults THEN Faults \cap kinds ELSE {})

Meet(fault) == failures' = IF fault = "none" THEN failures ELSE failures + 1

-----------------------------------------------------------------------------

Init ==
  /\ accepted = 0
  /\ pending = <<>> /\ queue = <<>> /\ local = <<>>
  /\ async \in BOOLEAN              \* did pthread_create succeed?
  /\ stop_requested = FALSE /\ finalized = FALSE
  /\ in_transaction = FALSE
  /\ event_count = 0 /\ total_event_count = 0
  /\ write_error_count = 0 /\ consecutive_errors = 0
  /\ db_size_cache = 0
  /\ tracer = "loop"
  /\ writer = IF async THEN "lock" ELSE "none"
  /\ db = OpenDatabase
  /\ failures = 0
  /\ life = "running"

-----------------------------------------------------------------------------
(* apply_event, with check_write_result and maybe_commit: the thread that  *)
(* owns db applies event e; sqlite answers the write with wf and a COMMIT  *)
(* with cf.                                                                *)

MaybeCommit(d, cf) ==
  IF event_count + 1 >= BatchSize
    THEN LET total == total_event_count + event_count + 1
             after == CommitTransaction(d, cf)
         IN  /\ in_transaction' = FALSE
             /\ total_event_count' = total
             /\ event_count' = 0
             /\ db' = IF total % CheckpointInterval = 0
                        THEN WalCheckpoint(after) ELSE after
    ELSE /\ in_transaction' = TRUE
         /\ event_count' = event_count + 1
         /\ db' = d
         /\ UNCHANGED total_event_count

(* Slips: a success takes one error back; a success clears both counters. *)
CheckWriteResultTakesBack(ok) ==
  IF ok
    THEN consecutive_errors' = consecutive_errors - 1 /\ UNCHANGED write_error_count
    ELSE /\ consecutive_errors' = consecutive_errors + 1
         /\ write_error_count' = write_error_count + 1

CheckWriteResultForgets(ok) ==
  IF ok
    THEN consecutive_errors' = 0 /\ write_error_count' = 0
    ELSE /\ consecutive_errors' = consecutive_errors + 1
         /\ write_error_count' = write_error_count + 1

CheckWriteResult(ok) ==
  IF ok
    THEN consecutive_errors' = 0 /\ UNCHANGED write_error_count
    ELSE /\ consecutive_errors' = consecutive_errors + 1
         /\ write_error_count' = write_error_count + 1

(* Slip: no early return once the errors are fatal. *)
ApplyEventAlways(e) ==
  LET d == IF in_transaction THEN db ELSE BeginTransaction(db)
  IN  \E wf \in Failure(WriteFaults) :
        /\ CanFail(d, e, wf)
        /\ CheckWriteResult(wf = "none")
        /\ MaybeCommit(WriteEvent(d, e, wf), "none")
        /\ Meet(wf)

ApplyEvent(e) ==
  IF HasFatalErrors
    THEN UNCHANGED <<batchVars, db, failures>>
    ELSE LET d == IF in_transaction THEN db ELSE BeginTransaction(db)
         IN  \E wf \in Failure(WriteFaults),
                cf \in Failure({"commitBusy", "commitRollsBack"}) :
               /\ wf = "none" \/ cf = "none"
               /\ cf # "none" => event_count + 1 >= BatchSize
               /\ CanFail(d, e, wf)
               /\ CheckWriteResult(wf = "none")
               /\ MaybeCommit(WriteEvent(d, e, wf), cf)
               /\ Meet(IF wf = "none" THEN cf ELSE wf)

-----------------------------------------------------------------------------
(* The tracer thread *)

(* A handler of the event loop (on_process_start, on_process_exit,         *)
(* on_file_access, on_failed_access, delete_process) makes an event, unless *)
(* the error counters say it is too late.                                  *)
HandleEvent(kind, path) ==
  /\ TracerAt("loop") /\ accepted < MaxEvents
  /\ ~HasFatalErrors
  /\ (path = NoPath) <=> (kind = "proc")
  /\ accepted' = accepted + 1
  /\ pending' = <<[id |-> accepted + 1, kind |-> kind, path |-> path]>>
  /\ tracer' = "enqueue"
  /\ UNCHANGED <<queue, local, sessionVars, batchVars, db_size_cache,
                 writer, db, failures, life>>

(* Synchronous writes: the event is applied before enqueue returns. *)
EnqueueSync ==
  /\ TracerAt("enqueue") /\ ~async
  /\ ApplyEvent(Head(pending))
  /\ pending' = <<>>
  /\ tracer' = "loop"
  /\ UNCHANGED <<accepted, queue, local, sessionVars, db_size_cache,
                 writer, life>>

(* Slip: > for >=. *)
QueueIsFullOffByOne == Len(queue) > MaxQueueEvents /\ ~stop_requested

QueueIsFull == Len(queue) >= MaxQueueEvents /\ ~stop_requested

EnqueueWait ==
  /\ TracerAt("enqueue") /\ async
  /\ QueueIsFull
  /\ tracer' = "wait_space"
  /\ UNCHANGED <<queueVars, sessionVars, batchVars, db_size_cache,
                 writer, db, failures, life>>

(* pthread_cond_signal(&cond_has_events_) *)
SignalHasEvents == writer' = IF writer = "wait_events" THEN "lock" ELSE writer

EnqueuePush ==
  /\ TracerAt("enqueue") /\ async
  /\ ~QueueIsFull
  /\ queue' = Append(queue, Head(pending))
  /\ pending' = <<>>
  /\ SignalHasEvents
  /\ tracer' = "loop"
  /\ UNCHANGED <<accepted, local, sessionVars, batchVars, db_size_cache,
                 db, failures, life>>

(* The traced tree is gone. *)
TreeGone ==
  /\ TracerAt("loop")
  /\ tracer' = "finalize"
  /\ UNCHANGED <<queueVars, sessionVars, batchVars, db_size_cache,
                 writer, db, failures, life>>

(* Slip: > for >=. *)
StopOnFatalErrorsLate ==
  /\ TracerAt("loop") /\ consecutive_errors > FatalErrors
  /\ tracer' = "finalize"
  /\ UNCHANGED <<queueVars, sessionVars, batchVars, db_size_cache,
                 writer, db, failures, life>>

(* "Too many consecutive DB write errors, stopping trace" *)
StopOnFatalErrors ==
  /\ TracerAt("loop") /\ HasFatalErrors
  /\ tracer' = "finalize"
  /\ UNCHANGED <<queueVars, sessionVars, batchVars, db_size_cache,
                 writer, db, failures, life>>

(* Slip: the broadcast after stop_requested_ is forgotten. *)
FinalizeStopSilent ==
  /\ TracerAt("finalize")
  /\ IF async THEN stop_requested' = TRUE /\ tracer' = "join"
              ELSE UNCHANGED stop_requested /\ tracer' = "commit"
  /\ UNCHANGED <<queueVars, async, finalized, batchVars, db_size_cache,
                 writer, db, failures, life>>

(* finalize(), called by the event loop and again by the destructor. *)
FinalizeStop ==
  /\ TracerAt("finalize")
  /\ IF async
       THEN /\ stop_requested' = TRUE
            /\ SignalHasEvents
            /\ tracer' = "join"
       ELSE /\ tracer' = "commit"
            /\ UNCHANGED <<stop_requested, writer>>
  /\ UNCHANGED <<queueVars, async, finalized, batchVars, db_size_cache,
                 db, failures, life>>

(* Slip: no pthread_join. *)
FinalizeNoJoin ==
  /\ TracerAt("join")
  /\ async' = FALSE
  /\ tracer' = "commit"
  /\ UNCHANGED <<queueVars, stop_requested, finalized, batchVars,
                 db_size_cache, writer, db, failures, life>>

FinalizeJoin ==
  /\ TracerAt("join") /\ writer = "exited"
  /\ async' = FALSE
  /\ tracer' = "commit"
  /\ UNCHANGED <<queueVars, stop_requested, finalized, batchVars,
                 db_size_cache, writer, db, failures, life>>

(* COMMIT what is open; its result is not looked at. *)
CommitOpenTransaction ==
  IF in_transaction
    THEN \E cf \in Failure({"commitBusy", "commitRollsBack"}) :
           /\ db' = CommitTransaction(db, cf)
           /\ in_transaction' = FALSE
           /\ Meet(cf)
    ELSE UNCHANGED <<db, in_transaction, failures>>

FinalizeCommit ==
  /\ TracerAt("commit")
  /\ CommitOpenTransaction
  /\ tracer' = "index"
  /\ UNCHANGED <<queueVars, sessionVars, event_count, total_event_count,
                 write_error_count, consecutive_errors, db_size_cache,
                 writer, life>>

FinalizeIndex ==
  /\ TracerAt("index") /\ ~finalized
  /\ finalized' = TRUE
  /\ \E ff \in Failure(FinishFaults) :
       db' = Finish(db, CreateIndexes(db), ff) /\ Meet(ff)
  /\ tracer' = "reset_counts"
  /\ UNCHANGED <<queueVars, async, stop_requested, batchVars, db_size_cache,
                 writer, life>>

(* populate_counts: three statements, each its own transaction; the first  *)
(* that fails is the last.  No one looks at the results of the two.        *)
PopulateStep(from, to, d) ==
  /\ TracerAt(from)
  /\ \E ff \in Failure(FinishFaults) :
       /\ db' = Finish(db, d, ff)
       /\ tracer' = IF ff = "none" THEN to ELSE "finalize"
       /\ Meet(ff)
  /\ UNCHANGED <<queueVars, sessionVars, batchVars, db_size_cache,
                 writer, life>>

PopulateCounts ==
  \/ PopulateStep("reset_counts", "file_counts", ResetCounts(db))
  \/ PopulateStep("file_counts", "fail_counts", CountFiles(db))
  \/ PopulateStep("fail_counts", "finalize", CountFails(db))

(* The second finalize() has nothing left to do; ~Database follows it. *)
Close ==
  /\ TracerAt("index") /\ finalized
  /\ db' = CloseDatabase(db)
  /\ tracer' = "closed"
  /\ UNCHANGED <<queueVars, sessionVars, batchVars, db_size_cache,
                 writer, failures, life>>

-----------------------------------------------------------------------------
(* The writer thread *)

(* Under mutex_: sleep, leave the loop, or take the whole queue and wake   *)
(* the tracer.                                                             *)
WriterWait ==
  /\ WriterAt("lock") /\ queue = <<>> /\ ~stop_requested
  /\ writer' = "wait_events"
  /\ UNCHANGED <<queueVars, sessionVars, batchVars, db_size_cache,
                 tracer, db, failures, life>>

(* Slip: the writer stops without draining the queue. *)
WriterStopEarly ==
  /\ WriterAt("lock") /\ stop_requested
  /\ writer' = "last_commit"
  /\ UNCHANGED <<queueVars, sessionVars, batchVars, db_size_cache,
                 tracer, db, failures, life>>

WriterStop ==
  /\ WriterAt("lock") /\ queue = <<>> /\ stop_requested
  /\ writer' = "last_commit"
  /\ UNCHANGED <<queueVars, sessionVars, batchVars, db_size_cache,
                 tracer, db, failures, life>>

(* Slips: a copy for the swap; no broadcast. *)
WriterCopies ==
  /\ WriterAt("lock") /\ queue # <<>>
  /\ local' = queue
  /\ tracer' = IF tracer = "wait_space" THEN "enqueue" ELSE tracer
  /\ writer' = "apply"
  /\ UNCHANGED <<accepted, pending, queue, sessionVars, batchVars,
                 db_size_cache, db, failures, life>>

WriterTakeSilent ==
  /\ WriterAt("lock") /\ queue # <<>>
  /\ local' = queue
  /\ queue' = <<>>
  /\ writer' = "apply"
  /\ UNCHANGED <<accepted, pending, sessionVars, batchVars, db_size_cache,
                 tracer, db, failures, life>>

WriterTake ==
  /\ WriterAt("lock") /\ queue # <<>>
  /\ local' = queue
  /\ queue' = <<>>
  /\ tracer' = IF tracer = "wait_space" THEN "enqueue" ELSE tracer
  /\ writer' = "apply"
  /\ UNCHANGED <<accepted, pending, sessionVars, batchVars, db_size_cache,
                 db, failures, life>>

(* Slip: the local deque is emptied from its back. *)
WriterApplyLast ==
  /\ WriterAt("apply") /\ local # <<>>
  /\ ApplyEvent(local[Len(local)])
  /\ local' = SubSeq(local, 1, Len(local) - 1)
  /\ UNCHANGED <<accepted, pending, queue, sessionVars, db_size_cache,
                 tracer, writer, life>>

WriterApply ==
  /\ WriterAt("apply") /\ local # <<>>
  /\ ApplyEvent(Head(local))
  /\ local' = Tail(local)
  /\ UNCHANGED <<accepted, pending, queue, sessionVars, db_size_cache,
                 tracer, writer, life>>

WriterDone ==
  /\ WriterAt("apply") /\ local = <<>>
  /\ writer' = "publish"
  /\ UNCHANGED <<queueVars, sessionVars, batchVars, db_size_cache,
                 tracer, db, failures, life>>

WriterPublish ==
  /\ WriterAt("publish")
  /\ db_size_cache' = IF in_transaction THEN db_size_cache
                                        ELSE Len(db.cur.rows)
  /\ writer' = "lock"
  /\ UNCHANGED <<queueVars, sessionVars, batchVars, tracer, db, failures, life>>

WriterLastCommit ==
  /\ WriterAt("last_commit")
  /\ CommitOpenTransaction
  /\ writer' = "exited"
  /\ UNCHANGED <<queueVars, sessionVars, event_count, total_event_count,
                 write_error_count, consecutive_errors, db_size_cache,
                 tracer, life>>

-----------------------------------------------------------------------------
(* The environment *)

(* pthread_cond_wait may return without a signal. *)
SpuriousWakeup ==
  \/ /\ TracerAt("wait_space") /\ tracer' = "enqueue"
     /\ UNCHANGED writer
     /\ UNCHANGED <<queueVars, sessionVars, batchVars, db_size_cache,
                    db, failures, life>>
  \/ /\ WriterAt("wait_events") /\ writer' = "lock"
     /\ UNCHANGED tracer
     /\ UNCHANGED <<queueVars, sessionVars, batchVars, db_size_cache,
                    db, failures, life>>

(* bdtrace dies; what is committed stays. *)
Kill ==
  /\ CanBeKilled /\ life = "running" /\ tracer # "closed"
  /\ life' = "killed"
  /\ db' = RollBack(db)
  /\ UNCHANGED <<queueVars, sessionVars, batchVars, db_size_cache,
                 tracer, writer, failures>>

Ended == life = "killed" \/ tracer = "closed"

(* The first viewer opens the database of a trace that has ended. *)
View ==
  /\ life # "viewed" /\ Ended
  /\ life' = "viewed"
  /\ db' = UpgradeSchema(db)
  /\ UNCHANGED <<queueVars, sessionVars, batchVars, db_size_cache,
                 tracer, writer, failures>>

(* Nothing is left to do. *)
Terminated == life = "viewed" /\ UNCHANGED vars

Next ==
  \/ \E kind \in Kinds, path \in Paths \cup {NoPath} : HandleEvent(kind, path)
  \/ EnqueueSync \/ EnqueueWait \/ EnqueuePush
  \/ TreeGone \/ StopOnFatalErrors
  \/ FinalizeStop \/ FinalizeJoin \/ FinalizeCommit \/ FinalizeIndex
  \/ PopulateCounts \/ Close
  \/ WriterWait \/ WriterStop \/ WriterTake \/ WriterApply
  \/ WriterDone \/ WriterPublish \/ WriterLastCommit
  \/ SpuriousWakeup
  \/ Kill \/ View
  \/ Terminated

Spec == Init /\ [][Next]_vars

(* Both threads are scheduled; waiting ends only with a signal.  Nothing   *)
(* obliges the traced programs to produce events or to end, the kernel to  *)
(* wake a waiting thread without a signal, or anyone to kill bdtrace.      *)
TracerStep ==
  \/ EnqueueSync \/ EnqueueWait \/ EnqueuePush \/ StopOnFatalErrors
  \/ FinalizeStop \/ FinalizeJoin \/ FinalizeCommit \/ FinalizeIndex
  \/ PopulateCounts \/ Close

WriterStep ==
  \/ WriterWait \/ WriterStop \/ WriterTake \/ WriterApply
  \/ WriterDone \/ WriterPublish \/ WriterLastCommit

FairSpec ==
  /\ Spec
  /\ WF_vars(TracerStep)
  /\ WF_vars(WriterStep)

-----------------------------------------------------------------------------
(* Properties *)

TypeOK ==
  /\ accepted \in Nat
  /\ pending \in Seq(Event) /\ queue \in Seq(Event) /\ local \in Seq(Event)
  /\ async \in BOOLEAN /\ stop_requested \in BOOLEAN /\ finalized \in BOOLEAN
  /\ in_transaction \in BOOLEAN
  /\ event_count \in Nat /\ total_event_count \in Nat
  /\ write_error_count \in Nat /\ consecutive_errors \in Nat
  /\ db_size_cache \in Nat
  /\ tracer \in TracerStates /\ writer \in WriterStates
  /\ db \in Connection
  /\ failures \in Nat
  /\ life \in {"running", "killed", "viewed"}

(* Events not yet applied: those before them are numbered 1 .. Applied. *)
Applied == accepted - Len(pending) - Len(queue) - Len(local)

(* The events in flight are exactly the last ones accepted, each once and  *)
(* in order, through the swap in writer_loop, the wait in enqueue and the  *)
(* drain after stop_requested_.                                            *)
FifoOrder ==
  /\ \A i \in DOMAIN local : local[i].id = Applied + i
  /\ \A i \in DOMAIN queue : queue[i].id = Applied + Len(local) + i
  /\ \A i \in DOMAIN pending :
       pending[i].id = Applied + Len(local) + Len(queue) + i

(* Rows appear in the order of the events, none twice, and what is         *)
(* committed is a prefix of what the connection sees: apply_event never    *)
(* overtakes, repeats or mixes batches.                                    *)
RowsInOrder ==
  LET rows == db.cur.rows
  IN  /\ \A i, j \in DOMAIN rows : i < j => rows[i].id < rows[j].id
      /\ \A i \in DOMAIN rows : rows[i].id <= Applied
      /\ Len(db.base.rows) <= Len(rows)
      /\ \A i \in DOMAIN db.base.rows : db.base.rows[i] = rows[i]

(* "Bound the event queue so a stalled disk cannot grow memory without     *)
(* limit" (trace_session.cpp:10): neither deque ever holds more than       *)
(* MAX_QUEUE_EVENTS, whatever the interleaving of waits and swaps.         *)
BoundedMemory ==
  /\ Len(queue) <= MaxQueueEvents
  /\ Len(local) <= MaxQueueEvents
  /\ Len(pending) <= 1

(* "a single thread owns db_ / transaction state / error counters at a     *)
(* time" (trace_session.cpp:140): sqlite is built with THREADSAFE=0, so    *)
(* the writer and the tracer must never both be where they call it.        *)
WriterUsesDb == writer \in {"apply", "publish", "last_commit"}
TracerUsesDb ==
  \/ tracer = "enqueue" /\ ~async
  \/ tracer \in {"commit", "index", "reset_counts", "file_counts",
                 "fail_counts", "closed"}

SingleOwner == ~(WriterUsesDb /\ TracerUsesDb)

(* A closed session that lost an event has counted an error, so that       *)
(* finalize() warns ("Trace completed with %d DB write errors").  An index *)
(* or a count that finalize() could not build is not counted: a viewer     *)
(* makes up for it (upgrade_schema), except for the fail_count.            *)
LossIsCounted ==
  tracer = "closed" /\ write_error_count = 0 =>
    /\ Len(db.base.rows) = accepted
    /\ failures = 0 \/ life = "viewed" =>
         /\ db.base.indexed
         /\ db.base.fileCount = CountKind(db.base, "access")
    /\ failures = 0 => db.base.failCount = CountKind(db.base, "failed")

(* Every file_id stored resolves in files to the path that was accessed,   *)
(* through the path->id cache of intern_path.                              *)
InternedIdsResolve ==
  \A i \in DOMAIN db.base.rows :
    LET row == db.base.rows[i]
    IN  row.path # NoPath =>
          /\ row.file \in DOMAIN db.base.files
          /\ db.base.files[row.file] = row.path

(* Once FatalErrors writes in a row have failed, the session writes no     *)
(* further row and takes no further event, and nothing clears the verdict. *)
FatalIsFinal ==
  [][HasFatalErrors =>
       /\ consecutive_errors' = consecutive_errors
       /\ Len(db'.cur.rows) <= Len(db.cur.rows)
       /\ accepted' = accepted]_vars

(* The tracer, asleep on a full queue, is woken. *)
BackpressureReleases ==
  tracer = "wait_space" ~> (tracer # "wait_space" \/ life # "running")

(* finalize() ends: the writer sees stop_requested_, drains and exits.     *)
FinalizeEnds == tracer = "finalize" ~> (tracer = "closed" \/ life # "running")

(* A trace whose database is broken stops by itself. *)
FatalErrorsEndTrace ==
  HasFatalErrors ~> (tracer = "closed" \/ life # "running")

(* The session implements the abstract log. *)
Log == INSTANCE EventLog WITH
         Lossy    <- Faults # {},
         written  <- [i \in DOMAIN db.base.rows |-> db.base.rows[i].id],
         phase    <- CASE life = "killed" -> "killed"
                       [] life = "viewed" /\ tracer # "closed" -> "killed"
                       [] tracer = "closed" -> "closed"
                       [] OTHER -> "tracing"

ImplementsEventLog == Log!Spec
=============================================================================
