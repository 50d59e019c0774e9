------------------------- MODULE WriterQueueProofs -------------------------
(***************************************************************************)
(* Proofs about the session, for every size of the queue and of the        *)
(* batches, every set of paths, any number of events and any failures of   *)
(* sqlite: the connection, the queue and the writer thread, what has been  *)
(* written and lost, and that the session implements EventLog.             *)
(*                                                                         *)
(* Two theorems hold for the failures they are meant for only, and say so: *)
(* a rollback leaves ids in intern_cache_ whose files rows are gone, and   *)
(* the result of a COMMIT is not looked at.                                *)
(***************************************************************************)
EXTENDS WriterQueue, FiniteSetTheorems, SequenceTheorems, TLAPS

-----------------------------------------------------------------------------
(* The connection.  The committed rows are a prefix of the rows it sees,   *)
(* whatever fails.                                                         *)

(* The counts of populate_counts are natural numbers. *)
LEMMA CountKindType ==
  ASSUME NEW content \in Content, NEW kind
  PROVE  CountKind(content, kind) \in Nat
<1> DEFINE hits == {i \in DOMAIN content.rows : content.rows[i].kind = kind}
<1>1. IsFiniteSet(1 .. Len(content.rows))
  BY FS_Interval DEF Content
<1>2. hits \subseteq 1 .. Len(content.rows)
  BY DEF Content
<1>3. IsFiniteSet(hits)
  BY <1>1, <1>2, FS_Subset
<1> QED BY <1>3, FS_CardinalityType DEF CountKind

LEMMA RowCountType ==
  ASSUME NEW content \in Content
  PROVE  Len(content.rows) \in Nat
BY DEF Content

LEMMA GrowthType ==
  ASSUME NEW a \in Int, NEW b \in Nat, NEW c \in Nat
  PROVE  a + (b - c) \in Int
OBVIOUS

LEMMA ConnectionFields ==
  ASSUME NEW d \in Connection
  PROVE  d.base \in Content /\ d.cur \in Content /\ d.walRows \in Int
BY DEF Connection

(* Each call keeps the connection well formed, whether or not it fails. *)
LEMMA StatementType ==
  ASSUME NEW d \in Connection, NEW content \in Content
  PROVE  Statement(d, content) \in Connection
<1>1. d.base \in Content /\ d.walRows \in Int
  BY ConnectionFields
<1>2. Len(content.rows) \in Nat /\ Len(d.base.rows) \in Nat
  BY <1>1, RowCountType
<1>3. d.walRows + (Len(content.rows) - Len(d.base.rows)) \in Int
  BY <1>1, <1>2, GrowthType, Zenon
<1> QED BY <1>3 DEF Statement, Connection

LEMMA RollBackType ==
  ASSUME NEW d \in Connection
  PROVE  RollBack(d) \in Connection
BY DEF RollBack, Connection

LEMMA BeginTransactionType ==
  ASSUME NEW d \in Connection
  PROVE  BeginTransaction(d) \in Connection
BY DEF BeginTransaction, Connection

LEMMA WalCheckpointType ==
  ASSUME NEW d \in Connection
  PROVE  WalCheckpoint(d) \in Connection
BY DEF WalCheckpoint, Connection

LEMMA CommitTransactionType ==
  ASSUME NEW d \in Connection, NEW fault
  PROVE  CommitTransaction(d, fault) \in Connection
<1>1. d.base \in Content /\ d.cur \in Content /\ d.walRows \in Int
  BY ConnectionFields
<1>2. Len(d.cur.rows) \in Nat /\ Len(d.base.rows) \in Nat
  BY <1>1, RowCountType
<1>3. d.walRows + (Len(d.cur.rows) - Len(d.base.rows)) \in Int
  BY <1>1, <1>2, GrowthType, Zenon
<1>4. [d EXCEPT !.tx = FALSE, !.base = d.cur,
                !.walRows = @ + (Len(d.cur.rows) - Len(d.base.rows))] \in Connection
  BY <1>1, <1>3 DEF Connection
<1> QED BY <1>4, RollBackType DEF CommitTransaction

(* intern_path leaves a file_id in the cache, and the path in files. *)
LEMMA InternPathType ==
  ASSUME NEW d \in Connection, NEW p \in Paths \cup {NoPath}
  PROVE  InternPath(d, p) \in Connection
<1>1. CASE IsCached(d, p)
  BY <1>1 DEF InternPath
<1>2. CASE ~IsCached(d, p)
  <2>1. p \in Paths
    BY <1>2 DEF IsCached
  <2>2. d.cur \in Content
    BY ConnectionFields
  <2>3. WithFile(d.cur, p) \in Content
    <3>1. d.cur.files \in Seq(Paths)
      BY <2>2 DEF Content
    <3>2. Append(d.cur.files, p) \in Seq(Paths)
      BY <2>1, <3>1
    <3>3. [d.cur EXCEPT !.files = Append(@, p)] \in Content
      BY <2>2, <3>2 DEF Content
    <3> QED BY <2>2, <3>3 DEF WithFile
  <2>4. FileId(d.cur, p) \in Nat
    BY <2>2 DEF FileId, Content
  <2>5. Statement(d, WithFile(d.cur, p)) \in Connection
    BY <2>3, StatementType
  <2> QED BY <1>2, <2>1, <2>4, <2>5 DEF InternPath, Connection
<1> QED BY <1>1, <1>2

LEMMA AddRowType ==
  ASSUME NEW d \in Connection, NEW e \in Event
  PROVE  AddRow(d, e) \in Connection
<1> DEFINE row == [id |-> e.id, kind |-> e.kind, path |-> e.path,
                   file |-> CachedId(d, e.path)]
<1>1. CachedId(d, e.path) \in Nat
  BY DEF CachedId, Connection, Event
<1>2. row \in Row
  BY <1>1 DEF Row, Event
<1>3. d.cur \in Content
  BY ConnectionFields
<1> HIDE DEF row
<1>4. d.cur.rows \in Seq(Row)
  BY <1>3 DEF Content
<1>5. Append(d.cur.rows, row) \in Seq(Row)
  BY <1>2, <1>4
<1>6. [d.cur EXCEPT !.rows = Append(@, row)] \in Content
  BY <1>3, <1>5 DEF Content
<1> QED BY <1>6, StatementType DEF AddRow, row

LEMMA WriteEventType ==
  ASSUME NEW d \in Connection, NEW e \in Event, NEW fault
  PROVE  WriteEvent(d, e, fault) \in Connection
<1>1. e.path \in Paths \cup {NoPath}
  BY DEF Event
<1>2. InternPath(d, e.path) \in Connection
  BY <1>1, InternPathType
<1> QED BY <1>2, RollBackType, AddRowType DEF WriteEvent

LEMMA FinishType ==
  ASSUME NEW d \in Connection
  PROVE  /\ CreateIndexes(d) \in Connection
         /\ ResetCounts(d) \in Connection
         /\ CountFiles(d) \in Connection
         /\ CountFails(d) \in Connection
         /\ CloseDatabase(d) \in Connection
<1>1. d.cur \in Content
  BY ConnectionFields
<1>2. /\ [d.cur EXCEPT !.indexed = TRUE] \in Content
      /\ [d.cur EXCEPT !.fileCount = 0, !.failCount = 0] \in Content
      /\ [d.cur EXCEPT !.fileCount = CountKind(d.cur, "access")] \in Content
      /\ [d.cur EXCEPT !.failCount = CountKind(d.cur, "failed")] \in Content
  BY <1>1, CountKindType DEF Content
<1> QED BY <1>2, StatementType, RollBackType
        DEF CreateIndexes, ResetCounts, CountFiles, CountFails, CloseDatabase

LEMMA UpgradeSchemaType ==
  ASSUME NEW d \in Connection
  PROVE  UpgradeSchema(d) \in Connection
BY FinishType DEF UpgradeSchema

(* A step of finalize() that builds an index or counts, or fails to. *)
Finished(from, to, d) ==
  /\ tracer = from /\ life = "running"
  /\ \/ db' = d /\ tracer' = to /\ failures' = failures
     \/ db' \in {db, RollBack(db)} /\ failures' = failures + 1
        /\ tracer' \in {to, "finalize"}

LEMMA FinalizeIndexIs ==
  ASSUME FinalizeIndex
  PROVE  Finished("index", "reset_counts", CreateIndexes(db))
<1>1. PICK ff \in Failure(FinishFaults) :
        db' = Finish(db, CreateIndexes(db), ff) /\ Meet(ff)
  BY DEF FinalizeIndex
<1>2. IF ff = "none" THEN db' = CreateIndexes(db) ELSE db' \in {db, RollBack(db)}
  BY <1>1 DEF Finish, Failure, FinishFaults
<1>3. failures' = IF ff = "none" THEN failures ELSE failures + 1
  BY <1>1 DEF Meet
<1> QED BY <1>2, <1>3 DEF FinalizeIndex, TracerAt, Finished

LEMMA PopulateStepIs ==
  ASSUME NEW from, NEW to, NEW d, PopulateStep(from, to, d)
  PROVE  Finished(from, to, d)
<1>1. PICK ff \in Failure(FinishFaults) :
        /\ db' = Finish(db, d, ff) /\ Meet(ff)
        /\ tracer' = IF ff = "none" THEN to ELSE "finalize"
  BY DEF PopulateStep
<1>2. IF ff = "none" THEN db' = d ELSE db' \in {db, RollBack(db)}
  BY <1>1 DEF Finish, Failure, FinishFaults
<1>3. failures' = IF ff = "none" THEN failures ELSE failures + 1
  BY <1>1 DEF Meet
<1> QED BY <1>1, <1>2, <1>3 DEF PopulateStep, TracerAt, Finished

LEMMA FinishIs ==
  ASSUME FinalizeIndex \/ PopulateCounts
  PROVE  /\ db' \in {CreateIndexes(db), ResetCounts(db), CountFiles(db),
                     CountFails(db), db, RollBack(db)}
         /\ failures' \in {failures, failures + 1}
         /\ life = "running"
         /\ tracer \in {"index", "reset_counts", "file_counts", "fail_counts"}
         /\ tracer' \in {"reset_counts", "file_counts", "fail_counts", "finalize"}
BY FinalizeIndexIs, PopulateStepIs DEF PopulateCounts, Finished

LEMMA OpenDatabaseType == OpenDatabase \in Connection
BY DEF OpenDatabase, EmptyContent, Connection, Content
-----------------------------------------------------------------------------
(* The order of the rows.  InOrder(b, c, n): rows b are committed, rows c  *)
(* are visible, and c holds events up to number n in their order.          *)
InOrder(b, c, n) ==
  /\ \A i, j \in DOMAIN c : i < j => c[i].id < c[j].id
  /\ \A i \in DOMAIN c : c[i].id <= n
  /\ Len(b) <= Len(c)
  /\ \A i \in DOMAIN b : b[i] = c[i]

ConnectionInOrder(d, n) == InOrder(d.base.rows, d.cur.rows, n)

(* A prefix of rows in order is in order, and is a prefix of itself.       *)
LEMMA PrefixInOrder ==
  ASSUME NEW b \in Seq(Row), NEW c \in Seq(Row), NEW n \in Nat, InOrder(b, c, n)
  PROVE  InOrder(b, b, n) /\ InOrder(c, c, n)
<1>1. DOMAIN b \subseteq DOMAIN c
  BY DEF InOrder
<1> QED BY <1>1 DEF InOrder

LEMMA RowIdType ==
  ASSUME NEW c \in Seq(Row), NEW i \in DOMAIN c
  PROVE  c[i].id \in Nat
<1>1. c[i] \in Row
  OBVIOUS
<1> QED BY <1>1 DEF Row

(* The next event's row keeps the order. *)
LEMMA AppendInOrder ==
  ASSUME NEW b \in Seq(Row), NEW c \in Seq(Row), NEW n \in Nat, InOrder(b, c, n),
         NEW row \in Row, row.id = n + 1
  PROVE  InOrder(b, Append(c, row), n + 1)
<1> DEFINE a == Append(c, row)
<1>1. /\ Len(a) = Len(c) + 1 /\ DOMAIN a = 1 .. Len(c) + 1
      /\ a[Len(c) + 1] = row
      /\ \A i \in DOMAIN c : a[i] = c[i]
  OBVIOUS
<1>2. DOMAIN c = 1 .. Len(c) /\ Len(c) \in Nat
      /\ DOMAIN b = 1 .. Len(b) /\ Len(b) \in Nat
  OBVIOUS
<1> HIDE DEF a
<1>3. \A i, j \in DOMAIN a : i < j => a[i].id < a[j].id
  <2> SUFFICES ASSUME NEW i \in DOMAIN a, NEW j \in DOMAIN a, i < j
               PROVE  a[i].id < a[j].id
    OBVIOUS
  <2>1. i \in DOMAIN c
    BY <1>1, <1>2
  <2>2. c[i].id \in Nat /\ c[i].id <= n
    BY <2>1, RowIdType DEF InOrder
  <2>3. CASE j \in DOMAIN c
    BY <1>1, <2>1, <2>3 DEF InOrder
  <2>4. CASE j = Len(c) + 1
    BY <1>1, <2>1, <2>2, <2>4
  <2> QED BY <1>1, <1>2, <2>3, <2>4
<1>4. \A i \in DOMAIN a : a[i].id <= n + 1
  <2> SUFFICES ASSUME NEW i \in DOMAIN a PROVE a[i].id <= n + 1
    OBVIOUS
  <2>1. CASE i \in DOMAIN c
    BY <1>1, <2>1, RowIdType DEF InOrder
  <2>2. CASE i = Len(c) + 1
    BY <1>1, <2>2
  <2> QED BY <1>1, <1>2, <2>1, <2>2
<1>5. Len(b) <= Len(a) /\ \A i \in DOMAIN b : b[i] = a[i]
  <2>1. DOMAIN b \subseteq DOMAIN c
    BY <1>2 DEF InOrder
  <2> QED BY <1>1, <1>2, <2>1 DEF InOrder
<1> QED BY <1>3, <1>4, <1>5 DEF InOrder, a

LEMMA LaterInOrder ==
  ASSUME NEW b \in Seq(Row), NEW c \in Seq(Row), NEW n \in Nat, InOrder(b, c, n)
  PROVE  InOrder(b, c, n + 1)
<1>1. \A i \in DOMAIN c : c[i].id <= n + 1
  BY RowIdType DEF InOrder
<1> QED BY <1>1 DEF InOrder

LEMMA RowsType ==
  ASSUME NEW d \in Connection
  PROVE  d.base.rows \in Seq(Row) /\ d.cur.rows \in Seq(Row)
BY DEF Connection, Content

(* What each call does to the two row sequences. *)
LEMMA StatementRows ==
  ASSUME NEW d \in Connection, NEW content
  PROVE  /\ Statement(d, content).cur = content
         /\ Statement(d, content).base \in {d.base, content}
BY DEF Statement, Connection

LEMMA RollBackRows ==
  ASSUME NEW d \in Connection
  PROVE  RollBack(d).cur = d.base /\ RollBack(d).base = d.base
BY DEF RollBack, Connection

LEMMA TransactionRows ==
  ASSUME NEW d \in Connection, NEW fault
  PROVE  /\ BeginTransaction(d).cur = d.cur /\ BeginTransaction(d).base = d.base
         /\ WalCheckpoint(d).cur = d.cur /\ WalCheckpoint(d).base = d.base
         /\ LET c == CommitTransaction(d, fault)
            IN  \/ c.cur = d.base /\ c.base = d.base
                \/ c.cur = d.cur /\ c.base \in {d.base, d.cur}
BY DEF BeginTransaction, WalCheckpoint, CommitTransaction, RollBack, Connection

(* A statement that does not touch the rows. *)
LEMMA StatementInOrder ==
  ASSUME NEW d \in Connection, NEW n \in Nat, ConnectionInOrder(d, n),
         NEW content, content.rows = d.cur.rows
  PROVE  ConnectionInOrder(Statement(d, content), n)
<1>1. InOrder(d.cur.rows, d.cur.rows, n)
  BY RowsType, PrefixInOrder DEF ConnectionInOrder
<1> QED BY <1>1, StatementRows DEF ConnectionInOrder

LEMMA RollBackInOrder ==
  ASSUME NEW d \in Connection, NEW n \in Nat, ConnectionInOrder(d, n)
  PROVE  ConnectionInOrder(RollBack(d), n)
BY RollBackRows, RowsType, PrefixInOrder DEF ConnectionInOrder

LEMMA TransactionInOrder ==
  ASSUME NEW d \in Connection, NEW n \in Nat, ConnectionInOrder(d, n), NEW fault
  PROVE  /\ ConnectionInOrder(BeginTransaction(d), n)
         /\ ConnectionInOrder(WalCheckpoint(d), n)
         /\ ConnectionInOrder(CommitTransaction(d, fault), n)
<1>1. InOrder(d.base.rows, d.base.rows, n) /\ InOrder(d.cur.rows, d.cur.rows, n)
  BY RowsType, PrefixInOrder DEF ConnectionInOrder
<1> QED BY <1>1, TransactionRows DEF ConnectionInOrder

LEMMA InternPathInOrder ==
  ASSUME NEW d \in Connection, NEW n \in Nat, ConnectionInOrder(d, n),
         NEW p \in Paths \cup {NoPath}
  PROVE  ConnectionInOrder(InternPath(d, p), n)
<1> DEFINE after == Statement(d, WithFile(d.cur, p))
<1>1. CASE IsCached(d, p)
  BY <1>1 DEF InternPath
<1>2. CASE ~IsCached(d, p)
  <2>1. d.cur \in Content
    BY ConnectionFields
  <2>2. WithFile(d.cur, p).rows = d.cur.rows
    BY <2>1 DEF WithFile, Content
  <2>3. ConnectionInOrder(after, n)
    BY <2>2, StatementInOrder
  <2>4. InternPath(d, p) = [after EXCEPT !.cache[p] = FileId(d.cur, p)]
    BY <1>2 DEF InternPath
  <2>5. InternPath(d, p).cur = after.cur /\ InternPath(d, p).base = after.base
    BY <2>4 DEF Statement, Connection
  <2> QED BY <2>3, <2>5 DEF ConnectionInOrder
<1> QED BY <1>1, <1>2

LEMMA AddRowInOrder ==
  ASSUME NEW d \in Connection, NEW n \in Nat, ConnectionInOrder(d, n),
         NEW e \in Event, e.id = n + 1
  PROVE  ConnectionInOrder(AddRow(d, e), n + 1)
<1> DEFINE row == [id |-> e.id, kind |-> e.kind, path |-> e.path,
                   file |-> CachedId(d, e.path)]
           content == [d.cur EXCEPT !.rows = Append(@, row)]
<1>1. row \in Row /\ row.id = n + 1
  BY DEF CachedId, Connection, Event, Row
<1>2. d.cur \in Content
  BY ConnectionFields
<1>3. AddRow(d, e) = Statement(d, content)
  BY DEF AddRow
<1> HIDE DEF row
<1>4. content.rows = Append(d.cur.rows, row)
  BY <1>2 DEF Content
<1> HIDE DEF content
<1>5. InOrder(d.base.rows, content.rows, n + 1)
  BY <1>1, <1>4, RowsType, AppendInOrder DEF ConnectionInOrder
<1>6. InOrder(content.rows, content.rows, n + 1)
  <2>1. content.rows \in Seq(Row)
    BY <1>1, <1>4, RowsType
  <2> QED BY <1>5, <2>1, RowsType, PrefixInOrder
<1> QED BY <1>3, <1>5, <1>6, StatementRows DEF ConnectionInOrder

(* Event n + 1, written after events up to n, whatever fails. *)
LEMMA WriteEventInOrder ==
  ASSUME NEW d \in Connection, NEW n \in Nat, ConnectionInOrder(d, n),
         NEW e \in Event, e.id = n + 1, NEW fault
  PROVE  ConnectionInOrder(WriteEvent(d, e, fault), n + 1)
<1> DEFINE interned == InternPath(d, e.path)
<1>1. e.path \in Paths \cup {NoPath}
  BY DEF Event
<1>2. interned \in Connection /\ ConnectionInOrder(interned, n)
  BY <1>1, InternPathType, InternPathInOrder
<1>3. ConnectionInOrder(AddRow(interned, e), n + 1)
  BY <1>2, AddRowInOrder
<1>4. /\ ConnectionInOrder(RollBack(d), n) /\ ConnectionInOrder(RollBack(interned), n)
      /\ RollBack(d) \in Connection /\ RollBack(interned) \in Connection
  BY <1>2, RollBackInOrder, RollBackType
<1> HIDE DEF interned
<1>5. \A c \in Connection : ConnectionInOrder(c, n) => ConnectionInOrder(c, n + 1)
  BY RowsType, LaterInOrder DEF ConnectionInOrder
<1> QED BY <1>2, <1>3, <1>4, <1>5 DEF WriteEvent, interned

(* Indexes, counts and the repair leave the rows alone. *)
LEMMA FinishInOrder ==
  ASSUME NEW d \in Connection, NEW n \in Nat, ConnectionInOrder(d, n)
  PROVE  /\ ConnectionInOrder(CreateIndexes(d), n)
         /\ ConnectionInOrder(ResetCounts(d), n)
         /\ ConnectionInOrder(CountFiles(d), n)
         /\ ConnectionInOrder(CountFails(d), n)
         /\ ConnectionInOrder(CloseDatabase(d), n)
<1>1. d.cur \in Content
  BY ConnectionFields
<1>2. \A file, fail :
        /\ [d.cur EXCEPT !.indexed = TRUE].rows = d.cur.rows
        /\ [d.cur EXCEPT !.fileCount = file, !.failCount = fail].rows = d.cur.rows
        /\ [d.cur EXCEPT !.fileCount = file].rows = d.cur.rows
        /\ [d.cur EXCEPT !.failCount = fail].rows = d.cur.rows
  BY <1>1 DEF Content
<1> QED BY <1>2, StatementInOrder, RollBackInOrder
        DEF CreateIndexes, ResetCounts, CountFiles, CountFails, CloseDatabase

LEMMA UpgradeSchemaInOrder ==
  ASSUME NEW d \in Connection, NEW n \in Nat, ConnectionInOrder(d, n)
  PROVE  ConnectionInOrder(UpgradeSchema(d), n)
BY FinishType, FinishInOrder DEF UpgradeSchema

(* Nothing but a write adds a row. *)
LEMMA NoRowAdded ==
  ASSUME NEW d \in Connection, NEW n \in Nat, ConnectionInOrder(d, n), NEW fault
  PROVE  /\ Len(RollBack(d).cur.rows) <= Len(d.cur.rows)
         /\ Len(CommitTransaction(d, fault).cur.rows) <= Len(d.cur.rows)
         /\ Len(CreateIndexes(d).cur.rows) = Len(d.cur.rows)
         /\ Len(ResetCounts(d).cur.rows) = Len(d.cur.rows)
         /\ Len(CountFiles(d).cur.rows) = Len(d.cur.rows)
         /\ Len(CountFails(d).cur.rows) = Len(d.cur.rows)
<1>1. Len(d.base.rows) <= Len(d.cur.rows) /\ Len(d.cur.rows) \in Nat
  BY RowsType DEF ConnectionInOrder, InOrder
<1>2. d.cur \in Content
  BY ConnectionFields
<1>3. \A n1, n2 :
        /\ [d.cur EXCEPT !.indexed = TRUE].rows = d.cur.rows
        /\ [d.cur EXCEPT !.fileCount = n1, !.failCount = n2].rows = d.cur.rows
        /\ [d.cur EXCEPT !.fileCount = n1].rows = d.cur.rows
        /\ [d.cur EXCEPT !.failCount = n1].rows = d.cur.rows
  BY <1>2 DEF Content
<1>4. /\ CreateIndexes(d).cur.rows = d.cur.rows
      /\ ResetCounts(d).cur.rows = d.cur.rows
      /\ CountFiles(d).cur.rows = d.cur.rows
      /\ CountFails(d).cur.rows = d.cur.rows
  <2>1. /\ CreateIndexes(d).cur = [d.cur EXCEPT !.indexed = TRUE]
        /\ ResetCounts(d).cur = [d.cur EXCEPT !.fileCount = 0, !.failCount = 0]
        /\ CountFiles(d).cur =
             [d.cur EXCEPT !.fileCount = CountKind(d.cur, "access")]
        /\ CountFails(d).cur =
             [d.cur EXCEPT !.failCount = CountKind(d.cur, "failed")]
    BY StatementRows, Zenon
       DEF CreateIndexes, ResetCounts, CountFiles, CountFails
  <2>2. ResetCounts(d).cur.rows = d.cur.rows
    BY <1>3, <2>1
  <2>3. CreateIndexes(d).cur.rows = d.cur.rows
    BY <1>3, <2>1
  <2>4. CountFiles(d).cur.rows = d.cur.rows
    BY <1>3, <2>1
  <2>5. CountFails(d).cur.rows = d.cur.rows
    BY <1>3, <2>1
  <2> QED BY <2>2, <2>3, <2>4, <2>5
<1>5. /\ RollBack(d).cur = d.base
      /\ CommitTransaction(d, fault).cur \in {d.base, d.cur}
  BY RollBackRows, TransactionRows
<1>6. /\ Len(RollBack(d).cur.rows) <= Len(d.cur.rows)
      /\ Len(CommitTransaction(d, fault).cur.rows) <= Len(d.cur.rows)
  BY <1>1, <1>5
<1> QED BY <1>4, <1>6

LEMMA UpgradeAddsNoRow ==
  ASSUME NEW d \in Connection, NEW n \in Nat, ConnectionInOrder(d, n)
  PROVE  Len(UpgradeSchema(d).cur.rows) = Len(d.cur.rows)
<1> DEFINE d1 == CreateIndexes(d)
           d2 == ResetCounts(d1)
           d3 == CountFiles(d2)
<1>1. d1 \in Connection /\ ConnectionInOrder(d1, n) /\ Len(d1.cur.rows) = Len(d.cur.rows)
  BY FinishType, FinishInOrder, NoRowAdded
<1>2. d2 \in Connection /\ ConnectionInOrder(d2, n) /\ Len(d2.cur.rows) = Len(d.cur.rows)
  BY <1>1, FinishType, FinishInOrder, NoRowAdded
<1>3. d3 \in Connection /\ ConnectionInOrder(d3, n) /\ Len(d3.cur.rows) = Len(d.cur.rows)
  BY <1>2, FinishType, FinishInOrder, NoRowAdded
<1>4. Len(CountFails(d3).cur.rows) = Len(d.cur.rows)
  BY <1>3, NoRowAdded
<1> QED BY <1>1, <1>4, Zenon DEF UpgradeSchema

-----------------------------------------------------------------------------
(* Type correctness *)

BatchTypeOK ==
  /\ in_transaction \in BOOLEAN
  /\ event_count \in Nat /\ total_event_count \in Nat
  /\ write_error_count \in Nat /\ consecutive_errors \in Nat
  /\ db \in Connection
  /\ failures \in Nat

(* apply_event keeps the connection, the batch and the error counters well *)
(* formed whichever of its calls fails.                                    *)
LEMMA ApplyEventType ==
  ASSUME BatchTypeOK, NEW e \in Event, ApplyEvent(e)
  PROVE  BatchTypeOK'
<1>1. CASE HasFatalErrors
  BY <1>1 DEF ApplyEvent, BatchTypeOK, batchVars
<1>2. CASE ~HasFatalErrors
  <2> DEFINE d == IF in_transaction THEN db ELSE BeginTransaction(db)
  <2>1. PICK wf \in Failure(WriteFaults),
             cf \in Failure({"commitBusy", "commitRollsBack"}) :
           /\ CheckWriteResult(wf = "none")
           /\ MaybeCommit(WriteEvent(d, e, wf), cf)
           /\ Meet(IF wf = "none" THEN cf ELSE wf)
    BY <1>2 DEF ApplyEvent
  <2>2. WriteEvent(d, e, wf) \in Connection
    <3>1. d \in Connection
      BY BeginTransactionType DEF BatchTypeOK
    <3> QED BY <3>1, WriteEventType
  <2> DEFINE after == WriteEvent(d, e, wf)
  <2> HIDE DEF d, after
  <2>3. after \in Connection
    BY <2>2 DEF after
  <2>4. CommitTransaction(after, cf) \in Connection
    BY <2>3, CommitTransactionType
  <2>5. WalCheckpoint(CommitTransaction(after, cf)) \in Connection
    BY <2>4, WalCheckpointType
  <2>6. MaybeCommit(after, cf)
    BY <2>1 DEF after
  <2>7. /\ in_transaction' \in BOOLEAN
        /\ event_count' \in Nat /\ total_event_count' \in Nat
    <3>1. CASE event_count + 1 >= BatchSize
      <4>1. /\ in_transaction' = FALSE /\ event_count' = 0
            /\ total_event_count' = total_event_count + event_count + 1
        BY <2>6, <3>1, Zenon DEF MaybeCommit
      <4>2. total_event_count \in Nat /\ event_count \in Nat
        BY DEF BatchTypeOK
      <4>3. total_event_count + event_count + 1 \in Nat
        BY <4>2
      <4> QED BY <4>1, <4>3
    <3>2. CASE ~(event_count + 1 >= BatchSize)
      BY <2>6, <3>2 DEF MaybeCommit, BatchTypeOK
    <3> QED BY <3>1, <3>2
  <2>8. db' \in Connection
    BY <2>3, <2>4, <2>5, <2>6 DEF MaybeCommit
  <2>9. write_error_count' \in Nat /\ consecutive_errors' \in Nat
    BY <2>1 DEF CheckWriteResult, BatchTypeOK
  <2>10. failures' \in Nat
    BY <2>1 DEF Meet, BatchTypeOK
  <2> QED BY <2>7, <2>8, <2>9, <2>10 DEF BatchTypeOK
<1> QED BY <1>1, <1>2

(* The COMMIT at the end of writer_loop and of finalize. *)
LEMMA CommitOpenTransactionType ==
  ASSUME BatchTypeOK, CommitOpenTransaction,
         UNCHANGED <<event_count, total_event_count, write_error_count,
                     consecutive_errors>>
  PROVE  BatchTypeOK'
<1>1. CASE in_transaction
  <2>1. PICK cf \in Failure({"commitBusy", "commitRollsBack"}) :
           /\ db' = CommitTransaction(db, cf)
           /\ in_transaction' = FALSE
           /\ Meet(cf)
    BY <1>1 DEF CommitOpenTransaction
  <2>2. db' \in Connection
    BY <2>1, CommitTransactionType DEF BatchTypeOK
  <2>3. failures' \in Nat
    BY <2>1 DEF Meet, BatchTypeOK
  <2> QED BY <2>1, <2>2, <2>3 DEF BatchTypeOK
<1>2. CASE ~in_transaction
  BY <1>2 DEF CommitOpenTransaction, BatchTypeOK
<1> QED BY <1>1, <1>2

-----------------------------------------------------------------------------
(* The inductive invariant: where the two threads are, and what each place *)
(* says about the queue.                                                   *)

Phases ==
  /\ tracer \in {"enqueue", "wait_space"} <=> pending # <<>>
  /\ tracer \in {"loop", "enqueue", "wait_space"} => ~stop_requested
  /\ tracer = "join" => async /\ stop_requested
  /\ TracerUsesDb => ~async
  /\ ~async => writer \in {"none", "exited"}
  /\ async => writer # "none"
  /\ writer \in {"last_commit", "exited"} => stop_requested /\ queue = <<>>
  /\ writer = "none" => queue = <<>>
  /\ writer # "apply" => local = <<>>

Inv == TypeOK /\ Phases /\ FifoOrder /\ BoundedMemory

LEMMA InitInv == Init => Inv
<1> SUFFICES ASSUME Init PROVE Inv
  OBVIOUS
<1>1. TypeOK
  <2>1. db \in Connection
    BY OpenDatabaseType DEF Init
  <2>2. <<>> \in Seq(Event)
    OBVIOUS
  <2>3. writer \in WriterStates
    BY DEF Init, WriterStates
  <2> QED BY <2>1, <2>2, <2>3 DEF Init, TypeOK, TracerStates
<1>2. Phases
  BY DEF Init, Phases, TracerUsesDb
<1>3. FifoOrder /\ BoundedMemory
  BY QueueAssumption DEF Init, FifoOrder, BoundedMemory
<1> QED BY <1>1, <1>2, <1>3 DEF Inv

(* The tracer side: what it hands over is one event, the last accepted.    *)
LEMMA HandleEventInv ==
  ASSUME Inv, NEW kind \in Kinds, NEW path \in Paths \cup {NoPath},
         HandleEvent(kind, path)
  PROVE  Inv'
<1> DEFINE e == [id |-> accepted + 1, kind |-> kind, path |-> path]
<1>1. e \in Event /\ e.id = accepted + 1
  BY QueueAssumption DEF Event, Inv, TypeOK
<1>2. pending' = <<e>>
  BY DEF HandleEvent
<1> HIDE DEF e
<1>3. pending = <<>>
  BY DEF Inv, Phases, HandleEvent, TracerAt
<1>4. /\ pending' \in Seq(Event)
      /\ Len(pending') = 1
      /\ DOMAIN pending' = 1 .. 1
      /\ pending'[1] = e
  BY <1>1, <1>2
<1>5. TypeOK'
  BY <1>4 DEF HandleEvent, Inv, TypeOK, sessionVars, batchVars, TracerStates
<1>6. Phases'
  BY <1>4 DEF HandleEvent, Inv, Phases, TracerUsesDb, TracerAt, sessionVars
<1>7. Applied' = Applied
  BY <1>3, <1>4 DEF HandleEvent, Applied, Inv, TypeOK
<1>8. FifoOrder' /\ BoundedMemory'
  BY <1>1, <1>3, <1>4, <1>7
     DEF HandleEvent, FifoOrder, BoundedMemory, Inv, TypeOK, Applied
<1> QED BY <1>5, <1>6, <1>8 DEF Inv

(* Applying an event in the tracer thread: no writer, so nothing is        *)
(* queued and the event is the next one to apply.                          *)
LEMMA EnqueueSyncInv ==
  ASSUME Inv, EnqueueSync
  PROVE  Inv'
<1>1. /\ pending \in Seq(Event) /\ pending # <<>>
      /\ queue = <<>> /\ local = <<>>
  BY DEF Inv, TypeOK, Phases, EnqueueSync, TracerAt
<1>2. Head(pending) \in Event
  BY <1>1
<1>3. BatchTypeOK'
  BY <1>2, ApplyEventType DEF EnqueueSync, Inv, TypeOK, BatchTypeOK
<1>4. TypeOK'
  BY <1>3 DEF EnqueueSync, Inv, TypeOK, BatchTypeOK, sessionVars, TracerStates
<1>5. Phases'
  BY DEF EnqueueSync, Inv, Phases, TracerUsesDb, TracerAt, sessionVars
<1>6. FifoOrder' /\ BoundedMemory'
  BY <1>1 DEF EnqueueSync, FifoOrder, BoundedMemory, Applied, Inv, TypeOK
<1> QED BY <1>4, <1>5, <1>6 DEF Inv

(* enqueue() holds one event at a time. *)
LEMMA OnePending ==
  ASSUME Inv, pending # <<>>
  PROVE  /\ pending \in Seq(Event) /\ Len(pending) = 1
         /\ Head(pending) \in Event /\ Head(pending) = pending[1]
<1>1. pending \in Seq(Event) /\ Len(pending) <= 1
  BY DEF Inv, TypeOK, BoundedMemory
<1>2. Len(pending) \in Nat \ {0}
  BY <1>1, EmptySeq, Zenon
<1>3. \A n \in Nat \ {0} : n <= 1 => n = 1
  OBVIOUS
<1>4. Len(pending) = 1
  BY <1>1, <1>2, <1>3, Zenon
<1> QED BY <1>1, <1>4

(* Pushing happens below the bound, because stop_requested_ is set only by *)
(* the tracer thread itself and only outside the loop.                     *)
LEMMA EnqueuePushInv ==
  ASSUME Inv, EnqueuePush
  PROVE  Inv'
<1>1. /\ pending \in Seq(Event) /\ Len(pending) = 1
      /\ queue \in Seq(Event) /\ local \in Seq(Event)
      /\ accepted \in Nat
  <2>1. pending # <<>>
    BY DEF Inv, Phases, EnqueuePush, TracerAt
  <2> QED BY <2>1, OnePending DEF Inv, TypeOK
<1>2. /\ queue' = Append(queue, Head(pending))
      /\ pending' = <<>>
      /\ UNCHANGED <<accepted, local>>
  BY DEF EnqueuePush
<1>3. /\ queue' \in Seq(Event)
      /\ Len(queue') = Len(queue) + 1
      /\ queue'[Len(queue) + 1] = pending[1]
      /\ \A i \in 1 .. Len(queue) : queue'[i] = queue[i]
  <2>1. Head(pending) = pending[1] /\ pending[1] \in Event
    BY <1>1
  <2> QED BY <1>1, <1>2, <2>1
<1>4. TypeOK'
  BY <1>1, <1>2, <1>3
     DEF EnqueuePush, Inv, TypeOK, sessionVars, batchVars, TracerStates,
         WriterStates, SignalHasEvents
<1>5. Phases'
  <2>1. ~stop_requested /\ async
    BY DEF EnqueuePush, Inv, Phases, TracerAt
  <2> QED BY <1>2, <2>1 DEF EnqueuePush, Inv, Phases, TracerUsesDb, TracerAt,
                           sessionVars, SignalHasEvents
<1>6. BoundedMemory'
  <2>1. Len(queue) < MaxQueueEvents
    BY <1>1, QueueAssumption DEF EnqueuePush, QueueIsFull, Inv, Phases, TracerAt
  <2> QED BY <1>1, <1>2, <1>3, <2>1, QueueAssumption DEF BoundedMemory, Inv
<1>7. Applied' = Applied
  BY <1>1, <1>2, <1>3 DEF Applied
<1>8. FifoOrder'
  <2>1. \A i \in 1 .. Len(queue) : queue[i].id = Applied + Len(local) + i
    BY <1>1 DEF Inv, FifoOrder
  <2>2. pending[1].id = Applied + Len(local) + Len(queue) + 1
    BY <1>1 DEF Inv, FifoOrder
  <2>3. \A i \in DOMAIN queue' : queue'[i].id = Applied' + Len(local') + i
    <3> SUFFICES ASSUME NEW i \in 1 .. Len(queue) + 1
                 PROVE  queue'[i].id = Applied + Len(local) + i
      BY <1>2, <1>3, <1>7
    <3>1. CASE i = Len(queue) + 1
      BY <1>1, <1>3, <2>2, <3>1 DEF Applied
    <3>2. CASE i \in 1 .. Len(queue)
      BY <1>3, <2>1, <3>2
    <3> QED BY <1>1, <3>1, <3>2
  <2> QED BY <1>1, <1>2, <1>7, <2>3 DEF Inv, FifoOrder
<1> QED BY <1>4, <1>5, <1>6, <1>8 DEF Inv

(* The swap: local was empty, so the queue becomes it as it is.            *)
LEMMA WriterTakeInv ==
  ASSUME Inv, WriterTake
  PROVE  Inv'
<1>1. local = <<>> /\ local' = queue /\ queue' = <<>>
  BY DEF Inv, Phases, WriterTake, WriterAt
<1>2. /\ queue \in Seq(Event) /\ pending \in Seq(Event) /\ accepted \in Nat
      /\ <<>> \in Seq(Event)
  BY DEF Inv, TypeOK
<1>3. TypeOK'
  BY <1>1, <1>2 DEF WriterTake, Inv, TypeOK, sessionVars, batchVars,
                    TracerStates, WriterStates
<1>4. Phases'
  BY <1>1 DEF WriterTake, Inv, Phases, TracerUsesDb, WriterAt, sessionVars
<1>5. Applied' = Applied
  BY <1>1, <1>2 DEF WriterTake, Applied
<1>6. FifoOrder' /\ BoundedMemory'
  BY <1>1, <1>2, <1>5, QueueAssumption
     DEF WriterTake, FifoOrder, BoundedMemory, Inv, Applied
<1> QED BY <1>3, <1>4, <1>6 DEF Inv

LEMMA WriterApplyInv ==
  ASSUME Inv, WriterApply
  PROVE  Inv'
<1>1. /\ local \in Seq(Event) /\ local # <<>>
      /\ queue \in Seq(Event) /\ pending \in Seq(Event) /\ accepted \in Nat
  BY DEF Inv, TypeOK, WriterApply
<1>2. /\ Head(local) \in Event
      /\ Tail(local) \in Seq(Event)
      /\ Len(Tail(local)) = Len(local) - 1
      /\ \A i \in 1 .. Len(local) - 1 : Tail(local)[i] = local[i + 1]
  BY <1>1
<1>3. /\ local' = Tail(local)
      /\ UNCHANGED <<accepted, pending, queue>>
  BY DEF WriterApply
<1>4. BatchTypeOK'
  BY <1>2, ApplyEventType DEF WriterApply, Inv, TypeOK, BatchTypeOK
<1>5. TypeOK'
  BY <1>2, <1>3, <1>4 DEF WriterApply, Inv, TypeOK, BatchTypeOK, sessionVars
<1>6. Phases'
  BY DEF WriterApply, Inv, Phases, TracerUsesDb, WriterAt, sessionVars
<1>7. Applied' = Applied + 1
  BY <1>1, <1>2, <1>3 DEF Applied
<1>8. FifoOrder'
  <2>1. \A i \in 1 .. Len(local) : local[i].id = Applied + i
    BY <1>1 DEF Inv, FifoOrder
  <2>2. \A i \in DOMAIN local' : local'[i].id = Applied' + i
    BY <1>1, <1>2, <1>3, <1>7, <2>1 DEF Applied
  <2> QED BY <1>1, <1>2, <1>3, <1>7, <2>2 DEF Inv, FifoOrder, Applied
<1>9. BoundedMemory'
  BY <1>1, <1>2, <1>3, QueueAssumption DEF Inv, BoundedMemory
<1> QED BY <1>5, <1>6, <1>8, <1>9 DEF Inv

(* Every other action leaves the deques alone. *)
LEMMA QueueUnchanged ==
  ASSUME Inv, UNCHANGED queueVars
  PROVE  FifoOrder' /\ BoundedMemory'
BY DEF Inv, queueVars, FifoOrder, BoundedMemory, Applied

LEMMA TracerStepInv ==
  ASSUME Inv,
         \/ EnqueueWait \/ TreeGone \/ StopOnFatalErrors
         \/ FinalizeStop \/ FinalizeJoin \/ FinalizeCommit \/ FinalizeIndex
         \/ PopulateCounts \/ Close
  PROVE  Inv'
<1> USE DEF TracerAt, sessionVars, TracerUsesDb, Inv
<1>1. CASE EnqueueWait
  <2>1. TypeOK'
    BY <1>1 DEF EnqueueWait, TypeOK, queueVars, batchVars, TracerStates
  <2>2. Phases'
    BY <1>1 DEF EnqueueWait, Phases, queueVars
  <2> QED BY <1>1, <2>1, <2>2, QueueUnchanged DEF EnqueueWait
<1>2. CASE TreeGone
  <2>1. TypeOK'
    BY <1>2 DEF TreeGone, TypeOK, queueVars, batchVars, TracerStates
  <2>2. Phases'
    BY <1>2 DEF TreeGone, Phases, queueVars
  <2> QED BY <1>2, <2>1, <2>2, QueueUnchanged DEF TreeGone
<1>3. CASE StopOnFatalErrors
  <2>1. TypeOK'
    BY <1>3 DEF StopOnFatalErrors, TypeOK, queueVars, batchVars, TracerStates
  <2>2. Phases'
    BY <1>3 DEF StopOnFatalErrors, Phases, queueVars
  <2> QED BY <1>3, <2>1, <2>2, QueueUnchanged DEF StopOnFatalErrors
<1>4. CASE FinalizeStop
  <2>1. TypeOK'
    BY <1>4 DEF FinalizeStop, TypeOK, queueVars, batchVars, TracerStates,
                WriterStates, SignalHasEvents
  <2>2. Phases'
    BY <1>4 DEF FinalizeStop, Phases, queueVars, SignalHasEvents
  <2> QED BY <1>4, <2>1, <2>2, QueueUnchanged DEF FinalizeStop
<1>5. CASE FinalizeJoin
  <2>1. TypeOK'
    BY <1>5 DEF FinalizeJoin, TypeOK, queueVars, batchVars, TracerStates
  <2>2. Phases'
    BY <1>5 DEF FinalizeJoin, Phases, queueVars
  <2> QED BY <1>5, <2>1, <2>2, QueueUnchanged DEF FinalizeJoin
<1>6. CASE FinalizeCommit
  <2>1. BatchTypeOK'
    BY <1>6, CommitOpenTransactionType DEF FinalizeCommit, TypeOK, BatchTypeOK
  <2>2. TypeOK'
    BY <1>6, <2>1 DEF FinalizeCommit, TypeOK, BatchTypeOK, queueVars, TracerStates
  <2>3. Phases'
    BY <1>6 DEF FinalizeCommit, Phases, queueVars
  <2> QED BY <1>6, <2>2, <2>3, QueueUnchanged DEF FinalizeCommit
<1>7. CASE FinalizeIndex
  <2>1. db' \in Connection
    BY <1>7, FinishIs, FinishType, RollBackType DEF TypeOK
  <2>2. TypeOK'
    <3>1. failures' \in Nat
      BY <1>7, FinishIs DEF TypeOK
    <3> QED BY <1>7, <2>1, <3>1 DEF FinalizeIndex, TypeOK, queueVars, batchVars,
                                    TracerStates
  <2>3. Phases'
    BY <1>7 DEF FinalizeIndex, Phases, queueVars
  <2> QED BY <1>7, <2>2, <2>3, QueueUnchanged DEF FinalizeIndex
<1>8. CASE PopulateCounts
  <2>1. db' \in Connection
    BY <1>8, FinishIs, FinishType, RollBackType DEF TypeOK
  <2>2. UNCHANGED <<queueVars, sessionVars, batchVars, db_size_cache, writer, life>>
    BY <1>8 DEF PopulateCounts, PopulateStep
  <2>3. TypeOK'
    <3>1. failures' \in Nat /\ tracer' \in TracerStates
      BY <1>8, FinishIs DEF TypeOK, TracerStates
    <3> QED BY <2>1, <2>2, <3>1 DEF TypeOK, queueVars, sessionVars, batchVars
  <2>4. Phases'
    BY <1>8, <2>2, FinishIs DEF Phases, queueVars, sessionVars
  <2> QED BY <2>2, <2>3, <2>4, QueueUnchanged
<1>9. CASE Close
  <2>1. db' \in Connection
    BY <1>9, FinishType DEF Close, TypeOK
  <2>2. TypeOK'
    BY <1>9, <2>1 DEF Close, TypeOK, queueVars, batchVars, TracerStates
  <2>3. Phases'
    BY <1>9 DEF Close, Phases, queueVars
  <2> QED BY <1>9, <2>2, <2>3, QueueUnchanged DEF Close
<1> QED BY <1>1, <1>2, <1>3, <1>4, <1>5, <1>6, <1>7, <1>8, <1>9

LEMMA WriterStepInv ==
  ASSUME Inv,
         \/ WriterWait \/ WriterStop \/ WriterDone \/ WriterPublish
         \/ WriterLastCommit
  PROVE  Inv'
<1> USE DEF WriterAt, sessionVars, TracerUsesDb, Inv
<1>1. CASE WriterWait
  <2>1. TypeOK'
    BY <1>1 DEF WriterWait, TypeOK, queueVars, batchVars, WriterStates
  <2>2. Phases'
    BY <1>1 DEF WriterWait, Phases, queueVars
  <2> QED BY <1>1, <2>1, <2>2, QueueUnchanged DEF WriterWait
<1>2. CASE WriterStop
  <2>1. TypeOK'
    BY <1>2 DEF WriterStop, TypeOK, queueVars, batchVars, WriterStates
  <2>2. Phases'
    BY <1>2 DEF WriterStop, Phases, queueVars
  <2> QED BY <1>2, <2>1, <2>2, QueueUnchanged DEF WriterStop
<1>3. CASE WriterDone
  <2>1. TypeOK'
    BY <1>3 DEF WriterDone, TypeOK, queueVars, batchVars, WriterStates
  <2>2. Phases'
    BY <1>3 DEF WriterDone, Phases, queueVars
  <2> QED BY <1>3, <2>1, <2>2, QueueUnchanged DEF WriterDone
<1>4. CASE WriterPublish
  <2>1. db_size_cache' \in Nat
    <3>1. db.cur \in Content
      BY ConnectionFields DEF TypeOK
    <3>2. Len(db.cur.rows) \in Nat
      BY <3>1, RowCountType
    <3> QED BY <1>4, <3>2 DEF WriterPublish, TypeOK
  <2>2. TypeOK'
    BY <1>4, <2>1 DEF WriterPublish, TypeOK, queueVars, batchVars, WriterStates
  <2>3. Phases'
    BY <1>4 DEF WriterPublish, Phases, queueVars
  <2> QED BY <1>4, <2>2, <2>3, QueueUnchanged DEF WriterPublish
<1>5. CASE WriterLastCommit
  <2>1. BatchTypeOK'
    BY <1>5, CommitOpenTransactionType DEF WriterLastCommit, TypeOK, BatchTypeOK
  <2>2. TypeOK'
    BY <1>5, <2>1 DEF WriterLastCommit, TypeOK, BatchTypeOK, queueVars, WriterStates
  <2>3. Phases'
    BY <1>5 DEF WriterLastCommit, Phases, queueVars
  <2> QED BY <1>5, <2>2, <2>3, QueueUnchanged DEF WriterLastCommit
<1> QED BY <1>1, <1>2, <1>3, <1>4, <1>5

LEMMA EnvironmentInv ==
  ASSUME Inv, SpuriousWakeup \/ Kill \/ View \/ UNCHANGED vars
  PROVE  Inv'
<1> USE DEF TracerAt, WriterAt, sessionVars, TracerUsesDb, Inv
<1>1. CASE SpuriousWakeup
  <2>1. TypeOK'
    BY <1>1 DEF SpuriousWakeup, TypeOK, queueVars, batchVars, TracerStates,
                WriterStates
  <2>2. Phases'
    BY <1>1 DEF SpuriousWakeup, Phases, queueVars
  <2> QED BY <1>1, <2>1, <2>2, QueueUnchanged DEF SpuriousWakeup
<1>2. CASE Kill
  <2>1. db' \in Connection
    BY <1>2, RollBackType DEF Kill, TypeOK
  <2>2. TypeOK'
    BY <1>2, <2>1 DEF Kill, TypeOK, queueVars, batchVars
  <2>3. Phases'
    BY <1>2 DEF Kill, Phases, queueVars
  <2> QED BY <1>2, <2>2, <2>3, QueueUnchanged DEF Kill
<1>3. CASE View
  <2>1. db' \in Connection
    BY <1>3, UpgradeSchemaType DEF View, TypeOK
  <2>2. TypeOK'
    BY <1>3, <2>1 DEF View, TypeOK, queueVars, batchVars
  <2>3. Phases'
    BY <1>3 DEF View, Phases, queueVars
  <2> QED BY <1>3, <2>2, <2>3, QueueUnchanged DEF View
<1>4. CASE UNCHANGED vars
  <2>1. TypeOK' /\ Phases'
    BY <1>4 DEF vars, TypeOK, Phases
  <2> QED BY <1>4, <2>1, QueueUnchanged DEF vars, queueVars
<1> QED BY <1>1, <1>2, <1>3, <1>4

LEMMA NextInv == Inv /\ [Next]_vars => Inv'
<1> SUFFICES ASSUME Inv, [Next]_vars PROVE Inv'
  OBVIOUS
<1>1. ASSUME NEW kind \in Kinds, NEW path \in Paths \cup {NoPath},
             HandleEvent(kind, path)
      PROVE  Inv'
  BY <1>1, HandleEventInv
<1>2. CASE EnqueueSync
  BY <1>2, EnqueueSyncInv
<1>3. CASE EnqueuePush
  BY <1>3, EnqueuePushInv
<1>4. CASE EnqueueWait \/ TreeGone \/ StopOnFatalErrors
           \/ FinalizeStop \/ FinalizeJoin \/ FinalizeCommit \/ FinalizeIndex
           \/ PopulateCounts \/ Close
  BY <1>4, TracerStepInv
<1>5. CASE WriterTake
  BY <1>5, WriterTakeInv
<1>6. CASE WriterApply
  BY <1>6, WriterApplyInv
<1>7. CASE WriterWait \/ WriterStop \/ WriterDone \/ WriterPublish
           \/ WriterLastCommit
  BY <1>7, WriterStepInv
<1>8. CASE SpuriousWakeup \/ Kill \/ View \/ Terminated \/ UNCHANGED vars
  BY <1>8, EnvironmentInv DEF Terminated
<1> QED BY <1>1, <1>2, <1>3, <1>4, <1>5, <1>6, <1>7, <1>8 DEF Next

LEMMA SpecInv == Spec => []Inv
<1>1. Init => Inv
  BY InitInv
<1>2. Inv /\ [Next]_vars => Inv'
  BY NextInv
<1> QED BY <1>1, <1>2, PTL DEF Spec

-----------------------------------------------------------------------------
(* The order of the rows.  RowsInOrder is inductive together with Inv: the *)
(* event that is applied next has the number Applied + 1.                  *)

LEMMA RowsInOrderIs == RowsInOrder <=> ConnectionInOrder(db, Applied)
BY DEF RowsInOrder, ConnectionInOrder, InOrder

LEMMA AppliedType ==
  ASSUME Inv
  PROVE  Applied \in Nat
<1>1. /\ accepted \in Nat /\ pending \in Seq(Event) /\ queue \in Seq(Event)
      /\ local \in Seq(Event)
  BY DEF Inv, TypeOK
<1>2. \A s \in Seq(Event) :
        /\ Len(s) \in Nat
        /\ s # <<>> => 1 \in DOMAIN s /\ s[1].id \in Nat \ {0}
  <2> SUFFICES ASSUME NEW s \in Seq(Event), s # <<>>
               PROVE  1 \in DOMAIN s /\ s[1].id \in Nat \ {0}
    OBVIOUS
  <2>1. 1 \in DOMAIN s /\ s[1] \in Event
    OBVIOUS
  <2> QED BY <2>1 DEF Event
<1>3. Applied \in Int
  BY <1>1, <1>2 DEF Applied
<1>4. CASE local # <<>>
  <2>1. local[1].id = Applied + 1 /\ local[1].id \in Nat \ {0}
    BY <1>1, <1>2, <1>4 DEF Inv, FifoOrder
  <2> QED BY <1>3, <2>1
<1>5. CASE local = <<>> /\ queue # <<>>
  <2>1. queue[1].id = Applied + 1 /\ queue[1].id \in Nat \ {0}
    <3>1. queue[1].id = Applied + Len(local) + 1
      BY <1>1, <1>2, <1>5 DEF Inv, FifoOrder
    <3> QED BY <1>1, <1>2, <1>3, <1>5, <3>1
  <2> QED BY <1>3, <2>1
<1>6. CASE local = <<>> /\ queue = <<>> /\ pending # <<>>
  <2>1. pending[1].id = Applied + 1 /\ pending[1].id \in Nat \ {0}
    <3>1. pending[1].id = Applied + Len(local) + Len(queue) + 1
      BY <1>1, <1>2, <1>6 DEF Inv, FifoOrder
    <3> QED BY <1>1, <1>2, <1>3, <1>6, <3>1
  <2> QED BY <1>3, <2>1
<1>7. CASE local = <<>> /\ queue = <<>> /\ pending = <<>>
  BY <1>1, <1>7 DEF Applied
<1> QED BY <1>4, <1>5, <1>6, <1>7

(* apply_event writes its event after all earlier ones, or not at all. *)
LEMMA ApplyEventInOrder ==
  ASSUME BatchTypeOK, NEW n \in Nat, ConnectionInOrder(db, n),
         NEW e \in Event, e.id = n + 1, ApplyEvent(e)
  PROVE  ConnectionInOrder(db', n + 1)
<1>1. db \in Connection
  BY DEF BatchTypeOK
<1>2. CASE HasFatalErrors
  <2>1. db' = db
    BY <1>2 DEF ApplyEvent
  <2> QED BY <1>1, <2>1, RowsType, LaterInOrder DEF ConnectionInOrder
<1>3. CASE ~HasFatalErrors
  <2> DEFINE d == IF in_transaction THEN db ELSE BeginTransaction(db)
  <2>1. PICK wf \in Failure(WriteFaults),
             cf \in Failure({"commitBusy", "commitRollsBack"}) :
           MaybeCommit(WriteEvent(d, e, wf), cf)
    BY <1>3 DEF ApplyEvent
  <2> DEFINE after == WriteEvent(d, e, wf)
             committed == CommitTransaction(after, cf)
  <2>2. d \in Connection /\ ConnectionInOrder(d, n)
    BY <1>1, BeginTransactionType, TransactionInOrder
  <2> HIDE DEF d
  <2>3. after \in Connection /\ ConnectionInOrder(after, n + 1)
    BY <2>2, WriteEventType, WriteEventInOrder
  <2>4. MaybeCommit(after, cf)
    BY <2>1
  <2> HIDE DEF after
  <2>5. committed \in Connection /\ ConnectionInOrder(committed, n + 1)
    BY <2>3, CommitTransactionType, TransactionInOrder
  <2>6. db' \in {after, committed, WalCheckpoint(committed)}
    BY <2>4 DEF MaybeCommit
  <2> HIDE DEF committed
  <2>7. ConnectionInOrder(WalCheckpoint(committed), n + 1)
    BY <2>5, TransactionInOrder
  <2> QED BY <2>3, <2>5, <2>6, <2>7
<1> QED BY <1>2, <1>3

(* The two steps that apply an event: the next one, and only it. *)
LEMMA ApplyStepInOrder ==
  ASSUME Inv, RowsInOrder, EnqueueSync \/ WriterApply
  PROVE  RowsInOrder'
<1>1. /\ Applied \in Nat /\ ConnectionInOrder(db, Applied) /\ BatchTypeOK
  BY AppliedType, RowsInOrderIs DEF Inv, TypeOK, BatchTypeOK
<1>2. /\ accepted \in Nat /\ pending \in Seq(Event) /\ queue \in Seq(Event)
      /\ local \in Seq(Event)
  BY DEF Inv, TypeOK
<1>3. CASE EnqueueSync
  <2>1. pending # <<>> /\ queue = <<>> /\ local = <<>>
    BY <1>3 DEF Inv, Phases, EnqueueSync, TracerAt
  <2>2. /\ Head(pending) \in Event /\ Head(pending) = pending[1]
        /\ Len(pending) = 1
    BY <2>1, OnePending
  <2>3. Head(pending).id = Applied + 1
    BY <1>1, <1>2, <2>1, <2>2 DEF Inv, FifoOrder
  <2>4. ConnectionInOrder(db', Applied + 1)
    BY <1>1, <1>3, <2>2, <2>3, ApplyEventInOrder DEF EnqueueSync
  <2>5. Applied' = Applied + 1
    BY <1>2, <1>3, <2>1, <2>2 DEF EnqueueSync, Applied
  <2> QED BY <2>4, <2>5 DEF RowsInOrder, ConnectionInOrder, InOrder
<1>4. CASE WriterApply
  <2>1. /\ Head(local) \in Event /\ Head(local) = local[1] /\ 1 \in DOMAIN local
        /\ Len(Tail(local)) = Len(local) - 1
    BY <1>2, <1>4 DEF WriterApply
  <2>2. Head(local).id = Applied + 1
    BY <2>1 DEF Inv, FifoOrder
  <2>3. ConnectionInOrder(db', Applied + 1)
    BY <1>1, <1>4, <2>1, <2>2, ApplyEventInOrder DEF WriterApply
  <2>4. Applied' = Applied + 1
    BY <1>2, <1>4, <2>1 DEF WriterApply, Applied
  <2> QED BY <2>3, <2>4 DEF RowsInOrder, ConnectionInOrder, InOrder
<1> QED BY <1>3, <1>4

(* Only a write changes how many events are applied: the other steps move  *)
(* events between the deques or leave them alone.                          *)
LEMMA AppliedUnchanged ==
  ASSUME Inv, [Next]_vars, ~EnqueueSync, ~WriterApply
  PROVE  Applied' = Applied
<1>1. /\ accepted \in Nat /\ pending \in Seq(Event) /\ queue \in Seq(Event)
      /\ local \in Seq(Event)
  BY DEF Inv, TypeOK
<1>2. ASSUME NEW kind \in Kinds, NEW path \in Paths \cup {NoPath},
             HandleEvent(kind, path)
      PROVE  Applied' = Applied
  <2>1. pending = <<>> /\ Len(pending') = 1 /\ accepted' = accepted + 1
    BY <1>2 DEF HandleEvent, TracerAt, Inv, Phases
  <2> QED BY <1>1, <1>2, <2>1 DEF HandleEvent, Applied
<1>3. CASE EnqueuePush
  <2>1. pending # <<>>
    BY <1>3 DEF EnqueuePush, TracerAt, Inv, Phases
  <2>2. Len(pending) = 1 /\ Head(pending) \in Event
    BY <2>1, OnePending
  <2>3. Len(queue') = Len(queue) + 1
    BY <1>1, <1>3, <2>2 DEF EnqueuePush
  <2> QED BY <1>1, <1>3, <2>2, <2>3 DEF EnqueuePush, Applied
<1>4. CASE WriterTake
  <2>1. local = <<>> /\ local' = queue /\ queue' = <<>>
    BY <1>4 DEF WriterTake, WriterAt, Inv, Phases
  <2> QED BY <1>1, <1>4, <2>1 DEF WriterTake, Applied
<1>5. CASE \/ EnqueueWait \/ TreeGone \/ StopOnFatalErrors
           \/ FinalizeStop \/ FinalizeJoin \/ FinalizeCommit \/ FinalizeIndex
           \/ PopulateCounts \/ Close
           \/ WriterWait \/ WriterStop \/ WriterDone \/ WriterPublish
           \/ WriterLastCommit
           \/ SpuriousWakeup \/ Kill \/ View \/ UNCHANGED vars
  BY <1>5
     DEF EnqueueWait, TreeGone, StopOnFatalErrors, FinalizeStop, FinalizeJoin,
         FinalizeCommit, FinalizeIndex, PopulateCounts, PopulateStep, Close,
         WriterWait, WriterStop, WriterDone, WriterPublish, WriterLastCommit,
         SpuriousWakeup, Kill, View, vars, queueVars, Applied
<1> QED BY <1>2, <1>3, <1>4, <1>5 DEF Next, Terminated

(* The steps that write no event at most end a transaction, finish or      *)
(* close the database.                                                     *)
LEMMA OtherStepInOrder ==
  ASSUME Inv, RowsInOrder, [Next]_vars, ~EnqueueSync, ~WriterApply
  PROVE  RowsInOrder'
<1>1. /\ Applied \in Nat /\ ConnectionInOrder(db, Applied) /\ db \in Connection
  BY AppliedType, RowsInOrderIs DEF Inv, TypeOK
<1>2. Applied' = Applied
  BY AppliedUnchanged
<1>3. ConnectionInOrder(db', Applied)
  <2>1. CASE \/ \E kind \in Kinds, path \in Paths \cup {NoPath} : HandleEvent(kind, path)
             \/ EnqueueWait \/ EnqueuePush \/ TreeGone \/ StopOnFatalErrors
             \/ FinalizeStop \/ FinalizeJoin \/ WriterWait \/ WriterStop
             \/ WriterTake \/ WriterDone \/ WriterPublish \/ SpuriousWakeup
             \/ UNCHANGED vars
    <3>1. db' = db
      BY <2>1 DEF HandleEvent, EnqueueWait, EnqueuePush, TreeGone, StopOnFatalErrors,
                  FinalizeStop, FinalizeJoin, WriterWait, WriterStop, WriterTake,
                  WriterDone, WriterPublish, SpuriousWakeup, vars
    <3> QED BY <1>1, <3>1
  <2>2. CASE FinalizeCommit \/ WriterLastCommit
    <3>1. \/ db' = db
          \/ \E cf \in Failure({"commitBusy", "commitRollsBack"}) :
               db' = CommitTransaction(db, cf)
      BY <2>2 DEF FinalizeCommit, WriterLastCommit, CommitOpenTransaction
    <3> QED BY <1>1, <3>1, TransactionInOrder
  <2>3. CASE FinalizeIndex \/ PopulateCounts \/ Close
    <3>1. db' \in {CreateIndexes(db), ResetCounts(db), CountFiles(db),
                   CountFails(db), CloseDatabase(db), db, RollBack(db)}
      BY <2>3, FinishIs DEF Close
    <3> QED BY <1>1, <3>1, FinishInOrder, RollBackInOrder
  <2>4. CASE Kill \/ View
    <3>1. db' \in {RollBack(db), UpgradeSchema(db)}
      BY <2>4 DEF Kill, View
    <3> QED BY <1>1, <3>1, RollBackInOrder, UpgradeSchemaInOrder
  <2> QED BY <2>1, <2>2, <2>3, <2>4 DEF Next, Terminated
<1> QED BY <1>2, <1>3 DEF RowsInOrder, ConnectionInOrder, InOrder

-----------------------------------------------------------------------------
(* The results *)

(* The variables of the session keep their types. *)
THEOREM TypeCorrect == Spec => []TypeOK
<1>1. Inv => TypeOK
  BY DEF Inv
<1> QED BY <1>1, SpecInv, PTL

(* No event is lost, repeated or overtaken between the handler that made   *)
(* it and the write that applies it, for any number of events.             *)
THEOREM QueueIsFifo == Spec => []FifoOrder
<1>1. Inv => FifoOrder
  BY DEF Inv
<1> QED BY <1>1, SpecInv, PTL

(* A stalled disk costs at most MAX_QUEUE_EVENTS events in each deque.      *)
THEOREM MemoryIsBounded == Spec => []BoundedMemory
<1>1. Inv => BoundedMemory
  BY DEF Inv
<1> QED BY <1>1, SpecInv, PTL

(* The tracer and the writer are never both where they call sqlite, which  *)
(* is built without its own locks.                                         *)
THEOREM DatabaseHasOneOwner == Spec => []SingleOwner
<1>1. Inv => SingleOwner
  BY DEF Inv, Phases, SingleOwner, WriterUsesDb
<1> QED BY <1>1, SpecInv, PTL

(* The rows are the events in their order, none twice, and the committed   *)
(* ones are a prefix of those the connection sees, whatever fails and      *)
(* whenever bdtrace is killed.                                             *)
THEOREM RowsAreInOrder == Spec => []RowsInOrder
<1>1. Init => RowsInOrder
  BY DEF Init, RowsInOrder, OpenDatabase, EmptyContent
<1>2. Inv /\ RowsInOrder /\ [Next]_vars => RowsInOrder'
  <2> SUFFICES ASSUME Inv, RowsInOrder, [Next]_vars PROVE RowsInOrder'
    OBVIOUS
  <2>1. CASE EnqueueSync \/ WriterApply
    BY <2>1, ApplyStepInOrder
  <2>2. CASE ~EnqueueSync /\ ~WriterApply
    BY <2>2, OtherStepInOrder
  <2> QED BY <2>1, <2>2
<1> QED BY <1>1, <1>2, SpecInv, PTL DEF Spec

(* A step that finds the errors fatal: it handles no event and writes no   *)
(* row, although the deques may still be full.                             *)
LEMMA FatalStep ==
  ASSUME Inv, RowsInOrder, Next, HasFatalErrors
  PROVE  /\ consecutive_errors' = consecutive_errors
         /\ Len(db'.cur.rows) <= Len(db.cur.rows)
         /\ accepted' = accepted
<1>1. /\ Applied \in Nat /\ ConnectionInOrder(db, Applied) /\ db \in Connection
  BY AppliedType, RowsInOrderIs DEF Inv, TypeOK
<1>2. Len(db.cur.rows) <= Len(db.cur.rows)
  BY <1>1, RowsType
<1>3. CASE EnqueueSync \/ WriterApply
  <2>1. UNCHANGED <<batchVars, db, failures>> /\ accepted' = accepted
    BY <1>3 DEF EnqueueSync, WriterApply, ApplyEvent
  <2> QED BY <1>2, <2>1 DEF batchVars
<1>4. CASE \/ EnqueueWait \/ EnqueuePush \/ TreeGone \/ StopOnFatalErrors
           \/ FinalizeStop \/ FinalizeJoin \/ WriterWait \/ WriterStop
           \/ WriterTake \/ WriterDone \/ WriterPublish \/ SpuriousWakeup
           \/ Terminated
  <2>1. UNCHANGED <<consecutive_errors, db, accepted>>
    BY <1>4 DEF EnqueueWait, EnqueuePush, TreeGone, StopOnFatalErrors,
                FinalizeStop, FinalizeJoin, WriterWait, WriterStop, WriterTake,
                WriterDone, WriterPublish, SpuriousWakeup, Terminated, vars,
                batchVars, queueVars
  <2> QED BY <1>2, <2>1
<1>5. CASE FinalizeCommit \/ WriterLastCommit
  <2>1. UNCHANGED <<consecutive_errors, accepted>>
    BY <1>5 DEF FinalizeCommit, WriterLastCommit, queueVars
  <2>2. \/ db' = db
        \/ \E cf \in Failure({"commitBusy", "commitRollsBack"}) :
             db' = CommitTransaction(db, cf)
    BY <1>5 DEF FinalizeCommit, WriterLastCommit, CommitOpenTransaction
  <2> QED BY <1>1, <1>2, <2>1, <2>2, NoRowAdded
<1>6. CASE FinalizeIndex \/ PopulateCounts \/ Close \/ Kill \/ View
  <2>1. UNCHANGED <<consecutive_errors, accepted>>
    BY <1>6 DEF FinalizeIndex, PopulateCounts, PopulateStep, Close, Kill, View,
                queueVars, batchVars
  <2>2. db' \in {CreateIndexes(db), ResetCounts(db), CountFiles(db),
                 CountFails(db), db, RollBack(db), UpgradeSchema(db)}
    BY <1>6, FinishIs DEF Close, CloseDatabase, Kill, View
  <2>3. \A a, b \in Nat : a = b => a <= b
    OBVIOUS
  <2>4. Len(db.cur.rows) \in Nat
    BY <1>1, RowsType
  <2>5. Len(db'.cur.rows) <= Len(db.cur.rows)
    BY <1>1, <2>2, <2>4, NoRowAdded, UpgradeAddsNoRow
  <2> QED BY <2>1, <2>5
<1>7. ~(\E kind \in Kinds, path \in Paths \cup {NoPath} : HandleEvent(kind, path))
  BY DEF HandleEvent
<1> QED BY <1>3, <1>4, <1>5, <1>6, <1>7 DEF Next

(* Once the errors are fatal no further row is written, no event is taken  *)
(* and the verdict stands (has_fatal_errors, apply_event).                 *)
THEOREM FatalErrorsAreFinal == Spec => FatalIsFinal
<1>1. Inv /\ RowsInOrder /\ [Next]_vars =>
        [HasFatalErrors =>
           /\ consecutive_errors' = consecutive_errors
           /\ Len(db'.cur.rows) <= Len(db.cur.rows)
           /\ accepted' = accepted]_vars
  BY FatalStep
<1> QED BY <1>1, SpecInv, RowsAreInOrder, PTL DEF Spec, FatalIsFinal
-----------------------------------------------------------------------------
(* What a session has written                                              *)

(* What each call makes of the fields of a connection. *)
LEMMA StatementFields ==
  ASSUME NEW d \in Connection, NEW content
  PROVE  LET after == Statement(d, content)
         IN  /\ after.tx = d.tx /\ after.cache = d.cache /\ after.cur = content
             /\ after.base = IF d.tx THEN d.base ELSE content
BY DEF Statement, Connection

LEMMA RollBackFields ==
  ASSUME NEW d \in Connection
  PROVE  LET after == RollBack(d)
         IN  /\ after.tx = FALSE /\ after.cache = d.cache
             /\ after.cur = d.base /\ after.base = d.base
BY DEF RollBack, Connection

LEMMA BeginFields ==
  ASSUME NEW d \in Connection
  PROVE  LET after == BeginTransaction(d)
         IN  /\ after.tx = TRUE /\ after.cache = d.cache
             /\ after.cur = d.cur /\ after.base = d.base
BY DEF BeginTransaction, Connection

LEMMA CheckpointFields ==
  ASSUME NEW d \in Connection
  PROVE  LET after == WalCheckpoint(d)
         IN  /\ after.tx = d.tx /\ after.cache = d.cache
             /\ after.cur = d.cur /\ after.base = d.base
BY DEF WalCheckpoint, Connection

LEMMA CommitFields ==
  ASSUME NEW d \in Connection, NEW fault,
         fault # "commitRollsBack", fault # "commitBusy"
  PROVE  LET after == CommitTransaction(d, fault)
         IN  /\ after.tx = FALSE /\ after.cache = d.cache
             /\ after.cur = d.cur /\ after.base = d.cur
BY DEF CommitTransaction, Connection

LEMMA InternPathFields ==
  ASSUME NEW d \in Connection, NEW p \in Paths, ~IsCached(d, p)
  PROVE  LET after == InternPath(d, p)
         IN  /\ after.tx = d.tx
             /\ after.cache = [d.cache EXCEPT ![p] = FileId(d.cur, p)]
             /\ after.cur = WithFile(d.cur, p)
             /\ after.base = IF d.tx THEN d.base ELSE WithFile(d.cur, p)
<1> DEFINE after == Statement(d, WithFile(d.cur, p))
<1>1. /\ after.tx = d.tx /\ after.cache = d.cache
      /\ after.cur = WithFile(d.cur, p)
      /\ after.base = IF d.tx THEN d.base ELSE WithFile(d.cur, p)
  BY StatementFields
<1>2. after \in Connection
  <2>1. d.cur \in Content
    BY ConnectionFields
  <2>2. [d.cur EXCEPT !.files = Append(@, p)] \in Content
    <3>1. Append(d.cur.files, p) \in Seq(Paths)
      BY <2>1 DEF Content
    <3> QED BY <2>1, <3>1 DEF Content
  <2>3. WithFile(d.cur, p) \in Content
    BY <2>1, <2>2 DEF WithFile
  <2> QED BY <2>3, StatementType
<1>3. InternPath(d, p) = [after EXCEPT !.cache[p] = FileId(d.cur, p)]
  BY DEF InternPath
<1> HIDE DEF after
<1>4. InternPath(d, p) = [after EXCEPT !.cache = [after.cache EXCEPT ![p] = FileId(d.cur, p)]]
  BY <1>2, <1>3
<1> QED BY <1>1, <1>2, <1>4 DEF Connection

Rollbacks == {"internRollsBack", "insertRollsBack", "commitRollsBack", "finishRollsBack"}
CommitFaults == {"commitBusy", "commitRollsBack"}

-----------------------------------------------------------------------------
(* File ids *)

RowsResolve(content) ==
  \A i \in DOMAIN content.rows :
    LET row == content.rows[i]
    IN  row.path # NoPath => /\ row.file \in DOMAIN content.files
                             /\ content.files[row.file] = row.path

CacheResolves(d) ==
  \A p \in Paths : d.cache[p] # 0 => /\ d.cache[p] \in DOMAIN d.cur.files
                                     /\ d.cur.files[d.cache[p]] = p

InUse == life = "running" /\ tracer # "closed"

(* The cache may be trusted for as long as somebody writes with it. *)
InternInv ==
  /\ RowsResolve(db.base) /\ RowsResolve(db.cur)
  /\ InUse => CacheResolves(db)

(* intern_path, without a rollback around: what resolved keeps resolving,  *)
(* and p itself resolves.                                                  *)
Interned(d) == RowsResolve(d.base) /\ RowsResolve(d.cur) /\ CacheResolves(d)

LEMMA InternPathInterned ==
  ASSUME NEW d \in Connection, Interned(d), NEW p \in Paths \cup {NoPath}
  PROVE  /\ Interned(InternPath(d, p))
         /\ p # NoPath => InternPath(d, p).cache[p] # 0
<1>1. CASE IsCached(d, p)
  BY <1>1 DEF IsCached, InternPath
<1>2. CASE ~IsCached(d, p)
  <2> DEFINE after == InternPath(d, p)
             files == d.cur.files
             grown == WithFile(d.cur, p)
             id == FileId(d.cur, p)
  <2>1. p \in Paths
    BY <1>2 DEF IsCached
  <2>2. d.cur \in Content /\ files \in Seq(Paths) /\ d.cache \in [Paths -> Nat]
    BY DEF Connection, Content
  <2>3. /\ grown.rows = d.cur.rows
        /\ \A i \in DOMAIN files : i \in DOMAIN grown.files /\ grown.files[i] = files[i]
        /\ id \in DOMAIN grown.files /\ grown.files[id] = p /\ id # 0
    <3>1. CASE \E i \in DOMAIN files : files[i] = p
      <4>1. id \in DOMAIN files /\ files[id] = p
        BY <3>1, Zenon DEF FileId
      <4>2. grown = d.cur
        BY <3>1 DEF WithFile
      <4> HIDE DEF id
      <4>3. id # 0
        BY <2>2, <4>1
      <4> QED BY <4>1, <4>2, <4>3
    <3>2. CASE ~\E i \in DOMAIN files : files[i] = p
      <4>1. id = Len(files) + 1
        BY <3>2, Zenon DEF FileId
      <4>2. grown = [d.cur EXCEPT !.files = Append(files, p)]
        BY <3>2 DEF WithFile
      <4>3. grown.rows = d.cur.rows /\ grown.files = Append(files, p)
        BY <2>2, <4>2 DEF Content
      <4> HIDE DEF id, grown
      <4> QED BY <2>1, <2>2, <4>1, <4>3
    <3> QED BY <3>1, <3>2
  <2>4. RowsResolve(grown)
    BY <2>3 DEF RowsResolve, Interned
  <2>5. /\ after.cache = [d.cache EXCEPT ![p] = id]
        /\ after.cur = grown /\ after.base \in {d.base, grown}
    BY <1>2, <2>1, InternPathFields
  <2> HIDE DEF after, grown, id
  <2>6. CacheResolves(after)
    BY <2>1, <2>2, <2>3, <2>5 DEF CacheResolves, Interned
  <2>7. after.cache[p] # 0
    BY <2>1, <2>2, <2>3, <2>5
  <2> QED BY <2>4, <2>5, <2>6, <2>7 DEF Interned, after
<1> QED BY <1>1, <1>2

LEMMA AddRowInterned ==
  ASSUME NEW d \in Connection, Interned(d), NEW e \in Event,
         e.path # NoPath => d.cache[e.path] # 0
  PROVE  Interned(AddRow(d, e))
<1> DEFINE row == [id |-> e.id, kind |-> e.kind, path |-> e.path,
                   file |-> CachedId(d, e.path)]
           content == [d.cur EXCEPT !.rows = Append(@, row)]
<1>1. AddRow(d, e) = Statement(d, content)
  BY DEF AddRow
<1>2. d.cur \in Content /\ d.cur.rows \in Seq(Row)
  BY DEF Connection, Content
<1>3. e.path \in Paths \cup {NoPath}
  BY DEF Event
<1>4. row \in Row
  <2>1. CachedId(d, e.path) \in Nat
    BY <1>3 DEF CachedId, Connection
  <2> QED BY <2>1 DEF Row, Event
<1>5. row.path # NoPath => /\ row.file \in DOMAIN d.cur.files
                           /\ d.cur.files[row.file] = row.path
  BY <1>3 DEF CachedId, Interned, CacheResolves
<1> HIDE DEF row
<1>6. content.files = d.cur.files /\ content.rows = Append(d.cur.rows, row)
  BY <1>2 DEF Content
<1> HIDE DEF content
<1>7. RowsResolve(content)
  <2> SUFFICES ASSUME NEW i \in DOMAIN content.rows, content.rows[i].path # NoPath
               PROVE  /\ content.rows[i].file \in DOMAIN content.files
                      /\ content.files[content.rows[i].file] = content.rows[i].path
    BY DEF RowsResolve
  <2>1. CASE i \in DOMAIN d.cur.rows
    <3>1. content.rows[i] = d.cur.rows[i]
      BY <1>2, <1>4, <1>6, <2>1
    <3> QED BY <1>6, <2>1, <3>1 DEF RowsResolve, Interned
  <2>2. CASE i = Len(d.cur.rows) + 1
    <3>1. content.rows[i] = row
      BY <1>2, <1>4, <1>6, <2>2
    <3> QED BY <1>5, <1>6, <3>1
  <2> QED BY <1>2, <1>4, <1>6, <2>1, <2>2
<1>8. /\ Statement(d, content).cache = d.cache
      /\ Statement(d, content).cur = content
      /\ Statement(d, content).base \in {d.base, content}
  BY StatementFields
<1> QED BY <1>1, <1>6, <1>7, <1>8 DEF Interned, CacheResolves

LEMMA TransactionInterned ==
  ASSUME NEW d \in Connection, Interned(d), NEW fault, fault # "commitRollsBack"
  PROVE  /\ Interned(BeginTransaction(d))
         /\ Interned(WalCheckpoint(d))
         /\ Interned(CommitTransaction(d, fault))
<1>1. Interned(BeginTransaction(d)) /\ Interned(WalCheckpoint(d))
  BY BeginFields, CheckpointFields DEF Interned, CacheResolves
<1>2. fault = "commitBusy" => CommitTransaction(d, fault) = d
  BY DEF CommitTransaction
<1>3. fault # "commitBusy" => Interned(CommitTransaction(d, fault))
  <2> DEFINE after == CommitTransaction(d, fault)
  <2> SUFFICES ASSUME fault # "commitBusy"  PROVE Interned(after)
    OBVIOUS
  <2>1. after.cache = d.cache /\ after.cur = d.cur /\ after.base = d.cur
    BY CommitFields
  <2> HIDE DEF after
  <2> QED BY <2>1 DEF Interned, CacheResolves
<1> QED BY <1>1, <1>2, <1>3

LEMMA WriteEventInterned ==
  ASSUME NEW d \in Connection, Interned(d), NEW e \in Event,
         NEW fault, fault \notin Rollbacks
  PROVE  Interned(WriteEvent(d, e, fault))
<1> DEFINE interned == InternPath(d, e.path)
<1>1. e.path \in Paths \cup {NoPath}
  BY DEF Event
<1>2. interned \in Connection /\ Interned(interned)
      /\ (e.path # NoPath => interned.cache[e.path] # 0)
  BY <1>1, InternPathType, InternPathInterned
<1> HIDE DEF interned
<1>3. Interned(AddRow(interned, e))
  BY <1>2, AddRowInterned
<1> QED BY <1>2, <1>3 DEF WriteEvent, Rollbacks, interned

(* A statement that touches neither rows nor files. *)
LEMMA StatementInterned ==
  ASSUME NEW d \in Connection, NEW content,
         content.rows = d.cur.rows, content.files = d.cur.files
  PROVE  /\ RowsResolve(d.base) /\ RowsResolve(d.cur) =>
              /\ RowsResolve(Statement(d, content).base)
              /\ RowsResolve(Statement(d, content).cur)
         /\ CacheResolves(d) => CacheResolves(Statement(d, content))
<1> DEFINE after == Statement(d, content)
<1>1. /\ after.cache = d.cache /\ after.cur = content
      /\ after.base = content \/ after.base = d.base
  BY StatementFields
<1> HIDE DEF after
<1>2. RowsResolve(content) <=> RowsResolve(d.cur)
  BY DEF RowsResolve
<1>3. CacheResolves(d) => CacheResolves(after)
  BY <1>1 DEF CacheResolves
<1> QED BY <1>1, <1>2, <1>3 DEF after

LEMMA FinishInterned ==
  ASSUME NEW d \in Connection, RowsResolve(d.base), RowsResolve(d.cur),
         NEW after \in {CreateIndexes(d), ResetCounts(d), CountFiles(d), CountFails(d)}
  PROVE  /\ RowsResolve(after.base) /\ RowsResolve(after.cur)
         /\ CacheResolves(d) => CacheResolves(after)
<1>1. d.cur \in Content
  BY ConnectionFields
<1>2. \A file, fail :
        /\ [d.cur EXCEPT !.indexed = TRUE].rows = d.cur.rows
        /\ [d.cur EXCEPT !.indexed = TRUE].files = d.cur.files
        /\ [d.cur EXCEPT !.fileCount = file, !.failCount = fail].rows = d.cur.rows
        /\ [d.cur EXCEPT !.fileCount = file, !.failCount = fail].files = d.cur.files
        /\ [d.cur EXCEPT !.fileCount = file].rows = d.cur.rows
        /\ [d.cur EXCEPT !.fileCount = file].files = d.cur.files
        /\ [d.cur EXCEPT !.failCount = fail].rows = d.cur.rows
        /\ [d.cur EXCEPT !.failCount = fail].files = d.cur.files
  BY <1>1 DEF Content
<1> QED BY <1>2, StatementInterned
        DEF CreateIndexes, ResetCounts, CountFiles, CountFails

LEMMA UpgradeSchemaResolves ==
  ASSUME NEW d \in Connection, RowsResolve(d.base), RowsResolve(d.cur)
  PROVE  RowsResolve(UpgradeSchema(d).base) /\ RowsResolve(UpgradeSchema(d).cur)
BY FinishType, FinishInterned DEF UpgradeSchema

(* A write of the tracer or of the writer. *)
LEMMA ApplyEventInterned ==
  ASSUME Faults \cap Rollbacks = {}, BatchTypeOK, Interned(db),
         NEW e \in Event, ApplyEvent(e)
  PROVE  Interned(db')
<1>1. db \in Connection
  BY DEF BatchTypeOK
<1>2. CASE HasFatalErrors
  BY <1>2 DEF ApplyEvent, batchVars
<1>3. CASE ~HasFatalErrors
  <2> DEFINE d == IF in_transaction THEN db ELSE BeginTransaction(db)
  <2>1. PICK wf \in Failure(WriteFaults),
             cf \in Failure({"commitBusy", "commitRollsBack"}) :
           MaybeCommit(WriteEvent(d, e, wf), cf)
    BY <1>3 DEF ApplyEvent
  <2>2. wf \notin Rollbacks /\ cf # "commitRollsBack"
    BY DEF Failure, Rollbacks
  <2> DEFINE after == WriteEvent(d, e, wf)
             committed == CommitTransaction(after, cf)
  <2>3. d \in Connection /\ Interned(d)
    BY <1>1, <2>2, BeginTransactionType, TransactionInterned
  <2> HIDE DEF d
  <2>4. after \in Connection /\ Interned(after)
    BY <2>2, <2>3, WriteEventType, WriteEventInterned
  <2>5. MaybeCommit(after, cf)
    BY <2>1
  <2> HIDE DEF after
  <2>6. committed \in Connection /\ Interned(committed)
    BY <2>2, <2>4, CommitTransactionType, TransactionInterned
  <2>7. Interned(WalCheckpoint(committed))
    BY <2>2, <2>6, TransactionInterned
  <2>8. db' \in {after, committed, WalCheckpoint(committed)}
    BY <2>5 DEF MaybeCommit
  <2> QED BY <2>4, <2>6, <2>7, <2>8
<1> QED BY <1>2, <1>3

LEMMA FinishKeepsTransaction ==
  ASSUME "finishRollsBack" \notin Faults, FinalizeIndex \/ PopulateCounts
  PROVE  db' \in {CreateIndexes(db), ResetCounts(db), CountFiles(db), CountFails(db), db}
<1>1. \E after \in {CreateIndexes(db), ResetCounts(db), CountFiles(db), CountFails(db)},
         ff \in Failure(FinishFaults) : db' = Finish(db, after, ff)
  BY DEF FinalizeIndex, PopulateCounts, PopulateStep
<1> QED BY <1>1 DEF Finish, Failure

LEMMA InternStep ==
  ASSUME Faults \cap Rollbacks = {}, Inv, InternInv, [Next]_vars
  PROVE  InternInv'
<1>1. db \in Connection /\ BatchTypeOK
  BY DEF Inv, TypeOK, BatchTypeOK
<1>2. CASE EnqueueSync \/ WriterApply
  <2>1. Interned(db) /\ InUse
    BY <1>2 DEF InternInv, Interned, InUse, EnqueueSync, WriterApply, TracerAt,
                WriterAt, Inv, Phases, TracerUsesDb
  <2>2. CASE EnqueueSync
    <3>1. Head(pending) \in Event
      BY <2>2, OnePending DEF EnqueueSync, TracerAt, Inv, Phases
    <3> QED BY <1>1, <2>1, <2>2, <3>1, ApplyEventInterned
            DEF EnqueueSync, InternInv, Interned
  <2>3. CASE WriterApply
    <3>1. Head(local) \in Event
      BY <2>3 DEF WriterApply, Inv, TypeOK
    <3> QED BY <1>1, <2>1, <2>3, <3>1, ApplyEventInterned
            DEF WriterApply, InternInv, Interned
  <2> QED BY <1>2, <2>2, <2>3
<1>3. CASE FinalizeCommit \/ WriterLastCommit
  <2>1. PICK cf \in Failure({"commitBusy", "commitRollsBack"}) :
           db' \in {db, CommitTransaction(db, cf)}
    BY <1>3 DEF FinalizeCommit, WriterLastCommit, CommitOpenTransaction, Failure
  <2>2. cf # "commitRollsBack"
    BY DEF Failure, Rollbacks
  <2>3. Interned(db) /\ InUse
    BY <1>3 DEF InternInv, Interned, InUse, FinalizeCommit, WriterLastCommit,
                TracerAt, WriterAt, Inv, Phases, TracerUsesDb
  <2> QED BY <1>1, <2>1, <2>2, <2>3, TransactionInterned DEF InternInv, Interned
<1>4. CASE FinalizeIndex \/ PopulateCounts
  <2>1. db' \in {CreateIndexes(db), ResetCounts(db), CountFiles(db), CountFails(db), db}
    BY <1>4, FinishKeepsTransaction DEF Rollbacks
  <2>2. InUse
    BY <1>4, FinishIs DEF InUse
  <2> QED BY <1>1, <2>1, <2>2, FinishInterned DEF InternInv, Interned
<1>5. CASE Close \/ Kill \/ View
  <2>1. db' \in {RollBack(db), UpgradeSchema(db)}
    BY <1>5 DEF Close, CloseDatabase, Kill, View
  <2>2. ~InUse'
    BY <1>5 DEF Close, Kill, View, InUse
  <2> QED BY <1>1, <2>1, <2>2, RollBackFields, UpgradeSchemaResolves DEF InternInv
<1>6. CASE \/ \E kind \in Kinds, path \in Paths \cup {NoPath} : HandleEvent(kind, path)
           \/ EnqueueWait \/ EnqueuePush \/ TreeGone \/ StopOnFatalErrors
           \/ FinalizeStop \/ FinalizeJoin
           \/ WriterWait \/ WriterStop \/ WriterTake \/ WriterDone \/ WriterPublish
           \/ SpuriousWakeup \/ UNCHANGED vars
  <2>1. db' = db /\ (InUse' => InUse)
    BY <1>6 DEF HandleEvent, EnqueueWait, EnqueuePush, TreeGone, StopOnFatalErrors,
                FinalizeStop, FinalizeJoin, WriterWait, WriterStop, WriterTake,
                WriterDone, WriterPublish, SpuriousWakeup, vars, TracerAt, WriterAt,
                InUse
  <2> QED BY <2>1 DEF InternInv
<1> QED BY <1>2, <1>3, <1>4, <1>5, <1>6 DEF Next, Terminated

(* Unless a failure takes a transaction back, every stored file_id         *)
(* resolves to the path that was accessed, whatever else fails and         *)
(* whenever bdtrace is killed (intern_path).                               *)
THEOREM InternedIdsAreRight ==
  ASSUME Faults \cap Rollbacks = {}
  PROVE  Spec => []InternedIdsResolve
<1>1. Init => InternInv
  BY DEF Init, InternInv, RowsResolve, CacheResolves, OpenDatabase, EmptyContent
<1>2. Inv /\ InternInv /\ [Next]_vars => InternInv'
  BY InternStep
<1>3. InternInv => InternedIdsResolve
  BY DEF InternInv, RowsResolve, InternedIdsResolve
<1> QED BY <1>1, <1>2, <1>3, SpecInv, PTL DEF Spec

-----------------------------------------------------------------------------
(* What is committed *)

(* Outside a transaction everything is committed. *)
Settled(d) == ~d.tx => d.base = d.cur

(* The committed rows only grow. *)
Extends(b, c) == Len(b) <= Len(c) /\ \A i \in DOMAIN b : b[i] = c[i]
Grows(d, after) == Extends(d.base.rows, after.base.rows)

LEMMA ExtendsTransitive ==
  ASSUME NEW a \in Seq(Row), NEW b \in Seq(Row), NEW c \in Seq(Row),
         Extends(a, b), Extends(b, c)
  PROVE  Extends(a, c)
<1>1. DOMAIN a \subseteq DOMAIN b
  BY DEF Extends
<1> QED BY <1>1 DEF Extends

LEMMA ExtendsReflexive ==
  ASSUME NEW a \in Seq(Row)
  PROVE  Extends(a, a)
BY DEF Extends

LEMMA StatementGrows ==
  ASSUME NEW d \in Connection, NEW content \in Content,
         Extends(d.base.rows, content.rows)
  PROVE  Settled(Statement(d, content)) /\ Grows(d, Statement(d, content))
<1>1. Extends(d.base.rows, d.base.rows)
  BY RowsType, ExtendsReflexive
<1> QED BY <1>1, StatementFields DEF Settled, Grows

LEMMA RollBackGrows ==
  ASSUME NEW d \in Connection
  PROVE  Settled(RollBack(d)) /\ Grows(d, RollBack(d))
BY RollBackFields, RowsType, ExtendsReflexive DEF Settled, Grows

LEMMA TransactionGrows ==
  ASSUME NEW d \in Connection, NEW n \in Nat, ConnectionInOrder(d, n), NEW fault
  PROVE  /\ Settled(BeginTransaction(d)) /\ Grows(d, BeginTransaction(d))
         /\ Settled(d) => Settled(WalCheckpoint(d)) /\ Grows(d, WalCheckpoint(d))
         /\ Settled(d) => Settled(CommitTransaction(d, fault))
         /\ Grows(d, CommitTransaction(d, fault))
<1>1. /\ Extends(d.base.rows, d.base.rows)
      /\ Extends(d.base.rows, d.cur.rows)
  BY RowsType, ExtendsReflexive DEF Extends, ConnectionInOrder, InOrder
<1>2. CommitTransaction(d, "commitRollsBack") = RollBack(d)
      /\ CommitTransaction(d, "commitBusy") = d
  BY DEF CommitTransaction
<1>3. Settled(BeginTransaction(d)) /\ Grows(d, BeginTransaction(d))
  BY <1>1, BeginFields DEF Settled, Grows
<1>4. Settled(d) => Settled(WalCheckpoint(d)) /\ Grows(d, WalCheckpoint(d))
  BY <1>1, CheckpointFields DEF Settled, Grows
<1>5. CASE fault = "commitRollsBack"
  BY <1>2, <1>3, <1>4, <1>5, RollBackGrows
<1>6. CASE fault = "commitBusy"
  BY <1>1, <1>2, <1>3, <1>4, <1>6 DEF Grows
<1>7. CASE fault # "commitRollsBack" /\ fault # "commitBusy"
  <2>1. Settled(CommitTransaction(d, fault)) /\ Grows(d, CommitTransaction(d, fault))
    BY <1>1, <1>7, CommitFields DEF Settled, Grows
  <2> QED BY <1>3, <1>4, <2>1
<1> QED BY <1>5, <1>6, <1>7

LEMMA InternPathGrows ==
  ASSUME NEW d \in Connection, NEW n \in Nat, ConnectionInOrder(d, n), Settled(d),
         NEW p \in Paths \cup {NoPath}
  PROVE  /\ Settled(InternPath(d, p)) /\ Grows(d, InternPath(d, p))
         /\ InternPath(d, p).cur.rows = d.cur.rows
         /\ InternPath(d, p).tx = d.tx
<1>1. /\ Extends(d.base.rows, d.base.rows)
      /\ Extends(d.base.rows, d.cur.rows)
  BY RowsType, ExtendsReflexive DEF Extends, ConnectionInOrder, InOrder
<1>2. CASE IsCached(d, p)
  BY <1>1, <1>2 DEF InternPath, Grows
<1>3. CASE ~IsCached(d, p)
  <2>1. p \in Paths
    BY <1>3 DEF IsCached
  <2>2. WithFile(d.cur, p).rows = d.cur.rows
    <3>1. d.cur \in Content
      BY ConnectionFields
    <3> QED BY <3>1 DEF WithFile, Content
  <2> QED BY <1>1, <1>3, <2>1, <2>2, InternPathFields DEF Settled, Grows
<1> QED BY <1>2, <1>3

LEMMA AddRowGrows ==
  ASSUME NEW d \in Connection, NEW n \in Nat, ConnectionInOrder(d, n),
         NEW e \in Event
  PROVE  /\ Settled(AddRow(d, e)) /\ Grows(d, AddRow(d, e))
         /\ AddRow(d, e).tx = d.tx
         /\ \E row \in Row : row.id = e.id /\ AddRow(d, e).cur.rows = Append(d.cur.rows, row)
<1> DEFINE row == [id |-> e.id, kind |-> e.kind, path |-> e.path,
                   file |-> CachedId(d, e.path)]
           content == [d.cur EXCEPT !.rows = Append(@, row)]
<1>1. AddRow(d, e) = Statement(d, content)
  BY DEF AddRow
<1>2. d.cur \in Content /\ d.cur.rows \in Seq(Row) /\ d.base.rows \in Seq(Row)
  BY DEF Connection, Content
<1>3. row \in Row /\ row.id = e.id
  <2>1. CachedId(d, e.path) \in Nat
    BY DEF CachedId, Connection, Event
  <2> QED BY <2>1 DEF Row, Event
<1> HIDE DEF row
<1>4. content \in Content /\ content.rows = Append(d.cur.rows, row)
  <2>1. Append(d.cur.rows, row) \in Seq(Row)
    BY <1>2, <1>3
  <2> QED BY <1>2, <2>1 DEF Content
<1> HIDE DEF content
<1>5. Extends(d.base.rows, content.rows)
  <2>1. Extends(d.base.rows, d.cur.rows)
    BY DEF Extends, ConnectionInOrder, InOrder
  <2>2. Extends(d.cur.rows, content.rows) /\ content.rows \in Seq(Row)
    BY <1>2, <1>3, <1>4 DEF Extends
  <2> QED BY <1>2, <2>1, <2>2, ExtendsTransitive
<1>6. Settled(AddRow(d, e)) /\ Grows(d, AddRow(d, e))
  BY <1>1, <1>4, <1>5, StatementGrows
<1>7. AddRow(d, e).tx = d.tx /\ AddRow(d, e).cur = content
  BY <1>1, StatementFields
<1> QED BY <1>3, <1>4, <1>6, <1>7

LEMMA WriteEventGrows ==
  ASSUME NEW d \in Connection, NEW n \in Nat, ConnectionInOrder(d, n), Settled(d),
         NEW e \in Event, NEW fault
  PROVE  Settled(WriteEvent(d, e, fault)) /\ Grows(d, WriteEvent(d, e, fault))
<1> DEFINE interned == InternPath(d, e.path)
<1>1. e.path \in Paths \cup {NoPath}
  BY DEF Event
<1>2. /\ interned \in Connection /\ ConnectionInOrder(interned, n)
      /\ Settled(interned) /\ Grows(d, interned)
  BY <1>1, InternPathType, InternPathInOrder, InternPathGrows
<1> HIDE DEF interned
<1>3. /\ Settled(AddRow(interned, e)) /\ Grows(interned, AddRow(interned, e))
      /\ Settled(RollBack(interned)) /\ Grows(interned, RollBack(interned))
      /\ Settled(RollBack(d)) /\ Grows(d, RollBack(d)) /\ Grows(d, d)
  BY <1>2, AddRowGrows, RollBackGrows, RowsType, ExtendsReflexive DEF Grows
<1>4. /\ AddRow(interned, e) \in Connection
      /\ RollBack(interned) \in Connection
  BY <1>2, AddRowType, RollBackType
<1>5. Grows(d, AddRow(interned, e)) /\ Grows(d, RollBack(interned))
  BY <1>2, <1>3, <1>4, RowsType, ExtendsTransitive, Zenon DEF Grows
<1> QED BY <1>2, <1>3, <1>5 DEF WriteEvent, interned

(* What finalize() and a later viewer do to the tables. *)
LEMMA FinishFields ==
  ASSUME NEW d \in Connection
  PROVE  /\ CreateIndexes(d).cur = [d.cur EXCEPT !.indexed = TRUE]
         /\ ResetCounts(d).cur = [d.cur EXCEPT !.fileCount = 0, !.failCount = 0]
         /\ CountFiles(d).cur = [d.cur EXCEPT !.fileCount = CountKind(d.cur, "access")]
         /\ CountFails(d).cur = [d.cur EXCEPT !.failCount = CountKind(d.cur, "failed")]
         /\ CreateIndexes(d).tx = d.tx /\ ResetCounts(d).tx = d.tx
         /\ CountFiles(d).tx = d.tx /\ CountFails(d).tx = d.tx
BY StatementFields DEF CreateIndexes, ResetCounts, CountFiles, CountFails

SameRows(d, after) ==
  /\ after.tx = d.tx
  /\ after.cur.rows = d.cur.rows
  /\ after.base.rows = IF d.tx THEN d.base.rows ELSE d.cur.rows

LEMMA FinishSameRows ==
  ASSUME NEW d \in Connection,
         NEW after \in {CreateIndexes(d), ResetCounts(d), CountFiles(d), CountFails(d)}
  PROVE  SameRows(d, after) /\ Settled(after) /\ after \in Connection
<1>1. d.cur \in Content
  BY ConnectionFields
<1>2. \A file, fail :
        /\ [d.cur EXCEPT !.indexed = TRUE].rows = d.cur.rows
        /\ [d.cur EXCEPT !.fileCount = file, !.failCount = fail].rows = d.cur.rows
        /\ [d.cur EXCEPT !.fileCount = file].rows = d.cur.rows
        /\ [d.cur EXCEPT !.failCount = fail].rows = d.cur.rows
  BY <1>1 DEF Content
<1>3. after \in Connection
  BY FinishType
<1>4. PICK content :
        after = Statement(d, content) /\ content.rows = d.cur.rows
  <2>1. CASE after = CreateIndexes(d)
    BY <1>2, <2>1, Zenon DEF CreateIndexes
  <2>2. CASE after = ResetCounts(d)
    <3> DEFINE content == [d.cur EXCEPT !.fileCount = 0, !.failCount = 0]
    <3>1. content.rows = d.cur.rows
      BY <1>2
    <3>2. after = Statement(d, content)
      BY <2>2 DEF ResetCounts
    <3> HIDE DEF content
    <3> QED BY <3>1, <3>2
  <2>3. CASE after = CountFiles(d)
    BY <1>2, <2>3, Zenon DEF CountFiles
  <2>4. CASE after = CountFails(d)
    BY <1>2, <2>4, Zenon DEF CountFails
  <2> QED BY <2>1, <2>2, <2>3, <2>4
<1> QED BY <1>3, <1>4, StatementFields DEF SameRows, Settled

LEMMA UpgradeSameRows ==
  ASSUME NEW d \in Connection
  PROVE  SameRows(d, UpgradeSchema(d)) /\ Settled(UpgradeSchema(d))
<1> DEFINE d1 == CreateIndexes(d)
           d2 == ResetCounts(d1)
           d3 == CountFiles(d2)
           d4 == CountFails(d3)
<1>1. d1 \in Connection /\ SameRows(d, d1) /\ Settled(d1)
  BY FinishSameRows
<1> HIDE DEF d1
<1>2. d2 \in Connection /\ SameRows(d1, d2)
  BY <1>1, FinishSameRows
<1> HIDE DEF d2
<1>3. d3 \in Connection /\ SameRows(d2, d3)
  BY <1>2, FinishSameRows
<1> HIDE DEF d3
<1>4. SameRows(d3, d4) /\ Settled(d4)
  BY <1>3, FinishSameRows
<1> HIDE DEF d4
<1>5. SameRows(d, d4)
  BY <1>1, <1>2, <1>3, <1>4 DEF SameRows
<1> QED BY <1>1, <1>4, <1>5 DEF UpgradeSchema, d1, d2, d3, d4

(* apply_event settles what it commits and takes nothing committed back.   *)
LEMMA ApplyEventGrows ==
  ASSUME BatchTypeOK, NEW n \in Nat, ConnectionInOrder(db, n), Settled(db),
         NEW e \in Event, e.id = n + 1, ApplyEvent(e)
  PROVE  Settled(db') /\ Grows(db, db')
<1>1. db \in Connection /\ Grows(db, db)
  BY RowsType, ExtendsReflexive DEF BatchTypeOK, Grows
<1>2. CASE HasFatalErrors
  BY <1>1, <1>2 DEF ApplyEvent
<1>3. CASE ~HasFatalErrors
  <2> DEFINE d == IF in_transaction THEN db ELSE BeginTransaction(db)
  <2>1. PICK wf \in Failure(WriteFaults),
             cf \in Failure({"commitBusy", "commitRollsBack"}) :
           MaybeCommit(WriteEvent(d, e, wf), cf)
    BY <1>3 DEF ApplyEvent
  <2> DEFINE after == WriteEvent(d, e, wf)
             committed == CommitTransaction(after, cf)
             checked == WalCheckpoint(committed)
  <2>2. /\ d \in Connection /\ ConnectionInOrder(d, n)
        /\ Settled(d) /\ Grows(db, d)
    BY <1>1, BeginTransactionType, TransactionInOrder, TransactionGrows
  <2> HIDE DEF d
  <2>3. /\ after \in Connection /\ ConnectionInOrder(after, n + 1)
        /\ Settled(after) /\ Grows(d, after)
    BY <2>2, WriteEventType, WriteEventInOrder, WriteEventGrows
  <2>4. MaybeCommit(after, cf)
    BY <2>1
  <2> HIDE DEF after
  <2>5. /\ committed \in Connection /\ ConnectionInOrder(committed, n + 1)
        /\ Settled(committed) /\ Grows(after, committed)
    BY <2>3, CommitTransactionType, TransactionInOrder, TransactionGrows
  <2>6. db' \in {after, committed, checked}
    BY <2>4 DEF MaybeCommit
  <2> HIDE DEF committed
  <2>7. checked \in Connection /\ Settled(checked) /\ Grows(committed, checked)
    BY <2>5, WalCheckpointType, TransactionGrows
  <2> HIDE DEF checked
  <2>8. Grows(db, after)
    BY <1>1, <2>2, <2>3, RowsType, ExtendsTransitive, Zenon DEF Grows
  <2>9. Grows(db, committed)
    BY <1>1, <2>3, <2>5, <2>8, RowsType, ExtendsTransitive, Zenon DEF Grows
  <2>10. Grows(db, checked)
    BY <1>1, <2>5, <2>7, <2>9, RowsType, ExtendsTransitive, Zenon DEF Grows
  <2> QED BY <2>3, <2>5, <2>6, <2>7, <2>8, <2>9, <2>10
<1> QED BY <1>2, <1>3

(* Which steps use the connection, and how; the others leave it alone. *)
Writes == EnqueueSync \/ WriterApply
EndsTransaction == FinalizeCommit \/ WriterLastCommit
Finishes == FinalizeIndex \/ PopulateCounts
Leaves == Close \/ Kill \/ View

LEMMA OtherSteps ==
  ASSUME [Next]_vars, ~Writes, ~EndsTransaction, ~Finishes, ~Leaves
  PROVE  UNCHANGED <<db, batchVars, finalized, failures, life>>
BY DEF Next, Writes, EndsTransaction, Finishes, Leaves, HandleEvent, EnqueueWait,
       EnqueuePush, TreeGone, StopOnFatalErrors, FinalizeStop, FinalizeJoin,
       WriterWait, WriterStop, WriterTake, WriterDone, WriterPublish,
       SpuriousWakeup, Terminated, vars, sessionVars, batchVars

(* The event a writing step applies is the next one. *)
LEMMA WrittenEvent ==
  ASSUME Inv, Writes
  PROVE  /\ \E e \in Event : e.id = Applied + 1 /\ ApplyEvent(e)
         /\ Applied' = Applied + 1
         /\ UNCHANGED <<accepted, finalized, life>>
<1>1. /\ accepted \in Nat /\ pending \in Seq(Event) /\ queue \in Seq(Event)
      /\ local \in Seq(Event) /\ Applied \in Nat
  BY AppliedType DEF Inv, TypeOK
<1>2. CASE EnqueueSync
  <2>1. pending # <<>> /\ queue = <<>> /\ local = <<>>
    BY <1>2 DEF Inv, Phases, EnqueueSync, TracerAt
  <2>2. /\ Head(pending) \in Event /\ Head(pending) = pending[1]
        /\ Len(pending) = 1
    BY <2>1, OnePending
  <2>3. Head(pending).id = Applied + 1
    BY <1>1, <2>1, <2>2 DEF Inv, FifoOrder
  <2>4. Applied' = Applied + 1
    BY <1>1, <1>2, <2>1, <2>2 DEF EnqueueSync, Applied
  <2> QED BY <1>2, <2>2, <2>3, <2>4 DEF EnqueueSync, sessionVars
<1>3. CASE WriterApply
  <2>1. /\ Head(local) \in Event /\ Head(local) = local[1] /\ 1 \in DOMAIN local
        /\ Len(Tail(local)) = Len(local) - 1
    BY <1>1, <1>3 DEF WriterApply
  <2>2. Head(local).id = Applied + 1
    BY <2>1 DEF Inv, FifoOrder
  <2>3. Applied' = Applied + 1
    BY <1>1, <1>3, <2>1 DEF WriterApply, Applied
  <2> QED BY <1>3, <2>1, <2>2, <2>3 DEF WriterApply, sessionVars
<1> QED BY <1>2, <1>3 DEF Writes

(* No step takes back what is committed. *)
LEMMA StepGrows ==
  ASSUME Inv, RowsInOrder, Settled(db), [Next]_vars
  PROVE  Settled(db') /\ Grows(db, db')
<1>1. /\ Applied \in Nat /\ ConnectionInOrder(db, Applied) /\ BatchTypeOK
      /\ db \in Connection /\ Grows(db, db)
      /\ Extends(db.base.rows, db.cur.rows)
  BY AppliedType, RowsInOrderIs, RowsType, ExtendsReflexive
     DEF Inv, TypeOK, BatchTypeOK, Grows, Extends, ConnectionInOrder, InOrder
<1>2. CASE Writes
  BY <1>1, <1>2, WrittenEvent, ApplyEventGrows
<1>3. CASE EndsTransaction
  <2>1. \E cf : db' \in {db, CommitTransaction(db, cf)}
    BY <1>3 DEF EndsTransaction, FinalizeCommit, WriterLastCommit, CommitOpenTransaction
  <2> QED BY <1>1, <2>1, TransactionGrows
<1>4. CASE Finishes
  <2>1. CASE db' \in {CreateIndexes(db), ResetCounts(db), CountFiles(db), CountFails(db)}
    <3>1. SameRows(db, db') /\ Settled(db')
      BY <1>1, <2>1, FinishSameRows
    <3> QED BY <1>1, <3>1 DEF Grows, SameRows
  <2>2. CASE db' \in {db, RollBack(db)}
    BY <1>1, <2>2, RollBackGrows
  <2> QED BY <1>4, <2>1, <2>2, FinishIs DEF Finishes
<1>5. CASE Leaves
  <2>1. CASE db' = RollBack(db)
    BY <1>1, <2>1, RollBackGrows
  <2>2. CASE db' = UpgradeSchema(db)
    <3>1. SameRows(db, db') /\ Settled(db')
      BY <1>1, <2>2, UpgradeSameRows
    <3> QED BY <1>1, <3>1 DEF Grows, SameRows
  <2> QED BY <1>5, <2>1, <2>2 DEF Leaves, Close, CloseDatabase, Kill, View
<1>6. CASE ~Writes /\ ~EndsTransaction /\ ~Finishes /\ ~Leaves
  BY <1>1, <1>6, OtherSteps
<1> QED BY <1>2, <1>3, <1>4, <1>5, <1>6

LEMMA SpecSettled == Spec => []Settled(db)
<1>1. Init => Settled(db)
  BY DEF Init, Settled, OpenDatabase
<1>2. Inv /\ RowsInOrder /\ Settled(db) /\ [Next]_vars => Settled(db)'
  BY StepGrows
<1> QED BY <1>1, <1>2, SpecInv, RowsAreInOrder, PTL DEF Spec

-----------------------------------------------------------------------------
(* What is lost *)

(* Event i is in row i. *)
Dense(rows) == \A i \in DOMAIN rows : rows[i].id = i

(* Where finalize() is says whose the transaction is. *)
Stages ==
  /\ consecutive_errors <= write_error_count
  /\ ~in_transaction => ~db.tx
  /\ tracer \in {"index", "reset_counts", "file_counts", "fail_counts", "closed"}
       => ~in_transaction
  /\ tracer \in {"reset_counts", "file_counts", "fail_counts", "closed"} => finalized
  /\ finalized => /\ ~async /\ ~in_transaction
                  /\ tracer \notin {"loop", "enqueue", "wait_space", "join"}

(* With no error counted there is a row for every event applied. *)
Lossless ==
  write_error_count = 0 =>
    /\ Dense(db.cur.rows)
    /\ life = "running" \/ tracer = "closed" => Len(db.cur.rows) = Applied

LossInv == Stages /\ Lossless

(* apply_event without a COMMIT that fails: the transaction ends where the *)
(* session says it ends, and the event has a row unless an error is        *)
(* counted.                                                                *)
LEMMA ApplyEventLoss ==
  ASSUME Faults \cap CommitFaults = {}, BatchTypeOK, NEW n \in Nat,
         ConnectionInOrder(db, n), Settled(db), NEW e \in Event, e.id = n + 1,
         consecutive_errors <= write_error_count,
         ~in_transaction => ~db.tx, ApplyEvent(e)
  PROVE  /\ consecutive_errors' <= write_error_count'
         /\ ~in_transaction' => ~db'.tx
         /\ write_error_count' = 0 =>
              /\ write_error_count = 0
              /\ \E row \in Row : /\ row.id = e.id
                                  /\ db'.cur.rows = Append(db.cur.rows, row)
<1>1. /\ db \in Connection
      /\ write_error_count \in Nat /\ consecutive_errors \in Nat
  BY DEF BatchTypeOK
<1>2. CASE HasFatalErrors
  <2>1. write_error_count' # 0
    BY <1>1, <1>2, QueueAssumption DEF HasFatalErrors, ApplyEvent, batchVars
  <2> QED BY <1>2, <2>1 DEF ApplyEvent, batchVars
<1>3. CASE ~HasFatalErrors
  <2> DEFINE d == IF in_transaction THEN db ELSE BeginTransaction(db)
  <2>1. PICK wf \in Failure(WriteFaults),
             cf \in Failure({"commitBusy", "commitRollsBack"}) :
           /\ CheckWriteResult(wf = "none")
           /\ MaybeCommit(WriteEvent(d, e, wf), cf)
    BY <1>3 DEF ApplyEvent
  <2>2. cf \notin CommitFaults
    BY DEF Failure, CommitFaults
  <2> DEFINE interned == InternPath(d, e.path)
             after == WriteEvent(d, e, wf)
             committed == CommitTransaction(after, cf)
             checked == WalCheckpoint(committed)
  <2>3. /\ d \in Connection /\ ConnectionInOrder(d, n) /\ Settled(d)
        /\ d.cur = db.cur
    BY <1>1, BeginTransactionType, TransactionInOrder, TransactionGrows, BeginFields
  <2> HIDE DEF d
  <2>4. after \in Connection
    BY <2>3, WriteEventType
  <2>5. ASSUME wf = "none"
        PROVE  \E row \in Row : row.id = e.id /\ after.cur.rows = Append(db.cur.rows, row)
    <3>1. /\ interned \in Connection /\ ConnectionInOrder(interned, n)
          /\ interned.cur.rows = db.cur.rows
      BY <2>3, InternPathType, InternPathInOrder, InternPathGrows DEF Event
    <3>2. after = AddRow(interned, e)
      BY <2>5 DEF WriteEvent
    <3> HIDE DEF interned, after
    <3> QED BY <3>1, <3>2, AddRowGrows
  <2>6. MaybeCommit(after, cf)
    BY <2>1
  <2> HIDE DEF after
  <2>7. committed.tx = FALSE /\ committed.cur = after.cur /\ committed \in Connection
    BY <2>2, <2>4, CommitFields, CommitTransactionType DEF CommitFaults
  <2> HIDE DEF committed
  <2>8. checked.tx = FALSE /\ checked.cur = after.cur
    BY <2>7, CheckpointFields
  <2>9. /\ db'.cur = after.cur
        /\ ~in_transaction' => ~db'.tx
    <3>1. CASE event_count + 1 >= BatchSize
      <4>1. db' \in {committed, checked}
        BY <2>6, <3>1, Zenon DEF MaybeCommit, committed
      <4> QED BY <2>7, <2>8, <4>1
    <3>2. CASE ~(event_count + 1 >= BatchSize)
      BY <2>6, <3>2 DEF MaybeCommit
    <3> QED BY <3>1, <3>2
  <2>10. /\ consecutive_errors' <= write_error_count'
         /\ write_error_count' = 0 => wf = "none" /\ write_error_count = 0
    BY <1>1, <2>1 DEF CheckWriteResult
  <2> QED BY <2>5, <2>9, <2>10
<1> QED BY <1>2, <1>3

(* Where the steps that leave the connection alone take the tracer. *)
LEMMA OtherPlaces ==
  ASSUME Inv, [Next]_vars, ~Writes, ~EndsTransaction, ~Finishes, ~Leaves
  PROVE  \/ tracer' = tracer /\ async' = async
         \/ /\ tracer \in {"loop", "enqueue", "wait_space", "join"}
            /\ tracer' \in {"loop", "enqueue", "wait_space", "finalize", "commit"}
         \/ /\ tracer = "finalize" /\ async' = async
            /\ tracer' = IF async THEN "join" ELSE "commit"
BY DEF Next, Writes, EndsTransaction, Finishes, Leaves, HandleEvent, EnqueueWait,
       EnqueuePush, TreeGone, StopOnFatalErrors, FinalizeStop, FinalizeJoin,
       WriterWait, WriterStop, WriterTake, WriterDone, WriterPublish,
       SpuriousWakeup, Terminated, vars, sessionVars, TracerAt, WriterAt

LEMMA WritesLoss ==
  ASSUME Faults \cap CommitFaults = {}, Inv, RowsInOrder, Settled(db), LossInv, Writes
  PROVE  LossInv'
<1>1. /\ Applied \in Nat /\ ConnectionInOrder(db, Applied) /\ BatchTypeOK
      /\ db.cur.rows \in Seq(Row)
  BY AppliedType, RowsInOrderIs, RowsType DEF Inv, TypeOK, BatchTypeOK
<1>2. /\ life = "running" /\ ~finalized
      /\ tracer' \notin {"index", "reset_counts", "file_counts", "fail_counts", "closed"}
  BY DEF Writes, EnqueueSync, WriterApply, TracerAt, WriterAt, Inv, Phases,
         TracerUsesDb, LossInv, Stages
<1>3. PICK e \in Event : e.id = Applied + 1 /\ ApplyEvent(e)
  BY WrittenEvent
<1>4. Applied' = Applied + 1 /\ UNCHANGED <<finalized, life>>
  BY WrittenEvent
<1>5. /\ consecutive_errors' <= write_error_count'
      /\ ~in_transaction' => ~db'.tx
      /\ write_error_count' = 0 =>
           /\ write_error_count = 0
           /\ \E row \in Row : /\ row.id = e.id
                               /\ db'.cur.rows = Append(db.cur.rows, row)
  BY <1>1, <1>3, ApplyEventLoss DEF LossInv, Stages
<1>6. Stages'
  BY <1>2, <1>4, <1>5 DEF Stages
<1>7. ASSUME write_error_count' = 0
      PROVE  Dense(db'.cur.rows) /\ Len(db'.cur.rows) = Applied'
  <2> DEFINE rows == db.cur.rows
  <2>1. Dense(rows) /\ Len(rows) = Applied
    BY <1>2, <1>5, <1>7 DEF LossInv, Lossless
  <2>2. PICK row \in Row : row.id = e.id /\ db'.cur.rows = Append(rows, row)
    BY <1>5, <1>7
  <2>3. rows \in Seq(Row) /\ row.id = Len(rows) + 1
    BY <1>1, <1>3, <2>1, <2>2
  <2> HIDE DEF rows
  <2> QED BY <1>1, <1>4, <2>1, <2>2, <2>3 DEF Dense
<1> QED BY <1>6, <1>7 DEF LossInv, Lossless

LEMMA EndsTransactionLoss ==
  ASSUME Faults \cap CommitFaults = {}, Inv, LossInv, EndsTransaction
  PROVE  LossInv'
<1>1. Applied' = Applied /\ db \in Connection
  BY AppliedUnchanged DEF EndsTransaction, FinalizeCommit, WriterLastCommit, queueVars,
                          Applied, Inv, TypeOK
<1>2. db'.cur = db.cur /\ ~in_transaction' /\ ~db'.tx
  <2>1. CASE in_transaction
    <3>1. PICK cf \in Failure({"commitBusy", "commitRollsBack"}) :
             db' = CommitTransaction(db, cf) /\ in_transaction' = FALSE
      BY <2>1 DEF EndsTransaction, FinalizeCommit, WriterLastCommit, CommitOpenTransaction
    <3>2. cf \notin CommitFaults
      BY DEF Failure, CommitFaults
    <3> QED BY <1>1, <3>1, <3>2, CommitFields DEF CommitFaults
  <2>2. CASE ~in_transaction
    BY <2>2 DEF EndsTransaction, FinalizeCommit, WriterLastCommit,
                CommitOpenTransaction, LossInv, Stages
  <2> QED BY <2>1, <2>2
<1>3. /\ UNCHANGED <<consecutive_errors, write_error_count, finalized, async, life>>
      /\ \/ tracer = "commit" /\ tracer' = "index"
         \/ tracer' = tracer
      /\ life = "running"
  BY DEF EndsTransaction, FinalizeCommit, WriterLastCommit, sessionVars, TracerAt,
         WriterAt
<1>4. Stages'
  BY <1>2, <1>3 DEF LossInv, Stages
<1> QED BY <1>1, <1>2, <1>3, <1>4 DEF LossInv, Lossless

LEMMA FinishesLoss ==
  ASSUME Inv, Settled(db), LossInv, Finishes
  PROVE  LossInv'
<1>1. /\ Applied' = Applied /\ db \in Connection /\ life = "running"
      /\ UNCHANGED <<batchVars, async, life>>
  BY DEF Finishes, FinalizeIndex, PopulateCounts, PopulateStep, queueVars,
         sessionVars, Applied, Inv, TypeOK, TracerAt
<1>2. ~async /\ ~in_transaction /\ finalized'
  BY DEF Finishes, FinalizeIndex, PopulateCounts, PopulateStep, sessionVars, TracerAt,
         Inv, Phases, TracerUsesDb, LossInv, Stages
<1>3. ~db'.tx /\ db'.cur.rows = db.cur.rows
  <2>1. ~db.tx /\ db.base = db.cur
    BY <1>2 DEF LossInv, Stages, Settled
  <2>2. CASE db' \in {CreateIndexes(db), ResetCounts(db), CountFiles(db), CountFails(db)}
    BY <1>1, <2>1, <2>2, FinishSameRows DEF SameRows
  <2>3. CASE db' \in {db, RollBack(db)}
    BY <1>1, <2>1, <2>3, RollBackFields
  <2> QED BY <2>2, <2>3, FinishIs DEF Finishes
<1>4. Lossless'
  BY <1>1, <1>3 DEF LossInv, Lossless, batchVars
<1>5. tracer' \in {"reset_counts", "file_counts", "fail_counts", "finalize"}
  BY FinishIs DEF Finishes
<1>6. Stages'
  BY <1>1, <1>2, <1>3, <1>5 DEF LossInv, Stages, batchVars
<1> QED BY <1>4, <1>6 DEF LossInv

LEMMA LeavesLoss ==
  ASSUME Inv, RowsInOrder, Settled(db), LossInv, Leaves
  PROVE  LossInv'
<1>1. /\ Applied' = Applied /\ db \in Connection
      /\ db.base.rows \in Seq(Row) /\ db.cur.rows \in Seq(Row)
      /\ UNCHANGED <<batchVars, async, finalized>>
  BY RowsType DEF Leaves, Close, Kill, View, queueVars, sessionVars, Applied, Inv, TypeOK
<1>2. CASE Close
  <2>1. finalized /\ ~in_transaction /\ ~db.tx /\ life = "running"
    BY <1>2 DEF Close, TracerAt, LossInv, Stages
  <2>2. ~db'.tx /\ db'.cur = db.cur /\ tracer' = "closed" /\ tracer = "index"
    BY <1>1, <1>2, <2>1, RollBackFields DEF Close, CloseDatabase, Settled, TracerAt
  <2>3. Stages'
    BY <1>1, <2>1, <2>2 DEF LossInv, Stages, batchVars
  <2> QED BY <1>1, <2>1, <2>2, <2>3 DEF LossInv, Lossless, batchVars
<1>3. CASE Kill
  <2>1. ~db'.tx /\ db'.cur = db.base /\ tracer' = tracer /\ tracer # "closed"
        /\ life' # "running"
    BY <1>1, <1>3, RollBackFields DEF Kill
  <2>2. ~in_transaction => db.base = db.cur
    BY DEF LossInv, Stages, Settled
  <2>3. Dense(db.cur.rows) => Dense(db.base.rows)
    <3>1. Extends(db.base.rows, db.cur.rows)
      BY <1>1 DEF RowsInOrder, Extends
    <3>2. DOMAIN db.base.rows \subseteq DOMAIN db.cur.rows
      BY <1>1, <3>1 DEF Extends
    <3> QED BY <3>1, <3>2 DEF Dense, Extends
  <2>4. Stages'
    BY <1>1, <2>1, <2>2 DEF LossInv, Stages, batchVars
  <2> QED BY <1>1, <2>1, <2>3, <2>4 DEF LossInv, Lossless, batchVars
<1>4. CASE View
  <2>1. db'.tx = db.tx /\ db'.cur.rows = db.cur.rows
    BY <1>1, <1>4, UpgradeSameRows DEF View, SameRows
  <2>2. tracer' = tracer /\ life' # "running"
    BY <1>4 DEF View
  <2>3. Stages'
    BY <1>1, <2>1, <2>2 DEF LossInv, Stages, batchVars
  <2> QED BY <1>1, <2>1, <2>2, <2>3 DEF LossInv, Lossless, batchVars
<1> QED BY <1>2, <1>3, <1>4 DEF Leaves

LEMMA LossStep ==
  ASSUME Faults \cap CommitFaults = {}, Inv, RowsInOrder, Settled(db), LossInv, [Next]_vars
  PROVE  LossInv'
<1>1. CASE ~Writes /\ ~EndsTransaction /\ ~Finishes /\ ~Leaves
  <2>1. UNCHANGED <<db, batchVars, finalized, life>> /\ Applied' = Applied
    BY <1>1, OtherSteps, AppliedUnchanged DEF Writes
  <2>2. Stages'
    BY <1>1, <2>1, OtherPlaces DEF LossInv, Stages, batchVars
  <2>3. tracer' = "closed" => tracer = "closed"
    BY <1>1, OtherPlaces
  <2> QED BY <2>1, <2>2, <2>3 DEF LossInv, Lossless, batchVars
<1> QED BY <1>1, WritesLoss, EndsTransactionLoss, FinishesLoss, LeavesLoss

LEMMA SpecLoss ==
  ASSUME Faults \cap CommitFaults = {}
  PROVE  Spec => []LossInv
<1>1. Init => LossInv
  BY DEF Init, LossInv, Stages, Lossless, Dense, Applied, OpenDatabase, EmptyContent
<1>2. Inv /\ RowsInOrder /\ Settled(db) /\ LossInv /\ [Next]_vars => LossInv'
  BY LossStep
<1> QED BY <1>1, <1>2, SpecInv, RowsAreInOrder, SpecSettled, PTL DEF Spec

LEMMA LossInvRows ==
  ASSUME Inv, Settled(db), LossInv, tracer = "closed", write_error_count = 0
  PROVE  Len(db.base.rows) = accepted
<1>1. pending = <<>> /\ local = <<>> /\ queue = <<>> /\ accepted \in Nat
  BY DEF Inv, TypeOK, Phases, TracerUsesDb
<1>2. Applied = accepted
  BY <1>1 DEF Applied
<1>3. db.base = db.cur
  BY DEF Settled, LossInv, Stages
<1> QED BY <1>2, <1>3 DEF LossInv, Lossless

-----------------------------------------------------------------------------
(* What finalize() builds, and what it does not *)

Uncounted(d) == d.cur.fileCount = 0 /\ d.base.fileCount = 0

(* Nothing but finalize() and a viewer counts. *)
LEMMA WriteEventUncounted ==
  ASSUME NEW d \in Connection, Uncounted(d), NEW e \in Event, NEW fault
  PROVE  Uncounted(WriteEvent(d, e, fault))
<1> DEFINE interned == InternPath(d, e.path)
           path == e.path
<1>1. path \in Paths \cup {NoPath} /\ d.cur \in Content
  BY ConnectionFields DEF Event
<1>2. interned \in Connection /\ Uncounted(interned)
  <2>1. CASE IsCached(d, path)
    BY <2>1 DEF InternPath
  <2>2. CASE ~IsCached(d, path)
    <3>1. path \in Paths
      BY <1>1, <2>2 DEF IsCached
    <3>2. WithFile(d.cur, path).fileCount = 0
      BY <1>1 DEF WithFile, Content, Uncounted
    <3>3. /\ InternPath(d, path).cur = WithFile(d.cur, path)
          /\ InternPath(d, path).base = IF d.tx THEN d.base ELSE WithFile(d.cur, path)
      BY <2>2, <3>1, InternPathFields
    <3> QED BY <1>1, <3>2, <3>3, InternPathType DEF Uncounted
  <2> QED BY <1>1, <2>1, <2>2, InternPathType
<1> HIDE DEF interned
<1>3. Uncounted(AddRow(interned, e))
  <2> DEFINE content == [interned.cur EXCEPT !.rows =
                Append(@, [id |-> e.id, kind |-> e.kind, path |-> e.path,
                           file |-> CachedId(interned, e.path)])]
  <2>1. content.fileCount = 0
    <3>1. interned.cur \in Content
      BY <1>2, ConnectionFields
    <3> QED BY <1>2, <3>1 DEF Content, Uncounted
  <2>2. AddRow(interned, e) = Statement(interned, content)
    BY DEF AddRow
  <2> HIDE DEF content
  <2> QED BY <1>2, <2>1, <2>2, StatementFields DEF Uncounted
<1>4. Uncounted(RollBack(d)) /\ Uncounted(RollBack(interned))
  BY <1>2, RollBackFields DEF Uncounted
<1> QED BY <1>2, <1>3, <1>4 DEF WriteEvent, interned

LEMMA CommitUncounted ==
  ASSUME NEW d \in Connection, Uncounted(d), NEW fault
  PROVE  Uncounted(CommitTransaction(d, fault))
BY CommitFields, RollBackFields DEF CommitTransaction, Uncounted

LEMMA ApplyEventUncounted ==
  ASSUME BatchTypeOK, Uncounted(db), NEW e \in Event, ApplyEvent(e)
  PROVE  Uncounted(db')
<1>1. db \in Connection
  BY DEF BatchTypeOK
<1>2. CASE HasFatalErrors
  BY <1>2 DEF ApplyEvent
<1>3. CASE ~HasFatalErrors
  <2> DEFINE d == IF in_transaction THEN db ELSE BeginTransaction(db)
  <2>1. PICK wf \in Failure(WriteFaults),
             cf \in Failure({"commitBusy", "commitRollsBack"}) :
           MaybeCommit(WriteEvent(d, e, wf), cf)
    BY <1>3 DEF ApplyEvent
  <2> DEFINE after == WriteEvent(d, e, wf)
             committed == CommitTransaction(after, cf)
  <2>2. d \in Connection /\ Uncounted(d)
    BY <1>1, BeginTransactionType, BeginFields DEF Uncounted
  <2> HIDE DEF d
  <2>3. after \in Connection /\ Uncounted(after)
    BY <2>2, WriteEventType, WriteEventUncounted
  <2>4. MaybeCommit(after, cf)
    BY <2>1
  <2> HIDE DEF after
  <2>5. committed \in Connection /\ Uncounted(committed)
    BY <2>3, CommitTransactionType, CommitUncounted
  <2>6. db' \in {after, committed, WalCheckpoint(committed)}
    BY <2>4 DEF MaybeCommit
  <2> HIDE DEF committed
  <2> QED BY <2>3, <2>5, <2>6, CheckpointFields DEF Uncounted
<1> QED BY <1>2, <1>3

(* CountKind looks at the rows only. *)
LEMMA CountSameRows ==
  ASSUME NEW c, NEW d, c.rows = d.rows, NEW kind
  PROVE  CountKind(c, kind) = CountKind(d, kind)
BY DEF CountKind

FilesCounted(content) == content.fileCount = CountKind(content, "access")
FailsCounted(content) == content.failCount = CountKind(content, "failed")

(* What is built when no statement of finalize() has failed. *)
Built ==
  /\ db.cur.indexed
  /\ tracer \notin {"reset_counts", "file_counts"} => FilesCounted(db.cur)
  /\ tracer \notin {"reset_counts", "file_counts", "fail_counts"} => FailsCounted(db.cur)

BuildInv ==
  /\ finalized \/ life = "viewed" \/ Uncounted(db)
  /\ finalized => db.cur.fileCount = 0 \/ FilesCounted(db.cur)
  /\ finalized /\ failures = 0 => Built
  /\ life = "viewed" => db.cur.indexed /\ FilesCounted(db.cur)

LEMMA FinishesBuild ==
  ASSUME Inv, Settled(db), LossInv, BuildInv, Finishes
  PROVE  BuildInv'
<1>1. /\ db \in Connection /\ db.cur \in Content /\ failures \in Nat
      /\ life = "running" /\ life' = "running" /\ ~db.tx /\ db.base = db.cur
      /\ finalized'
  BY ConnectionFields
     DEF Finishes, FinalizeIndex, PopulateCounts, PopulateStep, sessionVars, Inv, TypeOK,
         TracerAt, LossInv, Stages, Settled
<1>2. db.cur.fileCount = 0 \/ FilesCounted(db.cur)
  BY <1>1 DEF BuildInv, Uncounted
<1>3. finalized \/ tracer = "index"
  BY FinishIs DEF Finishes, LossInv, Stages
<1>4. ASSUME db' \in {db, RollBack(db)}, failures' = failures + 1
      PROVE  BuildInv'
  <2>1. db'.cur = db.cur
    BY <1>1, <1>4, RollBackFields
  <2>2. db'.cur.fileCount = 0 \/ FilesCounted(db'.cur)
    BY <1>2, <2>1
  <2>3. failures' # 0
    BY <1>1, <1>4
  <2> QED BY <1>1, <2>2, <2>3 DEF BuildInv
<1>5. ASSUME NEW after, db' = after, failures' = failures,
             after \in {CreateIndexes(db), ResetCounts(db), CountFiles(db), CountFails(db)}
      PROVE  \A kind : CountKind(db'.cur, kind) = CountKind(db.cur, kind)
  BY <1>1, <1>5, FinishSameRows, CountSameRows DEF SameRows
<1>6. ASSUME FinalizeIndex, db' = CreateIndexes(db), failures' = failures,
             tracer' = "reset_counts"
      PROVE  BuildInv'
  <2>1. db'.cur.indexed /\ db'.cur.fileCount = db.cur.fileCount
    BY <1>1, <1>6, FinishFields DEF Content
  <2> QED BY <1>1, <1>2, <1>5, <1>6, <2>1 DEF BuildInv, Built, FilesCounted
<1>7. ASSUME tracer = "reset_counts", db' = ResetCounts(db), failures' = failures,
             tracer' = "file_counts"
      PROVE  BuildInv'
  <2>1. db'.cur.indexed = db.cur.indexed /\ db'.cur.fileCount = 0
    BY <1>1, <1>7, FinishFields DEF Content
  <2> QED BY <1>1, <1>3, <1>7, <2>1 DEF BuildInv, Built
<1>8. ASSUME tracer = "file_counts", db' = CountFiles(db), failures' = failures,
             tracer' = "fail_counts"
      PROVE  BuildInv'
  <2>1. /\ db'.cur.indexed = db.cur.indexed
        /\ db'.cur.fileCount = CountKind(db.cur, "access")
    BY <1>1, <1>8, FinishFields DEF Content
  <2> QED BY <1>1, <1>3, <1>5, <1>8, <2>1 DEF BuildInv, Built, FilesCounted
<1>9. ASSUME tracer = "fail_counts", db' = CountFails(db), failures' = failures,
             tracer' = "finalize"
      PROVE  BuildInv'
  <2>1. /\ db'.cur.indexed = db.cur.indexed
        /\ db'.cur.fileCount = db.cur.fileCount
        /\ db'.cur.failCount = CountKind(db.cur, "failed")
    BY <1>1, <1>9, FinishFields DEF Content
  <2> QED BY <1>1, <1>2, <1>3, <1>5, <1>9, <2>1
          DEF BuildInv, Built, FilesCounted, FailsCounted
<1> QED BY <1>4, <1>6, <1>7, <1>8, <1>9, FinalizeIndexIs, PopulateStepIs
        DEF Finishes, PopulateCounts, Finished

(* A viewer keeps the counts that are right, counts anew what was not      *)
(* counted, and builds the indexes.                                        *)
LEMMA UpgradeKeepsCounts ==
  ASSUME NEW d \in Connection
  PROVE  LET after == UpgradeSchema(d)
         IN  /\ after.cur.indexed
             /\ d.cur.fileCount \in {0, CountKind(d.cur, "access")} =>
                  after.cur.fileCount = CountKind(after.cur, "access")
             /\ d.cur.failCount = CountKind(d.cur, "failed") =>
                  after.cur.failCount = CountKind(after.cur, "failed")
<1> DEFINE d1 == CreateIndexes(d)
           d2 == ResetCounts(d1)
           d3 == CountFiles(d2)
           d4 == CountFails(d3)
<1>1. /\ d1 \in Connection /\ d1.cur \in Content /\ d.cur \in Content
      /\ d1.cur = [d.cur EXCEPT !.indexed = TRUE] /\ d1.cur.rows = d.cur.rows
  BY FinishSameRows, FinishFields, ConnectionFields DEF SameRows
<1>2. /\ d1.cur.indexed /\ d1.cur.fileCount = d.cur.fileCount
      /\ d1.cur.failCount = d.cur.failCount
  BY <1>1 DEF Content
<1> HIDE DEF d1
<1>3. /\ d2 \in Connection /\ d2.cur \in Content /\ d2.cur.indexed
      /\ d2.cur.rows = d1.cur.rows
  <2>1. d2 \in Connection /\ d2.cur.rows = d1.cur.rows
    BY <1>1, FinishSameRows DEF SameRows
  <2>2. d2.cur = [d1.cur EXCEPT !.fileCount = 0, !.failCount = 0]
    BY <1>1, FinishFields
  <2> HIDE DEF d2
  <2>3. d2.cur.indexed
    BY <1>1, <1>2, <2>2 DEF Content
  <2> QED BY <2>1, <2>3, ConnectionFields
<1> HIDE DEF d2
<1>4. /\ d3 \in Connection /\ d3.cur \in Content /\ d3.cur.indexed
      /\ d3.cur.rows = d1.cur.rows
      /\ d3.cur.fileCount = CountKind(d2.cur, "access")
  <2>1. d3 \in Connection /\ d3.cur.rows = d1.cur.rows
    BY <1>3, FinishSameRows DEF SameRows
  <2>2. d3.cur.indexed /\ d3.cur.fileCount = CountKind(d2.cur, "access")
    BY <1>3, FinishFields DEF Content
  <2> HIDE DEF d3
  <2> QED BY <2>1, <2>2, ConnectionFields
<1> HIDE DEF d3
<1>5. /\ d4.cur.indexed /\ d4.cur.rows = d1.cur.rows
      /\ d4.cur.fileCount = CountKind(d2.cur, "access")
      /\ d4.cur.failCount = CountKind(d3.cur, "failed")
  <2>1. d4.cur.rows = d1.cur.rows
    BY <1>4, FinishSameRows DEF SameRows
  <2>2. /\ d4.cur.indexed /\ d4.cur.fileCount = CountKind(d2.cur, "access")
        /\ d4.cur.failCount = CountKind(d3.cur, "failed")
    BY <1>4, FinishFields DEF Content
  <2> QED BY <2>1, <2>2
<1> HIDE DEF d4
<1>6. \A kind : /\ CountKind(d1.cur, kind) = CountKind(d.cur, kind)
                /\ CountKind(d2.cur, kind) = CountKind(d4.cur, kind)
                /\ CountKind(d3.cur, kind) = CountKind(d4.cur, kind)
  BY <1>1, <1>3, <1>4, <1>5 DEF CountKind
<1>7. UpgradeSchema(d) = IF NeedsRecount(d1.cur) THEN d4 ELSE d1
  BY DEF UpgradeSchema, d1, d2, d3, d4
<1>8. CountKind(d1.cur, "access") \in Nat
  BY <1>1, CountKindType
<1> QED BY <1>2, <1>5, <1>6, <1>7, <1>8 DEF NeedsRecount

LEMMA BuildStep ==
  ASSUME Inv, Settled(db), LossInv, BuildInv, [Next]_vars
  PROVE  BuildInv'
<1>0. db \in Connection /\ failures \in Nat /\ BatchTypeOK
  BY DEF Inv, TypeOK, BatchTypeOK
<1>1. CASE Writes
  <2>1. ~finalized /\ life = "running"
    BY <1>1 DEF Writes, EnqueueSync, WriterApply, TracerAt, WriterAt, Inv, Phases,
                LossInv, Stages
  <2>2. PICK e \in Event : ApplyEvent(e)
    BY <1>1, WrittenEvent
  <2>3. Uncounted(db')
    BY <1>0, <2>1, <2>2, ApplyEventUncounted DEF BuildInv
  <2>4. UNCHANGED <<finalized, life>>
    BY <1>1, WrittenEvent
  <2> QED BY <2>1, <2>3, <2>4 DEF BuildInv
<1>2. CASE EndsTransaction
  <2>1. UNCHANGED <<finalized, life>> /\ life = "running"
    BY <1>2 DEF EndsTransaction, FinalizeCommit, WriterLastCommit, sessionVars,
                TracerAt, WriterAt
  <2>2. CASE finalized
    <3>1. UNCHANGED <<db, failures>>
      BY <1>2, <2>2 DEF EndsTransaction, FinalizeCommit, WriterLastCommit,
                        CommitOpenTransaction, LossInv, Stages
    <3>2. tracer' = tracer \/ (tracer = "commit" /\ tracer' = "index")
      <4>1. CASE FinalizeCommit
        BY <4>1 DEF FinalizeCommit, TracerAt
      <4>2. CASE WriterLastCommit
        BY <4>2 DEF WriterLastCommit, queueVars, sessionVars
      <4> QED BY <1>2, <4>1, <4>2 DEF EndsTransaction
    <3> QED BY <2>1, <2>2, <3>1, <3>2 DEF BuildInv, Built
  <2>3. CASE ~finalized
    <3>1. db' = db \/ \E cf : db' = CommitTransaction(db, cf)
      BY <1>2 DEF EndsTransaction, FinalizeCommit, WriterLastCommit, CommitOpenTransaction
    <3>2. Uncounted(db')
      BY <1>0, <2>1, <2>3, <3>1, CommitUncounted DEF BuildInv
    <3> QED BY <2>1, <2>3, <3>2 DEF BuildInv
  <2> QED BY <2>2, <2>3
<1>3. CASE Finishes
  BY <1>3, FinishesBuild
<1>4. CASE Close \/ Kill
  <2>1. /\ db' = RollBack(db) /\ UNCHANGED <<finalized, failures>>
        /\ life' # "viewed" /\ life = "running"
        /\ tracer' = tracer \/ (tracer = "index" /\ tracer' = "closed")
    <3>1. CASE Close
      BY <3>1 DEF Close, CloseDatabase, sessionVars, TracerAt
    <3>2. CASE Kill
      <4>1. db' = RollBack(db) /\ life = "running" /\ life' = "killed"
        BY <3>2 DEF Kill
      <4>2. UNCHANGED <<finalized, failures, tracer>>
        BY <3>2 DEF Kill, queueVars, sessionVars, batchVars
      <4>3. life' # "viewed"
        BY <4>1
      <4> QED BY <4>1, <4>2, <4>3, Zenon
    <3> QED BY <1>4, <3>1, <3>2
  <2>2. finalized => db.base = db.cur
    BY DEF LossInv, Stages, Settled
  <2>3. db'.cur = db.base /\ db'.base = db.base
    BY <1>0, <2>1, RollBackFields
  <2> QED BY <2>1, <2>2, <2>3 DEF BuildInv, Built, Uncounted
<1>5. CASE View
  <2>1. /\ db' = UpgradeSchema(db) /\ life # "viewed" /\ life' = "viewed"
        /\ UNCHANGED <<finalized, failures, tracer>>
    BY <1>5 DEF View, sessionVars
  <2>2. db.cur.fileCount = 0 \/ FilesCounted(db.cur)
    BY <2>1 DEF BuildInv, Uncounted
  <2>3. /\ db'.cur.indexed /\ FilesCounted(db'.cur)
        /\ FailsCounted(db.cur) => FailsCounted(db'.cur)
    BY <1>0, <2>1, <2>2, UpgradeKeepsCounts DEF FilesCounted, FailsCounted
  <2> QED BY <2>1, <2>3 DEF BuildInv, Built
<1>6. CASE ~Writes /\ ~EndsTransaction /\ ~Finishes /\ ~Leaves
  <2>1. UNCHANGED <<db, finalized, failures, life>>
    BY <1>6, OtherSteps
  <2>2. tracer' = tracer \/ tracer' \in {"loop", "enqueue", "wait_space", "finalize",
                                         "join", "commit"}
    BY <1>6, OtherPlaces
  <2>3. tracer \in {"reset_counts", "file_counts", "fail_counts"} => tracer' = tracer
    BY <1>6, OtherPlaces
  <2> QED BY <2>1, <2>2, <2>3 DEF BuildInv, Built
<1> QED BY <1>1, <1>2, <1>3, <1>4, <1>5, <1>6 DEF Leaves

LEMMA SpecBuild ==
  ASSUME Faults \cap CommitFaults = {}
  PROVE  Spec => []BuildInv
<1>1. Init => BuildInv
  BY DEF Init, BuildInv, Uncounted, OpenDatabase, EmptyContent
<1>2. Inv /\ Settled(db) /\ LossInv /\ BuildInv /\ [Next]_vars => BuildInv'
  BY BuildStep
<1> QED BY <1>1, <1>2, SpecInv, SpecSettled, SpecLoss, PTL DEF Spec

(* However writes fail, a session that is closed with no error counted has *)
(* a row for every event it took.  Where the indexes or the counts of      *)
(* finalize() failed, which nobody counts, the first viewer makes up for   *)
(* it, but not for the fail_count (check_write_result, finalize,           *)
(* upgrade_schema).                                                        *)
THEOREM LossesAreCounted ==
  ASSUME Faults \cap CommitFaults = {}
  PROVE  Spec => []LossIsCounted
<1>1. Inv /\ Settled(db) /\ LossInv /\ BuildInv => LossIsCounted
  <2> SUFFICES ASSUME Inv, Settled(db), LossInv, BuildInv, tracer = "closed",
                      write_error_count = 0
               PROVE  LossIsCounted
    BY DEF LossIsCounted
  <2>1. Len(db.base.rows) = accepted
    BY LossInvRows
  <2>2. finalized /\ db.base = db.cur
    BY DEF Settled, LossInv, Stages
  <2>3. failures = 0 \/ life = "viewed" => db.base.indexed /\ FilesCounted(db.base)
    BY <2>2 DEF BuildInv, Built
  <2>4. failures = 0 => FailsCounted(db.base)
    BY <2>2 DEF BuildInv, Built
  <2> QED BY <2>1, <2>3, <2>4 DEF LossIsCounted, FilesCounted, FailsCounted
<1> QED BY <1>1, SpecInv, SpecSettled, SpecLoss, SpecBuild, PTL

-----------------------------------------------------------------------------
(* The session implements EventLog *)

Ids(rows) == [i \in DOMAIN rows |-> rows[i].id]
Written == Ids(db.base.rows)
Phase == CASE life = "killed" -> "killed"
           [] life = "viewed" /\ tracer # "closed" -> "killed"
           [] tracer = "closed" -> "closed"
           [] OTHER -> "tracing"

LEMMA LogIs ==
  /\ UNCHANGED <<accepted, Written, Phase>> => UNCHANGED Log!vars
  /\ Log!Init <=> accepted = 0 /\ Written = <<>> /\ Phase = "tracing"
  /\ Log!Accept <=> /\ Phase = "tracing" /\ accepted' = accepted + 1
                    /\ UNCHANGED <<Written, Phase>>
  /\ Log!Close <=> /\ Phase = "tracing" /\ Phase' = "closed"
                   /\ Faults # {} \/ Len(Written) = accepted
                   /\ UNCHANGED <<accepted, Written>>
  /\ Log!Kill <=> /\ Phase = "tracing" /\ Phase' = "killed"
                  /\ UNCHANGED <<accepted, Written>>
BY DEF Log!vars, Log!Init, Log!Accept, Log!Close, Log!Kill, Written, Phase, Ids

LEMMA LogPersistIs ==
  Log!Persist <=>
    LET last == IF Written = <<>> THEN 0 ELSE Written[Len(Written)]
    IN  /\ Phase = "tracing"
        /\ Len(Written') > Len(Written)
        /\ SubSeq(Written', 1, Len(Written)) = Written
        /\ \A i \in Len(Written) + 1 .. Len(Written') :
             /\ Written'[i] \in last + 1 .. accepted
             /\ i > 1 => IF Faults # {} THEN Written'[i - 1] < Written'[i]
                         ELSE Written'[i] = Written'[i - 1] + 1
             /\ i = 1 /\ ~(Faults # {}) => Written'[i] = 1
        /\ UNCHANGED <<accepted, Phase>>
BY DEF Log!Persist, Log!LastWritten, Written, Phase, Ids
LEMMA IdsOf ==
  ASSUME NEW rows \in Seq(Row)
  PROVE  /\ Ids(rows) \in Seq(Nat) /\ Len(Ids(rows)) = Len(rows)
         /\ \A i \in 1 .. Len(rows) : Ids(rows)[i] = rows[i].id /\ rows[i].id \in Nat
<1>1. \A i \in 1 .. Len(rows) : rows[i].id \in Nat
  <2>1. \A i \in 1 .. Len(rows) : rows[i] \in Row
    OBVIOUS
  <2> QED BY <2>1 DEF Row
<1> QED BY <1>1 DEF Ids

(* Committed rows that have grown are a Persist of the log. *)
LEMMA GrowthPersists ==
  ASSUME Inv, Inv', RowsInOrder', Grows(db, db'), accepted' = accepted,
         Phase = "tracing", Phase' = "tracing",
         Faults = {} => Dense(db'.base.rows)
  PROVE  Log!Persist \/ Written' = Written
<1> DEFINE old == db.base.rows
           new == db'.base.rows
           rows == db'.cur.rows
<1>1. old \in Seq(Row) /\ new \in Seq(Row) /\ rows \in Seq(Row)
  BY RowsType DEF Inv, TypeOK
<1>2. accepted \in Nat /\ Applied' <= accepted /\ Applied' \in Int
  <2>1. /\ accepted' \in Nat /\ Len(pending') \in Nat /\ Len(queue') \in Nat
        /\ Len(local') \in Nat
    BY DEF Inv, TypeOK
  <2> QED BY <2>1 DEF Applied
<1>3. Len(old) <= Len(new) /\ \A i \in 1 .. Len(old) : old[i] = new[i]
  BY <1>1 DEF Grows, Extends
<1>4. /\ \A i, j \in 1 .. Len(rows) : i < j => rows[i].id < rows[j].id
      /\ \A i \in 1 .. Len(rows) : rows[i].id <= Applied'
      /\ Len(new) <= Len(rows)
      /\ \A i \in 1 .. Len(new) : new[i] = rows[i]
  BY <1>1 DEF RowsInOrder
<1>5. /\ Written \in Seq(Nat) /\ Len(Written) = Len(old)
      /\ \A i \in 1 .. Len(old) : Written[i] = old[i].id
      /\ Written' \in Seq(Nat) /\ Len(Written') = Len(new)
      /\ \A i \in 1 .. Len(new) : Written'[i] = new[i].id
  BY <1>1, IdsOf DEF Written
<1>6. /\ \A i, j \in 1 .. Len(new) : i < j => Written'[i] < Written'[j]
      /\ \A i \in 1 .. Len(new) : Written'[i] <= accepted
      /\ \A i \in 1 .. Len(old) : Written[i] = Written'[i]
  <2>1. Len(old) \in Nat /\ Len(new) \in Nat /\ Len(rows) \in Nat
    BY <1>1
  <2>2. \A i \in 1 .. Len(new) :
          /\ i \in 1 .. Len(rows) /\ Written'[i] = rows[i].id
          /\ Written'[i] \in Nat
    <3> HIDE DEF new, rows
    <3> QED BY <1>4, <1>5, <2>1
  <2>3. \A i \in 1 .. Len(old) : i \in 1 .. Len(new)
    BY <1>3, <2>1
  <2> HIDE DEF old, new, rows
  <2>4. \A i \in 1 .. Len(new) : Written'[i] <= accepted
    BY <1>2, <1>4, <2>2
  <2> QED BY <1>3, <1>4, <1>5, <2>2, <2>3, <2>4
<1>7. Faults = {} => \A i \in 1 .. Len(new) : Written'[i] = i
  <2>1. DOMAIN new = 1 .. Len(new)
    BY <1>1
  <2>2. Faults = {} => \A i \in DOMAIN new : new[i].id = i
    BY DEF Dense
  <2> QED BY <1>5, <2>1, <2>2
<1>8. Len(old) \in Nat /\ Len(new) \in Nat
  BY <1>1
<1> HIDE DEF old, new, rows
<1>9. CASE Len(old) = Len(new)
  <2>1. Written' = Written
    BY <1>5, <1>6, <1>9, SeqEqual
  <2> QED BY <2>1
<1>10. CASE Len(old) < Len(new)
  <2>1. SubSeq(Written', 1, Len(Written)) = Written
    <3> DEFINE s == SubSeq(Written', 1, Len(Written))
    <3>1. s \in Seq(Nat) /\ Len(s) = Len(old)
          /\ \A i \in 1 .. Len(old) : s[i] = Written'[i]
      BY <1>5, <1>8, <1>10, SubSeqProperties
    <3> HIDE DEF s
    <3>2. s = Written
      BY <1>5, <1>6, <3>1, SeqEqual
    <3> QED BY <3>2 DEF s
  <2> DEFINE last == IF Written = <<>> THEN 0 ELSE Written[Len(Written)]
  <2>2. ASSUME NEW i \in Len(Written) + 1 .. Len(Written')
        PROVE  /\ Written'[i] \in last + 1 .. accepted
               /\ i > 1 => IF Faults # {} THEN Written'[i - 1] < Written'[i]
                           ELSE Written'[i] = Written'[i - 1] + 1
               /\ i = 1 /\ ~(Faults # {}) => Written'[i] = 1
    <3>1. i \in 1 .. Len(new) /\ (i > 1 => i - 1 \in 1 .. Len(new) /\ i - 1 < i)
      BY <1>5, <1>8
    <3>2. Written'[i] \in Nat /\ Written'[i] <= accepted /\ last \in Nat
      <4>1. Written # <<>> => Written[Len(Written)] \in Nat
        BY <1>5
      <4> QED BY <1>5, <1>6, <3>1, <4>1
    <3>3. last < Written'[i]
      <4>1. CASE Written = <<>>
        <5>1. Written'[i] > 0
          <6>1. new[i] \in Row
            BY <1>1, <3>1 DEF new
          <6>2. new[i].id \in Nat \ {0}
            BY <6>1 DEF Row
          <6> QED BY <1>5, <3>1, <6>2
        <5> QED BY <4>1, <5>1
      <4>2. CASE Written # <<>>
        <5>1. Len(old) \in 1 .. Len(old) /\ Len(old) < i /\ Len(old) \in 1 .. Len(new)
          BY <1>5, <1>8, <1>10, <4>2
        <5>2. last = Written'[Len(old)]
          BY <1>5, <1>6, <4>2, <5>1
        <5> HIDE DEF last
        <5> QED BY <1>6, <3>1, <5>1, <5>2
      <4> QED BY <4>1, <4>2
    <3>4. Written'[i] \in last + 1 .. accepted
      <4> HIDE DEF last
      <4> QED BY <1>2, <3>2, <3>3
    <3>5. i > 1 => Written'[i - 1] < Written'[i]
      BY <1>6, <3>1
    <3>6. Faults = {} => /\ Written'[i] = i
                         /\ i > 1 => Written'[i - 1] = i - 1
      BY <1>7, <3>1
    <3>7. i \in Int
      BY <3>1
    <3> HIDE DEF last
    <3> QED BY <3>4, <3>5, <3>6, <3>7
  <2>3. Len(Written') > Len(Written)
    BY <1>5, <1>8, <1>10
  <2>4. Phase = "tracing" /\ UNCHANGED <<accepted, Phase>>
    OBVIOUS
  <2> QED BY <2>1, <2>2, <2>3, <2>4, LogPersistIs
<1> QED BY <1>3, <1>8, <1>9, <1>10
(* Nothing fails and nothing is lost. *)
Whole ==
  Faults = {} => /\ Dense(db.base.rows)
                 /\ tracer = "closed" => Len(db.base.rows) = accepted

LogInv ==
  /\ life = "killed" => tracer # "closed"
  /\ Faults = {} => LossInv /\ write_error_count = 0

LEMMA NoFaultNoError ==
  ASSUME Faults = {}, [Next]_vars, write_error_count = 0
  PROVE  write_error_count' = 0
<1>1. CASE Writes
  <2>1. \A kinds : Failure(kinds) = {"none"}
    BY DEF Failure
  <2>2. PICK e : ApplyEvent(e)
    BY <1>1 DEF Writes, EnqueueSync, WriterApply
  <2>3. CASE HasFatalErrors
    BY <2>2, <2>3 DEF ApplyEvent, batchVars
  <2>4. CASE ~HasFatalErrors
    <3>1. PICK wf \in Failure(WriteFaults) : CheckWriteResult(wf = "none")
      BY <2>2, <2>4 DEF ApplyEvent
    <3> QED BY <2>1, <3>1 DEF CheckWriteResult
  <2> QED BY <2>3, <2>4
<1>2. CASE EndsTransaction
  BY <1>2 DEF EndsTransaction, FinalizeCommit, WriterLastCommit
<1>3. CASE Finishes
  BY <1>3 DEF Finishes, FinalizeIndex, PopulateCounts, PopulateStep, batchVars
<1>4. CASE Leaves
  BY <1>4 DEF Leaves, Close, Kill, View, batchVars
<1>5. CASE ~Writes /\ ~EndsTransaction /\ ~Finishes /\ ~Leaves
  BY <1>5, OtherSteps DEF batchVars
<1> QED BY <1>1, <1>2, <1>3, <1>4, <1>5

LEMMA LogInvStep ==
  ASSUME Inv, RowsInOrder, Settled(db), LogInv, [Next]_vars
  PROVE  LogInv'
<1>1. Faults = {} => LossInv' /\ write_error_count' = 0
  BY LossStep, NoFaultNoError DEF LogInv
<1>2. life' = "killed" => tracer' # "closed"
  <2>1. CASE Writes \/ EndsTransaction
    BY <2>1 DEF Writes, EndsTransaction, EnqueueSync, WriterApply,
                FinalizeCommit, WriterLastCommit, TracerAt, WriterAt
  <2>2. CASE Finishes
    BY <2>2, FinishIs DEF Finishes
  <2>3. CASE Leaves
    BY <2>3 DEF Leaves, Close, Kill, View, TracerAt
  <2>4. CASE ~Writes /\ ~EndsTransaction /\ ~Finishes /\ ~Leaves
    BY <2>4, OtherSteps, OtherPlaces DEF LogInv
  <2> QED BY <2>1, <2>2, <2>3, <2>4
<1> QED BY <1>1, <1>2 DEF LogInv

LEMMA LogInvWhole ==
  ASSUME Inv, RowsInOrder, Settled(db), LogInv
  PROVE  Whole
<1> SUFFICES ASSUME Faults = {}
             PROVE  /\ Dense(db.base.rows)
                    /\ tracer = "closed" => Len(db.base.rows) = accepted
  BY DEF Whole
<1>1. LossInv /\ write_error_count = 0
  BY DEF LogInv
<1>2. Dense(db.base.rows)
  <2>1. db.base.rows \in Seq(Row) /\ db.cur.rows \in Seq(Row)
    BY RowsType DEF Inv, TypeOK
  <2>2. /\ DOMAIN db.base.rows \subseteq DOMAIN db.cur.rows
        /\ \A i \in DOMAIN db.base.rows : db.base.rows[i] = db.cur.rows[i]
    BY <2>1 DEF RowsInOrder
  <2> QED BY <1>1, <2>2 DEF LossInv, Lossless, Dense
<1> QED BY <1>1, <1>2, LossInvRows

(* One step of the session is one step of the log, or none. *)
LEMMA LogStep ==
  ASSUME Inv, Inv', RowsInOrder, RowsInOrder', Settled(db), LogInv, Whole, Whole',
         [Next]_vars
  PROVE  [Log!Next]_(Log!vars)
<1>1. db \in Connection /\ db.base.rows \in Seq(Row) /\ Grows(db, db')
  BY StepGrows, RowsType DEF Inv, TypeOK
<1>2. Faults = {} => Dense(db'.base.rows)
  BY DEF Whole
<1>3. ASSUME NEW kind \in Kinds, NEW path \in Paths \cup {NoPath},
             HandleEvent(kind, path)
      PROVE  Log!Accept
  <2>1. /\ Phase = "tracing" /\ Phase' = "tracing" /\ accepted' = accepted + 1
        /\ Written' = Written
    BY <1>3 DEF HandleEvent, TracerAt, Phase, Written
  <2> QED BY <2>1, LogIs
<1>4. CASE Writes \/ EndsTransaction \/ Finishes
  <2>1. accepted' = accepted /\ Phase = "tracing" /\ Phase' = "tracing"
    BY <1>4 DEF Writes, EndsTransaction, Finishes, EnqueueSync, WriterApply,
                FinalizeCommit, WriterLastCommit, FinalizeIndex, PopulateCounts,
                PopulateStep, TracerAt, WriterAt, queueVars, Phase, Inv, Phases,
                TracerUsesDb
  <2>2. Log!Persist \/ Written' = Written
    BY <1>1, <1>2, <2>1, GrowthPersists
  <2> QED BY <2>1, <2>2, LogIs DEF Log!Next
<1>5. CASE Close
  <2>1. /\ Phase = "tracing" /\ Phase' = "closed" /\ accepted' = accepted
        /\ db'.base = db.base
    BY <1>1, <1>5, RollBackFields
       DEF Close, CloseDatabase, TracerAt, queueVars, Phase
  <2>2. Faults # {} \/ Len(Written) = accepted
    <3>1. Len(Written) = Len(db.base.rows)
      BY <1>1, IdsOf DEF Written
    <3> QED BY <1>5, <2>1, <3>1 DEF Whole, Close
  <2> QED BY <2>1, <2>2, LogIs DEF Log!Next, Written
<1>6. CASE Kill
  <2>1. /\ Phase = "tracing" /\ Phase' = "killed" /\ accepted' = accepted
        /\ db'.base = db.base
    BY <1>1, <1>6, RollBackFields DEF Kill, queueVars, Phase
  <2> QED BY <2>1, LogIs DEF Log!Next, Written
<1>7. CASE View
  <2>1. Phase' = Phase /\ accepted' = accepted
    BY <1>7 DEF View, Ended, queueVars, Phase, LogInv
  <2>2. db'.base.rows = db.base.rows
    BY <1>1, <1>7, UpgradeSameRows DEF View, SameRows, Settled
  <2> QED BY <2>1, <2>2, LogIs DEF Written
<1>8. CASE \/ EnqueueWait \/ EnqueuePush \/ TreeGone \/ StopOnFatalErrors
           \/ FinalizeStop \/ FinalizeJoin
           \/ WriterWait \/ WriterStop \/ WriterTake \/ WriterDone \/ WriterPublish
           \/ SpuriousWakeup \/ UNCHANGED vars
  <2>1. /\ UNCHANGED <<accepted, db, life>>
        /\ tracer' = "closed" <=> tracer = "closed"
    BY <1>8 DEF EnqueueWait, EnqueuePush, TreeGone, StopOnFatalErrors,
                FinalizeStop, FinalizeJoin, WriterWait, WriterStop, WriterTake,
                WriterDone, WriterPublish, SpuriousWakeup, vars, queueVars,
                TracerAt, WriterAt
  <2>2. UNCHANGED <<accepted, Written, Phase>>
    BY <2>1 DEF Written, Phase
  <2> QED BY <2>2, LogIs
<1> QED BY <1>3, <1>4, <1>5, <1>6, <1>7, <1>8
        DEF Next, Terminated, Log!Next, Writes, EndsTransaction, Finishes

(* A TraceSession, with its queue, its writer thread, its batches and the  *)
(* failures of sqlite, is the log of EventLog: what is durable grows in    *)
(* the order of the events, and a session that nothing disturbed has       *)
(* written every event when it is closed.                                  *)
THEOREM SessionImplementsEventLog == Spec => ImplementsEventLog
<1>1. Init => Log!Init
  <2>1. Ids(<<>>) = <<>>
    BY DEF Ids
  <2>2. ASSUME Init PROVE accepted = 0 /\ Written = <<>> /\ Phase = "tracing"
    BY <2>1, <2>2 DEF Init, Written, Phase, OpenDatabase, EmptyContent
  <2> QED BY <2>2, LogIs
<1>2. Init => LogInv
  BY DEF Init, LogInv, LossInv, Stages, Lossless, Dense, Applied, OpenDatabase,
         EmptyContent
<1>3. Inv /\ RowsInOrder /\ Settled(db) /\ LogInv /\ [Next]_vars => LogInv'
  BY LogInvStep
<1>4. Inv /\ RowsInOrder /\ Settled(db) /\ LogInv => Whole
  BY LogInvWhole
<1>5. /\ Inv /\ Inv' /\ RowsInOrder /\ RowsInOrder' /\ Settled(db) /\ LogInv
      /\ Whole /\ Whole' /\ [Next]_vars
      => [Log!Next]_(Log!vars)
  BY LogStep
<1> QED BY <1>1, <1>2, <1>3, <1>4, <1>5, SpecInv, RowsAreInOrder, SpecSettled, PTL
        DEF Spec, ImplementsEventLog, Log!Spec
=============================================================================
