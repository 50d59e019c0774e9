------------------------------ MODULE Database ------------------------------
(***************************************************************************)
(* src/src/db/database.cpp as the writer of a trace uses it: one sqlite    *)
(* connection, its transaction, the interning of paths and the counts      *)
(* built at the end.  A connection is a record; every operator returns the *)
(* connection after the call.                                              *)
(*                                                                         *)
(* The behaviour of sqlite itself is external and follows its              *)
(* documentation: a statement outside a transaction commits by itself;     *)
(* BEGIN inside a transaction and COMMIT outside one are errors that       *)
(* change nothing; a statement that runs out of disk, memory or I/O takes  *)
(* the whole open transaction back, any other failing statement only its   *)
(* own effect; a COMMIT that fails leaves the transaction open (busy) or   *)
(* takes it back.                                                          *)
(***************************************************************************)
EXTENDS Integers, Sequences, FiniteSets

CONSTANTS Paths,   \* the file names the traced processes touch
          NoPath   \* of an event that names no file

ASSUME NoPathAssumption == NoPath \notin Paths

-----------------------------------------------------------------------------
(* Events and rows.  `id' numbers the events in the order of the calls;    *)
(* `path' of a row is the truth the row should express, `file' is the      *)
(* file_id the code stored.                                                *)

Event == [id   : Nat \ {0},
          kind : {"proc", "access", "failed"},
          path : Paths \cup {NoPath}]

Row == [id   : Nat \ {0},
        kind : {"proc", "access", "failed"},
        path : Paths \cup {NoPath},
        file : Nat]

(* The tables.  files[i] is the path whose rowid is i: rows of files are   *)
(* never deleted, so sqlite's next rowid is always Len(files) + 1.         *)
(* fileCount and failCount are processes.file_count and .fail_count        *)
(* summed over all processes.                                              *)
Content == [rows      : Seq(Row),
            files     : Seq(Paths),
            indexed   : BOOLEAN,
            fileCount : Nat,
            failCount : Nat]

(* tx: a transaction is open; base: the committed tables; cur: the tables  *)
(* as this connection sees them; cache: intern_cache_ (0: not cached);     *)
(* walRows: rows committed since the last wal_checkpoint.                  *)
Connection == [tx      : BOOLEAN,
               base    : Content,
               cur     : Content,
               cache   : [Paths -> Nat],
               walRows : Int]

EmptyContent == [rows |-> <<>>, files |-> <<>>, indexed |-> FALSE,
                 fileCount |-> 0, failCount |-> 0]

OpenDatabase == [tx |-> FALSE, base |-> EmptyContent, cur |-> EmptyContent,
                 cache |-> [p \in Paths |-> 0], walRows |-> 0]

-----------------------------------------------------------------------------
(* sqlite *)

(* One statement that succeeds and leaves the tables as `content'. *)
Statement(d, content) ==
  IF d.tx
    THEN [d EXCEPT !.cur = content]
    ELSE [d EXCEPT !.cur = content, !.base = content,
                   !.walRows = @ + (Len(content.rows) - Len(d.base.rows))]

RollBack(d) == [d EXCEPT !.tx = FALSE, !.cur = d.base]

BeginTransaction(d) == [d EXCEPT !.tx = TRUE]

CommitTransaction(d, fault) ==
  CASE fault = "commitRollsBack" -> RollBack(d)
    [] fault = "commitBusy"      -> d
    [] OTHER ->
         [d EXCEPT !.tx = FALSE, !.base = d.cur,
                   !.walRows = @ + (Len(d.cur.rows) - Len(d.base.rows))]

(* PRAGMA wal_checkpoint(PASSIVE) is refused inside a transaction. *)
WalCheckpoint(d) == IF d.tx THEN d ELSE [d EXCEPT !.walRows = 0]

-----------------------------------------------------------------------------
(* Database::intern_path *)

(* Slip: the rowid is read before the insert. *)
FileIdTooEarly(content, p) == Len(content.files)

FileId(content, p) ==
  IF \E i \in DOMAIN content.files : content.files[i] = p
    THEN CHOOSE i \in DOMAIN content.files : content.files[i] = p
    ELSE Len(content.files) + 1

WithFile(content, p) ==
  IF \E i \in DOMAIN content.files : content.files[i] = p
    THEN content
    ELSE [content EXCEPT !.files = Append(@, p)]

IsCached(d, p) == p = NoPath \/ d.cache[p] # 0

InternPath(d, p) ==
  IF IsCached(d, p)
    THEN d
    ELSE [Statement(d, WithFile(d.cur, p)) EXCEPT !.cache[p] = FileId(d.cur, p)]

CachedId(d, p) == IF p = NoPath THEN 0 ELSE d.cache[p]

-----------------------------------------------------------------------------
(* insert_process, update_process_exit, insert_file_access,                *)
(* insert_failed_access and delete_process: intern the path, then one      *)
(* statement on the row.  Either statement can fail; the interning one     *)
(* only when it is not answered from the cache.                            *)

AddRow(d, e) ==
  Statement(d, [d.cur EXCEPT !.rows =
    Append(@, [id |-> e.id, kind |-> e.kind, path |-> e.path,
               file |-> CachedId(d, e.path)])])

WriteFaults == {"internFails", "internRollsBack", "insertFails", "insertRollsBack"}

CanFail(d, e, fault) ==
  fault \in {"internFails", "internRollsBack"} => ~IsCached(d, e.path)

WriteEvent(d, e, fault) ==
  CASE fault = "internFails"     -> d
    [] fault = "internRollsBack" -> RollBack(d)
    [] fault = "insertFails"     -> InternPath(d, e.path)
    [] fault = "insertRollsBack" -> RollBack(InternPath(d, e.path))
    [] OTHER                     -> AddRow(InternPath(d, e.path), e)

-----------------------------------------------------------------------------
(* create_indexes, the three UPDATEs of populate_counts, close.            *)

FinishFaults == {"finishFails", "finishRollsBack"}

(* One of these statements, on connection d; `after' is where it succeeds. *)
Finish(d, after, fault) ==
  CASE fault = "finishFails"     -> d
    [] fault = "finishRollsBack" -> RollBack(d)
    [] OTHER                     -> after

CountKind(content, kind) ==
  Cardinality({i \in DOMAIN content.rows : content.rows[i].kind = kind})

CreateIndexes(d) == Statement(d, [d.cur EXCEPT !.indexed = TRUE])

ResetCounts(d) == Statement(d, [d.cur EXCEPT !.fileCount = 0, !.failCount = 0])

CountFiles(d) ==
  Statement(d, [d.cur EXCEPT !.fileCount = CountKind(d.cur, "access")])

CountFails(d) ==
  Statement(d, [d.cur EXCEPT !.failCount = CountKind(d.cur, "failed")])

CloseDatabase(d) == RollBack(d)

(* Database::upgrade_schema on a database of the current version: what a   *)
(* viewer does when it opens it.  The counts are rebuilt only when every   *)
(* file_count is zero although there are accesses.  Its statements succeed *)
(* here; SchemaUpgrade has the ones that do not.                           *)
NeedsRecount(content) ==
  content.fileCount = 0 /\ CountKind(content, "access") > 0

UpgradeSchema(d) ==
  LET indexed == CreateIndexes(d)
  IN  IF NeedsRecount(indexed.cur)
        THEN CountFails(CountFiles(ResetCounts(indexed)))
        ELSE indexed
=============================================================================
