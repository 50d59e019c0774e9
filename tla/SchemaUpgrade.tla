---------------------------- MODULE SchemaUpgrade ---------------------------
(***************************************************************************)
(* Opening a database an older version wrote: Database::upgrade_schema,    *)
(* which the viewers call, and Database::init_schema, which the tracer     *)
(* calls (src/src/db/database.cpp, schema.cpp).                            *)
(*                                                                         *)
(* Each step of an upgrade looks for one column or table and then runs its *)
(* statements.  A statement outside the migration to interned names is a   *)
(* transaction of its own whose failure is ignored.  Programs may crash    *)
(* between two statements, and two may open the same database at once.     *)
(* Indexes, statistics and the meta table are left out, and what the       *)
(* tracer writes once it is open (see WriterQueue).                        *)
(***************************************************************************)
EXTENDS Integers, Sequences, FiniteSets, SequencesExt

CONSTANTS Programs,     \* what may have the database open
          NoOne,
          Accesses,     \* rows of file_accesses: a function from ids to paths
          Failures,     \* rows of failed_accesses
          MaxStarts,    \* bound: programs started
          MaxMishaps    \* bound: crashes and failing statements

ASSUME UpgradeAssumption ==
  /\ NoOne \notin Programs /\ DOMAIN Accesses # {}
  /\ \A rows \in {Accesses, Failures} :
       rows = [i \in DOMAIN rows |-> rows[i]] /\ IsFiniteSet(DOMAIN rows)
  /\ MaxStarts \in Nat /\ MaxMishaps \in Nat

VARIABLES db,        \* what is committed
          lock,      \* who is in a migration
          work,      \* and what it has written so far
          kind, status,
          todo,      \* what each program still has to do
          starts, mishaps,
          failures,  \* history: the rows failed_accesses had
          hit,       \* history: a mishap while it, or one it met, ran
          harmed     \* history: a mishap happened, or a tracer ran

vars == <<db, lock, work, kind, status, todo, starts, mishaps, failures, hit, harmed>>

v3_columns == <<"user_time_us", "sys_time_us", "peak_rss_kb",
                "io_read_bytes", "io_write_bytes">>
AllColumns == ToSet(v3_columns) \cup {"cwd", "file_count", "fail_count"}

Table(layout, rows) == [layout |-> layout, rows |-> rows]
NoTable == Table("none", <<>>)

(* What version n wrote; the counts are missing after an interrupted       *)
(* trace.  A table of names has paths in it, a table of ids has ids of     *)
(* files; columns are those of processes that version 1 did not have.      *)
Written(n, counts) ==
  LET Ids == [p \in {Accesses[i] : i \in DOMAIN Accesses}
                      \cup {Failures[i] : i \in DOMAIN Failures} |-> p] IN
  [columns |-> (IF n >= 3 THEN ToSet(v3_columns) ELSE {})
                 \cup (IF n >= 4 THEN {"cwd"} ELSE {})
                 \cup (IF n >= 5 THEN {"file_count", "fail_count"} ELSE {}),
   timestamp |-> n >= 2,
   fa |-> Table(IF n >= 6 THEN "ids" ELSE "names", Accesses),
   failed |-> IF n = 1 THEN NoTable ELSE Table(IF n >= 6 THEN "ids" ELSE "names", Failures),
   files |-> IF n >= 6 THEN Ids ELSE <<>>,
   file_count |-> IF n >= 5 THEN counts ELSE "zero",
   fail_count |-> IF n >= 5 THEN counts ELSE "zero"]

Init ==
  /\ \E n \in 1..6, counts \in {"zero", "right"} : 
       db = Written(n, counts) /\ failures = db.failed.rows
  /\ lock = NoOne /\ work = db
  /\ kind = [u \in Programs |-> "viewer"] /\ status = [u \in Programs |-> "off"]
  /\ todo = [u \in Programs |-> <<>>]
  /\ starts = 0 /\ mishaps = 0
  /\ hit = [u \in Programs |-> FALSE] /\ harmed = FALSE

-----------------------------------------------------------------------------
(* Checks: what is missing decides which statements follow. *)
upgrade_v6_first == <<"v6?", "v2?", "v3?", "v4?", "v5?", "recount?">>  \* Slip
upgrade_schema == <<"v2?", "v3?", "v4?", "v5?", "v6?", "recount?">>

init_schema == <<"failed_v6", "v6?", "prepare">>
Checks == ToSet(upgrade_schema)

populate_counts == <<"reset", "count_files", "count_failed">>

OnlyIf(condition, statements) == IF condition THEN statements ELSE <<>>

migrate_to_interned(d) ==
  OnlyIf("names" \in {d.fa.layout, d.failed.layout},
         <<"begin">> \o OnlyIf(d.fa.layout = "names", <<"migrate_fa">>)
           \o OnlyIf(d.failed.layout = "names", <<"migrate_failed">>) \o <<"commit">>)

NeverRecount(d) == FALSE                                      \* Slip
CountsAreZero(d) ==
  "file_count" \in d.columns /\ d.file_count = "zero" /\ DOMAIN d.fa.rows # {}

Needed(check, d) ==
  CASE check = "v2?" -> OnlyIf(d.failed.layout = "none",
                               OnlyIf(~d.timestamp, <<"timestamp_us">>) \o <<"failed_v2">>)
    [] check = "v3?" -> OnlyIf("user_time_us" \notin d.columns, v3_columns)
    [] check = "v4?" -> OnlyIf("cwd" \notin d.columns, <<"cwd">>)
    [] check = "v5?" -> OnlyIf("file_count" \notin d.columns,
                               <<"file_count", "fail_count">> \o populate_counts)
    [] check = "v6?" -> migrate_to_interned(d)
    [] check = "recount?" -> OnlyIf(CountsAreZero(d), populate_counts)

-----------------------------------------------------------------------------
(* Statements: which layouts they work on, and what they do. *)
Works(s, d) ==
  CASE s \in AllColumns -> s \notin d.columns
    [] s = "timestamp_us" -> ~d.timestamp
    [] s = "reset" -> {"file_count", "fail_count"} \subseteq d.columns
    [] s = "migrate_fa" -> d.fa.layout = "names" /\ d.timestamp
    [] s = "migrate_failed" -> d.failed.layout = "names"
    [] s = "prepare" -> /\ ToSet(v3_columns) \cup {"cwd"} \subseteq d.columns
                        /\ d.fa.layout = "ids" /\ d.failed.layout = "ids" /\ d.timestamp
    [] OTHER -> TRUE

(* INSERT OR IGNORE gives new ids to the paths that are not in files yet. *)
InternNone(files, paths) == files                             \* Slip
Intern(files, paths) ==
  LET new == SetToSeq(paths \ DOMAIN files) IN
  [p \in DOMAIN files \cup paths |->
     IF p \in DOMAIN files THEN files[p]
     ELSE Cardinality(DOMAIN files) + (CHOOSE i \in DOMAIN new : new[i] = p)]

Paths(table) == {table.rows[i] : i \in DOMAIN table.rows}

(* The join with files: a row whose path is not there is dropped. *)
WithIds(table, files) ==
  Table("ids", [i \in {j \in DOMAIN table.rows : table.rows[j] \in DOMAIN files} |->
                  files[table.rows[i]]])

Effect(s, d) ==
  CASE s \in AllColumns -> [d EXCEPT !.columns = @ \cup {s}]
    [] s = "timestamp_us" -> [d EXCEPT !.timestamp = TRUE]
    [] s = "failed_v2" -> IF d.failed.layout = "none"
                          THEN [d EXCEPT !.failed = Table("names", <<>>)] ELSE d
    [] s = "failed_v6" -> IF d.failed.layout = "none"
                          THEN [d EXCEPT !.failed = Table("ids", <<>>)] ELSE d
    [] s = "reset" -> [d EXCEPT !.file_count = "zero", !.fail_count = "zero"]
    [] s = "count_files" -> [d EXCEPT !.file_count = "right"]
    [] s = "count_failed" -> [d EXCEPT !.fail_count = "right"]
    [] s = "migrate_fa" -> LET files == Intern(d.files, Paths(d.fa)) IN
                           [d EXCEPT !.files = files, !.fa = WithIds(@, files)]
    [] s = "migrate_failed" -> LET files == Intern(d.files, Paths(d.failed)) IN
                               [d EXCEPT !.files = files, !.failed = WithIds(@, files)]
    [] OTHER -> d

-----------------------------------------------------------------------------
Running(u) == status[u] = "running"

Start(u) ==
  /\ ~Running(u) /\ starts < MaxStarts
  /\ \E k \in {"viewer", "tracer"} :
       /\ kind' = [kind EXCEPT ![u] = k]
       /\ todo' = [todo EXCEPT ![u] = IF k = "viewer" THEN upgrade_schema ELSE init_schema]
       /\ harmed' = (harmed \/ k = "tracer")
  /\ status' = [status EXCEPT ![u] = "running"]
  /\ hit' = [hit EXCEPT ![u] = \E v \in Programs : Running(v) /\ hit[v]]
  /\ starts' = starts + 1
  /\ UNCHANGED <<db, lock, work, mishaps, failures>>

(* The rest of what u has to do. *)
Continue(u, rest) ==
  /\ todo' = [todo EXCEPT ![u] = rest]
  /\ status' = [status EXCEPT ![u] = IF rest = <<>> THEN "ok" ELSE "running"]

GiveUp(u) ==
  todo' = [todo EXCEPT ![u] = <<>>] /\ status' = [status EXCEPT ![u] = "failed"]

Check(u) ==
  /\ Running(u) /\ Head(todo[u]) \in Checks
  /\ Continue(u, Needed(Head(todo[u]), db) \o Tail(todo[u]))
  /\ UNCHANGED <<db, lock, work, kind, starts, mishaps, failures, hit, harmed>>

(* A statement that fails is skipped, and the rest of populate_counts with *)
(* it; what fails in a migration, or in preparing to trace, ends the call. *)
Skipped(s) ==
  CASE s = "reset" -> 3 [] s = "count_files" -> 2 [] OTHER -> 1

Fail(u) ==
  IF Head(todo[u]) \in {"begin", "migrate_fa", "migrate_failed", "commit", "prepare", "failed_v6"}
  THEN GiveUp(u)
  ELSE Continue(u, SubSeq(todo[u], 1 + Skipped(Head(todo[u])), Len(todo[u])))

AtStatement(u) == Running(u) /\ Head(todo[u]) \notin Checks
InMigration(u) == lock = u

Execute(u) ==
  /\ AtStatement(u) /\ ~InMigration(u) /\ lock = NoOne
  /\ Head(todo[u]) # "begin"
  /\ IF Works(Head(todo[u]), db)
     THEN db' = Effect(Head(todo[u]), db) /\ Continue(u, Tail(todo[u]))
     ELSE Fail(u) /\ UNCHANGED db
  /\ UNCHANGED <<lock, work, kind, starts, mishaps, failures, hit, harmed>>

Begin(u) ==
  /\ AtStatement(u) /\ lock = NoOne /\ Head(todo[u]) = "begin"
  /\ lock' = u /\ work' = db
  /\ Continue(u, Tail(todo[u]))
  /\ UNCHANGED <<db, kind, starts, mishaps, failures, hit, harmed>>

Migrate(u) ==
  /\ AtStatement(u) /\ InMigration(u) /\ Head(todo[u]) # "commit"
  /\ IF Works(Head(todo[u]), work)
     THEN /\ work' = Effect(Head(todo[u]), work)
          /\ Continue(u, Tail(todo[u])) /\ UNCHANGED lock
     ELSE GiveUp(u) /\ lock' = NoOne /\ UNCHANGED work        \* ROLLBACK
  /\ UNCHANGED <<db, kind, starts, mishaps, failures, hit, harmed>>

Commit(u) ==
  /\ AtStatement(u) /\ InMigration(u) /\ Head(todo[u]) = "commit"
  /\ db' = work /\ lock' = NoOne
  /\ Continue(u, Tail(todo[u]))
  /\ UNCHANGED <<work, kind, starts, mishaps, failures, hit, harmed>>

-----------------------------------------------------------------------------
(* Mishaps: a full disk, another program's lock, a crash. *)
Mishap == /\ hit' = [v \in Programs |-> hit[v] \/ Running(v)]
          /\ harmed' = TRUE
          /\ UNCHANGED <<db, work, kind, starts, failures>>

Release(u) == lock' = IF lock = u THEN NoOne ELSE lock

StatementFails(u) ==
  /\ AtStatement(u)
  /\ \/ lock \notin {u, NoOne} /\ UNCHANGED mishaps
     \/ mishaps < MaxMishaps /\ mishaps' = mishaps + 1
  /\ Fail(u) /\ Release(u)
  /\ Mishap

Crash(u) ==
  /\ Running(u) /\ mishaps < MaxMishaps
  /\ mishaps' = mishaps + 1
  /\ todo' = [todo EXCEPT ![u] = <<>>] /\ status' = [status EXCEPT ![u] = "off"]
  /\ Release(u)
  /\ Mishap

Next == \E u \in Programs :
  Start(u) \/ Check(u) \/ Execute(u) \/ Begin(u) \/ Migrate(u) \/ Commit(u)
    \/ StatementFails(u) \/ Crash(u)

Spec == Init /\ [][Next]_vars

-----------------------------------------------------------------------------
(* The paths a table says were accessed. *)
Resolved(table, files) ==
  IF table.layout = "ids"
  THEN [i \in DOMAIN table.rows |-> CHOOSE p \in DOMAIN files : files[p] = table.rows[i]]
  ELSE table.rows

(* Safety: wherever programs crash, fail or meet, what is committed still  *)
(* says who accessed which file (migrate_to_interned), a table that is     *)
(* half copied is never seen.                                              *)
AccessesKept ==
  /\ Resolved(db.fa, db.files) = Accesses
  /\ Resolved(db.failed, db.files) = failures

Complete(d) == /\ d.columns = AllColumns /\ d.timestamp
               /\ d.fa.layout = "ids" /\ d.failed.layout = "ids"

(* What no later upgrade mends: the check sees the first column only.      *)
HalfAdded(d) ==
  \/ "user_time_us" \in d.columns /\ ~(ToSet(v3_columns) \subseteq d.columns)
  \/ "file_count" \in d.columns /\ "fail_count" \notin d.columns
  \/ ~d.timestamp /\ d.failed.layout # "none"

(* A viewer's upgrade ends with nobody else at work and nothing having     *)
(* gone wrong since it started.                                            *)
Undisturbed(u) ==
  /\ Running(u) /\ status'[u] \in {"ok", "failed"} /\ kind[u] = "viewer"
  /\ ~hit'[u]
  /\ \A v \in Programs \ {u} : ~Running(v)

(* Action property: an undisturbed upgrade leaves the latest schema,       *)
(* whatever was left by others that crashed or were half way when it       *)
(* started, except where a crash or a tracer has left one of the three     *)
(* layouts the checks take for complete (upgrade_schema); and with the     *)
(* schema complete it leaves the file counts right, after an interrupted   *)
(* trace as after a crash between adding the columns and filling them      *)
(* (populate_counts).                                                      *)
UpgradeCompletes ==
  [][\A u \in Programs : Undisturbed(u) =>
       /\ Complete(db') \/ (HalfAdded(db') /\ harmed)
       /\ status'[u] = "ok" /\ Complete(db') => db'.file_count = "right"]_vars
=============================================================================
