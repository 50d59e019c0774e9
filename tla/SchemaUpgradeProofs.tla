------------------------ MODULE SchemaUpgradeProofs -------------------------
(***************************************************************************)
(* Proofs about opening a database that an older version wrote: whatever   *)
(* fails or crashes, and however many programs open it at once, no access  *)
(* is lost by the migration to interned names; and an upgrade that ends    *)
(* alone and unharmed leaves the latest schema and the counts filled in.   *)
(*                                                                         *)
(* The first argument: every statement turns a sound database into a sound *)
(* one, so that it does not matter in which order they run, which fail,    *)
(* and which of the two, the committed or the migrated one, remains.       *)
(*                                                                         *)
(* The second: what a program still has to do is a plan of one of four     *)
(* stages (PlanInv), which each step shortens or extends without losing    *)
(* what it is to add (Advances).  As long as no mishap meets a program,    *)
(* what the database lacks is in its plan, whatever the others do          *)
(* meanwhile (CleanInv); so that nothing is lacking once the plan is       *)
(* empty, except what a check took for complete, which only a mishap or a  *)
(* tracer leaves half added (UnharmedInv).                                 *)
(***************************************************************************)
EXTENDS SchemaUpgrade, FiniteSetTheorems, SequenceTheorems, TLAPS

(* Ids count the paths, so that the next one is new. *)
Numbered(files) ==
  /\ IsFiniteSet(DOMAIN files)
  /\ files \in [DOMAIN files -> 1..Cardinality(DOMAIN files)]
  /\ IsInjective(files)

(* The table says of each row which path was accessed. *)
Says(table, files, rows) ==
  IF table.layout = "ids"
  THEN /\ \A i \in DOMAIN rows : rows[i] \in DOMAIN files
       /\ table.rows = [i \in DOMAIN rows |-> files[rows[i]]]
  ELSE table.rows = rows

IsDatabase(d) ==
  d = [columns |-> d.columns, timestamp |-> d.timestamp, fa |-> d.fa, failed |-> d.failed,
       files |-> d.files, file_count |-> d.file_count, fail_count |-> d.fail_count]

(* Ids are of any form only in a database that needs no migration.         *)
Sound(d) ==
  /\ IsDatabase(d)
  /\ IsInjective(d.files)
  /\ {d.fa.layout, d.failed.layout} = {"ids"} \/ Numbered(d.files)
  /\ Says(d.fa, d.files, Accesses)
  /\ Says(d.failed, d.files, failures)
  /\ d.failed.layout = "none" => failures = <<>>

UpgradeInv ==
  /\ failures \in {<<>>, Failures}
  /\ Sound(db) /\ Sound(work)

-----------------------------------------------------------------------------
(* Interning *)

LEMMA EmptyFunction ==
  /\ DOMAIN <<>> = {}
  /\ \A f : DOMAIN f = {} /\ f = [i \in DOMAIN f |-> f[i]] => f = <<>>
<1>1. DOMAIN <<>> = {}  OBVIOUS
<1>2. <<>> = [i \in {} |-> i]  OBVIOUS
<1>3. ASSUME NEW f, DOMAIN f = {}, f = [i \in DOMAIN f |-> f[i]]
      PROVE  f = [i \in {} |-> i]
  BY <1>3
<1> QED  BY <1>1, <1>2, <1>3

(* A sequence of the new paths has each of them once.                      *)
LEMMA NewPathsInARow ==
  ASSUME NEW S, IsFiniteSet(S)
  PROVE  /\ Cardinality(S) \in Nat
         /\ SetToSeq(S) \in Bijection(1..Cardinality(S), S)
<1> DEFINE n == Cardinality(S)
<1>1. n \in Nat /\ ExistsBijection(1..n, S)  BY FS_CardinalityType
<1>2. \E f \in [1..n -> S] : IsInjective(f)
  BY <1>1 DEF ExistsBijection, Bijection, Injection
<1>3. SetToSeq(S) \in [1..n -> S] /\ IsInjective(SetToSeq(S))
  BY <1>2 DEF SetToSeq
<1>4. SetToSeq(S) \in Injection(1..n, S)  BY <1>3 DEF Injection
<1>5. IsFiniteSet(1..n) /\ Cardinality(1..n) = n
  BY <1>1, FS_Interval
<1>6. SetToSeq(S) \in Surjection(1..n, S)
  BY <1>4, <1>5, FS_Injection
<1> QED  BY <1>1, <1>4, <1>6 DEF Bijection

(* INSERT OR IGNORE keeps the ids of the paths that have one, and gives    *)
(* the others ids of their own (migrate_to_interned).                      *)
LEMMA InternIsSound ==
  ASSUME NEW files, Numbered(files), NEW paths, IsFiniteSet(paths)
  PROVE  /\ Numbered(Intern(files, paths))
         /\ DOMAIN Intern(files, paths) = DOMAIN files \cup paths
         /\ \A p \in DOMAIN files : Intern(files, paths)[p] = files[p]
<1> DEFINE S == paths \ DOMAIN files
           new == SetToSeq(S)
           n == Cardinality(DOMAIN files)
           m == Cardinality(S)
           g == Intern(files, paths)
           at(p) == CHOOSE i \in DOMAIN new : new[i] = p
<1>1. IsFiniteSet(S)  BY FS_Difference
<1>2. m \in Nat /\ new \in Bijection(1..m, S)  BY <1>1, NewPathsInARow
<1>3. n \in Nat  BY FS_CardinalityType DEF Numbered
<1>4. new \in [1..m -> S] /\ \A p \in S : \E i \in 1..m : new[i] = p
  BY <1>2 DEF Bijection, Injection, Surjection
<1>5. g = [p \in DOMAIN files \cup paths |->
             IF p \in DOMAIN files THEN files[p] ELSE n + at(p)]
  BY DEF Intern
<1>6. DOMAIN g = DOMAIN files \cup paths /\ Cardinality(DOMAIN g) = n + m /\ IsFiniteSet(DOMAIN g)
  <2>1. DOMAIN g = DOMAIN files \cup S  BY <1>5
  <2>2. IsFiniteSet(DOMAIN files)  BY DEF Numbered
  <2>3. (DOMAIN files) \cap S = {}  OBVIOUS
  <2>4. IsFiniteSet(DOMAIN files \cup S)
        /\ Cardinality(DOMAIN files \cup S) = n + m - Cardinality((DOMAIN files) \cap S)
    BY <1>1, <2>2, FS_Union
  <2> HIDE DEF g, S, n, m
  <2>5. Cardinality((DOMAIN files) \cap S) = 0  BY <2>3, FS_EmptySet
  <2>6. m \in Nat  BY <1>2
  <2>7. Cardinality(DOMAIN files \cup S) = n + m  BY <1>3, <2>4, <2>5, <2>6
  <2> QED  BY <1>5, <2>1, <2>4, <2>7
<1>7. \A p \in S : at(p) \in 1..m /\ new[at(p)] = p
  BY <1>4
<1>8. \A p \in DOMAIN files : g[p] = files[p] /\ g[p] \in 1..n
  BY <1>5 DEF Numbered
<1>9. \A p \in DOMAIN g \ DOMAIN files : \E i \in 1..m : g[p] = n + i /\ new[i] = p
  BY <1>5, <1>7
<1>10. m \in Nat  BY <1>2
<1> HIDE DEF g, new, S, n, m, at
<1>11. \A p \in DOMAIN g : g[p] \in 1..(n + m)
  <2> TAKE p \in DOMAIN g
  <2>1. CASE p \in DOMAIN files  BY <1>3, <1>8, <1>10, <2>1
  <2>2. CASE p \notin DOMAIN files  BY <1>3, <1>9, <1>10, <2>2
  <2> QED  BY <2>1, <2>2
<1>12. IsInjective(g)
  <2> SUFFICES ASSUME NEW p \in DOMAIN g, NEW q \in DOMAIN g, g[p] = g[q]  PROVE p = q
    BY DEF IsInjective
  <2>1. CASE p \in DOMAIN files /\ q \in DOMAIN files
    BY <1>8, <2>1 DEF Numbered, IsInjective
  <2>2. ASSUME NEW x \in DOMAIN files, NEW y \in DOMAIN g \ DOMAIN files  PROVE g[x] # g[y]
    <3>1. g[x] <= n /\ g[x] \in Nat  BY <1>3, <1>8
    <3>2. PICK i \in 1..m : g[y] = n + i  BY <1>9
    <3> QED  BY <1>3, <1>10, <3>1, <3>2
  <2>3. CASE p \notin DOMAIN files /\ q \notin DOMAIN files
    <3>1. PICK i \in 1..m : g[p] = n + i /\ new[i] = p  BY <1>9, <2>3
    <3>2. PICK j \in 1..m : g[q] = n + j /\ new[j] = q  BY <1>9, <2>3
    <3>3. n + i = n + j  BY <3>1, <3>2
    <3>4. i = j  BY <1>3, <1>10, <3>3
    <3> QED  BY <3>1, <3>2, <3>4
  <2> QED  BY <2>1, <2>2, <2>3
<1>13. g = [p \in DOMAIN g |-> g[p]]  BY <1>5, <1>6
<1>14. Numbered(g)
  <2>1. g \in [DOMAIN g -> 1..Cardinality(DOMAIN g)]  BY <1>6, <1>11, <1>13
  <2> QED  BY <1>6, <1>12, <2>1 DEF Numbered
<1> QED  BY <1>6, <1>8, <1>14 DEF g

(* The join finds every path once all are interned.                        *)
LEMMA JoinSays ==
  ASSUME NEW rows, NEW files, NEW table, table.rows = rows,
         \A i \in DOMAIN rows : rows[i] \in DOMAIN files
  PROVE  Says(WithIds(table, files), files, rows)
<1> DEFINE t == [i \in DOMAIN rows |-> files[rows[i]]]
<1>1. {j \in DOMAIN rows : rows[j] \in DOMAIN files} = DOMAIN rows  OBVIOUS
<1>2. WithIds(table, files) = Table("ids", t)  BY <1>1 DEF WithIds
<1> HIDE DEF t
<1>3. WithIds(table, files).layout = "ids" /\ WithIds(table, files).rows = t
  BY <1>2 DEF Table
<1> QED  BY <1>3 DEF Says, t

(* A table that has its ids already says the same when files grows.        *)
LEMMA GrowingKeeps ==
  ASSUME NEW table, NEW files, NEW rows, Says(table, files, rows),
         NEW more, DOMAIN files \subseteq DOMAIN more, \A p \in DOMAIN files : more[p] = files[p]
  PROVE  Says(table, more, rows)
BY DEF Says

-----------------------------------------------------------------------------
(* Statements *)

LEMMA TableShape ==
  ASSUME NEW layout, NEW rows
  PROVE  Table(layout, rows).layout = layout /\ Table(layout, rows).rows = rows
BY DEF Table

(* One table is migrated, the other is left as it is.                      *)
LEMMA MigratingKeeps ==
  ASSUME NEW files, Numbered(files), NEW table, NEW rows, NEW other, NEW others,
         table.rows = rows, rows = [i \in DOMAIN rows |-> rows[i]], IsFiniteSet(DOMAIN rows),
         Says(other, files, others)
  PROVE  LET more == Intern(files, Paths(table)) IN
         /\ Numbered(more)
         /\ Says(WithIds(table, more), more, rows)
         /\ Says(other, more, others)
         /\ WithIds(table, more).layout = "ids"
<1> DEFINE P == Paths(table)
           more == Intern(files, P)
<1>1. IsFiniteSet(P)
  <2>1. P = {rows[i] : i \in DOMAIN rows}  BY DEF Paths
  <2>2. rows \in Surjection(DOMAIN rows, P)  BY <2>1 DEF Surjection
  <2> QED  BY <2>2, FS_Surjection
<1>2. \A i \in DOMAIN rows : rows[i] \in P  BY DEF Paths
<1> HIDE DEF P
<1>3. /\ Numbered(more) /\ DOMAIN more = DOMAIN files \cup P
      /\ \A p \in DOMAIN files : more[p] = files[p]
  BY <1>1, InternIsSound
<1> HIDE DEF more
<1>4. Says(WithIds(table, more), more, rows)  BY <1>2, <1>3, JoinSays
<1>5. Says(other, more, others)  BY <1>3, GrowingKeeps
<1>6. WithIds(table, more).layout = "ids"  BY DEF WithIds, Table
<1> QED  BY <1>3, <1>4, <1>5, <1>6 DEF more, P

LEMMA ColumnNames ==
  AllColumns = {"user_time_us", "sys_time_us", "peak_rss_kb", "io_read_bytes",
                "io_write_bytes", "cwd", "file_count", "fail_count"}
BY DEF AllColumns, v3_columns, ToSet

LEMMA RowsAreFinite ==
  ASSUME failures \in {<<>>, Failures}, NEW rows \in {Accesses, failures}
  PROVE  rows = [i \in DOMAIN rows |-> rows[i]] /\ IsFiniteSet(DOMAIN rows)
<1>1. CASE rows = <<>>  BY <1>1, FS_EmptySet
<1>2. CASE rows \in {Accesses, Failures}  BY <1>2, UpgradeAssumption
<1> QED  BY <1>1, <1>2

(* A statement that leaves the accesses and the files alone.               *)
LEMMA ElsewhereKeeps ==
  ASSUME NEW d, NEW e, Sound(d), IsDatabase(e),
         e.fa = d.fa, e.failed = d.failed, e.files = d.files
  PROVE  Sound(e)
BY DEF Sound

(* What any statement does to a sound database leaves a sound one.         *)
LEMMA EffectKeeps ==
  ASSUME failures \in {<<>>, Failures}, NEW d, Sound(d), NEW s, Works(s, d)
  PROVE  Sound(Effect(s, d))
<1> DEFINE e == Effect(s, d)
<1>1. IsDatabase(d)  BY DEF Sound
<1>2. CASE s \in AllColumns
  <2>1. e = [d EXCEPT !.columns = @ \cup {s}]
    BY <1>2, ColumnNames DEF Effect
  <2> HIDE DEF e
  <2>2. IsDatabase(e) /\ e.fa = d.fa /\ e.failed = d.failed /\ e.files = d.files
    BY <1>1, <2>1 DEF IsDatabase
  <2> QED  BY <2>2, ElsewhereKeeps DEF e
<1>3. CASE s = "timestamp_us"
  <2>1. e = [d EXCEPT !.timestamp = TRUE]  BY <1>3, ColumnNames DEF Effect
  <2> HIDE DEF e
  <2>2. IsDatabase(e) /\ e.fa = d.fa /\ e.failed = d.failed /\ e.files = d.files
    BY <1>1, <2>1 DEF IsDatabase
  <2> QED  BY <2>2, ElsewhereKeeps DEF e
<1>4. CASE s \in {"reset", "count_files", "count_failed"}
  <2>1. \/ e = [d EXCEPT !.file_count = "zero", !.fail_count = "zero"]
        \/ e = [d EXCEPT !.file_count = "right"]
        \/ e = [d EXCEPT !.fail_count = "right"]
    BY <1>4, ColumnNames DEF Effect
  <2> HIDE DEF e
  <2>2. IsDatabase(e) /\ e.fa = d.fa /\ e.failed = d.failed /\ e.files = d.files
    BY <1>1, <2>1 DEF IsDatabase
  <2> QED  BY <2>2, ElsewhereKeeps DEF e
<1>5. CASE s \in {"failed_v2", "failed_v6"}
  <2>1. CASE d.failed.layout # "none"
    <3>1. e = d  BY <1>5, <2>1, ColumnNames DEF Effect
    <3> HIDE DEF e
    <3> QED  BY <3>1 DEF e
  <2>2. CASE d.failed.layout = "none"
    <3>1. PICK layout \in {"names", "ids"} : e = [d EXCEPT !.failed = Table(layout, <<>>)]
      BY <1>5, <2>2, ColumnNames DEF Effect
    <3> HIDE DEF e
    <3> DEFINE t == Table(layout, <<>>)
    <3>2. t.layout = layout /\ t.rows = <<>>  BY TableShape
    <3> HIDE DEF t
    <3>3. IsDatabase(e) /\ e.fa = d.fa /\ e.failed = t /\ e.files = d.files
      BY <1>1, <3>1 DEF IsDatabase, t
    <3>4. failures = <<>>  BY <2>2 DEF Sound
    <3>5. Says(t, d.files, failures)
      <4>1. [i \in DOMAIN failures |-> d.files[failures[i]]] = <<>> /\ DOMAIN failures = {}
        BY <3>4, EmptyFunction
      <4> QED  BY <3>2, <3>4, <4>1 DEF Says
    <3>6. Numbered(d.files)
      BY <2>2 DEF Sound
    <3>7. Sound(e)  BY <3>3, <3>4, <3>5, <3>6 DEF Sound
    <3> QED  BY <3>7 DEF e
  <2> QED  BY <2>1, <2>2
<1>6. CASE s = "migrate_fa"
  <2> DEFINE more == Intern(d.files, Paths(d.fa))
             t == WithIds(d.fa, more)
  <2>1. e = [d EXCEPT !.files = more, !.fa = t]  BY <1>6, ColumnNames DEF Effect
  <2>2. d.fa.layout = "names"  BY <1>6, ColumnNames DEF Works
  <2>3. Numbered(d.files) /\ d.fa.rows = Accesses /\ Says(d.failed, d.files, failures)
    BY <2>2 DEF Sound, Says
  <2>4. /\ Numbered(more) /\ Says(t, more, Accesses)
        /\ Says(d.failed, more, failures) /\ t.layout = "ids"
    BY <2>3, RowsAreFinite, MigratingKeeps
  <2> HIDE DEF e, more, t
  <2>5. IsDatabase(e) /\ e.fa = t /\ e.failed = d.failed /\ e.files = more
    BY <1>1, <2>1 DEF IsDatabase
  <2>6. Sound(e)  BY <2>4, <2>5 DEF Sound, Numbered
  <2> QED  BY <2>6 DEF e
<1>7. CASE s = "migrate_failed"
  <2> DEFINE more == Intern(d.files, Paths(d.failed))
             t == WithIds(d.failed, more)
  <2>1. e = [d EXCEPT !.files = more, !.failed = t]  BY <1>7, ColumnNames DEF Effect
  <2>2. d.failed.layout = "names"  BY <1>7, ColumnNames DEF Works
  <2>3. Numbered(d.files) /\ d.failed.rows = failures /\ Says(d.fa, d.files, Accesses)
    BY <2>2 DEF Sound, Says
  <2>4. /\ Numbered(more) /\ Says(t, more, failures)
        /\ Says(d.fa, more, Accesses) /\ t.layout = "ids"
    BY <2>3, RowsAreFinite, MigratingKeeps
  <2> HIDE DEF e, more, t
  <2>5. IsDatabase(e) /\ e.failed = t /\ e.fa = d.fa /\ e.files = more
    BY <1>1, <2>1 DEF IsDatabase
  <2>6. Sound(e)  BY <2>4, <2>5 DEF Sound, Numbered
  <2> QED  BY <2>6 DEF e
<1>8. CASE s \notin AllColumns \cup {"timestamp_us", "reset", "count_files", "count_failed",
                                     "failed_v2", "failed_v6", "migrate_fa", "migrate_failed"}
  BY <1>8 DEF Effect
<1> QED  BY <1>2, <1>3, <1>4, <1>5, <1>6, <1>7, <1>8

-----------------------------------------------------------------------------
(* Steps *)

LEMMA UpgradesKeep ==
  ASSUME UpgradeInv, [Next]_vars
  PROVE  UpgradeInv'
<1>1. CASE UNCHANGED <<db, work, failures>>
  BY <1>1 DEF UpgradeInv, Sound
<1>2. ASSUME NEW u \in Programs,
             Start(u) \/ Check(u) \/ StatementFails(u) \/ Crash(u)
      PROVE  UpgradeInv'
  BY <1>1, <1>2 DEF Start, Check, StatementFails, Crash, Mishap
<1>3. ASSUME UNCHANGED failures, NEW s, NEW d, Sound(d), Works(s, d)
      PROVE  Sound(Effect(s, d)) /\ failures' = failures
  BY <1>3, EffectKeeps DEF UpgradeInv
<1>4. ASSUME failures' = failures, NEW d, Sound(d), NEW e, Sound(e), db' = d, work' = e
      PROVE  UpgradeInv'
  BY <1>4 DEF UpgradeInv, Sound
<1>5. ASSUME NEW u \in Programs, Execute(u)  PROVE UpgradeInv'
  <2> DEFINE s == Head(todo[u])
  <2>1. failures' = failures /\ work' = work  BY <1>5 DEF Execute
  <2>2. CASE Works(s, db)
    <3>1. db' = Effect(s, db)  BY <1>5, <2>2 DEF Execute
    <3>2. Sound(Effect(s, db))  BY <2>2, EffectKeeps DEF UpgradeInv
    <3> QED  BY <1>4, <2>1, <3>1, <3>2 DEF UpgradeInv
  <2>3. CASE ~Works(s, db)
    <3>1. db' = db  BY <1>5, <2>3 DEF Execute
    <3> QED  BY <1>1, <2>1, <3>1
  <2> QED  BY <2>2, <2>3
<1>6. ASSUME NEW u \in Programs, Begin(u)  PROVE UpgradeInv'
  <2>1. db' = db /\ work' = db /\ failures' = failures  BY <1>6 DEF Begin
  <2> QED  BY <1>4, <2>1 DEF UpgradeInv
<1>7. ASSUME NEW u \in Programs, Migrate(u)  PROVE UpgradeInv'
  <2> DEFINE s == Head(todo[u])
  <2>1. failures' = failures /\ db' = db  BY <1>7 DEF Migrate
  <2>2. CASE Works(s, work)
    <3>1. work' = Effect(s, work)  BY <1>7, <2>2 DEF Migrate
    <3>2. Sound(Effect(s, work))  BY <2>2, EffectKeeps DEF UpgradeInv
    <3> QED  BY <1>4, <2>1, <3>1, <3>2 DEF UpgradeInv
  <2>3. CASE ~Works(s, work)
    <3>1. work' = work  BY <1>7, <2>3 DEF Migrate
    <3> QED  BY <1>1, <2>1, <3>1
  <2> QED  BY <2>2, <2>3
<1>8. ASSUME NEW u \in Programs, Commit(u)  PROVE UpgradeInv'
  <2>1. db' = work /\ work' = work /\ failures' = failures  BY <1>8 DEF Commit
  <2> QED  BY <1>4, <2>1 DEF UpgradeInv
<1>9. CASE UNCHANGED vars  BY <1>1, <1>9 DEF vars
<1> QED  BY <1>2, <1>5, <1>6, <1>7, <1>8, <1>9 DEF Next

LEMMA WrittenIsSound ==
  Init => UpgradeInv
<1> SUFFICES ASSUME Init  PROVE UpgradeInv
  OBVIOUS
<1>1. PICK n \in 1..6, counts \in {"zero", "right"} :
        db = Written(n, counts) /\ failures = db.failed.rows
  BY DEF Init
<1> DEFINE P == {Accesses[i] : i \in DOMAIN Accesses} \cup {Failures[i] : i \in DOMAIN Failures}
           Ids == [p \in P |-> p]
           L == IF n >= 6 THEN "ids" ELSE "names"
           fa == Table(L, Accesses)
           failed == IF n = 1 THEN NoTable ELSE Table(L, Failures)
           files == IF n >= 6 THEN Ids ELSE <<>>
<1>2. db.fa = fa /\ db.failed = failed /\ db.files = files /\ IsDatabase(db)
  BY <1>1 DEF Written, IsDatabase
<1>3. fa.layout = L /\ fa.rows = Accesses
  BY TableShape
<1>4. /\ n = 1 => failed.layout = "none" /\ failed.rows = <<>>
      /\ n # 1 => failed.layout = L /\ failed.rows = Failures
  BY TableShape DEF NoTable
<1>5. CASE n >= 6
  <2>1. files = Ids /\ L = "ids" /\ n # 1  BY <1>5
  <2>2. IsInjective(Ids)  BY DEF IsInjective
  <2>3. \A rows \in {Accesses, Failures} :
          /\ \A i \in DOMAIN rows : rows[i] \in DOMAIN Ids
          /\ rows = [i \in DOMAIN rows |-> Ids[rows[i]]]
    <3> SUFFICES ASSUME NEW rows \in {Accesses, Failures}
                 PROVE  /\ \A i \in DOMAIN rows : rows[i] \in DOMAIN Ids
                        /\ rows = [i \in DOMAIN rows |-> Ids[rows[i]]]
      OBVIOUS
    <3>1. \A i \in DOMAIN rows : rows[i] \in P  OBVIOUS
    <3>2. rows = [i \in DOMAIN rows |-> rows[i]]  BY UpgradeAssumption
    <3> QED  BY <3>1, <3>2
  <2>4. failures = Failures  BY <1>1, <1>2, <1>4, <2>1
  <2> HIDE DEF Ids, L, fa, failed, files
  <2>5. Says(fa, files, Accesses) /\ Says(failed, files, failures)
    BY <1>3, <1>4, <2>1, <2>3, <2>4 DEF Says
  <2>6. Sound(db)  BY <1>2, <1>3, <1>4, <2>1, <2>2, <2>5 DEF Sound
  <2> QED  BY <2>4, <2>6 DEF UpgradeInv, Init
<1>6. CASE ~(n >= 6)
  <2>1. files = <<>> /\ L = "names"  BY <1>6
  <2>2. failures = failed.rows  BY <1>1, <1>2
  <2>3. Numbered(<<>>)
    <3>1. DOMAIN <<>> = {}  BY EmptyFunction
    <3>2. <<>> \in [{} -> 1..Cardinality({})]  OBVIOUS
    <3> QED  BY <3>1, <3>2, FS_EmptySet DEF Numbered, IsInjective
  <2> HIDE DEF Ids, L, fa, failed, files
  <2>4. Says(fa, files, Accesses) /\ Says(failed, files, failures)
    BY <1>3, <1>4, <2>1, <2>2 DEF Says
  <2>5. Sound(db)
    BY <1>2, <1>3, <1>4, <2>1, <2>2, <2>3, <2>4 DEF Sound, Numbered
  <2>6. failures \in {<<>>, Failures}  BY <1>4, <2>2
  <2> QED  BY <2>5, <2>6 DEF UpgradeInv, Init
<1> QED  BY <1>5, <1>6

LEMMA SoundIsKept ==
  ASSUME NEW d, Sound(d), failures \in {<<>>, Failures}
  PROVE  /\ Resolved(d.fa, d.files) = Accesses
         /\ Resolved(d.failed, d.files) = failures
<1>1. ASSUME NEW table, NEW rows \in {Accesses, failures}, Says(table, d.files, rows)
      PROVE  Resolved(table, d.files) = rows
  <2>1. CASE table.layout # "ids"  BY <1>1, <2>1 DEF Says, Resolved
  <2>2. CASE table.layout = "ids"
    <3> DEFINE path(i) == CHOOSE p \in DOMAIN d.files : d.files[p] = table.rows[i]
    <3>1. \A i \in DOMAIN rows : rows[i] \in DOMAIN d.files /\ table.rows[i] = d.files[rows[i]]
      BY <1>1, <2>2 DEF Says
    <3>2. DOMAIN table.rows = DOMAIN rows  BY <1>1, <2>2 DEF Says
    <3>3. IsInjective(d.files)  BY DEF Sound
    <3>4. \A i \in DOMAIN rows : path(i) = rows[i]
      <4> TAKE i \in DOMAIN rows
      <4>1. path(i) \in DOMAIN d.files /\ d.files[path(i)] = table.rows[i]  BY <3>1
      <4> HIDE DEF path
      <4> QED  BY <3>1, <3>3, <4>1 DEF IsInjective
    <3>5. Resolved(table, d.files) = [i \in DOMAIN table.rows |-> path(i)]
      BY <2>2 DEF Resolved
    <3> HIDE DEF path
    <3>6. rows = [i \in DOMAIN rows |-> rows[i]]  BY RowsAreFinite
    <3> QED  BY <3>2, <3>4, <3>5, <3>6
  <2> QED  BY <2>1, <2>2
<1>2. Says(d.fa, d.files, Accesses) /\ Says(d.failed, d.files, failures)  BY DEF Sound
<1> QED  BY <1>1, <1>2

(* What a database says about who accessed which file survives its upgrade *)
(* from any version, with any number of programs opening it at once, any   *)
(* failing statement and any crash (migrate_to_interned).                  *)
THEOREM UpgradesKeepAccesses ==
  Spec => []AccessesKept
<1>1. Init => UpgradeInv  BY WrittenIsSound
<1>2. UpgradeInv /\ [Next]_vars => UpgradeInv'  BY UpgradesKeep
<1>3. UpgradeInv => AccessesKept  BY SoundIsKept DEF UpgradeInv, AccessesKept
<1> QED  BY <1>1, <1>2, <1>3, PTL DEF Spec

-----------------------------------------------------------------------------
(* Plans: what a program that runs may still have to do.                   *)

LastStep(k) == IF k = "viewer" THEN "recount?" ELSE "prepare"

EarlySteps(k) ==
  IF k = "viewer"
  THEN {"v2?", "v3?", "v4?", "v5?", "timestamp_us", "failed_v2", "reset", "count_files",
        "count_failed"} \cup AllColumns
  ELSE {"failed_v6"}

(* The counts are filled in one after the other. *)
Chained(t, n) ==
  \A i \in 1..n : /\ t[i] = "reset" => t[i + 1] = "count_files" /\ t[i + 2] = "count_failed"
                  /\ t[i] = "count_files" => t[i + 1] = "count_failed"

(* Before the migration, about to begin it, in it, after it. *)
Early(t, k) ==
  /\ Len(t) >= 2 /\ t[Len(t) - 1] = "v6?" /\ t[Len(t)] = LastStep(k)
  /\ \A i \in 1..(Len(t) - 2) : t[i] \in EarlySteps(k)
  /\ Chained(t, Len(t) - 2)

Beginning(t, k) ==
  t \in {<<"begin", "migrate_fa", "migrate_failed", "commit", LastStep(k)>>,
         <<"begin", "migrate_fa", "commit", LastStep(k)>>,
         <<"begin", "migrate_failed", "commit", LastStep(k)>>}

Copying(t, k) ==
  t \in {<<"migrate_fa", "migrate_failed", "commit", LastStep(k)>>,
         <<"migrate_fa", "commit", LastStep(k)>>,
         <<"migrate_failed", "commit", LastStep(k)>>,
         <<"commit", LastStep(k)>>}

Ending(t, k) ==
  IF k = "viewer"
  THEN t \in {<<"recount?">>, <<"reset", "count_files", "count_failed">>,
              <<"count_files", "count_failed">>, <<"count_failed">>, <<>>}
  ELSE t \in {<<"prepare">>, <<>>}

Steps == {"v2?", "v3?", "v4?", "v5?", "v6?", "recount?", "timestamp_us", "failed_v2",
          "failed_v6", "reset", "count_files", "count_failed", "begin", "migrate_fa",
          "migrate_failed", "commit", "prepare"} \cup AllColumns

Has(t, s) == \E i \in 1..Len(t) : t[i] = s

Kinds == {"viewer", "tracer"}

LEMMA HasFirst ==
  ASSUME NEW t \in Seq(Steps), t # <<>>, NEW s
  PROVE  Has(t, s) <=> s = Head(t) \/ Has(Tail(t), s)
<1>1. /\ Len(t) \in Nat \ {0} /\ Head(t) = t[1] /\ Len(Tail(t)) = Len(t) - 1
      /\ \A i \in 1..(Len(t) - 1) : Tail(t)[i] = t[i + 1]
  OBVIOUS
<1>2. \A i \in 1..Len(t) : i = 1 \/ i - 1 \in 1..(Len(t) - 1)
  BY <1>1
<1>3. \A i \in 1..(Len(t) - 1) : i + 1 \in 1..Len(t)
  BY <1>1
<1>4. ASSUME Has(t, s), s # Head(t)  PROVE Has(Tail(t), s)
  <2>1. PICK i \in 1..Len(t) : t[i] = s  BY <1>4 DEF Has
  <2>2. i - 1 \in 1..(Len(t) - 1) /\ i - 1 + 1 = i  BY <1>1, <1>2, <1>4, <2>1
  <2>3. Tail(t)[i - 1] = s  BY <1>1, <2>1, <2>2
  <2> QED  BY <1>1, <2>2, <2>3 DEF Has
<1>5. ASSUME Has(Tail(t), s)  PROVE Has(t, s)
  <2>1. PICK i \in 1..(Len(t) - 1) : Tail(t)[i] = s  BY <1>1, <1>5 DEF Has
  <2>2. t[i + 1] = s /\ i + 1 \in 1..Len(t)  BY <1>1, <1>3, <2>1
  <2> QED  BY <2>2 DEF Has
<1>6. 1 \in 1..Len(t)  BY <1>1
<1>7. s = Head(t) => Has(t, s)  BY <1>1, <1>6 DEF Has
<1> QED  BY <1>4, <1>5, <1>7

LEMMA HasBoth ==
  ASSUME NEW a \in Seq(Steps), NEW b \in Seq(Steps), NEW s
  PROVE  Has(a \o b, s) <=> Has(a, s) \/ Has(b, s)
<1> DEFINE m == Len(a)
           n == Len(b)
           t == a \o b
<1>1. /\ m \in Nat /\ n \in Nat /\ Len(t) = m + n
      /\ \A i \in 1..(m + n) : t[i] = IF i <= m THEN a[i] ELSE b[i - m]
  OBVIOUS
<1> HIDE DEF m, n, t
<1>2. /\ \A i \in 1..m : i \in 1..(m + n) /\ i <= m
      /\ \A i \in 1..n : i + m \in 1..(m + n) /\ ~(i + m <= m) /\ i + m - m = i
      /\ \A i \in 1..(m + n) : IF i <= m THEN i \in 1..m ELSE i - m \in 1..n
  BY <1>1
<1>3. /\ \A i \in 1..m : t[i] = a[i]
      /\ \A i \in 1..n : t[i + m] = b[i]
  BY <1>1, <1>2
<1>4. ASSUME Has(t, s)  PROVE Has(a, s) \/ Has(b, s)
  <2>1. PICK i \in 1..(m + n) : t[i] = s  BY <1>1, <1>4 DEF Has
  <2>2. CASE i <= m
    BY <1>2, <1>3, <2>1, <2>2 DEF Has, m
  <2>3. CASE ~(i <= m)
    <3>1. b[i - m] = s /\ i - m \in 1..n  BY <1>1, <1>2, <2>1, <2>3
    <3> QED  BY <3>1 DEF Has, n
  <2> QED  BY <2>2, <2>3
<1>5. Has(a, s) => Has(t, s)  BY <1>1, <1>2, <1>3 DEF Has, m
<1>6. Has(b, s) => Has(t, s)  BY <1>1, <1>2, <1>3 DEF Has, n
<1> QED  BY <1>4, <1>5, <1>6 DEF t
(* What is left after the first m statements.                              *)
LEMMA EarlyGoesOn ==
  ASSUME NEW t \in Seq(Steps), NEW k, Early(t, k), NEW m \in Nat, m <= Len(t) - 2,
         NEW r \in Seq(Steps), Len(r) = Len(t) - m, \A i \in 1..Len(r) : r[i] = t[i + m]
  PROVE  Early(r, k)
<1> DEFINE n == Len(t)
<1>1. n \in Nat /\ n >= 2 /\ Len(r) = n - m /\ n - m >= 2  BY DEF Early
<1>2. t[n - 1] = "v6?" /\ t[n] = LastStep(k)  BY DEF Early
<1>3. /\ \A i \in 1..(n - 2) : t[i] \in EarlySteps(k)
      /\ \A i \in 1..(n - 2) : /\ t[i] = "reset" => t[i + 1] = "count_files" /\ t[i + 2] = "count_failed"
                               /\ t[i] = "count_files" => t[i + 1] = "count_failed"
  BY DEF Early, Chained
<1> HIDE DEF n
<1>4. \A i \in 1..(n - m) : r[i] = t[i + m]  BY <1>1
<1>5. r[Len(r) - 1] = "v6?" /\ r[Len(r)] = LastStep(k)
  <2>1. /\ n - m - 1 \in 1..(n - m) /\ n - m - 1 + m = n - 1
        /\ n - m \in 1..(n - m) /\ n - m + m = n
    BY <1>1
  <2>2. r[n - m - 1] = t[n - 1] /\ r[n - m] = t[n]  BY <1>4, <2>1
  <2> QED  BY <1>1, <1>2, <2>2
<1>6. ASSUME NEW i \in 1..(n - m - 2)
      PROVE  /\ r[i] \in EarlySteps(k)
             /\ r[i] = "reset" => r[i + 1] = "count_files" /\ r[i + 2] = "count_failed"
             /\ r[i] = "count_files" => r[i + 1] = "count_failed"
  <2>1. /\ i \in 1..(n - m) /\ i + 1 \in 1..(n - m) /\ i + 2 \in 1..(n - m)
        /\ i + m \in 1..(n - 2) /\ i + 1 + m = i + m + 1 /\ i + 2 + m = i + m + 2
    BY <1>1
  <2>2. r[i] = t[i + m] /\ r[i + 1] = t[i + m + 1] /\ r[i + 2] = t[i + m + 2]
    <3>1. r[i] = t[i + m] /\ r[i + 1] = t[i + 1 + m] /\ r[i + 2] = t[i + 2 + m]
      BY <1>4, <2>1, Zenon
    <3> QED  BY <2>1, <3>1, Zenon
  <2> QED  BY <1>3, <2>1, <2>2
<1>7. Len(r) - 2 = n - m - 2 /\ Len(r) >= 2  BY <1>1
<1> QED  BY <1>5, <1>6, <1>7 DEF Early, Chained

LEMMA EarlyStepsAre ==
  ASSUME NEW k \in Kinds
  PROVE  /\ \A s \in EarlySteps(k) : s \notin {"v6?", "recount?", "begin", "migrate_fa",
              "migrate_failed", "commit", "prepare"}
         /\ "v6?" \notin EarlySteps(k) /\ LastStep(k) # "v6?"
BY ColumnNames DEF Kinds, EarlySteps, LastStep

LEMMA EarlyShape ==
  ASSUME NEW t \in Seq(Steps), NEW k \in Kinds, Early(t, k)
  PROVE  /\ t # <<>> /\ Head(t) = t[1] /\ Len(t) \in Nat
         /\ \/ Len(t) = 2 /\ Head(t) = "v6?" /\ Tail(t) = <<LastStep(k)>>
            \/ Len(t) >= 3 /\ Head(t) \in EarlySteps(k)
<1>1. /\ Len(t) \in Nat /\ Len(t) >= 2 /\ t[Len(t) - 1] = "v6?" /\ t[Len(t)] = LastStep(k)
      /\ \A i \in 1..(Len(t) - 2) : t[i] \in EarlySteps(k)
  BY DEF Early
<1>2. t # <<>> /\ Head(t) = t[1]  BY <1>1
<1>3. CASE Len(t) = 2
  <2>1. t[1] = "v6?" /\ t[2] = LastStep(k)  BY <1>1, <1>3
  <2>2. Tail(t) = <<t[2]>>
    <3>1. t[2] \in Steps  BY <1>3
    <3> DEFINE r == Tail(t)
    <3>2. r \in Seq(Steps) /\ Len(r) = 1
      BY <1>2, <1>3
    <3>3. r[1] = t[2]
      <4>1. \A i \in 1..Len(r) : r[i] = t[i + 1]  BY <1>2, HeadTailProperties
      <4> HIDE DEF r
      <4>2. 1 \in 1..Len(r)  BY <3>2
      <4>3. r[1] = t[1 + 1]  BY <4>1, <4>2, Zenon
      <4>4. 1 + 1 = 2  OBVIOUS
      <4> QED  BY <4>3, <4>4, Zenon
    <3>4. <<t[2]>> \in Seq(Steps) /\ Len(<<t[2]>>) = 1 /\ <<t[2]>>[1] = t[2]
      BY <3>1
    <3>5. \A i \in 1..1 : i = 1  OBVIOUS
    <3> HIDE DEF r
    <3>6. r = <<t[2]>>  BY <3>2, <3>3, <3>4, <3>5, SeqEqual
    <3> QED  BY <3>6 DEF r
  <2> QED  BY <1>2, <1>3, <2>1, <2>2
<1>4. CASE Len(t) # 2
  <2> DEFINE n == Len(t)
  <2>1. n \in Nat /\ n >= 2 /\ n # 2  BY <1>1, <1>4
  <2>2. \A i \in 1..(n - 2) : t[i] \in EarlySteps(k)  BY <1>1
  <2> HIDE DEF n
  <2>3. n >= 3 /\ 1 \in 1..(n - 2)  BY <2>1
  <2> QED  BY <1>2, <2>1, <2>2, <2>3 DEF n
<1> QED  BY <1>3, <1>4

LEMMA EarlyTail ==
  ASSUME NEW t \in Seq(Steps), NEW k \in Kinds, Early(t, k), Head(t) # "v6?"
  PROVE  Early(Tail(t), k)
<1>1. Len(t) >= 3 /\ t # <<>> /\ Len(t) \in Nat  BY EarlyShape
<1>2. /\ Tail(t) \in Seq(Steps) /\ Len(Tail(t)) = Len(t) - 1
      /\ \A i \in 1..Len(Tail(t)) : Tail(t)[i] = t[i + 1]
  BY <1>1
<1>3. 1 \in Nat /\ 1 <= Len(t) - 2  BY <1>1
<1> DEFINE one == 1
<1>4. one \in Nat /\ one <= Len(t) - 2 /\ Len(Tail(t)) = Len(t) - one
      /\ \A i \in 1..Len(Tail(t)) : Tail(t)[i] = t[i + one]
  BY <1>2, <1>3
<1> HIDE DEF one
<1> QED  BY <1>2, <1>4, EarlyGoesOn

(* The rest of populate_counts is skipped.                                 *)
Rest(t) == SubSeq(t, 1 + Skipped(Head(t)), Len(t))

LEMMA RestIs ==
  ASSUME NEW t \in Seq(Steps), t # <<>>, Skipped(Head(t)) <= Len(t)
  PROVE  LET m == Skipped(Head(t)) IN
         /\ m \in Nat /\ Rest(t) \in Seq(Steps) /\ Len(Rest(t)) = Len(t) - m
         /\ \A i \in 1..Len(Rest(t)) : Rest(t)[i] = t[i + m]
         /\ Head(t) \notin {"reset", "count_files"} => Rest(t) = Tail(t)
<1> DEFINE m == Skipped(Head(t))
           n == Len(t)
           r == SubSeq(t, 1 + m, n)
<1>1. m \in {1, 2, 3} /\ n \in Nat /\ m <= n  BY DEF Skipped
<1>2. Head(t) \notin {"reset", "count_files"} => m = 1  BY DEF Skipped
<1> HIDE DEF m
<1>3. \A i \in (1 + m)..n : t[i] \in Steps  BY <1>1
<1>4. r \in Seq(Steps) /\ Len(r) = n - m  BY <1>1, <1>3
<1>5. \A i \in 1..(n - m) : r[i] = t[i + m]  BY <1>1
<1>6. m = 1 => r = Tail(t)  BY <1>1
<1>7. Rest(t) = r  BY DEF Rest, m
<1> QED  BY <1>1, <1>2, <1>4, <1>5, <1>6, <1>7 DEF m

LEMMA EarlyRest ==
  ASSUME NEW t \in Seq(Steps), NEW k \in Kinds, Early(t, k), Head(t) # "v6?"
  PROVE  /\ Early(Rest(t), k) /\ Rest(t) \in Seq(Steps)
         /\ \A s : Has(Rest(t), s) => Has(t, s)
         /\ \A s : Has(t, s) => Has(Rest(t), s) \/ s = Head(t) \/ s \in {"count_files", "count_failed"}
<1> DEFINE m == Skipped(Head(t))
           n == Len(t)
           r == Rest(t)
<1>1. n >= 3 /\ t # <<>> /\ n \in Nat /\ Head(t) = t[1]  BY EarlyShape
<1>2. t[n - 1] = "v6?" /\ t[n] = LastStep(k)  BY DEF Early
<1>3. m \in 1..3 /\ m <= n - 2
      /\ \A i \in 1..m : t[i] = Head(t) \/ t[i] \in {"count_files", "count_failed"}
  <2>0. 1 \in 1..(n - 2)  BY <1>1
  <2>1. CASE Head(t) = "reset"
    <3>1. t[2] = "count_files" /\ t[3] = "count_failed"
      BY <1>1, <2>0, <2>1 DEF Early, Chained
    <3>2. n # 3 /\ n # 4  BY <1>2, <3>1
    <3>3. m = 3  BY <2>1 DEF Skipped
    <3> HIDE DEF m, n
    <3>4. \A i \in 1..3 : i = 1 \/ i = 2 \/ i = 3  OBVIOUS
    <3> QED  BY <1>1, <2>1, <3>1, <3>2, <3>3, <3>4
  <2>2. CASE Head(t) = "count_files"
    <3>1. t[2] = "count_failed"
      BY <1>1, <2>0, <2>2 DEF Early, Chained
    <3>2. n # 3  BY <1>2, <3>1
    <3>3. m = 2  BY <2>2 DEF Skipped
    <3> HIDE DEF m, n
    <3>4. \A i \in 1..2 : i = 1 \/ i = 2  OBVIOUS
    <3> QED  BY <1>1, <2>2, <3>1, <3>2, <3>3, <3>4
  <2>3. CASE Head(t) \notin {"reset", "count_files"}
    <3>1. m = 1  BY <2>3 DEF Skipped
    <3> HIDE DEF m, n
    <3> QED  BY <1>1, <3>1
  <2> QED  BY <2>1, <2>2, <2>3
<1>4. /\ r \in Seq(Steps) /\ Len(r) = n - m
      /\ \A i \in 1..Len(r) : r[i] = t[i + m]
  BY <1>1, <1>3, RestIs
<1> HIDE DEF m, r
<1>5. Early(r, k)  BY <1>3, <1>4, EarlyGoesOn
<1> HIDE DEF n
<1>6. \A i \in 1..n : i \in 1..m \/ i - m \in 1..(n - m)  BY <1>1, <1>3
<1>7. \A i \in 1..(n - m) : i + m \in 1..n  BY <1>1, <1>3
<1>8. ASSUME NEW s, Has(r, s)  PROVE Has(t, s)
  BY <1>4, <1>7, <1>8 DEF Has, n
<1>9. ASSUME NEW s, Has(t, s)
      PROVE  Has(r, s) \/ s = Head(t) \/ s \in {"count_files", "count_failed"}
  <2>1. PICK i \in 1..n : t[i] = s  BY <1>9 DEF Has, n
  <2>2. CASE i \in 1..m  BY <1>3, <2>1, <2>2
  <2>3. CASE i - m \in 1..(n - m)
    <3>1. i - m + m = i  BY <1>1, <1>3
    <3>2. r[i - m] = s  BY <1>4, <2>1, <2>3, <3>1
    <3> QED  BY <1>4, <2>3, <3>2 DEF Has
  <2> QED  BY <1>6, <2>2, <2>3
<1> QED  BY <1>4, <1>5, <1>8, <1>9 DEF r

-----------------------------------------------------------------------------
(* What a check adds.                                                      *)

Whole(q, k) ==
  \A i \in 1..Len(q) :
    /\ q[i] \in EarlySteps(k)
    /\ q[i] = "reset" => i + 2 <= Len(q) /\ q[i + 1] = "count_files" /\ q[i + 2] = "count_failed"
    /\ q[i] = "count_files" => i + 1 <= Len(q) /\ q[i + 1] = "count_failed"

LEMMA EarlyGrows ==
  ASSUME NEW k, NEW q \in Seq(Steps), Whole(q, k), NEW t \in Seq(Steps), Early(t, k)
  PROVE  Early(q \o t, k)
<1> DEFINE m == Len(q)
           n == Len(t)
           r == q \o t
<1>1. m \in Nat /\ n \in Nat /\ n >= 2  BY DEF Early
<1>2. /\ Len(r) = m + n
      /\ \A i \in 1..(m + n) : r[i] = IF i <= m THEN q[i] ELSE t[i - m]
  BY ConcatProperties
<1>3. t[n - 1] = "v6?" /\ t[n] = LastStep(k)  BY DEF Early
<1>4. /\ \A i \in 1..(n - 2) : t[i] \in EarlySteps(k)
      /\ \A i \in 1..(n - 2) : /\ t[i] = "reset" => t[i + 1] = "count_files" /\ t[i + 2] = "count_failed"
                               /\ t[i] = "count_files" => t[i + 1] = "count_failed"
  BY DEF Early, Chained
<1>5. \A i \in 1..m :
        /\ q[i] \in EarlySteps(k)
        /\ q[i] = "reset" => i + 2 <= m /\ q[i + 1] = "count_files" /\ q[i + 2] = "count_failed"
        /\ q[i] = "count_files" => i + 1 <= m /\ q[i + 1] = "count_failed"
  BY DEF Whole
<1> HIDE DEF m, n, r
<1>6. \A j \in 1..n : r[m + j] = t[j]
  <2> TAKE j \in 1..n
  <2> DEFINE i == m + j
  <2>1. i \in 1..(m + n) /\ ~(i <= m) /\ i - m = j  BY <1>1
  <2> HIDE DEF i
  <2>2. r[i] = t[i - m]  BY <1>2, <2>1
  <2> QED  BY <2>1, <2>2, Zenon DEF i
<1>7. r[m + n - 1] = "v6?" /\ r[m + n] = LastStep(k)
  <2>1. n - 1 \in 1..n /\ n \in 1..n /\ m + (n - 1) = m + n - 1  BY <1>1
  <2>2. r[m + (n - 1)] = t[n - 1] /\ r[m + n] = t[n]  BY <1>6, <2>1, Zenon
  <2> QED  BY <1>3, <2>1, <2>2, Zenon
<1>8. ASSUME NEW i \in 1..(m + n - 2)
      PROVE  /\ r[i] \in EarlySteps(k)
             /\ r[i] = "reset" => r[i + 1] = "count_files" /\ r[i + 2] = "count_failed"
             /\ r[i] = "count_files" => r[i + 1] = "count_failed"
  <2>1. CASE i <= m
    <3>1. i \in 1..m /\ i \in 1..(m + n) /\ i + 1 \in 1..(m + n) /\ i + 2 \in 1..(m + n)
      BY <1>1, <2>1
    <3>2. r[i] = q[i]  BY <1>2, <2>1, <3>1
    <3>3. i + 1 <= m => r[i + 1] = q[i + 1]  BY <1>2, <3>1
    <3>4. i + 2 <= m => r[i + 2] = q[i + 2] /\ i + 1 <= m  BY <1>1, <1>2, <3>1
    <3>5. /\ q[i] \in EarlySteps(k)
          /\ q[i] = "reset" => i + 2 <= m /\ q[i + 1] = "count_files" /\ q[i + 2] = "count_failed"
          /\ q[i] = "count_files" => i + 1 <= m /\ q[i + 1] = "count_failed"
      BY <1>5, <3>1
    <3> QED  BY <3>2, <3>3, <3>4, <3>5, Zenon
  <2>2. CASE ~(i <= m)
    <3>1. PICK j \in 1..(n - 2) : i = m + j  BY <1>1, <2>2, i - m \in 1..(n - 2), i = m + (i - m)
    <3>2. /\ j \in 1..n /\ j + 1 \in 1..n /\ j + 2 \in 1..n
          /\ i + 1 = m + (j + 1) /\ i + 2 = m + (j + 2)
      BY <1>1, <3>1
    <3>3. r[i] = t[j] /\ r[i + 1] = t[j + 1] /\ r[i + 2] = t[j + 2]
      BY <1>6, <3>1, <3>2, Zenon
    <3> QED  BY <1>4, <3>3, Zenon
  <2> QED  BY <2>1, <2>2
<1>9. m + n >= 2  BY <1>1
<1>10. Early(r, k)
  <2> DEFINE l == Len(r)
  <2>1. l = m + n  BY <1>2
  <2> HIDE DEF l
  <2>2. l >= 2 /\ r[l - 1] = "v6?" /\ r[l] = LastStep(k)  BY <1>1, <1>7, <1>9, <2>1
  <2>3. /\ \A i \in 1..(l - 2) : r[i] \in EarlySteps(k)
        /\ Chained(r, l - 2)
    BY <1>1, <1>8, <2>1 DEF Chained
  <2> QED  BY <2>2, <2>3 DEF Early, l
<1> QED  BY <1>10 DEF r

LEMMA Tuples ==
  ASSUME NEW S, NEW a \in S, NEW b \in S, NEW c \in S, NEW d \in S, NEW e \in S
  PROVE  /\ <<a>> \in Seq(S) /\ <<a, b>> \in Seq(S) /\ <<a, b, c>> \in Seq(S)
         /\ <<a, b, c, d>> \in Seq(S) /\ <<a, b, c, d, e>> \in Seq(S)
OBVIOUS

LEMMA JoinedThree ==
  ASSUME NEW a, NEW b, NEW c
  PROVE  <<a>> \o <<b>> = <<a, b>> /\ <<a, b>> \o <<c>> = <<a, b, c>>
<1> DEFINE S == {a, b, c}
<1>1. a \in S /\ b \in S /\ c \in S  OBVIOUS
<1> HIDE DEF S
<1>2. /\ <<a>> \in Seq(S) /\ <<b>> \in Seq(S) /\ <<c>> \in Seq(S)
      /\ <<a, b>> \in Seq(S) /\ <<a, b, c>> \in Seq(S)
  BY <1>1, Tuples
<1>3. <<a>> \o <<b>> = <<a, b>>
  <2> DEFINE s == <<a>> \o <<b>>
             t == <<a, b>>
  <2>1. s \in Seq(S) /\ t \in Seq(S) /\ Len(s) = 2 /\ Len(t) = 2
    BY <1>2, ConcatProperties
  <2>2. \A i \in 1..2 : s[i] = t[i]  BY <1>2
  <2> HIDE DEF s, t
  <2>3. s = t  BY <2>1, <2>2, SeqEqual
  <2> QED  BY <2>3 DEF s, t
<1>4. <<a, b>> \o <<c>> = <<a, b, c>>
  <2> DEFINE s == <<a, b>> \o <<c>>
             t == <<a, b, c>>
  <2>1. s \in Seq(S) /\ t \in Seq(S) /\ Len(s) = 3 /\ Len(t) = 3
    BY <1>2, ConcatProperties
  <2>2. \A i \in 1..3 : s[i] = t[i]  BY <1>2
  <2> HIDE DEF s, t
  <2>3. s = t  BY <2>1, <2>2, SeqEqual
  <2> QED  BY <2>3 DEF s, t
<1> QED  BY <1>3, <1>4

LEMMA JoinedFour ==
  ASSUME NEW a, NEW b, NEW c, NEW d
  PROVE  <<a, b, c>> \o <<d>> = <<a, b, c, d>>
<1> DEFINE S == {a, b, c, d}
<1>1. a \in S /\ b \in S /\ c \in S /\ d \in S  OBVIOUS
<1> HIDE DEF S
<1>2. <<a, b, c>> \in Seq(S) /\ <<d>> \in Seq(S) /\ <<a, b, c, d>> \in Seq(S)
  BY <1>1, Tuples
<1>3. <<a, b, c>> \o <<d>> = <<a, b, c, d>>
  <2> DEFINE s == <<a, b, c>> \o <<d>>
             t == <<a, b, c, d>>
  <2>1. s \in Seq(S) /\ t \in Seq(S) /\ Len(s) = 4 /\ Len(t) = 4
    BY <1>2, ConcatProperties
  <2>2. \A i \in 1..4 : s[i] = t[i]  BY <1>2
  <2> HIDE DEF s, t
  <2>3. s = t  BY <2>1, <2>2, SeqEqual
  <2> QED  BY <2>3 DEF s, t
<1> QED  BY <1>3

LEMMA JoinedFive ==
  ASSUME NEW a, NEW b, NEW c, NEW d, NEW e
  PROVE  <<a, b, c, d>> \o <<e>> = <<a, b, c, d, e>>
<1> DEFINE S == {a, b, c, d, e}
           s == <<a, b, c, d>> \o <<e>>
           t == <<a, b, c, d, e>>
<1>1. a \in S /\ b \in S /\ c \in S /\ d \in S /\ e \in S  OBVIOUS
<1> HIDE DEF S
<1>2. <<e>> \in Seq(S) /\ <<a, b, c, d>> \in Seq(S) /\ t \in Seq(S)
  BY <1>1, Tuples
<1>3. s \in Seq(S) /\ Len(s) = 5 /\ Len(t) = 5
  BY <1>2, ConcatProperties
<1>4. \A i \in 1..5 : s[i] = t[i]  BY <1>2
<1> HIDE DEF s, t
<1>5. s = t  BY <1>2, <1>3, <1>4, SeqEqual
<1> QED  BY <1>5 DEF s, t

LEMMA JoinedTwoThree ==
  ASSUME NEW a, NEW b, NEW c, NEW d, NEW e
  PROVE  <<a, b>> \o <<c, d, e>> = <<a, b, c, d, e>>
<1> DEFINE S == {a, b, c, d, e}
           s == <<a, b>> \o <<c, d, e>>
           t == <<a, b, c, d, e>>
<1>1. a \in S /\ b \in S /\ c \in S /\ d \in S /\ e \in S  OBVIOUS
<1> HIDE DEF S
<1>2. <<a, b>> \in Seq(S) /\ <<c, d, e>> \in Seq(S) /\ t \in Seq(S)
  BY <1>1, Tuples
<1>3. s \in Seq(S) /\ Len(s) = 5 /\ Len(t) = 5
  BY <1>2, ConcatProperties
<1>4. \A i \in 1..5 : s[i] = t[i]  BY <1>2
<1> HIDE DEF s, t
<1>5. s = t  BY <1>2, <1>3, <1>4, SeqEqual
<1> QED  BY <1>5 DEF s, t

LEMMA ShortPlans ==
  ASSUME NEW s
  PROVE  /\ ~Has(<<>>, s)
         /\ \A a : Has(<<a>>, s) <=> s = a
         /\ \A a, b : Has(<<a, b>>, s) <=> s \in {a, b}
         /\ \A a, b, c : Has(<<a, b, c>>, s) <=> s \in {a, b, c}
         /\ \A a, b, c, d : Has(<<a, b, c, d>>, s) <=> s \in {a, b, c, d}
         /\ \A a, b, c, d, e : Has(<<a, b, c, d, e>>, s) <=> s \in {a, b, c, d, e}
<1>1. /\ \A i \in 1..0 : FALSE
      /\ \A i : i \in 1..1 <=> i = 1
      /\ \A i : i \in 1..2 <=> i = 1 \/ i = 2
      /\ \A i : i \in 1..3 <=> i = 1 \/ i = 2 \/ i = 3
      /\ \A i : i \in 1..4 <=> i = 1 \/ i = 2 \/ i = 3 \/ i = 4
      /\ \A i : i \in 1..5 <=> i = 1 \/ i = 2 \/ i = 3 \/ i = 4 \/ i = 5
  OBVIOUS
<1>2. ~Has(<<>>, s)  BY DEF Has
<1>3. ASSUME NEW a  PROVE Has(<<a>>, s) <=> s = a  BY <1>1 DEF Has
<1>4. ASSUME NEW a, NEW b  PROVE Has(<<a, b>>, s) <=> s \in {a, b}  BY <1>1 DEF Has
<1>5. ASSUME NEW a, NEW b, NEW c
      PROVE  Has(<<a, b, c>>, s) <=> s \in {a, b, c}
  BY <1>1 DEF Has
<1>6. ASSUME NEW a, NEW b, NEW c, NEW d
      PROVE  Has(<<a, b, c, d>>, s) <=> s \in {a, b, c, d}
  BY <1>1 DEF Has
<1>7. ASSUME NEW a, NEW b, NEW c, NEW d, NEW e
      PROVE  Has(<<a, b, c, d, e>>, s) <=> s \in {a, b, c, d, e}
  BY <1>1 DEF Has
<1> QED  BY <1>2, <1>3, <1>4, <1>5, <1>6, <1>7

LEMMA NeededIs ==
  ASSUME NEW d
  PROVE  /\ Needed("v2?", d) = IF d.failed.layout # "none" THEN <<>>
                               ELSE IF d.timestamp THEN <<"failed_v2">>
                               ELSE <<"timestamp_us", "failed_v2">>
         /\ Needed("v3?", d) = OnlyIf("user_time_us" \notin d.columns, v3_columns)
         /\ Needed("v4?", d) = OnlyIf("cwd" \notin d.columns, <<"cwd">>)
         /\ Needed("v5?", d) = OnlyIf("file_count" \notin d.columns,
              <<"file_count", "fail_count", "reset", "count_files", "count_failed">>)
         /\ Needed("v6?", d) = migrate_to_interned(d)
         /\ Needed("recount?", d) = OnlyIf(CountsAreZero(d), populate_counts)
<1>1. /\ Needed("v2?", d) = OnlyIf(d.failed.layout = "none",
                              OnlyIf(~d.timestamp, <<"timestamp_us">>) \o <<"failed_v2">>)
      /\ Needed("v3?", d) = OnlyIf("user_time_us" \notin d.columns, v3_columns)
      /\ Needed("v4?", d) = OnlyIf("cwd" \notin d.columns, <<"cwd">>)
      /\ Needed("v5?", d) = OnlyIf("file_count" \notin d.columns,
                              <<"file_count", "fail_count">> \o populate_counts)
      /\ Needed("v6?", d) = migrate_to_interned(d)
      /\ Needed("recount?", d) = OnlyIf(CountsAreZero(d), populate_counts)
  BY DEF Needed
<1>2. <<>> \o <<"failed_v2">> = <<"failed_v2">>  OBVIOUS
<1>3. <<"timestamp_us">> \o <<"failed_v2">> = <<"timestamp_us", "failed_v2">>
  BY JoinedThree
<1>4. <<"file_count", "fail_count">> \o populate_counts
        = <<"file_count", "fail_count", "reset", "count_files", "count_failed">>
  <2>1. populate_counts = <<"reset", "count_files", "count_failed">>  BY DEF populate_counts
  <2> HIDE DEF populate_counts
  <2>2. <<"file_count", "fail_count">> \o <<"reset", "count_files", "count_failed">>
          = <<"file_count", "fail_count", "reset", "count_files", "count_failed">>
    BY JoinedTwoThree, Zenon
  <2> QED  BY <2>1, <2>2, Zenon
<1>5. Needed("v2?", d) = IF d.failed.layout # "none" THEN <<>>
                         ELSE IF d.timestamp THEN <<"failed_v2">>
                         ELSE <<"timestamp_us", "failed_v2">>
  BY <1>1, <1>2, <1>3 DEF OnlyIf
<1> QED  BY <1>1, <1>4, <1>5

LEMMA NeededEarly ==
  ASSUME NEW c \in {"v2?", "v3?", "v4?", "v5?"}, NEW d
  PROVE  Needed(c, d) \in Seq(Steps) /\ Whole(Needed(c, d), "viewer")
<1> DEFINE Five == <<"file_count", "fail_count", "reset", "count_files", "count_failed">>
<1>1. Needed(c, d) \in {<<>>, <<"failed_v2">>, <<"timestamp_us", "failed_v2">>, v3_columns,
                        <<"cwd">>, Five}
  BY NeededIs DEF OnlyIf
<1>2. EarlySteps("viewer") = {"v2?", "v3?", "v4?", "v5?", "timestamp_us", "failed_v2", "reset",
        "count_files", "count_failed"} \cup AllColumns
  BY DEF EarlySteps
<1>3. /\ \A i : i \in 1..1 <=> i = 1
      /\ \A i : i \in 1..2 <=> i = 1 \/ i = 2
      /\ \A i : i \in 1..5 <=> i = 1 \/ i = 2 \/ i = 3 \/ i = 4 \/ i = 5
  OBVIOUS
<1>5. <<>> \in Seq(Steps) /\ Whole(<<>>, "viewer")  BY DEF Whole
<1>6. ASSUME NEW a \in EarlySteps("viewer") \ {"reset", "count_files"}
      PROVE  Whole(<<a>>, "viewer")
  BY <1>3 DEF Whole
<1>7. Whole(<<"timestamp_us", "failed_v2">>, "viewer")
  BY <1>2, <1>3 DEF Whole
<1>8. Whole(v3_columns, "viewer")
  BY <1>2, <1>3, ColumnNames DEF Whole, v3_columns
<1>9. Whole(Five, "viewer")
  BY <1>2, <1>3, ColumnNames DEF Whole
<1>10. {"failed_v2", "cwd"} \subseteq EarlySteps("viewer") \ {"reset", "count_files"}
  BY <1>2, ColumnNames
<1>11. /\ <<"failed_v2">> \in Seq(Steps) /\ <<"timestamp_us", "failed_v2">> \in Seq(Steps)
       /\ <<"cwd">> \in Seq(Steps) /\ Five \in Seq(Steps) /\ v3_columns \in Seq(Steps)
  <2> DEFINE S == Steps
  <2>1. /\ "failed_v2" \in S /\ "timestamp_us" \in S /\ "cwd" \in S /\ "file_count" \in S
        /\ "fail_count" \in S /\ "reset" \in S /\ "count_files" \in S /\ "count_failed" \in S
        /\ "user_time_us" \in S /\ "sys_time_us" \in S /\ "peak_rss_kb" \in S
        /\ "io_read_bytes" \in S /\ "io_write_bytes" \in S
    BY ColumnNames DEF Steps
  <2> HIDE DEF S
  <2>2. /\ <<"failed_v2">> \in Seq(S) /\ <<"timestamp_us", "failed_v2">> \in Seq(S)
        /\ <<"cwd">> \in Seq(S)
    BY <2>1, Tuples
  <2>3. Five \in Seq(S)  BY <2>1, Tuples
  <2>4. v3_columns \in Seq(S)  BY <2>1, Tuples DEF v3_columns
  <2> QED  BY <2>2, <2>3, <2>4 DEF S
<1>12. Whole(<<"failed_v2">>, "viewer") /\ Whole(<<"cwd">>, "viewer")
  BY <1>6, <1>10, Zenon
<1> HIDE DEF Five
<1> QED  BY <1>1, <1>5, <1>7, <1>8, <1>9, <1>11, <1>12, Zenon

LEMMA NeededHas ==
  ASSUME NEW d, NEW s
  PROVE  /\ Has(Needed("v2?", d), s) <=>
              d.failed.layout = "none" /\ (s = "failed_v2" \/ (~d.timestamp /\ s = "timestamp_us"))
         /\ Has(Needed("v3?", d), s) <=>
              "user_time_us" \notin d.columns /\ s \in {"user_time_us", "sys_time_us",
                "peak_rss_kb", "io_read_bytes", "io_write_bytes"}
         /\ Has(Needed("v4?", d), s) <=> "cwd" \notin d.columns /\ s = "cwd"
         /\ Has(Needed("v5?", d), s) <=>
              "file_count" \notin d.columns /\ s \in {"file_count", "fail_count", "reset",
                "count_files", "count_failed"}
         /\ Has(Needed("recount?", d), s) <=>
              CountsAreZero(d) /\ s \in {"reset", "count_files", "count_failed"}
<1>1. Has(Needed("v2?", d), s) <=>
        d.failed.layout = "none" /\ (s = "failed_v2" \/ (~d.timestamp /\ s = "timestamp_us"))
  <2>1. Needed("v2?", d) = IF d.failed.layout # "none" THEN <<>>
                           ELSE IF d.timestamp THEN <<"failed_v2">>
                           ELSE <<"timestamp_us", "failed_v2">>
    BY NeededIs
  <2>2. /\ ~Has(<<>>, s) /\ (Has(<<"failed_v2">>, s) <=> s = "failed_v2")
        /\ Has(<<"timestamp_us", "failed_v2">>, s) <=> s \in {"timestamp_us", "failed_v2"}
    BY ShortPlans, Zenon
  <2>3. CASE d.failed.layout # "none"  BY <2>1, <2>2, <2>3, Zenon
  <2>4. CASE d.failed.layout = "none" /\ d.timestamp  BY <2>1, <2>2, <2>4, Zenon
  <2>5. CASE d.failed.layout = "none" /\ ~d.timestamp  BY <2>1, <2>2, <2>5, Zenon
  <2> QED  BY <2>3, <2>4, <2>5, Zenon
<1>2. Has(Needed("v3?", d), s) <=>
        "user_time_us" \notin d.columns /\ s \in {"user_time_us", "sys_time_us",
          "peak_rss_kb", "io_read_bytes", "io_write_bytes"}
  <2>1. Needed("v3?", d) = OnlyIf("user_time_us" \notin d.columns, v3_columns)  BY NeededIs
  <2>2. ~Has(<<>>, s) /\ (Has(v3_columns, s) <=> s \in {"user_time_us", "sys_time_us",
          "peak_rss_kb", "io_read_bytes", "io_write_bytes"})
    BY ShortPlans, Zenon DEF v3_columns
  <2> QED  BY <2>1, <2>2, Zenon DEF OnlyIf
<1>3. Has(Needed("v4?", d), s) <=> "cwd" \notin d.columns /\ s = "cwd"
  <2>1. Needed("v4?", d) = OnlyIf("cwd" \notin d.columns, <<"cwd">>)  BY NeededIs
  <2>2. ~Has(<<>>, s) /\ (Has(<<"cwd">>, s) <=> s = "cwd")  BY ShortPlans, Zenon
  <2> QED  BY <2>1, <2>2, Zenon DEF OnlyIf
<1>4. Has(Needed("v5?", d), s) <=>
        "file_count" \notin d.columns /\ s \in {"file_count", "fail_count", "reset",
          "count_files", "count_failed"}
  <2> DEFINE Five == <<"file_count", "fail_count", "reset", "count_files", "count_failed">>
  <2>1. Needed("v5?", d) = OnlyIf("file_count" \notin d.columns, Five)  BY NeededIs
  <2>2. ~Has(<<>>, s) /\ (Has(Five, s) <=> s \in {"file_count", "fail_count", "reset",
          "count_files", "count_failed"})
    BY ShortPlans, Zenon
  <2> QED  BY <2>1, <2>2, Zenon DEF OnlyIf
<1>5. Has(Needed("recount?", d), s) <=>
        CountsAreZero(d) /\ s \in {"reset", "count_files", "count_failed"}
  <2>1. Needed("recount?", d) = OnlyIf(CountsAreZero(d), populate_counts)  BY NeededIs
  <2>2. /\ ~Has(<<>>, s)
        /\ Has(populate_counts, s) <=> s \in {"reset", "count_files", "count_failed"}
    BY ShortPlans, Zenon DEF populate_counts
  <2> QED  BY <2>1, <2>2, Zenon DEF OnlyIf
<1> QED  BY <1>1, <1>2, <1>3, <1>4, <1>5, Zenon

NamesLeft(d) == "names" \in {d.fa.layout, d.failed.layout}

LEMMA MigrationIs ==
  ASSUME NEW d
  PROVE  Needed("v6?", d) =
           IF ~NamesLeft(d) THEN <<>>
           ELSE IF d.fa.layout # "names" THEN <<"begin", "migrate_failed", "commit">>
           ELSE IF d.failed.layout # "names" THEN <<"begin", "migrate_fa", "commit">>
           ELSE <<"begin", "migrate_fa", "migrate_failed", "commit">>
<1> DEFINE A == OnlyIf(d.fa.layout = "names", <<"migrate_fa">>)
           B == OnlyIf(d.failed.layout = "names", <<"migrate_failed">>)
<1>1. Needed("v6?", d) = IF NamesLeft(d) THEN <<"begin">> \o A \o B \o <<"commit">> ELSE <<>>
  BY NeededIs, Zenon DEF migrate_to_interned, NamesLeft, OnlyIf
<1>2. \A a, b : <<a>> \o <<b>> = <<a, b>>  BY JoinedThree
<1>3. \A a, b, c : <<a, b>> \o <<c>> = <<a, b, c>>  BY JoinedThree
<1>4. \A a, b, c, e : <<a, b, c>> \o <<e>> = <<a, b, c, e>>  BY JoinedFour
<1>5. <<"begin">> \o <<>> = <<"begin">> /\ <<"begin", "migrate_fa">> \o <<>> = <<"begin", "migrate_fa">>
  <2>1. <<"begin">> \in Seq({"begin", "migrate_fa"})
        /\ <<"begin", "migrate_fa">> \in Seq({"begin", "migrate_fa"})
    BY Tuples
  <2> QED  BY <2>1, ConcatEmptySeq
<1>6. CASE ~NamesLeft(d)  BY <1>1, <1>6, Zenon
<1>7. CASE NamesLeft(d) /\ d.fa.layout # "names"
  <2>1. A = <<>> /\ B = <<"migrate_failed">>  BY <1>7 DEF NamesLeft, OnlyIf
  <2> HIDE DEF A, B
  <2>2. <<"begin">> \o A \o B \o <<"commit">> = <<"begin", "migrate_failed", "commit">>
    <3>1. <<"begin">> \o A = <<"begin">>  BY <1>5, <2>1, Zenon
    <3>2. <<"begin">> \o B = <<"begin", "migrate_failed">>  BY <1>2, <2>1, Zenon
    <3> QED  BY <1>3, <3>1, <3>2, Zenon
  <2> QED  BY <1>1, <1>7, <2>2, Zenon
<1>8. CASE d.fa.layout = "names" /\ d.failed.layout # "names"
  <2>1. A = <<"migrate_fa">> /\ B = <<>> /\ NamesLeft(d)  BY <1>8 DEF NamesLeft, OnlyIf
  <2> HIDE DEF A, B
  <2>2. <<"begin">> \o A \o B \o <<"commit">> = <<"begin", "migrate_fa", "commit">>
    <3>1. <<"begin">> \o A = <<"begin", "migrate_fa">>  BY <1>2, <2>1, Zenon
    <3>2. <<"begin", "migrate_fa">> \o B = <<"begin", "migrate_fa">>  BY <1>5, <2>1, Zenon
    <3> QED  BY <1>3, <3>1, <3>2, Zenon
  <2> QED  BY <1>1, <1>8, <2>1, <2>2, Zenon
<1>9. CASE d.fa.layout = "names" /\ d.failed.layout = "names"
  <2>1. A = <<"migrate_fa">> /\ B = <<"migrate_failed">> /\ NamesLeft(d)
    BY <1>9 DEF NamesLeft, OnlyIf
  <2> HIDE DEF A, B
  <2>2. <<"begin">> \o A \o B \o <<"commit">> = <<"begin", "migrate_fa", "migrate_failed", "commit">>
    <3>1. <<"begin">> \o A = <<"begin", "migrate_fa">>  BY <1>2, <2>1, Zenon
    <3>2. <<"begin">> \o A \o B = <<"begin", "migrate_fa", "migrate_failed">>
      BY <1>3, <2>1, <3>1, Zenon
    <3> QED  BY <1>4, <3>2, Zenon
  <2> QED  BY <1>1, <1>9, <2>1, <2>2, Zenon
<1> QED  BY <1>6, <1>7, <1>8, <1>9, Zenon

-----------------------------------------------------------------------------
(* How a plan goes on.                                                     *)

LEMMA EarlyHas ==
  ASSUME NEW t \in Seq(Steps), NEW k \in Kinds, Early(t, k)
  PROVE  /\ Has(t, "v6?") /\ Has(t, LastStep(k))
         /\ \A s : Has(t, s) => s \in EarlySteps(k) \cup {"v6?", LastStep(k)}
<1> DEFINE n == Len(t)
<1>1. /\ n \in Nat /\ n >= 2 /\ t[n - 1] = "v6?" /\ t[n] = LastStep(k)
      /\ \A i \in 1..(n - 2) : t[i] \in EarlySteps(k)
  BY DEF Early
<1> HIDE DEF n
<1>2. /\ n - 1 \in 1..n /\ n \in 1..n
      /\ \A i \in 1..n : i \in 1..(n - 2) \/ i = n - 1 \/ i = n
  BY <1>1
<1>3. Has(t, "v6?") /\ Has(t, LastStep(k))  BY <1>1, <1>2 DEF Has, n
<1>4. ASSUME NEW s, Has(t, s)  PROVE s \in EarlySteps(k) \cup {"v6?", LastStep(k)}
  <2>1. PICK i \in 1..n : t[i] = s  BY <1>4 DEF Has, n
  <2> QED  BY <1>1, <1>2, <2>1
<1> QED  BY <1>3, <1>4

LEMMA BeginningHas ==
  ASSUME NEW t, NEW k, Beginning(t, k)
  PROVE  /\ Has(t, "begin") /\ Has(t, "commit")
         /\ \A s : Has(t, s) =>
              s \in {"begin", "migrate_fa", "migrate_failed", "commit", LastStep(k)}
<1> DEFINE l == LastStep(k)
<1>1. CASE t = <<"begin", "migrate_fa", "migrate_failed", "commit", l>>
  <2>1. \A s : Has(t, s) <=> s \in {"begin", "migrate_fa", "migrate_failed", "commit", l}
    BY <1>1, ShortPlans
  <2> QED  BY <2>1
<1>2. ASSUME NEW m \in {"migrate_fa", "migrate_failed"}, t = <<"begin", m, "commit", l>>
      PROVE  /\ Has(t, "begin") /\ Has(t, "commit")
             /\ \A s : Has(t, s) =>
                  s \in {"begin", "migrate_fa", "migrate_failed", "commit", l}
  <2>1. \A s : Has(t, s) <=> s \in {"begin", m, "commit", l}
    BY <1>2, ShortPlans
  <2> QED  BY <2>1
<1>3. \/ t = <<"begin", "migrate_fa", "migrate_failed", "commit", l>>
      \/ t = <<"begin", "migrate_fa", "commit", l>>
      \/ t = <<"begin", "migrate_failed", "commit", l>>
  BY DEF Beginning
<1> QED  BY <1>1, <1>2, <1>3

LEMMA CopyingHas ==
  ASSUME NEW t, NEW k, Copying(t, k)
  PROVE  /\ Has(t, "commit")
         /\ \A s : Has(t, s) => s \in {"migrate_fa", "migrate_failed", "commit", LastStep(k)}
<1> DEFINE l == LastStep(k)
<1>1. CASE t = <<"migrate_fa", "migrate_failed", "commit", l>>
  <2>1. \A s : Has(t, s) <=> s \in {"migrate_fa", "migrate_failed", "commit", l}
    BY <1>1, ShortPlans
  <2> QED  BY <2>1
<1>2. ASSUME NEW m \in {"migrate_fa", "migrate_failed"}, t = <<m, "commit", l>>
      PROVE  /\ Has(t, "commit")
             /\ \A s : Has(t, s) => s \in {"migrate_fa", "migrate_failed", "commit", l}
  <2>1. \A s : Has(t, s) <=> s \in {m, "commit", l}
    BY <1>2, ShortPlans
  <2> QED  BY <2>1
<1>3. CASE t = <<"commit", l>>
  <2>1. \A s : Has(t, s) <=> s \in {"commit", l}  BY <1>3, ShortPlans
  <2> QED  BY <2>1
<1>4. \/ t = <<"migrate_fa", "migrate_failed", "commit", l>>
      \/ t = <<"migrate_fa", "commit", l>>
      \/ t = <<"migrate_failed", "commit", l>>
      \/ t = <<"commit", l>>
  BY DEF Copying
<1> QED  BY <1>1, <1>2, <1>3, <1>4

LEMMA EndingHas ==
  ASSUME NEW t, NEW k, Ending(t, k)
  PROVE  \A s : Has(t, s) =>
           \/ k = "viewer" /\ s \in {"recount?", "reset", "count_files", "count_failed"}
           \/ k # "viewer" /\ s = "prepare"
<1>1. CASE k = "viewer"
  <2>1. \/ t = <<"recount?">> \/ t = <<"reset", "count_files", "count_failed">>
        \/ t = <<"count_files", "count_failed">> \/ t = <<"count_failed">> \/ t = <<>>
    BY <1>1 DEF Ending
  <2> QED  BY <1>1, <2>1, ShortPlans
<1>2. CASE k # "viewer"
  <2>1. t = <<"prepare">> \/ t = <<>>  BY <1>2 DEF Ending
  <2> QED  BY <1>2, <2>1, ShortPlans
<1> QED  BY <1>1, <1>2

Stage(t, k) == Early(t, k) \/ Beginning(t, k) \/ Copying(t, k) \/ Ending(t, k)

LEMMA StagesDiffer ==
  ASSUME NEW t \in Seq(Steps), NEW k \in Kinds
  PROVE  /\ Early(t, k) => ~Beginning(t, k) /\ ~Copying(t, k) /\ ~Ending(t, k)
         /\ Beginning(t, k) => ~Copying(t, k) /\ ~Ending(t, k)
         /\ Copying(t, k) => ~Ending(t, k)
<1>1. LastStep(k) \in {"recount?", "prepare"}  BY DEF LastStep
<1>2. Early(t, k) => Has(t, "v6?")  BY EarlyHas
<1>3. Beginning(t, k) => Has(t, "begin") /\ Has(t, "commit") /\ ~Has(t, "v6?")
  BY <1>1, BeginningHas
<1>4. Copying(t, k) => Has(t, "commit") /\ ~Has(t, "begin") /\ ~Has(t, "v6?")
  BY <1>1, CopyingHas
<1>5. Ending(t, k) => ~Has(t, "commit") /\ ~Has(t, "v6?")
  BY EndingHas
<1> QED  BY <1>2, <1>3, <1>4, <1>5

LEMMA ShortTails ==
  ASSUME NEW a, NEW b, NEW c, NEW d, NEW e
  PROVE  /\ Tail(<<a>>) = <<>> /\ Tail(<<a, b>>) = <<b>> /\ Tail(<<a, b, c>>) = <<b, c>>
         /\ Tail(<<a, b, c, d>>) = <<b, c, d>> /\ Tail(<<a, b, c, d, e>>) = <<b, c, d, e>>
OBVIOUS

LEMMA ShortHeads ==
  ASSUME NEW a, NEW b, NEW c, NEW d, NEW e
  PROVE  /\ Head(<<a>>) = a /\ Head(<<a, b>>) = a /\ Head(<<a, b, c>>) = a
         /\ Head(<<a, b, c, d>>) = a /\ Head(<<a, b, c, d, e>>) = a
         /\ <<a>> # <<>> /\ <<a, b>> # <<>> /\ <<a, b, c>> # <<>>
         /\ <<a, b, c, d>> # <<>> /\ <<a, b, c, d, e>> # <<>>
OBVIOUS

LEMMA BeginningGoesOn ==
  ASSUME NEW t, NEW k, Beginning(t, k)
  PROVE  t # <<>> /\ Head(t) = "begin" /\ Copying(Tail(t), k)
<1> DEFINE l == LastStep(k)
<1>1. \/ t = <<"begin", "migrate_fa", "migrate_failed", "commit", l>>
      \/ t = <<"begin", "migrate_fa", "commit", l>>
      \/ t = <<"begin", "migrate_failed", "commit", l>>
  BY DEF Beginning
<1>2. t # <<>> /\ Head(t) = "begin"  BY <1>1, ShortHeads
<1>3. Tail(t) \in {<<"migrate_fa", "migrate_failed", "commit", l>>,
                  <<"migrate_fa", "commit", l>>, <<"migrate_failed", "commit", l>>}
  <2>1. CASE t = <<"begin", "migrate_fa", "migrate_failed", "commit", l>>
    <3>1. Tail(t) = <<"migrate_fa", "migrate_failed", "commit", l>>  BY <2>1
    <3> QED  BY <3>1, Zenon
  <2>2. CASE t = <<"begin", "migrate_fa", "commit", l>>
    <3>1. Tail(t) = <<"migrate_fa", "commit", l>>  BY <2>2
    <3> QED  BY <3>1, Zenon
  <2>3. CASE t = <<"begin", "migrate_failed", "commit", l>>
    <3>1. Tail(t) = <<"migrate_failed", "commit", l>>  BY <2>3
    <3> QED  BY <3>1, Zenon
  <2> QED  BY <1>1, <2>1, <2>2, <2>3, Zenon
<1>4. Copying(Tail(t), k)  BY <1>3, Zenon DEF Copying
<1> QED  BY <1>2, <1>4

LEMMA CopyingGoesOn ==
  ASSUME NEW t, NEW k, Copying(t, k)
  PROVE  /\ t # <<>> /\ Head(t) \in {"migrate_fa", "migrate_failed", "commit"}
         /\ Head(t) # "commit" => Copying(Tail(t), k)
         /\ Head(t) = "commit" => t = <<"commit", LastStep(k)>> /\ Tail(t) = <<LastStep(k)>>
<1> DEFINE l == LastStep(k)
<1>1. CASE t = <<"migrate_fa", "migrate_failed", "commit", l>>
  BY <1>1, ShortHeads, ShortTails DEF Copying
<1>2. CASE t = <<"migrate_fa", "commit", l>>  BY <1>2, ShortHeads, ShortTails DEF Copying
<1>3. CASE t = <<"migrate_failed", "commit", l>>  BY <1>3, ShortHeads, ShortTails DEF Copying
<1>4. CASE t = <<"commit", l>>  BY <1>4, ShortHeads, ShortTails
<1> QED  BY <1>1, <1>2, <1>3, <1>4 DEF Copying

LEMMA EndingGoesOn ==
  ASSUME NEW t \in Seq(Steps), NEW k \in Kinds, Ending(t, k), t # <<>>
  PROVE  /\ k = "viewer" => Head(t) \in {"recount?", "reset", "count_files", "count_failed"}
         /\ k = "tracer" => Head(t) = "prepare"
         /\ Ending(Tail(t), k) /\ Ending(Rest(t), k)
         /\ Head(t) = "recount?" => t = <<"recount?">> /\ Tail(t) = <<>>
         /\ Head(t) = "reset" => Rest(t) = <<>>
<1>1. /\ k = "viewer" =>
           \/ t = <<"recount?">> \/ t = <<"reset", "count_files", "count_failed">>
           \/ t = <<"count_files", "count_failed">> \/ t = <<"count_failed">>
      /\ k = "tracer" => t = <<"prepare">>
  BY DEF Ending, Kinds
<1>2. Ending(Tail(t), k)
  <2>1. CASE k = "viewer"
    <3>1. Tail(t) \in {<<>>, <<"count_files", "count_failed">>, <<"count_failed">>}
      <4>1. t = <<"recount?">> => Tail(t) = <<>>  BY ShortTails, Zenon
      <4>2. t = <<"count_failed">> => Tail(t) = <<>>  BY ShortTails, Zenon
      <4>3. t = <<"count_files", "count_failed">> => Tail(t) = <<"count_failed">>
        OBVIOUS
      <4>4. t = <<"reset", "count_files", "count_failed">>
              => Tail(t) = <<"count_files", "count_failed">>
        OBVIOUS
      <4> QED  BY <1>1, <2>1, <4>1, <4>2, <4>3, <4>4, Zenon
    <3> QED  BY <2>1, <3>1, Zenon DEF Ending
  <2>2. CASE k = "tracer"
    <3>1. Tail(t) = <<>>  BY <1>1, <2>2, ShortTails
    <3> QED  BY <2>2, <3>1 DEF Ending
  <2> QED  BY <2>1, <2>2 DEF Kinds
<1>3. Head(t) \in {"reset", "count_files"} => k = "viewer" /\ Rest(t) = <<>>
  <2>1. CASE t = <<"reset", "count_files", "count_failed">>
    <3>1. Skipped(Head(t)) = 3 /\ Len(t) = 3  BY <2>1 DEF Skipped
    <3>2. Rest(t) = SubSeq(t, 4, 3)  BY <3>1 DEF Rest
    <3> QED  BY <1>1, <3>2, SubSeqEmpty DEF Kinds
  <2>2. CASE t = <<"count_files", "count_failed">>
    <3>1. Skipped(Head(t)) = 2 /\ Len(t) = 2  BY <2>2 DEF Skipped
    <3>2. Rest(t) = SubSeq(t, 3, 2)  BY <3>1 DEF Rest
    <3> QED  BY <1>1, <3>2, SubSeqEmpty DEF Kinds
  <2> QED  BY <1>1, <2>1, <2>2 DEF Kinds
<1>4. Head(t) \notin {"reset", "count_files"} => Rest(t) = Tail(t)
  <2>1. Head(t) \notin {"reset", "count_files"} => Skipped(Head(t)) = 1  BY DEF Skipped
  <2>2. Len(t) \in Nat /\ 1 <= Len(t)  BY LenProperties
  <2> QED  BY <2>1, <2>2, RestIs
<1>5. k = "viewer" => Ending(<<>>, k)  BY DEF Ending
<1>6. Ending(Rest(t), k)  BY <1>2, <1>3, <1>4, <1>5
<1>7. /\ k = "viewer" => Head(t) \in {"recount?", "reset", "count_files", "count_failed"}
      /\ k = "tracer" => Head(t) = "prepare"
      /\ Head(t) = "recount?" => t = <<"recount?">>
  BY <1>1, ShortHeads DEF Kinds
<1>8. Head(t) = "recount?" => Tail(t) = <<>>  BY <1>7, ShortTails
<1> QED  BY <1>2, <1>3, <1>6, <1>7, <1>8

-----------------------------------------------------------------------------
(* What a statement does to the layout, and what a check finds.            *)

Affected(s, d, e) ==
  /\ e.columns = IF s \in AllColumns THEN d.columns \cup {s} ELSE d.columns
  /\ e.timestamp = IF s = "timestamp_us" THEN TRUE ELSE d.timestamp
  /\ e.fa.layout = IF s = "migrate_fa" THEN "ids" ELSE d.fa.layout
  /\ e.failed.layout = IF s = "migrate_failed" THEN "ids"
                       ELSE IF s = "failed_v2" /\ d.failed.layout = "none" THEN "names"
                       ELSE IF s = "failed_v6" /\ d.failed.layout = "none" THEN "ids"
                       ELSE d.failed.layout
  /\ e.file_count = IF s = "reset" THEN "zero"
                    ELSE IF s = "count_files" THEN "right" ELSE d.file_count

LEMMA EffectFields ==
  ASSUME NEW d, IsDatabase(d), NEW s
  PROVE  Affected(s, d, Effect(s, d))
<1> DEFINE e == Effect(s, d)
<1>1. CASE s \in AllColumns
  <2>1. e = [d EXCEPT !.columns = @ \cup {s}]  BY <1>1, ColumnNames DEF Effect
  <2> HIDE DEF e
  <2>2. e.columns = d.columns \cup {s} /\ e.timestamp = d.timestamp /\ e.fa = d.fa
        /\ e.failed = d.failed /\ e.file_count = d.file_count
    BY <2>1 DEF IsDatabase
  <2>3. Affected(s, d, e)  BY <1>1, <2>2, ColumnNames DEF Affected
  <2> QED  BY <2>3 DEF e
<1>2. CASE s = "timestamp_us"
  <2>1. e = [d EXCEPT !.timestamp = TRUE]  BY <1>2, ColumnNames DEF Effect
  <2>2. s \notin AllColumns  BY <1>2, ColumnNames
  <2> HIDE DEF e
  <2>3. e.columns = d.columns /\ e.timestamp = TRUE /\ e.fa = d.fa
        /\ e.failed = d.failed /\ e.file_count = d.file_count
    BY <2>1 DEF IsDatabase
  <2>4. Affected(s, d, e)  BY <1>2, <2>2, <2>3 DEF Affected
  <2> QED  BY <2>4 DEF e
<1>3. CASE s \in {"reset", "count_files", "count_failed"}
  <2>1. \/ s = "reset" /\ e = [d EXCEPT !.file_count = "zero", !.fail_count = "zero"]
        \/ s = "count_files" /\ e = [d EXCEPT !.file_count = "right"]
        \/ s = "count_failed" /\ e = [d EXCEPT !.fail_count = "right"]
    BY <1>3, ColumnNames DEF Effect
  <2>2. s \notin AllColumns  BY <1>3, ColumnNames
  <2> HIDE DEF e
  <2>3. e.columns = d.columns /\ e.timestamp = d.timestamp /\ e.fa = d.fa
        /\ e.failed = d.failed
        /\ e.file_count = IF s = "reset" THEN "zero"
                          ELSE IF s = "count_files" THEN "right" ELSE d.file_count
    BY <2>1 DEF IsDatabase
  <2>4. Affected(s, d, e)  BY <1>3, <2>2, <2>3 DEF Affected
  <2> QED  BY <2>4 DEF e
<1>4. CASE s \in {"failed_v2", "failed_v6"}
  <2>1. s \notin AllColumns  BY <1>4, ColumnNames
  <2>2. CASE d.failed.layout # "none"
    <3>1. e = d  BY <1>4, <2>2, ColumnNames DEF Effect
    <3> HIDE DEF e
    <3>2. Affected(s, d, e)  BY <1>4, <2>1, <2>2, <3>1 DEF Affected
    <3> QED  BY <3>2 DEF e
  <2>3. CASE d.failed.layout = "none"
    <3> DEFINE l == IF s = "failed_v2" THEN "names" ELSE "ids"
               table == Table(l, <<>>)
    <3>1. e = [d EXCEPT !.failed = table]  BY <1>4, <2>3, ColumnNames DEF Effect
    <3>2. table.layout = l  BY TableShape
    <3> HIDE DEF e, table
    <3>3. e.columns = d.columns /\ e.timestamp = d.timestamp /\ e.fa = d.fa
          /\ e.failed = table /\ e.file_count = d.file_count
      BY <3>1 DEF IsDatabase
    <3>4. Affected(s, d, e)  BY <1>4, <2>1, <2>3, <3>2, <3>3 DEF Affected
    <3> QED  BY <3>4 DEF e
  <2> QED  BY <2>2, <2>3
<1>5. CASE s = "migrate_fa"
  <2> DEFINE files == Intern(d.files, Paths(d.fa))
             table == WithIds(d.fa, files)
  <2>1. e = [d EXCEPT !.files = files, !.fa = table]  BY <1>5, ColumnNames DEF Effect
  <2>2. table.layout = "ids"  BY DEF WithIds, Table
  <2>3. s \notin AllColumns  BY <1>5, ColumnNames
  <2> HIDE DEF e, files, table
  <2>4. e.columns = d.columns /\ e.timestamp = d.timestamp /\ e.fa = table
        /\ e.failed = d.failed /\ e.file_count = d.file_count
    BY <2>1 DEF IsDatabase
  <2>5. Affected(s, d, e)  BY <1>5, <2>2, <2>3, <2>4 DEF Affected
  <2> QED  BY <2>5 DEF e
<1>6. CASE s = "migrate_failed"
  <2> DEFINE files == Intern(d.files, Paths(d.failed))
             table == WithIds(d.failed, files)
  <2>1. e = [d EXCEPT !.files = files, !.failed = table]  BY <1>6, ColumnNames DEF Effect
  <2>2. table.layout = "ids"  BY DEF WithIds, Table
  <2>3. s \notin AllColumns  BY <1>6, ColumnNames
  <2> HIDE DEF e, files, table
  <2>4. e.columns = d.columns /\ e.timestamp = d.timestamp /\ e.fa = d.fa
        /\ e.failed = table /\ e.file_count = d.file_count
    BY <2>1 DEF IsDatabase
  <2>5. Affected(s, d, e)  BY <1>6, <2>2, <2>3, <2>4 DEF Affected
  <2> QED  BY <2>5 DEF e
<1>7. CASE s \notin AllColumns \cup {"timestamp_us", "reset", "count_files", "count_failed",
                                     "failed_v2", "failed_v6", "migrate_fa", "migrate_failed"}
  <2>1. e = d  BY <1>7 DEF Effect
  <2> HIDE DEF e
  <2>2. Affected(s, d, e)  BY <1>7, <2>1 DEF Affected
  <2> QED  BY <2>2 DEF e
<1> QED  BY <1>1, <1>2, <1>3, <1>4, <1>5, <1>6, <1>7

Marks == AllColumns \cup {"timestamp_us", "failed_v2", "failed_v6"}

Done(x, d) ==
  CASE x \in AllColumns -> x \in d.columns
    [] x = "timestamp_us" -> d.timestamp
    [] OTHER -> d.failed.layout # "none"

(* The mark a check looks for, and what is added after a mark.             *)
Guards(c, x) ==
  \/ c = "v2?" /\ x = "failed_v2"
  \/ c = "v3?" /\ x = "user_time_us"
  \/ c = "v4?" /\ x = "cwd"
  \/ c = "v5?" /\ x = "file_count"

Follows(a, b) ==
  \/ a = "failed_v2" /\ b = "timestamp_us"
  \/ a = "user_time_us" /\ b \in {"sys_time_us", "peak_rss_kb", "io_read_bytes", "io_write_bytes"}
  \/ a = "file_count" /\ b = "fail_count"

(* A step from plan t to r that takes the database from d to e.            *)
Advances(t, r, k, d, e) ==
  /\ \A x \in Marks : Done(x, d) => Done(x, e)
  /\ \A x \in Marks : Has(t, x) => Has(r, x) \/ Done(x, e)
  /\ \A c, x : Guards(c, x) /\ Has(t, c) => Has(r, c) \/ Has(r, x) \/ Done(x, e)
  /\ k = "viewer" => \A a, b : Follows(a, b) =>
       /\ Done(a, e) => Done(a, d) \/ Has(t, a)
       /\ Has(r, a) => Has(t, a) \/ Done(b, d) \/ Has(r, b)

LEMMA MarkNames ==
  /\ Marks = {"user_time_us", "sys_time_us", "peak_rss_kb", "io_read_bytes", "io_write_bytes",
              "cwd", "file_count", "fail_count", "timestamp_us", "failed_v2", "failed_v6"}
  /\ Checks = {"v2?", "v3?", "v4?", "v5?", "v6?", "recount?"}
  /\ \A c, x : Guards(c, x) => c \in {"v2?", "v3?", "v4?", "v5?"} /\ x \in Marks
  /\ \A a, b : Follows(a, b) => a \in Marks /\ b \in Marks
<1>1. Marks = {"user_time_us", "sys_time_us", "peak_rss_kb", "io_read_bytes", "io_write_bytes",
               "cwd", "file_count", "fail_count", "timestamp_us", "failed_v2", "failed_v6"}
  BY ColumnNames DEF Marks
<1>2. Checks = {"v2?", "v3?", "v4?", "v5?", "v6?", "recount?"}
  BY DEF Checks, ToSet, upgrade_schema
<1>3. \A c, x : Guards(c, x) => c \in {"v2?", "v3?", "v4?", "v5?"} /\ x \in Marks
  BY <1>1 DEF Guards
<1>4. \A a, b : Follows(a, b) => a \in Marks /\ b \in Marks
  BY <1>1 DEF Follows
<1> QED  BY <1>1, <1>2, <1>3, <1>4

(* No column and no table is still to be added.                            *)
Late(t) == \A s : Has(t, s) => s \notin Marks \cup {"v2?", "v3?", "v4?", "v5?"}

LEMMA LateStages ==
  ASSUME NEW t, NEW k, Beginning(t, k) \/ Copying(t, k) \/ Ending(t, k)
  PROVE  Late(t)
<1>1. \A s : Has(t, s) => s \in {"begin", "migrate_fa", "migrate_failed", "commit", "recount?",
                                 "reset", "count_files", "count_failed", "prepare"}
  BY BeginningHas, CopyingHas, EndingHas DEF LastStep
<1> QED  BY <1>1, MarkNames DEF Late

LEMMA LateAdvances ==
  ASSUME NEW t, Late(t), NEW r, Late(r), NEW k, NEW d, NEW e,
         \A x \in Marks : Done(x, d) <=> Done(x, e)
  PROVE  Advances(t, r, k, d, e)
<1>1. \A x \in Marks : ~Has(t, x) /\ ~Has(r, x)  BY DEF Late
<1>2. \A c, x : Guards(c, x) => ~Has(t, c)  BY MarkNames DEF Late
<1>3. \A a, b : Follows(a, b) => a \in Marks  BY MarkNames
<1> QED  BY <1>1, <1>2, <1>3, Zenon DEF Advances

LEMMA MigrationHas ==
  ASSUME NEW d, NEW s, Has(Needed("v6?", d), s)
  PROVE  s \in {"begin", "migrate_fa", "migrate_failed", "commit"}
<1>1. \/ Needed("v6?", d) = <<>>
      \/ Needed("v6?", d) = <<"begin", "migrate_failed", "commit">>
      \/ Needed("v6?", d) = <<"begin", "migrate_fa", "commit">>
      \/ Needed("v6?", d) = <<"begin", "migrate_fa", "migrate_failed", "commit">>
  BY MigrationIs
<1>2. /\ ~Has(<<>>, s)
      /\ Has(<<"begin", "migrate_failed", "commit">>, s) => s \in {"begin", "migrate_failed", "commit"}
      /\ Has(<<"begin", "migrate_fa", "commit">>, s) => s \in {"begin", "migrate_fa", "commit"}
      /\ Has(<<"begin", "migrate_fa", "migrate_failed", "commit">>, s)
           => s \in {"begin", "migrate_fa", "migrate_failed", "commit"}
  BY ShortPlans
<1> HIDE DEF Has
<1> QED  BY <1>1, <1>2

(* What a check looks for is there or is among what it adds.               *)
LEMMA NeededFollows ==
  ASSUME NEW c \in Checks, NEW d
  PROVE  /\ \A x : Guards(c, x) => Has(Needed(c, d), x) \/ Done(x, d)
         /\ \A a, b : Follows(a, b) /\ Has(Needed(c, d), a) => Has(Needed(c, d), b) \/ Done(b, d)
<1>1. c \in {"v2?", "v3?", "v4?", "v5?", "v6?", "recount?"}  BY MarkNames
<1>2. /\ d.failed.layout # "none" => Done("failed_v2", d)
      /\ d.timestamp => Done("timestamp_us", d)
      /\ \A x \in AllColumns : x \in d.columns => Done(x, d)
  BY ColumnNames DEF Done
<1>3. CASE c = "v2?"
  <2>1. \A s : Has(Needed("v2?", d), s) <=>
          d.failed.layout = "none" /\ (s = "failed_v2" \/ (~d.timestamp /\ s = "timestamp_us"))
    BY NeededHas, Zenon
  <2>2. \A x : Guards(c, x) => x = "failed_v2"  BY <1>3 DEF Guards
  <2>3. ASSUME NEW a, NEW b, Follows(a, b), Has(Needed(c, d), a)
        PROVE  a = "failed_v2" /\ b = "timestamp_us"
    BY <1>3, <2>1, <2>3 DEF Follows
  <2> QED  BY <1>2, <1>3, <2>1, <2>2, <2>3, Zenon
<1>4. CASE c = "v3?"
  <2> DEFINE Five == {"user_time_us", "sys_time_us", "peak_rss_kb", "io_read_bytes", "io_write_bytes"}
  <2>1. \A s : Has(Needed("v3?", d), s) <=> "user_time_us" \notin d.columns /\ s \in Five
    BY NeededHas, Zenon
  <2>2. \A x : Guards(c, x) => x = "user_time_us"  BY <1>4 DEF Guards
  <2>3. \A a, b : Follows(a, b) /\ a \in Five => b \in Five  BY DEF Follows
  <2>4. "user_time_us" \in Five /\ "user_time_us" \in AllColumns  BY ColumnNames
  <2> HIDE DEF Five
  <2> QED  BY <1>2, <1>4, <2>1, <2>2, <2>3, <2>4, Zenon
<1>5. CASE c = "v4?"
  <2>1. \A s : Has(Needed("v4?", d), s) <=> "cwd" \notin d.columns /\ s = "cwd"
    BY NeededHas, Zenon
  <2>2. \A x : Guards(c, x) => x = "cwd"  BY <1>5 DEF Guards
  <2>3. \A a, b : Follows(a, b) => a # "cwd"  BY DEF Follows
  <2>4. "cwd" \in AllColumns  BY ColumnNames
  <2> QED  BY <1>2, <1>5, <2>1, <2>2, <2>3, <2>4, Zenon
<1>6. CASE c = "v5?"
  <2> DEFINE Five == {"file_count", "fail_count", "reset", "count_files", "count_failed"}
  <2>1. \A s : Has(Needed("v5?", d), s) <=> "file_count" \notin d.columns /\ s \in Five
    BY NeededHas, Zenon
  <2>2. \A x : Guards(c, x) => x = "file_count"  BY <1>6 DEF Guards
  <2>3. \A a, b : Follows(a, b) /\ a \in Five => b \in Five  BY DEF Follows
  <2>4. "file_count" \in Five /\ "file_count" \in AllColumns  BY ColumnNames
  <2> HIDE DEF Five
  <2> QED  BY <1>2, <1>6, <2>1, <2>2, <2>3, <2>4, Zenon
<1>7. CASE c \in {"v6?", "recount?"}
  <2>1. \A s : Has(Needed(c, d), s) => s \in {"begin", "migrate_fa", "migrate_failed", "commit",
                                              "reset", "count_files", "count_failed"}
    BY <1>7, MigrationHas, NeededHas
  <2>2. \A x : ~Guards(c, x)  BY <1>7 DEF Guards
  <2>3. \A a, b : Follows(a, b) => ~Has(Needed(c, d), a)  BY <2>1 DEF Follows
  <2> QED  BY <2>2, <2>3
<1> QED  BY <1>1, <1>3, <1>4, <1>5, <1>6, <1>7

LEMMA CheckAdvances ==
  ASSUME NEW t \in Seq(Steps), t # <<>>, Head(t) \in Checks, NEW k, NEW d,
         Needed(Head(t), d) \in Seq(Steps)
  PROVE  Advances(t, Needed(Head(t), d) \o Tail(t), k, d, d)
<1> DEFINE c == Head(t)
           n == Needed(c, d)
           r == n \o Tail(t)
<1>1. Tail(t) \in Seq(Steps)  BY HeadTailProperties
<1>2. \A s : Has(r, s) <=> Has(n, s) \/ Has(Tail(t), s)  BY <1>1, HasBoth
<1>3. \A s : Has(t, s) <=> s = c \/ Has(Tail(t), s)  BY HasFirst
<1>4. /\ \A x : Guards(c, x) => Has(n, x) \/ Done(x, d)
      /\ \A a, b : Follows(a, b) /\ Has(n, a) => Has(n, b) \/ Done(b, d)
  BY NeededFollows
<1>5. c \notin Marks  BY MarkNames
<1> HIDE DEF c, n, r
<1>6. \A x \in Marks : Has(t, x) => Has(r, x)  BY <1>2, <1>3, <1>5, Zenon
<1>7. \A h, x : Guards(h, x) /\ Has(t, h) => Has(r, h) \/ Has(r, x) \/ Done(x, d)
  BY <1>2, <1>3, <1>4, Zenon
<1>8. \A a, b : Follows(a, b) /\ Has(r, a) => Has(t, a) \/ Done(b, d) \/ Has(r, b)
  BY <1>2, <1>3, <1>4, Zenon
<1>9. Advances(t, r, k, d, d)  BY <1>6, <1>7, <1>8, Zenon DEF Advances
<1> QED  BY <1>9 DEF r, n, c

LEMMA ExecuteAdvances ==
  ASSUME NEW t \in Seq(Steps), t # <<>>, Head(t) \notin Checks, NEW k, NEW d, IsDatabase(d),
         Works(Head(t), d), k = "viewer" => Head(t) # "failed_v6"
  PROVE  Advances(t, Tail(t), k, d, Effect(Head(t), d))
<1> DEFINE s == Head(t)
           e == Effect(s, d)
           r == Tail(t)
<1>1. \A x : Has(t, x) <=> x = s \/ Has(r, x)  BY HasFirst
<1>2. /\ e.columns = IF s \in AllColumns THEN d.columns \cup {s} ELSE d.columns
      /\ e.timestamp = IF s = "timestamp_us" THEN TRUE ELSE d.timestamp
      /\ e.failed.layout = IF s = "migrate_failed" THEN "ids"
                           ELSE IF s = "failed_v2" /\ d.failed.layout = "none" THEN "names"
                           ELSE IF s = "failed_v6" /\ d.failed.layout = "none" THEN "ids"
                           ELSE d.failed.layout
  <2>1. Affected(s, d, e)  BY EffectFields, Zenon
  <2> HIDE DEF s, e
  <2> QED  BY <2>1 DEF Affected
<1>3. s = "migrate_failed" => d.failed.layout = "names"  BY ColumnNames DEF Works
<1> HIDE DEF e, s, r
<1>4. \A x \in Marks : Done(x, d) => Done(x, e)
  <2>1. \A x \in AllColumns : Done(x, d) => Done(x, e)  BY <1>2 DEF Done
  <2>2. Done("timestamp_us", d) => Done("timestamp_us", e)  BY <1>2, ColumnNames DEF Done
  <2>3. \A x \in {"failed_v2", "failed_v6"} : Done(x, d) => Done(x, e)
    BY <1>2, ColumnNames DEF Done
  <2> QED  BY <2>1, <2>2, <2>3 DEF Marks
<1>5. s \in Marks => Done(s, e)
  <2>1. s \in AllColumns => Done(s, e)  BY <1>2 DEF Done
  <2>2. s = "timestamp_us" => Done(s, e)  BY <1>2, ColumnNames DEF Done
  <2>3. s \in {"failed_v2", "failed_v6"} => Done(s, e)  BY <1>2, ColumnNames DEF Done
  <2> QED  BY <2>1, <2>2, <2>3 DEF Marks
<1>6. \A c, x : Guards(c, x) => c \in Checks  BY MarkNames
<1>7. ASSUME k = "viewer", NEW a, NEW b, Follows(a, b), Done(a, e)
      PROVE  Done(a, d) \/ a = s
  <2>1. CASE a \in AllColumns  BY <1>2, <1>7, <2>1 DEF Done
  <2>2. CASE a = "failed_v2"
    <3>1. e.failed.layout # "none"  BY <1>7, <2>2, ColumnNames DEF Done
    <3>2. d.failed.layout # "none" \/ s = "failed_v2"  BY <1>2, <1>3, <1>7, <3>1 DEF s
    <3> QED  BY <2>2, <3>2, ColumnNames DEF Done
  <2> QED  BY <1>7, <2>1, <2>2, ColumnNames DEF Follows
<1>8. \A c, x : Guards(c, x) /\ Has(t, c) => Has(r, c)
  BY <1>1, <1>6, Zenon DEF s
<1>9. \A x \in Marks : Has(t, x) => Has(r, x) \/ Done(x, e)
  BY <1>1, <1>5, Zenon
<1>10. k = "viewer" => \A a, b : Follows(a, b) =>
         /\ Done(a, e) => Done(a, d) \/ Has(t, a)
         /\ Has(r, a) => Has(t, a)
  BY <1>1, <1>7, Zenon
<1>11. Advances(t, r, k, d, e)  BY <1>4, <1>8, <1>9, <1>10, Zenon DEF Advances
<1> QED  BY <1>11 DEF r, s, e

LEMMA SkippingAdvances ==
  ASSUME NEW t \in Seq(Steps), NEW k \in Kinds, Early(t, k), Head(t) \notin Checks, NEW d,
         ~Works(Head(t), d)
  PROVE  Advances(t, Rest(t), k, d, d)
<1> DEFINE s == Head(t)
           r == Rest(t)
<1>1. s # "v6?"  BY MarkNames
<1>2. /\ \A x : Has(r, x) => Has(t, x)
      /\ \A x : Has(t, x) => Has(r, x) \/ x = s \/ x \in {"count_files", "count_failed"}
  BY <1>1, EarlyRest
<1>3. s \in Marks => Done(s, d)
  <2>1. s \in AllColumns => Done(s, d)  BY ColumnNames DEF Works, Done
  <2>2. s = "timestamp_us" => Done(s, d)  BY ColumnNames DEF Works, Done
  <2>3. s \notin {"failed_v2", "failed_v6"}  BY ColumnNames DEF Works
  <2> HIDE DEF s
  <2> QED  BY <2>1, <2>2, <2>3 DEF Marks
<1>4. /\ \A x \in Marks : x \notin {"count_files", "count_failed"}
      /\ \A c, x : Guards(c, x) => c \in Checks /\ c \notin {"count_files", "count_failed"}
      /\ \A a, b : Follows(a, b) => a \in Marks
  BY MarkNames
<1>5. s \notin Checks  OBVIOUS
<1> HIDE DEF s, r
<1>6. \A x \in Marks : Has(t, x) => Has(r, x) \/ Done(x, d)  BY <1>2, <1>3, <1>4, Zenon
<1>7. \A c, x : Guards(c, x) /\ Has(t, c) => Has(r, c)  BY <1>2, <1>4, <1>5, Zenon
<1>8. Advances(t, r, k, d, d)  BY <1>2, <1>6, <1>7, Zenon DEF Advances
<1> QED  BY <1>8 DEF r

(* A migration that is planned copies every table that has names, and a    *)
(* stale one a table that has none.                                        *)
Covers(t, d) ==
  /\ d.fa.layout = "names" => Has(t, "migrate_fa")
  /\ d.failed.layout = "names" => Has(t, "migrate_failed")

Stale(t, d) ==
  \/ Has(t, "migrate_fa") /\ d.fa.layout # "names"
  \/ Has(t, "migrate_failed") /\ d.failed.layout # "names"

LEMMA NamesAreSteps ==
  ASSUME NEW k \in Kinds
  PROVE  LastStep(k) \in Steps /\ <<LastStep(k)>> \in Seq(Steps)
<1>1. LastStep(k) \in Steps  BY DEF LastStep, Steps
<1> QED  BY <1>1, Tuples

LEMMA MigrationPlan ==
  ASSUME NEW k \in Kinds, NEW d
  PROVE  LET r == Needed("v6?", d) \o <<LastStep(k)>> IN
         /\ r \in Seq(Steps)
         /\ ~NamesLeft(d) => r = <<LastStep(k)>> /\ Ending(r, k)
         /\ NamesLeft(d) => Beginning(r, k) /\ Covers(r, d) /\ ~Stale(r, d)
<1> DEFINE l == LastStep(k)
           n == Needed("v6?", d)
           r == n \o <<l>>
<1>1. l \in Steps /\ <<l>> \in Seq(Steps)  BY NamesAreSteps
<1>2. n = IF ~NamesLeft(d) THEN <<>>
          ELSE IF d.fa.layout # "names" THEN <<"begin", "migrate_failed", "commit">>
          ELSE IF d.failed.layout # "names" THEN <<"begin", "migrate_fa", "commit">>
          ELSE <<"begin", "migrate_fa", "migrate_failed", "commit">>
  BY MigrationIs, Zenon
<1>3. "begin" \in Steps /\ "migrate_fa" \in Steps /\ "migrate_failed" \in Steps /\ "commit" \in Steps
  BY DEF Steps
<1>4. NamesLeft(d) <=> d.fa.layout = "names" \/ d.failed.layout = "names"  BY DEF NamesLeft
<1>5. l \in {"recount?", "prepare"}  BY DEF LastStep
<1> HIDE DEF n
<1>6. CASE ~NamesLeft(d)
  <2>1. n = <<>>  BY <1>2, <1>6, Zenon
  <2> HIDE DEF l
  <2>2. r = <<l>>  BY <1>1, <2>1, ConcatEmptySeq
  <2>3. Ending(<<l>>, k)  BY DEF Ending, LastStep, l, Kinds
  <2> HIDE DEF r
  <2>4. r \in Seq(Steps) /\ r = <<l>> /\ Ending(r, k)  BY <1>1, <2>2, <2>3, Zenon
  <2> QED  BY <1>6, <2>4, Zenon DEF r, n, l
<1>7. CASE d.fa.layout # "names" /\ NamesLeft(d)
  <2>1. n = <<"begin", "migrate_failed", "commit">>  BY <1>2, <1>7, Zenon
  <2> HIDE DEF l
  <2>2. r = <<"begin", "migrate_failed", "commit", l>>  BY <2>1, JoinedFour, Zenon
  <2>3. <<"begin", "migrate_failed", "commit", l>> \in Seq(Steps)  BY <1>1, <1>3, Tuples, Zenon
  <2>4. \A s : Has(<<"begin", "migrate_failed", "commit", l>>, s)
                 <=> s \in {"begin", "migrate_failed", "commit", l}
    BY ShortPlans, Zenon
  <2> HIDE DEF r
  <2>5. r \in Seq(Steps) /\ Beginning(r, k)  BY <2>2, <2>3 DEF Beginning, l
  <2>6. Has(r, "migrate_failed") /\ ~Has(r, "migrate_fa")  BY <1>5, <2>2, <2>4
  <2>7. Covers(r, d) /\ ~Stale(r, d)  BY <1>4, <1>7, <2>6, Zenon DEF Covers, Stale
  <2> QED  BY <1>7, <2>5, <2>7, Zenon DEF r, n, l
<1>8. CASE d.fa.layout = "names" /\ d.failed.layout # "names"
  <2>1. n = <<"begin", "migrate_fa", "commit">>  BY <1>2, <1>4, <1>8, Zenon
  <2> HIDE DEF l
  <2>2. r = <<"begin", "migrate_fa", "commit", l>>  BY <2>1, JoinedFour, Zenon
  <2>3. <<"begin", "migrate_fa", "commit", l>> \in Seq(Steps)  BY <1>1, <1>3, Tuples, Zenon
  <2>4. \A s : Has(<<"begin", "migrate_fa", "commit", l>>, s)
                 <=> s \in {"begin", "migrate_fa", "commit", l}
    BY ShortPlans, Zenon
  <2> HIDE DEF r
  <2>5. r \in Seq(Steps) /\ Beginning(r, k)  BY <2>2, <2>3 DEF Beginning, l
  <2>6. Has(r, "migrate_fa") /\ ~Has(r, "migrate_failed")  BY <1>5, <2>2, <2>4
  <2>7. Covers(r, d) /\ ~Stale(r, d)  BY <1>8, <2>6, Zenon DEF Covers, Stale
  <2> QED  BY <1>4, <1>8, <2>5, <2>7, Zenon DEF r, n, l
<1>9. CASE d.fa.layout = "names" /\ d.failed.layout = "names"
  <2>1. n = <<"begin", "migrate_fa", "migrate_failed", "commit">>  BY <1>2, <1>4, <1>9, Zenon
  <2> HIDE DEF l
  <2>2. r = <<"begin", "migrate_fa", "migrate_failed", "commit", l>>
    <3>1. \A a, b, c, x, e : <<a, b, c, x>> \o <<e>> = <<a, b, c, x, e>>
      BY JoinedFive, Zenon
    <3> QED  BY <2>1, <3>1, Zenon
  <2>3. <<"begin", "migrate_fa", "migrate_failed", "commit", l>> \in Seq(Steps)
    BY <1>1, <1>3, Tuples, Zenon
  <2>4. \A s : Has(<<"begin", "migrate_fa", "migrate_failed", "commit", l>>, s)
                 <=> s \in {"begin", "migrate_fa", "migrate_failed", "commit", l}
    BY ShortPlans, Zenon
  <2> HIDE DEF r
  <2>5. r \in Seq(Steps) /\ Beginning(r, k)  BY <2>2, <2>3 DEF Beginning, l
  <2>6. Has(r, "migrate_fa") /\ Has(r, "migrate_failed")  BY <2>2, <2>4
  <2>7. Covers(r, d) /\ ~Stale(r, d)  BY <1>9, <2>6, Zenon DEF Covers, Stale
  <2> QED  BY <1>4, <1>9, <2>5, <2>7, Zenon DEF r, n, l
<1> QED  BY <1>4, <1>6, <1>7, <1>8, <1>9

Recounted(d) == OnlyIf(CountsAreZero(d), populate_counts)

LEMMA CheckedPlan ==
  ASSUME NEW t \in Seq(Steps), NEW k \in Kinds, Stage(t, k), t # <<>>, Head(t) \in Checks, NEW d
  PROVE  LET r == Needed(Head(t), d) \o Tail(t) IN
         /\ Needed(Head(t), d) \in Seq(Steps) /\ r \in Seq(Steps)
         /\ \/ Early(t, k) /\ Head(t) # "v6?" /\ Early(r, k)
            \/ Early(t, k) /\ Head(t) = "v6?" /\ Ending(r, k) /\ ~NamesLeft(d)
            \/ /\ Early(t, k) /\ Head(t) = "v6?" /\ Beginning(r, k)
               /\ Covers(r, d) /\ ~Stale(r, d)
            \/ t = <<"recount?">> /\ k = "viewer" /\ Ending(r, k) /\ r = Recounted(d)
<1> DEFINE h == Head(t)
           n == Needed(h, d)
           r == n \o Tail(t)
<1>1. h \in {"v2?", "v3?", "v4?", "v5?", "v6?", "recount?"}  BY MarkNames
<1>2. Tail(t) \in Seq(Steps)  BY HeadTailProperties
<1>3. ~Beginning(t, k) /\ ~Copying(t, k)
  BY <1>1, BeginningGoesOn, CopyingGoesOn
<1>4. CASE Early(t, k) /\ h # "v6?"
  <2>1. h \in EarlySteps(k)  BY <1>4, EarlyShape
  <2>2. h # "recount?"  BY <2>1, EarlyStepsAre
  <2>3. h \in {"v2?", "v3?", "v4?", "v5?"}  BY <1>1, <1>4, <2>2
  <2>4. k = "viewer"
    <3>1. EarlySteps("tracer") = {"failed_v6"}  BY DEF EarlySteps
    <3> QED  BY <2>1, <2>3, <3>1 DEF Kinds
  <2>5. n \in Seq(Steps) /\ Whole(n, k)  BY <2>3, <2>4, NeededEarly
  <2>6. Early(Tail(t), k)  BY <1>4, EarlyTail
  <2> HIDE DEF n, h
  <2>7. Early(r, k) /\ r \in Seq(Steps)  BY <1>2, <2>5, <2>6, EarlyGrows, ConcatProperties
  <2> HIDE DEF r
  <2> QED  BY <1>4, <2>5, <2>7, Zenon DEF r, n, h
<1>5. CASE Early(t, k) /\ h = "v6?"
  <2>1. Tail(t) = <<LastStep(k)>>
    <3>1. "v6?" \notin EarlySteps(k)  BY EarlyStepsAre
    <3> QED  BY <1>5, <3>1, EarlyShape
  <2>2. /\ r \in Seq(Steps)
        /\ ~NamesLeft(d) => Ending(r, k)
        /\ NamesLeft(d) => Beginning(r, k) /\ Covers(r, d) /\ ~Stale(r, d)
    BY <1>5, <2>1, MigrationPlan
  <2>3. n \in Seq(Steps)
    <3>1. n \in {<<>>, <<"begin", "migrate_failed", "commit">>, <<"begin", "migrate_fa", "commit">>,
                 <<"begin", "migrate_fa", "migrate_failed", "commit">>}
      BY <1>5, MigrationIs
    <3>2. "begin" \in Steps /\ "migrate_fa" \in Steps /\ "migrate_failed" \in Steps
          /\ "commit" \in Steps
      BY DEF Steps
    <3>3. /\ <<"begin", "migrate_failed", "commit">> \in Seq(Steps)
          /\ <<"begin", "migrate_fa", "commit">> \in Seq(Steps)
          /\ <<"begin", "migrate_fa", "migrate_failed", "commit">> \in Seq(Steps)
      BY <3>2, Tuples, Zenon
    <3>4. <<>> \in Seq(Steps)  OBVIOUS
    <3> HIDE DEF n
    <3> QED  BY <3>1, <3>3, <3>4, Zenon
  <2> HIDE DEF r, n, h
  <2> QED  BY <1>5, <2>2, <2>3, Zenon DEF r, n, h
<1>6. CASE Ending(t, k)
  <2>1. h = "recount?" /\ k = "viewer" /\ t = <<"recount?">> /\ Tail(t) = <<>>
    BY <1>1, <1>6, EndingGoesOn DEF Kinds
  <2>2. n = Recounted(d)  BY <2>1, NeededIs, Zenon DEF Recounted
  <2>3. n \in {<<>>, <<"reset", "count_files", "count_failed">>}
    BY <2>2, Zenon DEF Recounted, OnlyIf, populate_counts
  <2>4. n \in Seq(Steps)
    <3>1. "reset" \in Steps /\ "count_files" \in Steps /\ "count_failed" \in Steps  BY DEF Steps
    <3>2. <<"reset", "count_files", "count_failed">> \in Seq(Steps)  BY <3>1, Tuples, Zenon
    <3>3. <<>> \in Seq(Steps)  OBVIOUS
    <3> HIDE DEF n
    <3> QED  BY <2>3, <3>2, <3>3, Zenon
  <2> HIDE DEF n, h
  <2>5. r = n  BY <2>1, <2>4, ConcatEmptySeq
  <2>6. Ending(n, k)  BY <2>1, <2>3, Zenon DEF Ending
  <2> HIDE DEF r
  <2> QED  BY <2>1, <2>2, <2>4, <2>5, <2>6, Zenon DEF r, n, h
<1> QED  BY <1>3, <1>4, <1>5, <1>6 DEF Stage

LEMMA ExecutedPlan ==
  ASSUME NEW t \in Seq(Steps), NEW k \in Kinds, Stage(t, k), t # <<>>, Head(t) \notin Checks,
         Head(t) # "begin", ~Copying(t, k)
  PROVE  /\ Tail(t) \in Seq(Steps) /\ Rest(t) \in Seq(Steps)
         /\ \/ /\ Early(t, k) /\ Head(t) \in EarlySteps(k) /\ Early(Tail(t), k)
               /\ Early(Rest(t), k)
            \/ Ending(t, k) /\ Ending(Tail(t), k) /\ Ending(Rest(t), k)
<1>1. Tail(t) \in Seq(Steps)  BY HeadTailProperties
<1>2. ~Beginning(t, k)  BY BeginningGoesOn
<1>3. CASE Early(t, k)
  <2>1. Head(t) # "v6?"  BY MarkNames
  <2>2. Head(t) \in EarlySteps(k)  BY <1>3, <2>1, EarlyShape
  <2>3. Early(Tail(t), k)  BY <1>3, <2>1, EarlyTail
  <2>4. Early(Rest(t), k) /\ Rest(t) \in Seq(Steps)  BY <1>3, <2>1, EarlyRest
  <2> QED  BY <1>1, <1>3, <2>2, <2>3, <2>4
<1>4. CASE Ending(t, k)
  <2>1. Ending(Tail(t), k) /\ Ending(Rest(t), k)  BY <1>4, EndingGoesOn
  <2>2. Rest(t) \in Seq(Steps)
    <3>1. "reset" \in Steps /\ "count_files" \in Steps /\ "count_failed" \in Steps
          /\ "recount?" \in Steps /\ "prepare" \in Steps
      BY DEF Steps
    <3>2. /\ <<"recount?">> \in Seq(Steps) /\ <<"prepare">> \in Seq(Steps)
          /\ <<"reset", "count_files", "count_failed">> \in Seq(Steps)
          /\ <<"count_files", "count_failed">> \in Seq(Steps) /\ <<"count_failed">> \in Seq(Steps)
      BY <3>1, Tuples
    <3>3. <<>> \in Seq(Steps)  OBVIOUS
    <3>4. Rest(t) \in {<<"recount?">>, <<"reset", "count_files", "count_failed">>,
                       <<"count_files", "count_failed">>, <<"count_failed">>, <<"prepare">>, <<>>}
      BY <2>1 DEF Ending
    <3> QED  BY <3>2, <3>3, <3>4
  <2> QED  BY <1>1, <1>4, <2>1, <2>2
<1> QED  BY <1>2, <1>3, <1>4 DEF Stage

-----------------------------------------------------------------------------
(* Every program follows its plan, and the one in a migration has the lock. *)

Statuses == {"off", "running", "ok", "failed"}

PlanInv ==
  /\ todo \in [Programs -> Seq(Steps)] /\ kind \in [Programs -> Kinds]
  /\ status \in [Programs -> Statuses] /\ hit \in [Programs -> BOOLEAN] /\ harmed \in BOOLEAN
  /\ lock \in Programs \cup {NoOne}
  /\ \A u \in Programs : /\ Running(u) <=> todo[u] # <<>>
                         /\ Stage(todo[u], kind[u])
                         /\ Copying(todo[u], kind[u]) <=> lock = u

Layouts(d) ==
  /\ d.columns \subseteq AllColumns /\ d.timestamp \in BOOLEAN
  /\ d.fa.layout \in {"names", "ids"} /\ d.failed.layout \in {"none", "names", "ids"}
  /\ d.file_count \in {"zero", "right"}

(* What a migration has written differs in the two tables only.            *)
DataInv ==
  /\ Layouts(db) /\ Layouts(work)
  /\ lock # NoOne =>
       /\ work.columns = db.columns /\ work.timestamp = db.timestamp
       /\ work.file_count = db.file_count
       /\ work.failed.layout = "none" <=> db.failed.layout = "none"

Follow == PlanInv /\ DataInv

LEMMA PlanChange ==
  ASSUME PlanInv, NEW u \in Programs, NEW r \in Seq(Steps), todo' = [todo EXCEPT ![u] = r],
         kind' \in [Programs -> Kinds], \A v \in Programs \ {u} : kind'[v] = kind[v],
         Stage(r, kind'[u]),
         NEW x \in Statuses, status' = [status EXCEPT ![u] = x], x = "running" <=> r # <<>>,
         lock' \in Programs \cup {NoOne}, Copying(r, kind'[u]) <=> lock' = u,
         \A v \in Programs \ {u} : lock' = v <=> lock = v,
         hit' \in [Programs -> BOOLEAN], harmed' \in BOOLEAN
  PROVE  PlanInv' /\ todo'[u] = r /\ \A v \in Programs \ {u} : todo'[v] = todo[v]
<1>1. todo'[u] = r /\ \A v \in Programs \ {u} : todo'[v] = todo[v]  BY DEF PlanInv
<1>2. status'[u] = x /\ \A v \in Programs \ {u} : status'[v] = status[v]  BY DEF PlanInv
<1>3. todo' \in [Programs -> Seq(Steps)] /\ status' \in [Programs -> Statuses]  BY DEF PlanInv
<1>4. ASSUME NEW v \in Programs
      PROVE  /\ Running(v)' <=> todo'[v] # <<>>
             /\ Stage(todo'[v], kind'[v])
             /\ Copying(todo'[v], kind'[v]) <=> lock' = v
  <2>1. CASE v = u  BY <1>1, <1>2, <2>1 DEF Running
  <2>2. CASE v # u  BY <1>1, <1>2, <2>2 DEF Running, PlanInv
  <2> QED  BY <2>1, <2>2
<1> QED  BY <1>1, <1>3, <1>4, Zenon DEF PlanInv

LEMMA ContinueOrEnd ==
  ASSUME NEW u, NEW r, Continue(u, r)
  PROVE  /\ todo' = [todo EXCEPT ![u] = r]
         /\ \E x \in Statuses : /\ status' = [status EXCEPT ![u] = x]
                                /\ x = "running" <=> r # <<>>
                                /\ x = IF r = <<>> THEN "ok" ELSE "running"
<1> DEFINE x == IF r = <<>> THEN "ok" ELSE "running"
<1>1. x \in Statuses /\ (x = "running" <=> r # <<>>)  BY DEF Statuses
<1>2. status' = [status EXCEPT ![u] = x] /\ todo' = [todo EXCEPT ![u] = r]  BY DEF Continue
<1> QED  BY <1>1, <1>2

LEMMA GivingUp ==
  ASSUME NEW u, GiveUp(u)
  PROVE  /\ todo' = [todo EXCEPT ![u] = <<>>]
         /\ \E x \in Statuses : /\ status' = [status EXCEPT ![u] = x]
                                /\ x = "running" <=> <<>> # <<>>
BY DEF GiveUp, Statuses

(* The end of a plan is an end for viewers and for tracers.                *)
LEMMA NothingLeft ==
  ASSUME NEW k
  PROVE  Ending(<<>>, k) /\ Stage(<<>>, k) /\ ~Copying(<<>>, k) /\ <<>> \in Seq(Steps)
<1>1. Ending(<<>>, k)  BY DEF Ending
<1>2. ~Copying(<<>>, k)  BY CopyingGoesOn
<1> QED  BY <1>1, <1>2 DEF Stage

OwnStep(u) == Check(u) \/ Execute(u) \/ Begin(u) \/ Migrate(u) \/ Commit(u)

(* What the steps of u leave alone.                                        *)
Apart(u) ==
  /\ \A v \in Programs \ {u} : todo'[v] = todo[v] /\ status'[v] = status[v]
  /\ kind' = kind /\ hit' = hit /\ harmed' = harmed

LEMMA Continues ==
  ASSUME PlanInv, NEW u \in Programs, NEW r \in Seq(Steps), Continue(u, r),
         kind' = kind, hit' = hit, harmed' = harmed, Stage(r, kind[u]),
         lock' \in Programs \cup {NoOne}, Copying(r, kind[u]) <=> lock' = u,
         \A v \in Programs \ {u} : lock' = v <=> lock = v
  PROVE  /\ PlanInv' /\ todo'[u] = r /\ Apart(u)
         /\ status'[u] = IF r = <<>> THEN "ok" ELSE "running"
<1>1. /\ kind' \in [Programs -> Kinds] /\ hit' \in [Programs -> BOOLEAN] /\ harmed' \in BOOLEAN
      /\ \A v \in Programs \ {u} : kind'[v] = kind[v]
      /\ Stage(r, kind'[u]) /\ (Copying(r, kind'[u]) <=> lock' = u)
  BY DEF PlanInv
<1>2. todo' = [todo EXCEPT ![u] = r]  BY ContinueOrEnd
<1>3. PICK x \in Statuses : /\ status' = [status EXCEPT ![u] = x]
                            /\ x = "running" <=> r # <<>>
                            /\ x = IF r = <<>> THEN "ok" ELSE "running"
  BY ContinueOrEnd
<1>4. PlanInv' /\ todo'[u] = r /\ \A v \in Programs \ {u} : todo'[v] = todo[v]
  BY <1>1, <1>2, <1>3, PlanChange
<1>5. status'[u] = x /\ \A v \in Programs \ {u} : status'[v] = status[v]
  BY <1>3 DEF PlanInv
<1> QED  BY <1>3, <1>4, <1>5, Zenon DEF Apart

LEMMA Quits ==
  ASSUME PlanInv, NEW u \in Programs, GiveUp(u), kind' = kind, hit' = hit, harmed' = harmed,
         lock' \in Programs \cup {NoOne}, lock' # u,
         \A v \in Programs \ {u} : lock' = v <=> lock = v
  PROVE  PlanInv' /\ todo'[u] = <<>> /\ Apart(u) /\ status'[u] = "failed"
<1>1. /\ kind' \in [Programs -> Kinds] /\ hit' \in [Programs -> BOOLEAN] /\ harmed' \in BOOLEAN
      /\ \A v \in Programs \ {u} : kind'[v] = kind[v]
  BY DEF PlanInv
<1>2. todo' = [todo EXCEPT ![u] = <<>>] /\ status' = [status EXCEPT ![u] = "failed"]
  BY DEF GiveUp
<1>3. "failed" \in Statuses /\ ("failed" = "running" <=> <<>> # <<>>)  BY DEF Statuses
<1>4. <<>> \in Seq(Steps) /\ Stage(<<>>, kind'[u]) /\ (Copying(<<>>, kind'[u]) <=> lock' = u)
  BY NothingLeft
<1>5. PlanInv' /\ todo'[u] = <<>> /\ \A v \in Programs \ {u} : todo'[v] = todo[v]
  BY <1>1, <1>2, <1>3, <1>4, PlanChange
<1>6. status'[u] = "failed" /\ \A v \in Programs \ {u} : status'[v] = status[v]
  BY <1>2 DEF PlanInv
<1> QED  BY <1>5, <1>6, Zenon DEF Apart

LEMMA PlanOf ==
  ASSUME PlanInv, NEW u \in Programs
  PROVE  /\ todo[u] \in Seq(Steps) /\ kind[u] \in Kinds /\ Stage(todo[u], kind[u])
         /\ Running(u) <=> todo[u] # <<>>
         /\ Copying(todo[u], kind[u]) <=> lock = u
         /\ u # NoOne
BY UpgradeAssumption DEF PlanInv

LEMMA CheckSteps ==
  ASSUME PlanInv, NEW u \in Programs, Check(u)
  PROVE  /\ PlanInv' /\ Apart(u)
         /\ todo'[u] = Needed(Head(todo[u]), db) \o Tail(todo[u])
         /\ Advances(todo[u], todo'[u], kind[u], db, db')
         /\ status'[u] = IF todo'[u] = <<>> THEN "ok" ELSE "running"
<1> DEFINE t == todo[u]
           k == kind[u]
           r == Needed(Head(t), db) \o Tail(t)
<1>1. /\ Running(u) /\ Head(t) \in Checks /\ Continue(u, r)
      /\ kind' = kind /\ hit' = hit /\ harmed' = harmed /\ lock' = lock /\ db' = db
  BY DEF Check
<1>2. t \in Seq(Steps) /\ t # <<>> /\ k \in Kinds /\ Stage(t, k) /\ (Copying(t, k) <=> lock = u)
  BY <1>1, PlanOf
<1>3. /\ Needed(Head(t), db) \in Seq(Steps) /\ r \in Seq(Steps)
      /\ Early(r, k) \/ Beginning(r, k) \/ Ending(r, k)
  BY <1>1, <1>2, CheckedPlan
<1>4. ~Copying(t, k)
  <2>1. Head(t) \notin {"migrate_fa", "migrate_failed", "commit"}  BY <1>1, MarkNames
  <2> QED  BY <2>1, CopyingGoesOn
<1>5. ~Copying(r, k) /\ Stage(r, k)
  <2> HIDE DEF r, k
  <2> QED  BY <1>2, <1>3, StagesDiffer DEF Stage
<1>6. lock' \in Programs \cup {NoOne} /\ (Copying(r, k) <=> lock' = u)
  BY <1>1, <1>2, <1>4, <1>5 DEF PlanInv
<1>7. Advances(t, r, k, db, db)  BY <1>1, <1>2, <1>3, CheckAdvances
<1> HIDE DEF r
<1>8. /\ PlanInv' /\ todo'[u] = r /\ Apart(u)
      /\ status'[u] = IF r = <<>> THEN "ok" ELSE "running"
  BY <1>1, <1>3, <1>5, <1>6, Continues
<1> QED  BY <1>1, <1>7, <1>8 DEF r

LEMMA LastIsEnding ==
  ASSUME NEW k \in Kinds
  PROVE  Ending(<<LastStep(k)>>, k)
BY DEF Ending, LastStep, Kinds

LEMMA SameMarks ==
  ASSUME NEW d, NEW e, e.columns = d.columns, e.timestamp = d.timestamp,
         e.failed.layout = "none" <=> d.failed.layout = "none"
  PROVE  \A x \in Marks : Done(x, d) <=> Done(x, e)
BY DEF Done

LEMMA BeginSteps ==
  ASSUME PlanInv, NEW u \in Programs, Begin(u)
  PROVE  /\ PlanInv' /\ Apart(u) /\ Beginning(todo[u], kind[u]) /\ Copying(todo'[u], kind[u])
         /\ todo'[u] = Tail(todo[u]) /\ todo'[u] # <<>>
         /\ Advances(todo[u], todo'[u], kind[u], db, db')
         /\ status'[u] = "running"
<1> DEFINE t == todo[u]
           k == kind[u]
           r == Tail(t)
<1>1. /\ Running(u) /\ Head(t) = "begin" /\ Continue(u, r) /\ lock = NoOne /\ lock' = u
      /\ kind' = kind /\ hit' = hit /\ harmed' = harmed /\ db' = db
  BY DEF Begin, AtStatement
<1>2. t \in Seq(Steps) /\ t # <<>> /\ k \in Kinds /\ Stage(t, k)
  BY <1>1, PlanOf
<1>3. Beginning(t, k)
  <2>1. ~Early(t, k)
    <3>1. "begin" \notin EarlySteps(k)  BY <1>2, EarlyStepsAre
    <3> QED  BY <1>1, <1>2, <3>1, EarlyShape
  <2>2. ~Copying(t, k)  BY <1>1, CopyingGoesOn
  <2>3. ~Ending(t, k)  BY <1>1, <1>2, EndingGoesOn DEF Kinds
  <2> QED  BY <1>2, <2>1, <2>2, <2>3 DEF Stage
<1>4. Copying(r, k) /\ r \in Seq(Steps)  BY <1>2, <1>3, BeginningGoesOn, HeadTailProperties
<1>5. r # <<>>  BY <1>4, CopyingGoesOn
<1>6. Advances(t, r, k, db, db)
  <2>1. Late(t)  BY <1>3, LateStages
  <2>2. Late(r)  BY <1>4, LateStages
  <2> HIDE DEF t, r, k
  <2> QED  BY <2>1, <2>2, LateAdvances
<1> HIDE DEF r
<1>7. /\ PlanInv' /\ todo'[u] = r /\ Apart(u)
      /\ status'[u] = IF r = <<>> THEN "ok" ELSE "running"
  <2>1. Stage(r, kind[u])  BY <1>4 DEF Stage
  <2>2. \A v \in Programs \ {u} : lock' = v <=> lock = v  BY <1>1, UpgradeAssumption
  <2>3. lock' \in Programs \cup {NoOne} /\ (Copying(r, kind[u]) <=> lock' = u)
    BY <1>1, <1>4
  <2> QED  BY <1>1, <1>4, <2>1, <2>2, <2>3, Continues
<1> QED  BY <1>1, <1>3, <1>4, <1>5, <1>6, <1>7 DEF r

LEMMA CommitSteps ==
  ASSUME PlanInv, DataInv, NEW u \in Programs, Commit(u)
  PROVE  /\ PlanInv' /\ Apart(u) /\ Copying(todo[u], kind[u])
         /\ todo[u] = <<"commit", LastStep(kind[u])>>
         /\ todo'[u] = <<LastStep(kind[u])>> /\ Ending(todo'[u], kind[u]) /\ todo'[u] # <<>>
         /\ Advances(todo[u], todo'[u], kind[u], db, db')
         /\ status'[u] = "running"
<1> DEFINE t == todo[u]
           k == kind[u]
           r == Tail(t)
<1>1. /\ Running(u) /\ Head(t) = "commit" /\ Continue(u, r) /\ lock = u /\ lock' = NoOne
      /\ kind' = kind /\ hit' = hit /\ harmed' = harmed /\ db' = work
  BY DEF Commit, AtStatement, InMigration
<1>2. t \in Seq(Steps) /\ t # <<>> /\ k \in Kinds /\ Copying(t, k) /\ u # NoOne
  BY <1>1, PlanOf
<1>3. t = <<"commit", LastStep(k)>> /\ r = <<LastStep(k)>>  BY <1>1, <1>2, CopyingGoesOn
<1>4. Ending(r, k) /\ r \in Seq(Steps) /\ r # <<>>
  BY <1>2, <1>3, LastIsEnding, NamesAreSteps
<1>5. Advances(t, r, k, db, work)
  <2>1. Late(t)  BY <1>2, LateStages
  <2>2. Late(r)  BY <1>4, LateStages
  <2>3. \A x \in Marks : Done(x, db) <=> Done(x, work)
    BY <1>1, <1>2, SameMarks DEF DataInv
  <2> HIDE DEF t, r, k
  <2> QED  BY <2>1, <2>2, <2>3, LateAdvances
<1>6. ~Copying(r, k) /\ Stage(r, k)
  BY <1>2, <1>4, StagesDiffer DEF Stage
<1> HIDE DEF r
<1>7. /\ PlanInv' /\ todo'[u] = r /\ Apart(u)
      /\ status'[u] = IF r = <<>> THEN "ok" ELSE "running"
  <2>1. \A v \in Programs \ {u} : lock' = v <=> lock = v  BY <1>1, UpgradeAssumption
  <2>2. lock' \in Programs \cup {NoOne} /\ (Copying(r, kind[u]) <=> lock' = u)
    BY <1>1, <1>2, <1>6
  <2> QED  BY <1>1, <1>4, <1>6, <2>1, <2>2, Continues
<1> QED  BY <1>1, <1>2, <1>3, <1>4, <1>5, <1>7

LEMMA MigrateSteps ==
  ASSUME PlanInv, DataInv, NEW u \in Programs, Migrate(u)
  PROVE  /\ PlanInv' /\ Apart(u) /\ Copying(todo[u], kind[u])
         /\ Head(todo[u]) \in {"migrate_fa", "migrate_failed"}
         /\ Advances(todo[u], todo'[u], kind[u], db, db')
         /\ \/ /\ Works(Head(todo[u]), work) /\ lock' = u
               /\ Copying(todo'[u], kind[u]) /\ todo'[u] = Tail(todo[u]) /\ todo'[u] # <<>>
               /\ status'[u] = "running"
            \/ /\ ~Works(Head(todo[u]), work) /\ lock' = NoOne
               /\ todo'[u] = <<>> /\ status'[u] = "failed"
<1> DEFINE t == todo[u]
           k == kind[u]
           r == Tail(t)
<1>1. /\ Running(u) /\ Head(t) # "commit" /\ lock = u
      /\ kind' = kind /\ hit' = hit /\ harmed' = harmed /\ db' = db
  BY DEF Migrate, AtStatement, InMigration
<1>2. t \in Seq(Steps) /\ t # <<>> /\ k \in Kinds /\ Copying(t, k) /\ u # NoOne
  BY <1>1, PlanOf
<1>3. Head(t) \in {"migrate_fa", "migrate_failed"} /\ Copying(r, k)
  BY <1>1, <1>2, CopyingGoesOn
<1>4. r \in Seq(Steps) /\ r # <<>>  BY <1>2, <1>3, CopyingGoesOn, HeadTailProperties
<1>5. ASSUME NEW x, Late(x)  PROVE Advances(t, x, k, db, db)
  <2>1. Late(t)  BY <1>2, LateStages
  <2> HIDE DEF t, k
  <2> QED  BY <1>5, <2>1, LateAdvances
<1>6. CASE Works(Head(t), work)
  <2>1. Continue(u, r) /\ lock' = lock  BY <1>6 DEF Migrate
  <2>2. Advances(t, r, k, db, db)
    <3>1. Late(r)  BY <1>3, LateStages
    <3> QED  BY <1>5, <3>1
  <2> HIDE DEF r
  <2>3. /\ PlanInv' /\ todo'[u] = r /\ Apart(u)
        /\ status'[u] = IF r = <<>> THEN "ok" ELSE "running"
    <3>1. Stage(r, kind[u])  BY <1>3 DEF Stage
    <3>2. lock' \in Programs \cup {NoOne} /\ (Copying(r, kind[u]) <=> lock' = u)
      BY <1>1, <1>3, <2>1
    <3> QED  BY <1>1, <1>4, <2>1, <3>1, <3>2, Continues
  <2> QED  BY <1>1, <1>2, <1>3, <1>4, <1>6, <2>1, <2>2, <2>3 DEF r
<1>7. CASE ~Works(Head(t), work)
  <2>1. GiveUp(u) /\ lock' = NoOne  BY <1>7 DEF Migrate
  <2>2. PlanInv' /\ todo'[u] = <<>> /\ Apart(u) /\ status'[u] = "failed"
    <3>1. \A v \in Programs \ {u} : lock' = v <=> lock = v  BY <1>1, <2>1, UpgradeAssumption
    <3> QED  BY <1>1, <1>2, <2>1, <3>1, Quits
  <2>3. Advances(t, <<>>, k, db, db)
    <3>1. Late(<<>>)  BY NothingLeft, LateStages
    <3> QED  BY <1>5, <3>1
  <2> QED  BY <1>1, <1>2, <1>3, <1>7, <2>1, <2>2, <2>3
<1> QED  BY <1>6, <1>7

Sooner(t, r, k) == (Early(t, k) /\ Early(r, k)) \/ (Ending(t, k) /\ Ending(r, k))

LEMMA ExecuteSteps ==
  ASSUME PlanInv, IsDatabase(db), NEW u \in Programs, Execute(u)
  PROVE  /\ PlanInv' /\ Apart(u) /\ lock = NoOne /\ lock' = NoOne
         /\ Head(todo[u]) \notin Checks \cup {"migrate_fa", "migrate_failed", "commit"}
         /\ Advances(todo[u], todo'[u], kind[u], db, db')
         /\ kind[u] = "viewer" => Head(todo[u]) # "failed_v6"
         /\ kind[u] = "tracer" => Head(todo[u]) \in {"failed_v6", "prepare"}
         /\ Sooner(todo[u], todo'[u], kind[u])
         /\ \/ /\ Works(Head(todo[u]), db) /\ db' = Effect(Head(todo[u]), db)
               /\ todo'[u] = Tail(todo[u])
               /\ status'[u] = IF todo'[u] = <<>> THEN "ok" ELSE "running"
            \/ /\ ~Works(Head(todo[u]), db) /\ db' = db /\ todo'[u] = Rest(todo[u])
               /\ status'[u] = IF todo'[u] = <<>> THEN "ok" ELSE "running"
            \/ ~Works(Head(todo[u]), db) /\ db' = db /\ kind[u] = "tracer"
<1> DEFINE t == todo[u]
           k == kind[u]
           h == Head(t)
<1>1. /\ Running(u) /\ h \notin Checks /\ h # "begin" /\ lock = NoOne /\ lock' = NoOne
      /\ kind' = kind /\ hit' = hit /\ harmed' = harmed
  BY DEF Execute, AtStatement, InMigration
<1>2. t \in Seq(Steps) /\ t # <<>> /\ k \in Kinds /\ Stage(t, k) /\ ~Copying(t, k) /\ u # NoOne
  BY <1>1, PlanOf
<1>3. /\ Tail(t) \in Seq(Steps) /\ Rest(t) \in Seq(Steps)
      /\ \/ /\ Early(t, k) /\ h \in EarlySteps(k) /\ Early(Tail(t), k) /\ Early(Rest(t), k)
         \/ Ending(t, k) /\ Ending(Tail(t), k) /\ Ending(Rest(t), k)
  BY <1>1, <1>2, ExecutedPlan
<1>4. /\ Ending(t, k) /\ k = "viewer" => h \in {"recount?", "reset", "count_files", "count_failed"}
      /\ Ending(t, k) /\ k = "tracer" => h = "prepare"
  BY <1>2, EndingGoesOn
<1>5. /\ EarlySteps("tracer") = {"failed_v6"}
      /\ EarlySteps("viewer") = {"v2?", "v3?", "v4?", "v5?", "timestamp_us", "failed_v2", "reset",
           "count_files", "count_failed"} \cup AllColumns
  BY DEF EarlySteps
<1>6. /\ k = "viewer" => h \notin {"failed_v6", "prepare", "migrate_fa", "migrate_failed", "commit"}
      /\ k = "tracer" => h \in {"failed_v6", "prepare"}
  <2> HIDE DEF t, k, h
  <2> QED  BY <1>3, <1>4, <1>5, ColumnNames
<1>7. h \notin {"migrate_fa", "migrate_failed", "commit"}  BY <1>2, <1>6 DEF Kinds
<1>8. /\ Sooner(t, Tail(t), k) /\ Sooner(t, Rest(t), k)
      /\ Stage(Tail(t), k) /\ Stage(Rest(t), k)
  BY <1>3 DEF Sooner, Stage
<1>9. \A r \in {Tail(t), Rest(t)} : ~Copying(r, k)
  <2>1. \A r \in Seq(Steps) : Early(r, k) \/ Ending(r, k) => ~Copying(r, k)
    BY <1>2, StagesDiffer
  <2> QED  BY <1>3, <2>1
<1>10. ASSUME NEW r \in Seq(Steps), Continue(u, r), Stage(r, k), ~Copying(r, k)
       PROVE  /\ PlanInv' /\ todo'[u] = r /\ Apart(u)
              /\ status'[u] = IF r = <<>> THEN "ok" ELSE "running"
  <2>1. lock' \in Programs \cup {NoOne} /\ (Copying(r, kind[u]) <=> lock' = u)
    BY <1>1, <1>2, <1>10
  <2> QED  BY <1>1, <1>10, <2>1, Continues
<1>11. CASE Works(h, db)
  <2>1. db' = Effect(h, db) /\ Continue(u, Tail(t))  BY <1>11 DEF Execute
  <2>2. Advances(t, Tail(t), k, db, Effect(h, db))
    BY <1>1, <1>2, <1>6, <1>11, ExecuteAdvances
  <2>3. /\ PlanInv' /\ todo'[u] = Tail(t) /\ Apart(u)
        /\ status'[u] = IF Tail(t) = <<>> THEN "ok" ELSE "running"
    BY <1>3, <1>8, <1>9, <1>10, <2>1
  <2> QED  BY <1>1, <1>6, <1>7, <1>8, <1>11, <2>1, <2>2, <2>3
<1>12. CASE ~Works(h, db)
  <2>1. db' = db /\ Fail(u)  BY <1>12 DEF Execute
  <2>2. h # "failed_v6"  BY <1>12, ColumnNames DEF Works
  <2>3. CASE h = "prepare"
    <3>1. GiveUp(u)  BY <2>1, <2>3 DEF Fail
    <3>2. PlanInv' /\ todo'[u] = <<>> /\ Apart(u) /\ status'[u] = "failed"
      BY <1>1, <1>2, <3>1, Quits
    <3>3. k = "tracer"  BY <1>2, <1>6, <2>3 DEF Kinds
    <3>4. Ending(t, k)
      <4>1. h \notin EarlySteps(k)  BY <1>5, <2>3, <3>3
      <4> QED  BY <1>3, <4>1
    <3>5. Ending(<<>>, k)  BY NothingLeft
    <3>6. Late(t)  BY <3>4, LateStages
    <3>7. Late(<<>>)  BY <3>5, LateStages
    <3>8. Advances(t, <<>>, k, db, db)  BY <3>6, <3>7, LateAdvances
    <3> QED  BY <1>1, <1>6, <1>7, <1>12, <2>1, <3>2, <3>3, <3>4, <3>5, <3>8 DEF Sooner
  <2>4. CASE h # "prepare"
    <3>1. h \notin {"begin", "migrate_fa", "migrate_failed", "commit", "prepare", "failed_v6"}
      BY <1>1, <1>7, <2>2, <2>4
    <3>2. Continue(u, Rest(t))  BY <2>1, <3>1 DEF Fail, Rest
    <3>3. /\ PlanInv' /\ todo'[u] = Rest(t) /\ Apart(u)
          /\ status'[u] = IF Rest(t) = <<>> THEN "ok" ELSE "running"
      BY <1>3, <1>8, <1>9, <1>10, <3>2
    <3>4. Advances(t, Rest(t), k, db, db)
      <4>1. CASE Early(t, k)  BY <1>1, <1>2, <1>12, <4>1, SkippingAdvances
      <4>2. CASE Ending(t, k) /\ Ending(Rest(t), k)
        <5>1. Late(t)  BY <4>2, LateStages
        <5>2. Late(Rest(t))  BY <4>2, LateStages
        <5> HIDE DEF t, k
        <5> QED  BY <5>1, <5>2, LateAdvances
      <4> QED  BY <1>3, <4>1, <4>2
    <3> QED  BY <1>1, <1>6, <1>7, <1>8, <1>12, <2>1, <3>3, <3>4
  <2> QED  BY <2>3, <2>4
<1> QED  BY <1>11, <1>12

(* Both plans are begun before the migration.                              *)
LEMMA PlansBegin ==
  /\ upgrade_schema \in Seq(Steps) /\ Early(upgrade_schema, "viewer") /\ upgrade_schema # <<>>
  /\ init_schema \in Seq(Steps) /\ Early(init_schema, "tracer") /\ init_schema # <<>>
<1>1. /\ Len(upgrade_schema) = 6 /\ upgrade_schema[1] = "v2?" /\ upgrade_schema[2] = "v3?"
      /\ upgrade_schema[3] = "v4?" /\ upgrade_schema[4] = "v5?" /\ upgrade_schema[5] = "v6?"
      /\ upgrade_schema[6] = "recount?"
  BY DEF upgrade_schema
<1>2. \A i : i \in 1..4 <=> i = 1 \/ i = 2 \/ i = 3 \/ i = 4  OBVIOUS
<1>3. Early(upgrade_schema, "viewer")
  <2>1. \A i \in 1..4 : upgrade_schema[i] \in {"v2?", "v3?", "v4?", "v5?"}  BY <1>1, <1>2
  <2> HIDE DEF upgrade_schema
  <2>2. {"v2?", "v3?", "v4?", "v5?"} \subseteq EarlySteps("viewer")  BY DEF EarlySteps
  <2>3. Chained(upgrade_schema, 4)  BY <2>1 DEF Chained
  <2>4. LastStep("viewer") = "recount?"  BY DEF LastStep
  <2>5. 6 >= 2 /\ 6 - 1 = 5 /\ 6 - 2 = 4  OBVIOUS
  <2> QED  BY <1>1, <2>1, <2>2, <2>3, <2>4, <2>5 DEF Early
<1>4. /\ Len(init_schema) = 3 /\ init_schema[1] = "failed_v6" /\ init_schema[2] = "v6?"
      /\ init_schema[3] = "prepare"
  BY DEF init_schema
<1>5. Early(init_schema, "tracer")
  <2>1. \A i : i \in 1..1 <=> i = 1  OBVIOUS
  <2> HIDE DEF init_schema
  <2>2. EarlySteps("tracer") = {"failed_v6"}  BY DEF EarlySteps
  <2>3. Chained(init_schema, 1)  BY <1>4, <2>1 DEF Chained
  <2>4. LastStep("tracer") = "prepare"  BY DEF LastStep
  <2>5. 3 >= 2 /\ 3 - 1 = 2 /\ 3 - 2 = 1  OBVIOUS
  <2> QED  BY <1>4, <2>1, <2>2, <2>3, <2>4, <2>5 DEF Early
<1>6. init_schema \in Seq(Steps)
  <2>1. "failed_v6" \in Steps /\ "v6?" \in Steps /\ "prepare" \in Steps  BY DEF Steps
  <2> QED  BY <2>1, Tuples DEF init_schema
<1>7. upgrade_schema \in Seq(Steps)
  <2>1. /\ "v2?" \in Steps /\ "v3?" \in Steps /\ "v4?" \in Steps /\ "v5?" \in Steps
        /\ "v6?" \in Steps /\ "recount?" \in Steps
    BY DEF Steps
  <2>2. upgrade_schema \in [1..6 -> Steps]
    <3> HIDE DEF Steps
    <3> QED  BY <2>1 DEF upgrade_schema
  <2> QED  BY <2>2, SeqDef
<1>8. upgrade_schema # <<>> /\ init_schema # <<>>  BY <1>1, <1>4
<1> QED  BY <1>3, <1>5, <1>6, <1>7, <1>8

LEMMA StartSteps ==
  ASSUME PlanInv, NEW u \in Programs, Start(u)
  PROVE  /\ PlanInv' /\ todo[u] = <<>> /\ lock # u
         /\ \A v \in Programs \ {u} :
              todo'[v] = todo[v] /\ status'[v] = status[v] /\ kind'[v] = kind[v] /\ hit'[v] = hit[v]
         /\ hit'[u] = \E v \in Programs : Running(v) /\ hit[v]
         /\ \/ kind'[u] = "viewer" /\ todo'[u] = upgrade_schema /\ harmed' = harmed
            \/ kind'[u] = "tracer" /\ todo'[u] = init_schema /\ harmed'
<1> DEFINE met == \E v \in Programs : Running(v) /\ hit[v]
<1>1. PICK k \in {"viewer", "tracer"} :
        /\ kind' = [kind EXCEPT ![u] = k]
        /\ todo' = [todo EXCEPT ![u] = IF k = "viewer" THEN upgrade_schema ELSE init_schema]
        /\ harmed' = (harmed \/ k = "tracer")
  BY DEF Start
<1>2. /\ ~Running(u) /\ status' = [status EXCEPT ![u] = "running"] /\ lock' = lock
      /\ hit' = [hit EXCEPT ![u] = met]
  BY DEF Start
<1> DEFINE r == IF k = "viewer" THEN upgrade_schema ELSE init_schema
<1>3. r \in Seq(Steps) /\ Early(r, k) /\ r # <<>>
  BY PlansBegin
<1>4. todo[u] = <<>> /\ lock # u
  <2>1. todo[u] = <<>>  BY <1>2, PlanOf
  <2> QED  BY <2>1, PlanOf, NothingLeft
<1>5. kind' \in [Programs -> Kinds] /\ kind'[u] = k /\ \A v \in Programs \ {u} : kind'[v] = kind[v]
  BY <1>1 DEF PlanInv, Kinds
<1>6. met \in BOOLEAN  OBVIOUS
<1> HIDE DEF met
<1>7. hit' \in [Programs -> BOOLEAN] /\ hit'[u] = met /\ \A v \in Programs \ {u} : hit'[v] = hit[v]
  BY <1>2, <1>6 DEF PlanInv
<1>8. harmed' \in BOOLEAN  BY <1>1, Zenon DEF PlanInv
<1>9. Stage(r, k) /\ ~Copying(r, k)
  BY <1>3, StagesDiffer DEF Stage, Kinds
<1>10. PlanInv' /\ todo'[u] = r /\ \A v \in Programs \ {u} : todo'[v] = todo[v]
  <2> DEFINE x == "running"
  <2>1. x \in Statuses /\ (x = "running" <=> r # <<>>) /\ status' = [status EXCEPT ![u] = x]
    BY <1>2, <1>3 DEF Statuses
  <2>2. todo' = [todo EXCEPT ![u] = r]  BY <1>1
  <2>3. lock' \in Programs \cup {NoOne} /\ \A v \in Programs \ {u} : lock' = v <=> lock = v
    BY <1>2 DEF PlanInv
  <2>4. Stage(r, kind'[u]) /\ (Copying(r, kind'[u]) <=> lock' = u)
    BY <1>2, <1>4, <1>5, <1>9
  <2> HIDE DEF r, x
  <2> QED  BY <1>3, <1>5, <1>7, <1>8, <2>1, <2>2, <2>3, <2>4, PlanChange
<1>11. \A v \in Programs \ {u} : status'[v] = status[v]  BY <1>2 DEF PlanInv
<1>12. \/ k = "viewer" /\ r = upgrade_schema /\ harmed' = harmed
       \/ k = "tracer" /\ r = init_schema /\ harmed'
  <2>1. CASE k = "viewer"
    <3>1. harmed' <=> harmed  BY <1>1, <2>1
    <3>2. harmed' = harmed  BY <1>8, <3>1 DEF PlanInv
    <3> QED  BY <2>1, <3>2
  <2>2. CASE k = "tracer"  BY <1>1, <2>2
  <2> QED  BY <2>1, <2>2
<1> HIDE DEF r
<1> QED  BY <1>4, <1>5, <1>7, <1>10, <1>11, <1>12, Zenon DEF met

LEMMA MishapSteps ==
  ASSUME PlanInv, NEW u \in Programs, StatementFails(u) \/ Crash(u)
  PROVE  /\ PlanInv' /\ harmed' /\ db' = db /\ work' = work /\ lock' \in {lock, NoOne}
         /\ \A v \in Programs : Running(v)' => hit'[v]
<1> DEFINE t == todo[u]
           k == kind[u]
<1>1. /\ Running(u) /\ Release(u) /\ Mishap
  BY DEF StatementFails, Crash, AtStatement
<1>2. /\ kind' = kind /\ db' = db /\ work' = work /\ harmed' = TRUE
      /\ hit' = [v \in Programs |-> hit[v] \/ Running(v)]
  BY <1>1 DEF Mishap
<1>3. /\ hit' \in [Programs -> BOOLEAN] /\ \A v \in Programs : hit'[v] = (hit[v] \/ Running(v))
  <2>1. \A v \in Programs : (hit[v] \/ Running(v)) \in BOOLEAN  OBVIOUS
  <2> QED  BY <1>2, <2>1
<1>4. t \in Seq(Steps) /\ t # <<>> /\ k \in Kinds /\ Stage(t, k) /\ (Copying(t, k) <=> lock = u)
      /\ u # NoOne
  BY <1>1, PlanOf
<1>5. /\ lock' \in Programs \cup {NoOne} /\ lock' \in {lock, NoOne} /\ lock' # u
      /\ \A v \in Programs \ {u} : lock' = v <=> lock = v
  BY <1>1, <1>4, UpgradeAssumption DEF Release, PlanInv
<1>6. kind' \in [Programs -> Kinds] /\ \A v \in Programs \ {u} : kind'[v] = kind[v]
  BY <1>2 DEF PlanInv
<1>7. ASSUME NEW r \in Seq(Steps), todo' = [todo EXCEPT ![u] = r], Stage(r, k), ~Copying(r, k),
             NEW x \in Statuses, status' = [status EXCEPT ![u] = x], x = "running" <=> r # <<>>
      PROVE  PlanInv' /\ \A v \in Programs : Running(v)' => Running(v)
  <2>1. Stage(r, kind'[u]) /\ (Copying(r, kind'[u]) <=> lock' = u)
    BY <1>2, <1>5, <1>7
  <2>2. harmed' \in BOOLEAN  BY <1>2
  <2>3. PlanInv'  BY <1>3, <1>5, <1>6, <1>7, <2>1, <2>2, PlanChange
  <2>4. \A v \in Programs \ {u} : status'[v] = status[v]  BY <1>7 DEF PlanInv
  <2> QED  BY <1>1, <2>3, <2>4 DEF Running
<1>8. PlanInv' /\ \A v \in Programs : Running(v)' => Running(v)
  <2>1. CASE Crash(u)
    <3>1. "off" \in Statuses /\ ("off" = "running" <=> <<>> # <<>>)  BY DEF Statuses
    <3>2. todo' = [todo EXCEPT ![u] = <<>>] /\ status' = [status EXCEPT ![u] = "off"]
      BY <2>1 DEF Crash
    <3>3. <<>> \in Seq(Steps) /\ Stage(<<>>, k) /\ ~Copying(<<>>, k)  BY NothingLeft
    <3> QED  BY <1>7, <3>1, <3>2, <3>3
  <2>2. CASE StatementFails(u)
    <3>1. Head(t) \notin Checks /\ Fail(u)  BY <2>2 DEF StatementFails, AtStatement
    <3>2. CASE GiveUp(u)
      <4>1. todo' = [todo EXCEPT ![u] = <<>>]  BY <3>2, GivingUp
      <4>2. PICK x \in Statuses : /\ status' = [status EXCEPT ![u] = x]
                                  /\ x = "running" <=> <<>> # <<>>
        BY <3>2, GivingUp
      <4>3. <<>> \in Seq(Steps) /\ Stage(<<>>, k) /\ ~Copying(<<>>, k)  BY NothingLeft
      <4> QED  BY <1>7, <4>1, <4>2, <4>3
    <3>3. CASE ~GiveUp(u)
      <4>1. /\ Head(t) \notin {"begin", "migrate_fa", "migrate_failed", "commit"}
            /\ Continue(u, Rest(t))
        BY <3>1, <3>3 DEF Fail, Rest
      <4>2. ~Copying(t, k)  BY <4>1, CopyingGoesOn
      <4>3. Rest(t) \in Seq(Steps) /\ (Early(Rest(t), k) \/ Ending(Rest(t), k))
        BY <1>4, <3>1, <4>1, <4>2, ExecutedPlan
      <4>4. todo' = [todo EXCEPT ![u] = Rest(t)]  BY <4>1, ContinueOrEnd
      <4>5. PICK x \in Statuses : /\ status' = [status EXCEPT ![u] = x]
                                  /\ x = "running" <=> Rest(t) # <<>>
        BY <4>1, ContinueOrEnd
      <4>6. Stage(Rest(t), k) /\ ~Copying(Rest(t), k)
        BY <1>4, <4>3, StagesDiffer DEF Stage
      <4> QED  BY <1>7, <4>3, <4>4, <4>5, <4>6
    <3> QED  BY <3>2, <3>3
  <2> QED  BY <2>1, <2>2
<1>9. \A v \in Programs : Running(v) => hit'[v]  BY <1>3
<1> QED  BY <1>2, <1>5, <1>8, <1>9

LEMMA EffectLayouts ==
  ASSUME NEW d, IsDatabase(d), Layouts(d), NEW s, Works(s, d)
  PROVE  Layouts(Effect(s, d))
<1> DEFINE e == Effect(s, d)
<1>1. Affected(s, d, e)  BY EffectFields
<1> HIDE DEF e
<1>2. e.columns \subseteq AllColumns  BY <1>1 DEF Affected, Layouts
<1>3. e.timestamp \in BOOLEAN  BY <1>1 DEF Affected, Layouts
<1>4. e.fa.layout \in {"names", "ids"}  BY <1>1 DEF Affected, Layouts
<1>5. e.failed.layout \in {"none", "names", "ids"}  BY <1>1 DEF Affected, Layouts
<1>6. e.file_count \in {"zero", "right"}  BY <1>1 DEF Affected, Layouts
<1>7. Layouts(e)  BY <1>2, <1>3, <1>4, <1>5, <1>6 DEF Layouts
<1> QED  BY <1>7 DEF e

(* The statements of the migration write the two tables only.              *)
LEMMA MigrationLayouts ==
  ASSUME NEW d, IsDatabase(d), NEW s \in {"migrate_fa", "migrate_failed"}, Works(s, d)
  PROVE  LET e == Effect(s, d) IN
         /\ e.columns = d.columns /\ e.timestamp = d.timestamp /\ e.file_count = d.file_count
         /\ e.failed.layout = "none" <=> d.failed.layout = "none"
         /\ e.fa.layout = IF s = "migrate_fa" THEN "ids" ELSE d.fa.layout
         /\ e.failed.layout = IF s = "migrate_failed" THEN "ids" ELSE d.failed.layout
<1> DEFINE e == Effect(s, d)
<1>1. Affected(s, d, e)  BY EffectFields
<1>2. s \notin AllColumns  BY ColumnNames
<1>3. s = "migrate_failed" => d.failed.layout = "names"  BY ColumnNames DEF Works
<1> HIDE DEF e
<1>4. /\ e.columns = d.columns /\ e.timestamp = d.timestamp /\ e.file_count = d.file_count
      /\ e.fa.layout = IF s = "migrate_fa" THEN "ids" ELSE d.fa.layout
      /\ e.failed.layout = IF s = "migrate_failed" THEN "ids" ELSE d.failed.layout
  BY <1>1, <1>2 DEF Affected
<1>5. e.failed.layout = "none" <=> d.failed.layout = "none"  BY <1>3, <1>4
<1>6. /\ e.columns = d.columns /\ e.timestamp = d.timestamp /\ e.file_count = d.file_count
      /\ e.failed.layout = "none" <=> d.failed.layout = "none"
      /\ e.fa.layout = IF s = "migrate_fa" THEN "ids" ELSE d.fa.layout
      /\ e.failed.layout = IF s = "migrate_failed" THEN "ids" ELSE d.failed.layout
  BY <1>4, <1>5
<1> QED  BY <1>6 DEF e

LEMMA FollowKept ==
  ASSUME UpgradeInv, Follow, [Next]_vars
  PROVE  Follow'
<1> USE DEF Follow
<1>1. IsDatabase(db) /\ IsDatabase(work)  BY DEF UpgradeInv, Sound
<1>2. ASSUME db' = db, work' = work, lock' \in {lock, NoOne}
      PROVE  DataInv'
  BY <1>2 DEF DataInv, Layouts
<1>3. ASSUME NEW u \in Programs, Start(u)  PROVE Follow'
  <2>1. PlanInv'  BY <1>3, StartSteps
  <2> QED  BY <1>2, <1>3, <2>1 DEF Start
<1>4. ASSUME NEW u \in Programs, Check(u)  PROVE Follow'
  <2>1. PlanInv'  BY <1>4, CheckSteps
  <2> QED  BY <1>2, <1>4, <2>1 DEF Check
<1>5. ASSUME NEW u \in Programs, StatementFails(u) \/ Crash(u)  PROVE Follow'
  <2>1. PlanInv' /\ db' = db /\ work' = work /\ lock' \in {lock, NoOne}  BY <1>5, MishapSteps
  <2> QED  BY <1>2, <2>1
<1>6. ASSUME NEW u \in Programs, Execute(u)  PROVE Follow'
  <2>1. /\ PlanInv' /\ lock' = NoOne
        /\ db' = db \/ (Works(Head(todo[u]), db) /\ db' = Effect(Head(todo[u]), db))
    BY <1>1, <1>6, ExecuteSteps
  <2>2. Layouts(db)' /\ work' = work
    BY <1>1, <1>6, <2>1, EffectLayouts DEF Execute, DataInv, Layouts
  <2>3. Layouts(work)'  BY <2>2 DEF DataInv, Layouts
  <2> QED  BY <2>1, <2>2, <2>3 DEF DataInv
<1>7. ASSUME NEW u \in Programs, Begin(u)  PROVE Follow'
  <2>1. PlanInv' /\ db' = db /\ work' = db  BY <1>7, BeginSteps DEF Begin
  <2>2. Layouts(db)' /\ Layouts(work)'  BY <2>1 DEF DataInv, Layouts
  <2> QED  BY <2>1, <2>2 DEF DataInv
<1>8. ASSUME NEW u \in Programs, Migrate(u)  PROVE Follow'
  <2> DEFINE s == Head(todo[u])
  <2>1. /\ PlanInv' /\ s \in {"migrate_fa", "migrate_failed"} /\ db' = db
        /\ lock = u /\ u # NoOne
    BY <1>8, MigrateSteps, PlanOf DEF Migrate, InMigration
  <2>2. CASE Works(s, work)
    <3>1. work' = Effect(s, work)  BY <1>8, <2>2 DEF Migrate
    <3>2. Layouts(work)'  BY <1>1, <2>2, <3>1, EffectLayouts DEF DataInv, Layouts
    <3>3. Layouts(db)'  BY <2>1 DEF DataInv, Layouts
    <3>4. /\ work'.columns = work.columns /\ work'.timestamp = work.timestamp
          /\ work'.file_count = work.file_count
          /\ work'.failed.layout = "none" <=> work.failed.layout = "none"
      BY <1>1, <2>1, <2>2, <3>1, MigrationLayouts
    <3> QED  BY <2>1, <3>2, <3>3, <3>4 DEF DataInv
  <2>3. CASE ~Works(s, work)
    <3>1. work' = work /\ lock' = NoOne  BY <1>8, <2>3 DEF Migrate
    <3> QED  BY <1>2, <2>1, <3>1
  <2> QED  BY <2>2, <2>3
<1>9. ASSUME NEW u \in Programs, Commit(u)  PROVE Follow'
  <2>1. PlanInv' /\ db' = work /\ work' = work /\ lock' = NoOne
    BY <1>9, CommitSteps DEF Commit
  <2>2. Layouts(db)' /\ Layouts(work)'  BY <2>1 DEF DataInv, Layouts
  <2> QED  BY <2>1, <2>2 DEF DataInv
<1>10. CASE UNCHANGED vars
  <2>1. PlanInv'  BY <1>10 DEF vars, PlanInv, Running
  <2> QED  BY <1>2, <1>10, <2>1 DEF vars
<1> QED  BY <1>3, <1>4, <1>5, <1>6, <1>7, <1>8, <1>9, <1>10 DEF Next

LEMMA FollowFirst ==
  Init => Follow
<1> SUFFICES ASSUME Init  PROVE Follow
  OBVIOUS
<1>1. PICK n \in 1..6, counts \in {"zero", "right"} : db = Written(n, counts)
  BY DEF Init
<1>2. db.columns \subseteq AllColumns /\ db.timestamp \in BOOLEAN /\ db.file_count \in {"zero", "right"}
  <2>1. /\ db.columns = (IF n >= 3 THEN ToSet(v3_columns) ELSE {})
                          \cup (IF n >= 4 THEN {"cwd"} ELSE {})
                          \cup (IF n >= 5 THEN {"file_count", "fail_count"} ELSE {})
        /\ db.timestamp = (n >= 2)
        /\ db.file_count = IF n >= 5 THEN counts ELSE "zero"
    BY <1>1 DEF Written
  <2> QED  BY <2>1 DEF AllColumns
<1>3. db.fa.layout \in {"names", "ids"} /\ db.failed.layout \in {"none", "names", "ids"}
  <2> DEFINE L == IF n >= 6 THEN "ids" ELSE "names"
  <2>1. db.fa = Table(L, Accesses) /\ db.failed = IF n = 1 THEN NoTable ELSE Table(L, Failures)
    BY <1>1 DEF Written
  <2> QED  BY <2>1, TableShape DEF NoTable
<1>4. DataInv
  BY <1>2, <1>3 DEF Init, DataInv, Layouts
<1>5. ASSUME NEW u \in Programs
      PROVE  /\ Running(u) <=> todo[u] # <<>>
             /\ Stage(todo[u], kind[u])
             /\ Copying(todo[u], kind[u]) <=> lock = u
  <2>1. todo[u] = <<>> /\ status[u] = "off" /\ lock = NoOne /\ u # NoOne
    BY UpgradeAssumption DEF Init
  <2> QED  BY <2>1, NothingLeft DEF Running
<1>6. /\ todo \in [Programs -> Seq(Steps)] /\ kind \in [Programs -> Kinds]
      /\ status \in [Programs -> Statuses] /\ hit \in [Programs -> BOOLEAN] /\ harmed \in BOOLEAN
      /\ lock \in Programs \cup {NoOne}
  BY NothingLeft DEF Init, Kinds, Statuses
<1>7. PlanInv  BY <1>5, <1>6, Zenon DEF PlanInv
<1> QED  BY <1>4, <1>7 DEF Follow

-----------------------------------------------------------------------------
(* What a program that no mishap has met can still rely on.                *)

(* Programs that run have met the same mishaps.                            *)
Alike == \A u, v \in Programs : Running(u) /\ Running(v) => (hit[u] <=> hit[v])

Columns(t, k, d) ==
  /\ k = "viewer" => \A c, x : Guards(c, x) => Done(x, d) \/ Has(t, c) \/ Has(t, x)
  /\ k = "tracer" => Done("failed_v6", d) \/ Has(t, "failed_v6")

Names(t, k, d, w) ==
  /\ Beginning(t, k) => Covers(t, d) /\ (Stale(t, d) => ~NamesLeft(d))
  /\ Copying(t, k) => Covers(t, w) /\ (Stale(t, w) => ~NamesLeft(d))
  /\ Ending(t, k) => ~NamesLeft(d)

CountsKnown ==
  \/ db.file_count = "right"
  \/ \E w \in Programs : todo[w] # <<>> /\ Head(todo[w]) = "count_files"

Recounts(t) == t \in {<<"recount?">>, <<"reset", "count_files", "count_failed">>}

Counts(t, k) == k = "viewer" /\ Ending(t, k) => CountsKnown \/ Recounts(t)

CleanInv ==
  /\ Alike
  /\ \A u \in Programs : todo[u] # <<>> /\ ~hit[u] =>
       /\ Columns(todo[u], kind[u], db) /\ Names(todo[u], kind[u], db, work)
       /\ Counts(todo[u], kind[u])

(* What is added after a mark is there, or a program still adds it.        *)
UnharmedInv ==
  ~harmed =>
    /\ \A u \in Programs : kind[u] = "viewer"
    /\ \A u \in Programs : \A a, b :
         Follows(a, b) /\ Has(todo[u], a) => Done(b, db) \/ Has(todo[u], b)
    /\ \A a, b : Follows(a, b) /\ Done(a, db) =>
         Done(b, db) \/ \E w \in Programs : Has(todo[w], b)

LEMMA OwnAdvances ==
  ASSUME UpgradeInv, Follow, NEW u \in Programs, OwnStep(u)
  PROVE  /\ Apart(u) /\ Advances(todo[u], todo'[u], kind[u], db, db')
         /\ todo[u] # <<>> /\ Running(u)
<1>1. PlanInv /\ DataInv /\ IsDatabase(db)  BY DEF UpgradeInv, Sound, Follow
<1>2. Running(u)
  BY DEF OwnStep, Check, Execute, Begin, Migrate, Commit, AtStatement
<1>3. Apart(u) /\ Advances(todo[u], todo'[u], kind[u], db, db')
  BY <1>1, CheckSteps, ExecuteSteps, BeginSteps, MigrateSteps, CommitSteps DEF OwnStep
<1> QED  BY <1>1, <1>2, <1>3, PlanOf

LEMMA ColumnsGoOn ==
  ASSUME NEW t, NEW r, NEW k, NEW d, NEW e, Advances(t, r, k, d, e), Columns(t, k, d)
  PROVE  Columns(r, k, e)
<1>1. "failed_v6" \in Marks /\ \A c, x : Guards(c, x) => x \in Marks  BY MarkNames
<1>2. /\ \A x \in Marks : Done(x, d) => Done(x, e)
      /\ \A x \in Marks : Has(t, x) => Has(r, x) \/ Done(x, e)
      /\ \A c, x : Guards(c, x) /\ Has(t, c) => Has(r, c) \/ Has(r, x) \/ Done(x, e)
  BY Zenon DEF Advances
<1>3. k = "viewer" => \A c, x : Guards(c, x) => Done(x, e) \/ Has(r, c) \/ Has(r, x)
  BY <1>1, <1>2, Zenon DEF Columns
<1>4. k = "tracer" => Done("failed_v6", e) \/ Has(r, "failed_v6")
  BY <1>1, <1>2, Zenon DEF Columns
<1> QED  BY <1>3, <1>4, Zenon DEF Columns

(* The marks of others are not taken away.                                 *)
LEMMA ColumnsStay ==
  ASSUME NEW t, NEW k, NEW d, NEW e, Columns(t, k, d), \A x \in Marks : Done(x, d) => Done(x, e)
  PROVE  Columns(t, k, e)
<1>1. "failed_v6" \in Marks /\ \A c, x : Guards(c, x) => x \in Marks  BY MarkNames
<1> QED  BY <1>1, Zenon DEF Columns

(* Nobody is left to make the failures table once it has come to names.    *)
LEMMA LateColumns ==
  ASSUME NEW t, NEW k \in Kinds, NEW d, Columns(t, k, d), Late(t)
  PROVE  d.failed.layout # "none"
<1>1. "failed_v6" \in Marks /\ "failed_v2" \in Marks /\ Guards("v2?", "failed_v2")
  BY MarkNames DEF Guards
<1>2. ~Has(t, "v2?") /\ ~Has(t, "failed_v2") /\ ~Has(t, "failed_v6")
  BY <1>1 DEF Late
<1>3. Done("failed_v2", d) \/ Done("failed_v6", d)
  BY <1>1, <1>2 DEF Columns, Kinds
<1> QED  BY <1>3, ColumnNames DEF Done

(* Each table is copied once, fa before failed.                            *)
LEMMA CopiedOnce ==
  ASSUME NEW t, NEW k \in Kinds, Copying(t, k)
  PROVE  /\ ~Has(Tail(t), Head(t)) \/ Head(t) = "commit"
         /\ Head(t) = "migrate_failed" => ~Has(Tail(t), "migrate_fa")
         /\ \A s : Has(t, s) <=> s = Head(t) \/ Has(Tail(t), s)
<1> DEFINE l == LastStep(k)
<1>1. l \notin {"migrate_fa", "migrate_failed", "commit"}  BY DEF LastStep
<1>2. t \in {<<"migrate_fa", "migrate_failed", "commit", l>>, <<"migrate_fa", "commit", l>>,
             <<"migrate_failed", "commit", l>>, <<"commit", l>>}
  BY DEF Copying
<1> HIDE DEF l
<1>3. CASE t = <<"migrate_fa", "migrate_failed", "commit", l>>
  <2>1. Head(t) = "migrate_fa" /\ Tail(t) = <<"migrate_failed", "commit", l>>
    BY <1>3
  <2>2. \A s : Has(t, s) <=> s \in {"migrate_fa", "migrate_failed", "commit", l}
    BY <1>3, ShortPlans
  <2>3. \A s : Has(<<"migrate_failed", "commit", l>>, s) <=> s \in {"migrate_failed", "commit", l}
    BY ShortPlans
  <2> QED  BY <1>1, <2>1, <2>2, <2>3
<1>4. CASE t = <<"migrate_fa", "commit", l>>
  <2>1. Head(t) = "migrate_fa" /\ Tail(t) = <<"commit", l>>
    BY <1>4
  <2>2. \A s : Has(t, s) <=> s \in {"migrate_fa", "commit", l}
    BY <1>4, ShortPlans
  <2>3. \A s : Has(<<"commit", l>>, s) <=> s \in {"commit", l}
    BY ShortPlans
  <2> QED  BY <1>1, <2>1, <2>2, <2>3
<1>5. CASE t = <<"migrate_failed", "commit", l>>
  <2>1. Head(t) = "migrate_failed" /\ Tail(t) = <<"commit", l>>
    BY <1>5
  <2>2. \A s : Has(t, s) <=> s \in {"migrate_failed", "commit", l}
    BY <1>5, ShortPlans
  <2>3. \A s : Has(<<"commit", l>>, s) <=> s \in {"commit", l}
    BY ShortPlans
  <2> QED  BY <1>1, <2>1, <2>2, <2>3
<1>6. CASE t = <<"commit", l>>
  <2>1. Head(t) = "commit" /\ Tail(t) = <<l>>
    BY <1>6
  <2>2. \A s : Has(t, s) <=> s \in {"commit", l}
    BY <1>6, ShortPlans
  <2>3. \A s : Has(<<l>>, s) <=> s \in {l}
    BY ShortPlans
  <2> QED  BY <1>1, <2>1, <2>2, <2>3
<1> QED  BY <1>2, <1>3, <1>4, <1>5, <1>6

(* What begins to copy has what it planned to copy still to do.            *)
LEMMA BegunAsPlanned ==
  ASSUME NEW t \in Seq(Steps), NEW k \in Kinds, Beginning(t, k), NEW d
  PROVE  (Covers(t, d) <=> Covers(Tail(t), d)) /\ (Stale(t, d) <=> Stale(Tail(t), d))
<1>1. t # <<>> /\ Head(t) = "begin"  BY BeginningGoesOn
<1>2. \A s \in {"migrate_fa", "migrate_failed"} : Has(t, s) <=> Has(Tail(t), s)
  BY <1>1, HasFirst
<1> QED  BY <1>2 DEF Covers, Stale

(* Copying a table leaves the others to copy.                              *)
LEMMA CopiedAsPlanned ==
  ASSUME NEW t, NEW k \in Kinds, Copying(t, k), NEW d, NEW e,
         Head(t) \in {"migrate_fa", "migrate_failed"},
         e.fa.layout = IF Head(t) = "migrate_fa" THEN "ids" ELSE d.fa.layout,
         e.failed.layout = IF Head(t) = "migrate_failed" THEN "ids" ELSE d.failed.layout
  PROVE  (Covers(t, d) => Covers(Tail(t), e)) /\ (Stale(Tail(t), e) => Stale(t, d))
<1>1. /\ ~Has(Tail(t), Head(t))
      /\ Head(t) = "migrate_failed" => ~Has(Tail(t), "migrate_fa")
      /\ Has(t, "migrate_fa") <=> "migrate_fa" = Head(t) \/ Has(Tail(t), "migrate_fa")
      /\ Has(t, "migrate_failed") <=> "migrate_failed" = Head(t) \/ Has(Tail(t), "migrate_failed")
  BY CopiedOnce
<1>2. CASE Head(t) = "migrate_fa"
  <2>1. e.fa.layout = "ids" /\ e.failed.layout = d.failed.layout  BY <1>2
  <2> QED  BY <1>1, <1>2, <2>1 DEF Covers, Stale
<1>3. CASE Head(t) = "migrate_failed"
  <2>1. e.fa.layout = d.fa.layout /\ e.failed.layout = "ids"  BY <1>3
  <2> QED  BY <1>1, <1>3, <2>1 DEF Covers, Stale
<1> QED  BY <1>2, <1>3

(* A check or a statement that is not of the migration.                    *)
LEMMA NamesChecked ==
  ASSUME PlanInv, NEW u \in Programs, Check(u), Names(todo[u], kind[u], db, work)
  PROVE  Names(todo'[u], kind[u], db', work')
<1> DEFINE t == todo[u]
           k == kind[u]
           r == Needed(Head(t), db) \o Tail(t)
<1>1. /\ t \in Seq(Steps) /\ t # <<>> /\ k \in Kinds /\ Stage(t, k) /\ Head(t) \in Checks
  BY PlanOf DEF Check
<1>2. todo'[u] = r /\ db' = db  BY CheckSteps DEF Check
<1>3. /\ r \in Seq(Steps)
      /\ \/ Early(r, k)
         \/ Ending(r, k) /\ ~NamesLeft(db)
         \/ Beginning(r, k) /\ Covers(r, db) /\ ~Stale(r, db)
         \/ t = <<"recount?">> /\ k = "viewer" /\ Ending(r, k)
  BY <1>1, CheckedPlan
<1>4. t = <<"recount?">> /\ k = "viewer" => ~NamesLeft(db)
  BY DEF Names, Ending
<1> HIDE DEF r, t, k
<1>5. Names(r, k, db, work')  BY <1>1, <1>3, <1>4, StagesDiffer DEF Names
<1> QED  BY <1>2, <1>5 DEF k

(* What the end of a plan executes leaves the tables as they are.          *)
LEMMA LayoutsExecuted ==
  ASSUME UpgradeInv, Follow, NEW u \in Programs, Execute(u), db.failed.layout # "none"
  PROVE  db'.fa.layout = db.fa.layout /\ db'.failed.layout = db.failed.layout
<1> DEFINE s == Head(todo[u])
<1>1. IsDatabase(db) /\ PlanInv  BY DEF UpgradeInv, Sound, Follow
<1>2. /\ s \notin {"migrate_fa", "migrate_failed"}
      /\ db' = db \/ db' = Effect(s, db)
  BY <1>1, ExecuteSteps
<1>3. CASE db' = Effect(s, db)
  <2>1. Affected(s, db, Effect(s, db))  BY <1>1, EffectFields, Zenon
  <2>2. Affected(s, db, db')  BY <1>3, <2>1
  <2> HIDE DEF s
  <2>3. /\ db'.fa.layout = IF s = "migrate_fa" THEN "ids" ELSE db.fa.layout
        /\ db'.failed.layout = IF s = "migrate_failed" THEN "ids"
                       ELSE IF s = "failed_v2" /\ db.failed.layout = "none" THEN "names"
                       ELSE IF s = "failed_v6" /\ db.failed.layout = "none" THEN "ids"
                       ELSE db.failed.layout
    BY <2>2 DEF Affected
  <2> QED  BY <1>2, <2>3
<1> QED  BY <1>2, <1>3

LEMMA NamesExecuted ==
  ASSUME UpgradeInv, Follow, NEW u \in Programs, Execute(u), Columns(todo[u], kind[u], db),
         Names(todo[u], kind[u], db, work)
  PROVE  Names(todo'[u], kind[u], db', work')
<1> DEFINE t == todo[u]
           k == kind[u]
           r == todo'[u]
<1>1. PlanInv /\ IsDatabase(db)  BY DEF UpgradeInv, Sound, Follow
<1>2. /\ PlanInv' /\ kind'[u] = k /\ Sooner(t, r, k)
  BY <1>1, ExecuteSteps DEF Apart
<1>3. t \in Seq(Steps) /\ k \in Kinds  BY <1>1, PlanOf
<1>4. r \in Seq(Steps)  BY <1>2 DEF PlanInv
<1>5. CASE Early(r, k)
  <2> HIDE DEF r, k
  <2>1. Names(r, k, db', work')  BY <1>3, <1>4, <1>5, StagesDiffer DEF Names
  <2> QED  BY <2>1 DEF r, k
<1>6. CASE Ending(t, k) /\ Ending(r, k)
  <2>1. Late(t)  BY <1>6, LateStages
  <2>2. db.failed.layout # "none"  BY <1>3, <2>1, LateColumns
  <2>3. ~NamesLeft(db)  BY <1>6 DEF Names
  <2>4. ~NamesLeft(db')  BY <2>2, <2>3, LayoutsExecuted DEF NamesLeft
  <2> HIDE DEF r, k
  <2>5. Names(r, k, db', work')  BY <1>3, <1>4, <1>6, <2>4, StagesDiffer DEF Names
  <2> QED  BY <2>5 DEF r, k
<1> QED  BY <1>2, <1>5, <1>6 DEF Sooner

LEMMA NamesBegun ==
  ASSUME PlanInv, NEW u \in Programs, Begin(u), Names(todo[u], kind[u], db, work)
  PROVE  Names(todo'[u], kind[u], db', work')
<1> DEFINE t == todo[u]
           k == kind[u]
           r == Tail(t)
<1>1. /\ Beginning(t, k) /\ Copying(r, k) /\ todo'[u] = r /\ db' = db /\ work' = db /\ PlanInv'
  BY BeginSteps DEF Begin
<1>2. t \in Seq(Steps) /\ k \in Kinds /\ r \in Seq(Steps)
  <2>1. t \in Seq(Steps) /\ k \in Kinds  BY PlanOf
  <2>2. todo'[u] \in Seq(Steps)  BY <1>1 DEF PlanInv
  <2> QED  BY <1>1, <2>1, <2>2
<1>3. Covers(t, db) /\ (Stale(t, db) => ~NamesLeft(db))  BY <1>1 DEF Names
<1>4. Covers(r, db) /\ (Stale(r, db) => ~NamesLeft(db))
  BY <1>1, <1>2, <1>3, BegunAsPlanned
<1> HIDE DEF r, k
<1>5. Names(r, k, db, db)  BY <1>1, <1>2, <1>4, StagesDiffer DEF Names
<1> QED  BY <1>1, <1>5 DEF k

(* A migration that gives up had a table to copy that another has copied,  *)
(* or no timestamp column to copy from.                                    *)
LEMMA NamesMigrated ==
  ASSUME UpgradeInv, Follow, NEW u \in Programs, Migrate(u), Names(todo[u], kind[u], db, work)
  PROVE  \/ Names(todo'[u], kind[u], db', work')
         \/ todo'[u] = <<>> /\ status'[u] = "failed" /\ db' = db /\ ~db.timestamp
<1> DEFINE t == todo[u]
           k == kind[u]
           r == Tail(t)
           s == Head(t)
<1>1. PlanInv /\ DataInv /\ IsDatabase(work)  BY DEF UpgradeInv, Sound, Follow
<1>2. /\ Copying(t, k) /\ s \in {"migrate_fa", "migrate_failed"} /\ db' = db /\ PlanInv'
      /\ \/ Works(s, work) /\ Copying(r, k) /\ todo'[u] = r
         \/ ~Works(s, work) /\ todo'[u] = <<>> /\ status'[u] = "failed"
  BY <1>1, MigrateSteps DEF Migrate
<1>3. /\ t \in Seq(Steps) /\ k \in Kinds /\ lock = u /\ u # NoOne
  BY <1>1, <1>2, PlanOf
<1>4. Covers(t, work) /\ (Stale(t, work) => ~NamesLeft(db))  BY <1>2 DEF Names
<1>5. CASE Works(s, work)
  <2>1. work' = Effect(s, work)  BY <1>5 DEF Migrate
  <2>2. /\ work'.fa.layout = IF s = "migrate_fa" THEN "ids" ELSE work.fa.layout
        /\ work'.failed.layout = IF s = "migrate_failed" THEN "ids" ELSE work.failed.layout
    BY <1>1, <1>2, <1>5, <2>1, MigrationLayouts
  <2>3. (Covers(t, work) => Covers(r, work')) /\ (Stale(r, work') => Stale(t, work))
    <3> HIDE DEF t, k
    <3>1. Head(t) \in {"migrate_fa", "migrate_failed"} /\ Copying(t, k) /\ k \in Kinds
      BY <1>2, <1>3
    <3>2. \A x \in Kinds : \A y, d, e :
            /\ Copying(y, x) /\ Head(y) \in {"migrate_fa", "migrate_failed"}
            /\ e.fa.layout = IF Head(y) = "migrate_fa" THEN "ids" ELSE d.fa.layout
            /\ e.failed.layout = IF Head(y) = "migrate_failed" THEN "ids" ELSE d.failed.layout
            => (Covers(y, d) => Covers(Tail(y), e)) /\ (Stale(Tail(y), e) => Stale(y, d))
      BY CopiedAsPlanned
    <3> QED  BY <2>2, <3>1, <3>2, Zenon
  <2>4. r \in Seq(Steps) /\ todo'[u] = r /\ Copying(r, k)  BY <1>2, <1>5 DEF PlanInv
  <2> HIDE DEF r, k
  <2>5. Names(r, k, db, work')  BY <1>3, <1>4, <2>3, <2>4, StagesDiffer DEF Names
  <2> QED  BY <1>2, <2>4, <2>5 DEF k
<1>6. CASE ~Works(s, work)
  <2>1. Has(t, s)
    <3>1. \A x : Has(t, x) <=> x = s \/ Has(r, x)  BY <1>2, <1>3, CopiedOnce
    <3> QED  BY <3>1
  <2>2. todo'[u] = <<>> /\ status'[u] = "failed"  BY <1>2, <1>6
  <2> HIDE DEF s, t, k
  <2>3. Stale(t, work) \/ ~work.timestamp
    BY <1>2, <1>6, <2>1, ColumnNames DEF Works, Stale
  <2>4. work.timestamp = db.timestamp  BY <1>1, <1>3 DEF DataInv
  <2>5. CASE ~NamesLeft(db)
    <3>1. Names(<<>>, k, db, work')
      BY <1>3, <2>5, NothingLeft, StagesDiffer DEF Names
    <3> QED  BY <1>2, <2>2, <3>1 DEF k
  <2> QED  BY <1>2, <1>4, <2>2, <2>3, <2>4, <2>5
<1> QED  BY <1>5, <1>6

(* A migration that commits leaves no names.                               *)
LEMMA NamesCommitted ==
  ASSUME UpgradeInv, Follow, NEW u \in Programs, Commit(u), Names(todo[u], kind[u], db, work)
  PROVE  Names(todo'[u], kind[u], db', work') /\ ~NamesLeft(db')
<1> DEFINE t == todo[u]
           k == kind[u]
           r == todo'[u]
<1>1. /\ PlanInv' /\ Copying(t, k) /\ t = <<"commit", LastStep(k)>> /\ Ending(r, k) /\ db' = work
  BY CommitSteps DEF Follow, Commit
<1>2. k \in Kinds /\ r \in Seq(Steps)  BY <1>1, PlanOf DEF PlanInv, Follow
<1>3. Covers(t, work)  BY <1>1 DEF Names
<1>4. ~Has(t, "migrate_fa") /\ ~Has(t, "migrate_failed")
  <2>1. \A s : Has(<<"commit", LastStep(k)>>, s) <=> s \in {"commit", LastStep(k)}
    BY ShortPlans
  <2> QED  BY <1>1, <2>1 DEF LastStep
<1>5. ~NamesLeft(db')  BY <1>1, <1>3, <1>4 DEF Covers, NamesLeft
<1> HIDE DEF r, k
<1>6. Names(r, k, db', work')  BY <1>1, <1>2, <1>5, StagesDiffer DEF Names
<1> QED  BY <1>5, <1>6 DEF r, k

(* The file counts are right, or a program is about to count.              *)
LEMMA CountsKnownStay ==
  ASSUME UpgradeInv, Follow, CountsKnown, NEW u \in Programs, OwnStep(u)
  PROVE  CountsKnown'
<1> DEFINE t == todo[u]
           k == kind[u]
           s == Head(t)
<1>1. PlanInv /\ DataInv /\ IsDatabase(db)  BY DEF UpgradeInv, Sound, Follow
<1>2. t # <<>> /\ \A w \in Programs \ {u} : todo'[w] = todo[w]
  BY OwnAdvances DEF Apart
<1>3. t \in Seq(Steps) /\ k \in Kinds /\ Stage(t, k)  BY <1>1, PlanOf
<1>4. s # "count_files" => (db.file_count = "right" \/
        \E w \in Programs \ {u} : todo[w] # <<>> /\ Head(todo[w]) = "count_files")
  BY DEF CountsKnown
<1>5. ASSUME db'.file_count = db.file_count, s # "count_files"  PROVE CountsKnown'
  BY <1>2, <1>4, <1>5, Zenon DEF CountsKnown
<1>6. CASE Execute(u)
  <2>1. /\ s \notin Checks
        /\ \/ /\ Works(s, db) /\ db' = Effect(s, db) /\ todo'[u] = Tail(t)
           \/ ~Works(s, db) /\ db' = db
    BY <1>1, <1>6, ExecuteSteps
  <2>2. CASE s = "count_files"
    <3>1. Works(s, db)  BY <2>2, ColumnNames DEF Works
    <3>2. Affected(s, db, db')  BY <1>1, <2>1, <3>1, EffectFields, Zenon
    <3> HIDE DEF s
    <3>3. db'.file_count = "right"  BY <2>2, <3>2 DEF Affected
    <3> QED  BY <3>3 DEF CountsKnown
  <2>3. CASE s = "reset" /\ Works(s, db)
    <3>1. Tail(t) # <<>> /\ Head(Tail(t)) = "count_files"
      <4>1. CASE Early(t, k)
        <5>1. t[1] = "reset"  BY <1>2, <2>3
        <5>2. Len(t) >= 3  BY <1>3, <2>3, <4>1, EarlyShape
        <5>3. 1 \in 1..(Len(t) - 2) /\ Len(t) \in Nat  BY <1>3, <5>2
        <5>4. t[2] = "count_files"  BY <4>1, <5>1, <5>3 DEF Early, Chained
        <5>5. Tail(t)[1] = t[2] /\ Len(Tail(t)) = Len(t) - 1 /\ Tail(t) \in Seq(Steps)
          BY <1>2, <1>3, <5>2, HeadTailProperties
        <5>6. \A r \in Seq(Steps) : Len(r) >= 2 => r # <<>> /\ Head(r) = r[1]  OBVIOUS
        <5>7. Len(Tail(t)) >= 2  BY <5>2, <5>3, <5>5
        <5> QED  BY <5>4, <5>5, <5>6, <5>7
      <4>2. CASE ~Early(t, k)
        <5>1. Ending(t, k)
          BY <1>3, <2>3, <4>2, BeginningGoesOn, CopyingGoesOn DEF Stage
        <5>2. t = <<"reset", "count_files", "count_failed">>
          <6>1. k = "viewer"  BY <1>2, <1>3, <2>3, <5>1, EndingGoesOn DEF Kinds
          <6>2. t \in {<<"recount?">>, <<"reset", "count_files", "count_failed">>,
                       <<"count_files", "count_failed">>, <<"count_failed">>}
            BY <1>2, <5>1, <6>1 DEF Ending
          <6> QED  BY <2>3, <6>2
        <5> QED  BY <5>2
      <4> QED  BY <4>1, <4>2
    <3>2. todo'[u] # <<>> /\ Head(todo'[u]) = "count_files"  BY <2>1, <2>3, <3>1
    <3> QED  BY <3>2, Zenon DEF CountsKnown
  <2>4. CASE s # "count_files" /\ ~(s = "reset" /\ Works(s, db))
    <3>1. CASE Works(s, db)
      <4>1. Affected(s, db, db')  BY <1>1, <2>1, <3>1, EffectFields, Zenon
      <4>2. s # "reset" /\ s # "count_files"  BY <2>4, <3>1
      <4> HIDE DEF s
      <4>3. db'.file_count = db.file_count  BY <4>1, <4>2 DEF Affected
      <4> QED  BY <1>5, <4>2, <4>3
    <3>2. CASE ~Works(s, db)  BY <1>5, <2>1, <2>4, <3>2
    <3> QED  BY <3>1, <3>2
  <2> QED  BY <2>2, <2>3, <2>4
<1>7. CASE ~Execute(u)
  <2>1. db'.file_count = db.file_count /\ s # "count_files"
    <3>1. CASE Check(u)
      <4>1. s \in Checks /\ db' = db  BY <3>1 DEF Check
      <4> QED  BY <4>1, MarkNames
    <3>2. CASE Begin(u)
      BY <3>2 DEF Begin
    <3>3. CASE Migrate(u)
      <4>1. s \in {"migrate_fa", "migrate_failed"} /\ db' = db
        BY <1>1, <3>3, MigrateSteps DEF Migrate
      <4> QED  BY <4>1
    <3>4. CASE Commit(u)
      <4>1. s = "commit" /\ db' = work /\ lock = u  BY <3>4 DEF Commit, InMigration
      <4>2. work.file_count = db.file_count  BY <1>1, <4>1, PlanOf DEF DataInv
      <4> QED  BY <4>1, <4>2
    <3> QED  BY <1>7, <3>1, <3>2, <3>3, <3>4 DEF OwnStep
  <2> QED  BY <1>5, <2>1
<1> QED  BY <1>6, <1>7

(* A database whose counts need no recount has them right.                 *)
LEMMA NoRecount ==
  ASSUME UpgradeInv, DataInv, "file_count" \in db.columns, ~CountsAreZero(db)
  PROVE  db.file_count = "right"
<1>1. Says(db.fa, db.files, Accesses)  BY DEF UpgradeInv, Sound
<1>2. DOMAIN db.fa.rows = DOMAIN Accesses
  <2>1. CASE db.fa.layout = "ids"
    <3>1. db.fa.rows = [i \in DOMAIN Accesses |-> db.files[Accesses[i]]]
      BY <1>1, <2>1 DEF Says
    <3> QED  BY <3>1
  <2>2. CASE db.fa.layout # "ids"  BY <1>1, <2>2 DEF Says
  <2> QED  BY <2>1, <2>2
<1>3. DOMAIN db.fa.rows # {}  BY <1>2, UpgradeAssumption
<1>4. db.file_count # "zero"  BY <1>3 DEF CountsAreZero
<1> QED  BY <1>4 DEF DataInv, Layouts

(* Counting is left out only where the columns are not there.              *)
LEMMA CountsGoOn ==
  ASSUME UpgradeInv, Follow, NEW u \in Programs, OwnStep(u), Columns(todo[u], kind[u], db),
         Counts(todo[u], kind[u])
  PROVE  \/ Counts(todo[u], kind[u])'
         \/ todo'[u] = <<>> /\ status'[u] = "failed"
         \/ todo'[u] = <<>> /\ ~({"file_count", "fail_count"} \subseteq db'.columns)
<1> DEFINE t == todo[u]
           k == kind[u]
           r == todo'[u]
           s == Head(t)
<1>1. PlanInv /\ DataInv /\ IsDatabase(db)  BY DEF UpgradeInv, Sound, Follow
<1>2. t # <<>> /\ kind'[u] = k /\ PlanInv'
  BY <1>1, OwnAdvances, FollowKept DEF Apart, Follow, Next, OwnStep
<1>3. t \in Seq(Steps) /\ k \in Kinds /\ Stage(t, k) /\ r \in Seq(Steps)
  <2>1. r \in Seq(Steps)  BY <1>2 DEF PlanInv
  <2> QED  BY <1>1, <2>1, PlanOf
<1>4. CountsKnown => Counts(t, k)'
  <2>1. CountsKnown => CountsKnown'  BY CountsKnownStay
  <2> QED  BY <2>1 DEF Counts
<1>5. ASSUME k = "viewer" => Recounts(r) \/ ~Ending(r, k)  PROVE Counts(t, k)'
  BY <1>2, <1>5 DEF Counts
<1>6. CASE k # "viewer"  BY <1>5, <1>6
<1>7. CASE k = "viewer" /\ ~Ending(t, k)
  <2>1. CASE Check(u)
    <3>1. /\ r = Needed(s, db) \o Tail(t) /\ s \in Checks  BY <1>1, <2>1, CheckSteps DEF Check
    <3>2. /\ Early(t, k)
          /\ \/ Early(r, k) \/ Beginning(r, k)
             \/ s = "v6?" /\ ~NamesLeft(db)
      <4>1. t = <<"recount?">> => Ending(t, k)  BY <1>7 DEF Ending
      <4> QED  BY <1>2, <1>3, <1>7, <3>1, <4>1, CheckedPlan
    <3>3. CASE s = "v6?" /\ ~NamesLeft(db)
      <4>1. Tail(t) = <<LastStep(k)>>
        <5>1. s \notin EarlySteps(k)  BY <1>3, <3>3, EarlyStepsAre
        <5> QED  BY <1>3, <3>2, <5>1, EarlyShape
      <4>2. r = <<"recount?">>  BY <1>3, <1>7, <3>1, <3>3, <4>1, MigrationPlan DEF LastStep
      <4> QED  BY <1>5, <4>2 DEF Recounts
    <3>4. CASE Early(r, k) \/ Beginning(r, k)
      <4> HIDE DEF r, k
      <4>1. ~Ending(r, k)  BY <1>3, <3>4, StagesDiffer
      <4> QED  BY <1>5, <4>1 DEF k, r
    <3> QED  BY <3>2, <3>3, <3>4
  <2>2. CASE Execute(u)
    <3>1. Early(r, k)  BY <1>1, <1>7, <2>2, ExecuteSteps DEF Sooner
    <3> HIDE DEF r, k
    <3>2. ~Ending(r, k)  BY <1>3, <3>1, StagesDiffer
    <3> QED  BY <1>5, <3>2 DEF k, r
  <2>3. CASE Begin(u) \/ Migrate(u)
    <3>1. Copying(r, k) \/ (r = <<>> /\ status'[u] = "failed")
      BY <1>1, <2>3, BeginSteps, MigrateSteps
    <3>2. CASE Copying(r, k)
      <4> HIDE DEF r, k
      <4>1. ~Ending(r, k)  BY <1>3, <3>2, StagesDiffer
      <4> QED  BY <1>5, <4>1 DEF k, r
    <3> QED  BY <3>1, <3>2
  <2>4. CASE Commit(u)
    <3>1. r = <<"recount?">>  BY <1>1, <1>7, <2>4, CommitSteps DEF LastStep
    <3> QED  BY <1>5, <3>1 DEF Recounts
  <2> QED  BY <2>1, <2>2, <2>3, <2>4 DEF OwnStep
<1>8. CASE k = "viewer" /\ Ending(t, k) /\ ~CountsKnown
  <2>1. Recounts(t)  BY <1>8 DEF Counts
  <2>2. CASE t = <<"recount?">>
    <3>1. s = "recount?" /\ Tail(t) = <<>>  BY <2>2
    <3>2. Check(u)
      <4>1. s \in Checks /\ s \notin {"migrate_fa", "migrate_failed", "commit", "begin"}
        BY <3>1, MarkNames
      <4>2. ~Execute(u) /\ ~Begin(u)  BY <4>1 DEF Execute, Begin, AtStatement
      <4>3. ~Migrate(u) /\ ~Commit(u)  BY <4>1 DEF Migrate, Commit, AtStatement
      <4> QED  BY <4>2, <4>3 DEF OwnStep
    <3>3. r = Recounted(db)
      <4>1. r = Needed("recount?", db) \o <<>>  BY <1>1, <3>1, <3>2, CheckSteps
      <4>2. Needed("recount?", db) = Recounted(db)  BY NeededIs DEF Recounted
      <4>3. Recounted(db) = <<>> \/ Recounted(db) = <<"reset", "count_files", "count_failed">>
        BY DEF Recounted, OnlyIf, populate_counts
      <4>4. <<>> \o <<>> = <<>>  OBVIOUS
      <4>5. <<"reset", "count_files", "count_failed">> \o <<>>
              = <<"reset", "count_files", "count_failed">>
        <5>1. \A x \in Seq(Steps) : x \o <<>> = x  OBVIOUS
        <5>2. <<"reset", "count_files", "count_failed">> \in Seq(Steps)
          BY Tuples DEF Steps
        <5> QED  BY <5>1, <5>2
      <4> QED  BY <4>1, <4>2, <4>3, <4>4, <4>5
    <3>4. CASE CountsAreZero(db)
      <4>1. r = <<"reset", "count_files", "count_failed">>
        BY <3>3, <3>4 DEF Recounted, OnlyIf, populate_counts
      <4> QED  BY <1>5, <4>1 DEF Recounts
    <3>5. CASE ~CountsAreZero(db)
      <4>1. ~Has(t, "v5?") /\ ~Has(t, "file_count")
        <5>1. \A x : Has(<<"recount?">>, x) <=> x = "recount?"  BY ShortPlans
        <5> QED  BY <2>2, <5>1
      <4>2. Guards("v5?", "file_count")  BY DEF Guards
      <4>3. Done("file_count", db)  BY <1>8, <4>1, <4>2, Zenon DEF Columns
      <4>4. "file_count" \in db.columns  BY <4>3 DEF Done, AllColumns
      <4>5. db.file_count = "right"  BY <1>1, <3>5, <4>4, NoRecount
      <4> QED  BY <1>8, <4>5 DEF CountsKnown
    <3> QED  BY <3>4, <3>5
  <2>3. CASE t = <<"reset", "count_files", "count_failed">>
    <3>1. s = "reset"  BY <2>3
    <3>2. Execute(u)
      <4>1. s \notin Checks /\ s \notin {"migrate_fa", "migrate_failed", "commit", "begin"}
        BY <3>1, MarkNames
      <4>2. ~Check(u) /\ ~Begin(u)  BY <4>1 DEF Check, Begin
      <4>3. ~Migrate(u) /\ ~Commit(u)  BY <1>1, <4>1, MigrateSteps DEF Commit
      <4> QED  BY <4>2, <4>3 DEF OwnStep
    <3>3. \/ Works(s, db) /\ r = Tail(t)
          \/ ~Works(s, db) /\ db' = db /\ r = Rest(t)
      BY <1>1, <1>8, <3>2, ExecuteSteps
    <3>4. CASE Works(s, db) /\ r = Tail(t)
      <4>1. r = <<"count_files", "count_failed">>  BY <2>3, <3>4
      <4>2. r # <<>> /\ Head(r) = "count_files"  BY <4>1
      <4>3. CountsKnown'  BY <4>2, Zenon DEF CountsKnown
      <4> QED  BY <4>3 DEF Counts
    <3>5. CASE ~Works(s, db) /\ db' = db /\ r = Rest(t)
      <4>1. r = <<>>  BY <1>2, <1>3, <1>8, <3>1, <3>5, EndingGoesOn
      <4>2. ~({"file_count", "fail_count"} \subseteq db.columns)
        <5> HIDE DEF s
        <5> QED  BY <3>1, <3>5, ColumnNames DEF Works
      <4> QED  BY <3>5, <4>1, <4>2
    <3> QED  BY <3>3, <3>4, <3>5
  <2> QED  BY <2>1, <2>2, <2>3 DEF Recounts
<1> QED  BY <1>4, <1>6, <1>7, <1>8

(* The own steps of a program that no mishap has met.                      *)
LEMMA CleanSteps ==
  ASSUME UpgradeInv, Follow, CleanInv, NEW u \in Programs, OwnStep(u), ~hit[u]
  PROVE  /\ Columns(todo'[u], kind[u], db')
         /\ \/ Names(todo'[u], kind[u], db', work')
            \/ todo'[u] = <<>> /\ status'[u] = "failed" /\ db' = db /\ ~db.timestamp
         /\ \/ Counts(todo[u], kind[u])'
            \/ todo'[u] = <<>> /\ status'[u] = "failed"
            \/ todo'[u] = <<>> /\ ~({"file_count", "fail_count"} \subseteq db'.columns)
<1>1. Advances(todo[u], todo'[u], kind[u], db, db') /\ todo[u] # <<>>  BY OwnAdvances
<1>2. /\ Columns(todo[u], kind[u], db) /\ Names(todo[u], kind[u], db, work)
      /\ Counts(todo[u], kind[u])
  BY <1>1 DEF CleanInv
<1>3. Columns(todo'[u], kind[u], db')  BY <1>1, <1>2, ColumnsGoOn
<1>4. \/ Names(todo'[u], kind[u], db', work')
      \/ todo'[u] = <<>> /\ status'[u] = "failed" /\ db' = db /\ ~db.timestamp
  BY <1>2, NamesChecked, NamesExecuted, NamesBegun, NamesMigrated, NamesCommitted
     DEF OwnStep, Follow
<1>5. \/ Counts(todo[u], kind[u])'
      \/ todo'[u] = <<>> /\ status'[u] = "failed"
      \/ todo'[u] = <<>> /\ ~({"file_count", "fail_count"} \subseteq db'.columns)
  BY <1>2, CountsGoOn
<1> QED  BY <1>3, <1>4, <1>5

(* What another program has planned is not undone by a step of u.          *)
LEMMA NamesStay ==
  ASSUME UpgradeInv, Follow, CleanInv, NEW u \in Programs, OwnStep(u),
         NEW v \in Programs \ {u}, todo[v] # <<>>, ~hit[v]
  PROVE  Names(todo[v], kind[v], db', work')
<1> DEFINE t == todo[v]
           k == kind[v]
<1>1. PlanInv  BY DEF Follow
<1>2. /\ t \in Seq(Steps) /\ k \in Kinds /\ Stage(t, k) /\ (Copying(t, k) <=> lock = v)
      /\ v # NoOne
  BY <1>1, PlanOf
<1>3. Names(t, k, db, work) /\ Columns(t, k, db)  BY DEF CleanInv
<1>4. ASSUME ~Copying(t, k), db'.fa.layout = db.fa.layout, db'.failed.layout = db.failed.layout
      PROVE  Names(t, k, db', work')
  <2>1. /\ Covers(t, db') <=> Covers(t, db)
        /\ Stale(t, db') <=> Stale(t, db)
        /\ NamesLeft(db') <=> NamesLeft(db)
    BY <1>4 DEF Covers, Stale, NamesLeft
  <2> HIDE DEF t, k
  <2> QED  BY <1>3, <1>4, <2>1 DEF Names
<1>5. CASE Check(u)
  <2>1. db' = db /\ work' = work  BY <1>5 DEF Check
  <2> QED  BY <1>3, <2>1
<1>6. CASE Execute(u)
  <2>1. lock = NoOne  BY <1>6 DEF Execute
  <2>2. ~Copying(t, k)  BY <1>2, <2>1
  <2>3. CASE Early(t, k)
    <3> HIDE DEF t, k
    <3>1. Names(t, k, db', work')  BY <1>2, <2>3, StagesDiffer DEF Names
    <3> QED  BY <3>1 DEF t, k
  <2>4. CASE ~Early(t, k)
    <3>1. Late(t)  BY <1>2, <2>4, LateStages DEF Stage
    <3>2. db.failed.layout # "none"  BY <1>2, <1>3, <3>1, LateColumns
    <3>3. db'.fa.layout = db.fa.layout /\ db'.failed.layout = db.failed.layout
      BY <1>6, <3>2, LayoutsExecuted
    <3> QED  BY <1>4, <2>2, <3>3
  <2> QED  BY <2>3, <2>4
<1>7. CASE Begin(u) \/ Migrate(u)
  <2>1. db' = db /\ lock \in {u, NoOne}  BY <1>7 DEF Begin, Migrate, InMigration
  <2>2. ~Copying(t, k)  BY <1>2, <2>1
  <2> QED  BY <1>4, <2>1, <2>2
<1>8. CASE Commit(u)
  <2>1. lock = u  BY <1>8 DEF Commit, InMigration
  <2>2. ~Copying(t, k)  BY <1>2, <2>1
  <2>3. ~hit[u] /\ todo[u] # <<>>
    <3>1. Running(u) /\ Running(v) /\ todo[u] # <<>>  BY <1>1, OwnAdvances, PlanOf
    <3> QED  BY <3>1 DEF CleanInv, Alike
  <2>4. Names(todo[u], kind[u], db, work)  BY <2>3 DEF CleanInv
  <2>5. ~NamesLeft(db')  BY <1>8, <2>4, NamesCommitted
  <2>6. Covers(t, db')  BY <2>5 DEF Covers, NamesLeft
  <2> HIDE DEF t, k
  <2>7. Names(t, k, db', work')  BY <2>2, <2>5, <2>6 DEF Names
  <2> QED  BY <2>7 DEF t, k
<1> QED  BY <1>5, <1>6, <1>7, <1>8 DEF OwnStep

(* A whole plan has every check, and nothing that is added.                *)
LEMMA PlansHave ==
  /\ \A s : Has(upgrade_schema, s) <=> s \in Checks
  /\ Has(init_schema, "failed_v6")
<1>1. upgrade_schema \in Seq(Steps) /\ Len(upgrade_schema) = 6
  BY PlansBegin DEF upgrade_schema
<1>2. Checks = {upgrade_schema[i] : i \in 1..Len(upgrade_schema)}
  BY <1>1 DEF Checks, ToSet
<1>3. \A s : Has(upgrade_schema, s) <=> s \in Checks  BY <1>2 DEF Has
<1>4. Has(init_schema, "failed_v6")
  <2>1. Has(<<"failed_v6", "v6?", "prepare">>, "failed_v6")  BY ShortPlans
  <2> QED  BY <2>1 DEF init_schema
<1> QED  BY <1>3, <1>4

LEMMA CleanKept ==
  ASSUME UpgradeInv, Follow, CleanInv, [Next]_vars
  PROVE  CleanInv'
<1>1. PlanInv /\ PlanInv'  BY FollowKept DEF Follow
<1>2. \A v \in Programs : (Running(v) <=> todo[v] # <<>>) /\ (Running(v)' <=> todo'[v] # <<>>)
  BY <1>1 DEF PlanInv
<1>3. ASSUME NEW u \in Programs, OwnStep(u)  PROVE CleanInv'
  <2>1. /\ \A v \in Programs \ {u} : todo'[v] = todo[v] /\ status'[v] = status[v]
        /\ kind' = kind /\ hit' = hit /\ Running(u) /\ todo[u] # <<>>
    BY <1>3, OwnAdvances DEF Apart
  <2>2. \A v \in Programs : Running(v)' => Running(v)  BY <2>1 DEF Running
  <2>3. Alike'  BY <2>1, <2>2 DEF CleanInv, Alike
  <2>4. ASSUME todo'[u] # <<>>, ~hit[u]
        PROVE  /\ Columns(todo'[u], kind[u], db') /\ Names(todo'[u], kind[u], db', work')
               /\ Counts(todo[u], kind[u])'
    BY <1>3, <2>4, CleanSteps
  <2>5. ASSUME NEW v \in Programs \ {u}, todo[v] # <<>>, ~hit[v]
        PROVE  /\ Columns(todo[v], kind[v], db') /\ Names(todo[v], kind[v], db', work')
               /\ Counts(todo[v], kind[v])'
    <3>1. Columns(todo[v], kind[v], db) /\ Counts(todo[v], kind[v])  BY <2>5 DEF CleanInv
    <3>2. \A x \in Marks : Done(x, db) => Done(x, db')
      <4>1. Advances(todo[u], todo'[u], kind[u], db, db')  BY <1>3, OwnAdvances
      <4> QED  BY <4>1, Zenon DEF Advances
    <3>3. Columns(todo[v], kind[v], db')  BY <3>1, <3>2, ColumnsStay
    <3>4. CountsKnown => CountsKnown'  BY <1>3, CountsKnownStay
    <3>5. Counts(todo[v], kind[v])'  BY <2>1, <3>1, <3>4 DEF Counts
    <3>6. Names(todo[v], kind[v], db', work')  BY <1>3, <2>5, NamesStay
    <3> QED  BY <3>3, <3>5, <3>6
  <2>6. ASSUME NEW v \in Programs, todo'[v] # <<>>, ~hit'[v]
        PROVE  /\ Columns(todo'[v], kind'[v], db') /\ Names(todo'[v], kind'[v], db', work')
               /\ Counts(todo[v], kind[v])'
    <3>1. CASE v = u  BY <2>1, <2>4, <2>6, <3>1
    <3>2. CASE v # u  BY <2>1, <2>5, <2>6, <3>2
    <3> QED  BY <3>1, <3>2
  <2> QED  BY <2>3, <2>6 DEF CleanInv
<1>4. ASSUME NEW u \in Programs, Start(u)  PROVE CleanInv'
  <2>1. /\ todo[u] = <<>>
        /\ \A v \in Programs \ {u} : /\ todo'[v] = todo[v] /\ status'[v] = status[v]
                                     /\ kind'[v] = kind[v] /\ hit'[v] = hit[v]
        /\ hit'[u] = \E v \in Programs : Running(v) /\ hit[v]
        /\ \/ kind'[u] = "viewer" /\ todo'[u] = upgrade_schema
           \/ kind'[u] = "tracer" /\ todo'[u] = init_schema
    BY <1>1, <1>4, StartSteps
  <2>2. db' = db /\ work' = work  BY <1>4 DEF Start
  <2>3. ~Running(u)  BY <1>2, <2>1
  <2>4. Alike'
    <3>1. \A v \in Programs \ {u} : Running(v)' <=> Running(v)  BY <2>1 DEF Running
    <3>2. \A v \in Programs \ {u} : Running(v)' => (hit'[v] <=> hit'[u])
      BY <2>1, <2>3, <3>1 DEF CleanInv, Alike
    <3>3. \A v, w \in Programs \ {u} : Running(v)' /\ Running(w)' => (hit'[v] <=> hit'[w])
      BY <2>1, <3>1 DEF CleanInv, Alike
    <3> QED  BY <3>2, <3>3, Zenon DEF Alike
  <2>5. CountsKnown => CountsKnown'
    <3>1. ASSUME NEW w \in Programs, todo[w] # <<>>, Head(todo[w]) = "count_files"
          PROVE  CountsKnown'
      <4>1. todo'[w] = todo[w]  BY <2>1, <3>1
      <4> QED  BY <3>1, <4>1, Zenon DEF CountsKnown
    <3> QED  BY <2>2, <3>1 DEF CountsKnown
  <2>6. /\ Columns(todo'[u], kind'[u], db') /\ Names(todo'[u], kind'[u], db', work')
        /\ Counts(todo[u], kind[u])'
    <3>1. Early(todo'[u], kind'[u]) /\ todo'[u] \in Seq(Steps) /\ kind'[u] \in Kinds
      BY <2>1, PlansBegin DEF Kinds
    <3>2. Names(todo'[u], kind'[u], db', work')  BY <3>1, StagesDiffer DEF Names
    <3>3. Counts(todo[u], kind[u])'  BY <3>1, StagesDiffer DEF Counts
    <3>4. Columns(todo'[u], kind'[u], db')
      <4>1. \A c, x : Guards(c, x) => c \in Checks  BY MarkNames
      <4> QED  BY <2>1, <4>1, PlansHave DEF Columns
    <3> QED  BY <3>2, <3>3, <3>4
  <2>7. ASSUME NEW v \in Programs \ {u}, todo'[v] # <<>>, ~hit'[v]
        PROVE  /\ Columns(todo'[v], kind'[v], db') /\ Names(todo'[v], kind'[v], db', work')
               /\ Counts(todo[v], kind[v])'
    <3>1. todo[v] # <<>> /\ ~hit[v] /\ todo'[v] = todo[v] /\ kind'[v] = kind[v]
      BY <2>1, <2>7
    <3>2. /\ Columns(todo[v], kind[v], db) /\ Names(todo[v], kind[v], db, work)
          /\ Counts(todo[v], kind[v])
      BY <3>1 DEF CleanInv
    <3>3. Counts(todo[v], kind[v])'  BY <2>5, <3>1, <3>2 DEF Counts
    <3> QED  BY <2>2, <3>1, <3>2, <3>3
  <2> QED  BY <2>4, <2>6, <2>7, Zenon DEF CleanInv
<1>5. ASSUME NEW u \in Programs, StatementFails(u) \/ Crash(u)  PROVE CleanInv'
  <2>1. \A v \in Programs : Running(v)' => hit'[v]  BY <1>1, <1>5, MishapSteps
  <2>2. Alike'  BY <2>1 DEF Alike
  <2> QED  BY <1>2, <2>1, <2>2 DEF CleanInv
<1>6. CASE UNCHANGED vars
  <2>1. /\ db' = db /\ work' = work /\ kind' = kind /\ todo' = todo /\ hit' = hit /\ status' = status
    BY <1>6 DEF vars
  <2>2. Alike'  BY <2>1 DEF CleanInv, Alike, Running
  <2>3. CountsKnown' = CountsKnown  BY <2>1 DEF CountsKnown
  <2>4. \A v \in Programs : Counts(todo[v], kind[v])' <=> Counts(todo[v], kind[v])
    BY <2>1, <2>3 DEF Counts
  <2> QED  BY <2>1, <2>2, <2>4 DEF CleanInv
<1> QED  BY <1>3, <1>4, <1>5, <1>6 DEF Next, OwnStep

LEMMA UnharmedKept ==
  ASSUME UpgradeInv, Follow, UnharmedInv, [Next]_vars
  PROVE  UnharmedInv'
<1>1. PlanInv  BY DEF Follow
<1>2. ASSUME NEW u \in Programs, OwnStep(u)  PROVE UnharmedInv'
  <2>1. /\ \A v \in Programs \ {u} : todo'[v] = todo[v]
        /\ kind' = kind /\ harmed' = harmed
        /\ Advances(todo[u], todo'[u], kind[u], db, db')
    BY <1>2, OwnAdvances DEF Apart
  <2> SUFFICES ASSUME ~harmed  PROVE UnharmedInv'
    BY <2>1 DEF UnharmedInv
  <2>2. /\ \A v \in Programs : kind[v] = "viewer"
        /\ \A v \in Programs : \A a, b :
             Follows(a, b) /\ Has(todo[v], a) => Done(b, db) \/ Has(todo[v], b)
        /\ \A a, b : Follows(a, b) /\ Done(a, db) =>
             Done(b, db) \/ \E w \in Programs : Has(todo[w], b)
    BY DEF UnharmedInv
  <2>3. /\ \A x \in Marks : Done(x, db) => Done(x, db')
        /\ \A x \in Marks : Has(todo[u], x) => Has(todo'[u], x) \/ Done(x, db')
        /\ \A a, b : Follows(a, b) =>
             /\ Done(a, db') => Done(a, db) \/ Has(todo[u], a)
             /\ Has(todo'[u], a) => Has(todo[u], a) \/ Done(b, db) \/ Has(todo'[u], b)
    BY <2>1, <2>2, Zenon DEF Advances
  <2>4. ASSUME NEW a, NEW b, Follows(a, b), Has(todo[u], a)
        PROVE  Done(b, db') \/ Has(todo'[u], b)
    <3>1. b \in Marks  BY <2>4, MarkNames
    <3> QED  BY <2>2, <2>3, <2>4, <3>1, Zenon
  <2>5. ASSUME NEW v \in Programs, NEW a, NEW b, Follows(a, b), Has(todo'[v], a)
        PROVE  Done(b, db') \/ Has(todo'[v], b)
    <3>1. b \in Marks  BY <2>5, MarkNames
    <3>2. CASE v = u  BY <2>3, <2>4, <2>5, <3>1, <3>2, Zenon
    <3>3. CASE v # u
      <4>1. todo'[v] = todo[v]  BY <2>1, <3>3
      <4> QED  BY <2>2, <2>3, <2>5, <3>1, <4>1
    <3> QED  BY <3>2, <3>3
  <2>6. ASSUME NEW a, NEW b, Follows(a, b), Done(a, db')
        PROVE  Done(b, db') \/ \E w \in Programs : Has(todo'[w], b)
    <3>1. b \in Marks  BY <2>6, MarkNames
    <3>2. CASE Has(todo[u], a)  BY <2>4, <2>6, <3>2, Zenon
    <3>3. CASE Done(a, db)
      <4>1. CASE Done(b, db)  BY <2>3, <3>1, <4>1
      <4>2. ASSUME NEW w \in Programs, Has(todo[w], b)
            PROVE  Done(b, db') \/ \E x \in Programs : Has(todo'[x], b)
        <5>1. CASE w = u  BY <2>3, <3>1, <4>2, <5>1, Zenon
        <5>2. CASE w # u
          <6>1. todo'[w] = todo[w]  BY <2>1, <5>2
          <6> QED  BY <4>2, <6>1
        <5> QED  BY <5>1, <5>2
      <4> QED  BY <2>2, <2>6, <3>3, <4>1, <4>2
    <3> QED  BY <2>3, <2>6, <3>2, <3>3
  <2>7. \A v \in Programs : kind'[v] = "viewer"  BY <2>1, <2>2
  <2> QED  BY <2>5, <2>6, <2>7, Zenon DEF UnharmedInv
<1>3. ASSUME NEW u \in Programs, Start(u)  PROVE UnharmedInv'
  <2>1. /\ todo[u] = <<>>
        /\ \A v \in Programs \ {u} : todo'[v] = todo[v] /\ kind'[v] = kind[v]
        /\ \/ kind'[u] = "viewer" /\ todo'[u] = upgrade_schema /\ harmed' = harmed
           \/ harmed'
    BY <1>1, <1>3, StartSteps
  <2>2. db' = db  BY <1>3 DEF Start
  <2> SUFFICES ASSUME ~harmed'  PROVE UnharmedInv'
    BY DEF UnharmedInv
  <2>3. ~harmed /\ kind'[u] = "viewer" /\ todo'[u] = upgrade_schema  BY <2>1
  <2>4. /\ \A v \in Programs : kind[v] = "viewer"
        /\ \A v \in Programs : \A a, b :
             Follows(a, b) /\ Has(todo[v], a) => Done(b, db) \/ Has(todo[v], b)
        /\ \A a, b : Follows(a, b) /\ Done(a, db) =>
             Done(b, db) \/ \E w \in Programs : Has(todo[w], b)
    BY <2>3 DEF UnharmedInv
  <2>5. \A v \in Programs : kind'[v] = "viewer"  BY <2>1, <2>3, <2>4
  <2>6. \A a, b : Follows(a, b) => ~Has(todo'[u], a)
    <3>1. \A a, b : Follows(a, b) => a \notin Checks  BY MarkNames DEF Follows
    <3> QED  BY <2>3, <3>1, PlansHave
  <2>7. ASSUME NEW v \in Programs, NEW a, NEW b, Follows(a, b), Has(todo'[v], a)
        PROVE  Done(b, db) \/ Has(todo'[v], b)
    <3>1. v # u  BY <2>6, <2>7
    <3>2. todo'[v] = todo[v]  BY <2>1, <3>1
    <3> QED  BY <2>4, <2>7, <3>2
  <2>8. ASSUME NEW w \in Programs, NEW b, Has(todo[w], b)
        PROVE  \E x \in Programs : Has(todo'[x], b)
    <3>1. w # u
      <4>1. ~Has(<<>>, b)  BY ShortPlans
      <4> QED  BY <2>1, <2>8, <4>1
    <3>2. todo'[w] = todo[w]  BY <2>1, <3>1
    <3> QED  BY <2>8, <3>2
  <2>9. \A a, b : Follows(a, b) /\ Done(a, db) =>
          Done(b, db) \/ \E w \in Programs : Has(todo'[w], b)
    BY <2>4, <2>8, Zenon
  <2> QED  BY <2>2, <2>5, <2>7, <2>9 DEF UnharmedInv
<1>4. ASSUME NEW u \in Programs, StatementFails(u) \/ Crash(u)  PROVE UnharmedInv'
  BY <1>1, <1>4, MishapSteps DEF UnharmedInv
<1>5. CASE UNCHANGED vars
  BY <1>5 DEF vars, UnharmedInv
<1> QED  BY <1>2, <1>3, <1>4, <1>5 DEF Next, OwnStep

(* No older version has left one half of what it adds.                     *)
LEMMA CleanFirst ==
  Init => CleanInv /\ UnharmedInv
<1> SUFFICES ASSUME Init  PROVE CleanInv /\ UnharmedInv
  OBVIOUS
<1>1. /\ \A u \in Programs : todo[u] = <<>> /\ ~Running(u) /\ kind[u] = "viewer"
      /\ ~harmed
  BY DEF Init, Running
<1>2. CleanInv  BY <1>1 DEF CleanInv, Alike
<1>3. PICK n \in 1..6, counts \in {"zero", "right"} : db = Written(n, counts)
  BY DEF Init
<1>4. /\ db.columns = (IF n >= 3 THEN ToSet(v3_columns) ELSE {})
                        \cup (IF n >= 4 THEN {"cwd"} ELSE {})
                        \cup (IF n >= 5 THEN {"file_count", "fail_count"} ELSE {})
      /\ n >= 2 => db.timestamp
      /\ db.failed = IF n = 1 THEN NoTable ELSE Table(IF n >= 6 THEN "ids" ELSE "names", Failures)
  BY <1>3 DEF Written
<1>5. ToSet(v3_columns) = {"user_time_us", "sys_time_us", "peak_rss_kb", "io_read_bytes",
                           "io_write_bytes"}
  BY DEF v3_columns, ToSet
<1>6. ASSUME NEW a, NEW b, Follows(a, b), Done(a, db)  PROVE Done(b, db)
  <2>1. CASE a = "failed_v2" /\ b = "timestamp_us"
    <3>1. db.failed.layout # "none"  BY <1>6, <2>1, ColumnNames DEF Done
    <3>2. n # 1  BY <1>4, <3>1, TableShape DEF NoTable
    <3>3. n >= 2  BY <3>2
    <3> QED  BY <1>4, <2>1, <3>3, ColumnNames DEF Done
  <2>2. CASE a = "user_time_us" /\ b \in ToSet(v3_columns)
    <3>1. "user_time_us" \in db.columns  BY <1>6, <2>2, ColumnNames DEF Done
    <3>2. n >= 3  BY <1>4, <1>5, <3>1
    <3>3. b \in db.columns  BY <1>4, <2>2, <3>2
    <3>4. b \in AllColumns  BY <2>2 DEF AllColumns
    <3> QED  BY <3>3, <3>4, ColumnNames DEF Done
  <2>3. CASE a = "file_count" /\ b = "fail_count"
    <3>1. "file_count" \in db.columns  BY <1>6, <2>3 DEF Done, AllColumns
    <3>2. n >= 5  BY <1>4, <1>5, <3>1
    <3>3. b \in db.columns  BY <1>4, <2>3, <3>2
    <3> QED  BY <2>3, <3>3 DEF Done, AllColumns
  <2> QED  BY <1>5, <1>6, <2>1, <2>2, <2>3 DEF Follows
<1>7. \A u \in Programs : \A x : ~Has(todo[u], x)
  <2>1. \A x : ~Has(<<>>, x)  BY ShortPlans
  <2> QED  BY <1>1, <2>1
<1>8. UnharmedInv  BY <1>1, <1>6, <1>7 DEF UnharmedInv
<1> QED  BY <1>2, <1>8

-----------------------------------------------------------------------------
(* An upgrade that ends undisturbed. *)

(* Columns and tables that no check finds missing are complete, or half    *)
(* added.                                                                  *)
LEMMA CompleteOrHalf ==
  ASSUME NEW d, Layouts(d), Columns(<<>>, "viewer", d)
  PROVE  /\ ~NamesLeft(d) => Complete(d) \/ HalfAdded(d)
         /\ ~d.timestamp => HalfAdded(d)
         /\ HalfAdded(d) => \E a, b : Follows(a, b) /\ Done(a, d) /\ ~Done(b, d)
<1>1. \A c, x : Guards(c, x) => Done(x, d)
  <2>1. \A s : ~Has(<<>>, s)  BY ShortPlans
  <2> QED  BY <2>1 DEF Columns
<1>2. /\ d.failed.layout # "none"
      /\ "user_time_us" \in d.columns /\ "cwd" \in d.columns /\ "file_count" \in d.columns
  <2>1. /\ Done("failed_v2", d) /\ Done("user_time_us", d) /\ Done("cwd", d)
        /\ Done("file_count", d)
    BY <1>1 DEF Guards
  <2> QED  BY <2>1, ColumnNames DEF Done
<1>3. ToSet(v3_columns) = {"user_time_us", "sys_time_us", "peak_rss_kb", "io_read_bytes",
                           "io_write_bytes"}
  BY DEF v3_columns, ToSet
<1>4. ~HalfAdded(d) => d.timestamp /\ ToSet(v3_columns) \subseteq d.columns
                         /\ "fail_count" \in d.columns
  BY <1>2 DEF HalfAdded
<1>5. ~HalfAdded(d) /\ ~NamesLeft(d) => Complete(d)
  <2> SUFFICES ASSUME ~HalfAdded(d), ~NamesLeft(d)  PROVE Complete(d)
    OBVIOUS
  <2>1. d.columns = AllColumns  BY <1>2, <1>4 DEF AllColumns, Layouts
  <2>2. d.fa.layout = "ids" /\ d.failed.layout = "ids"  BY <1>2 DEF NamesLeft, Layouts
  <2> QED  BY <1>4, <2>1, <2>2 DEF Complete
<1>6. ~d.timestamp => HalfAdded(d)  BY <1>2 DEF HalfAdded
<1>7. ASSUME HalfAdded(d)  PROVE \E a, b : Follows(a, b) /\ Done(a, d) /\ ~Done(b, d)
  <2>1. CASE ~d.timestamp
    <3>1. /\ Follows("failed_v2", "timestamp_us") /\ Done("failed_v2", d)
          /\ ~Done("timestamp_us", d)
      BY <1>2, <2>1, ColumnNames DEF Follows, Done
    <3> QED  BY <3>1
  <2>2. CASE "fail_count" \notin d.columns
    <3>1. /\ Follows("file_count", "fail_count") /\ Done("file_count", d)
          /\ ~Done("fail_count", d)
      BY <1>2, <2>2, ColumnNames DEF Follows, Done
    <3> QED  BY <3>1
  <2>3. CASE ~(ToSet(v3_columns) \subseteq d.columns)
    <3>1. PICK b \in ToSet(v3_columns) : b \notin d.columns  BY <2>3
    <3>2. b # "user_time_us"  BY <1>2, <3>1
    <3>3. Follows("user_time_us", b)  BY <1>3, <3>2 DEF Follows
    <3>4. Done("user_time_us", d)  BY <1>2, ColumnNames DEF Done
    <3>5. ~Done(b, d)  BY <1>3, <3>1, ColumnNames DEF Done
    <3> QED  BY <3>3, <3>4, <3>5
  <2> QED  BY <1>7, <2>1, <2>2, <2>3 DEF HalfAdded
<1> QED  BY <1>5, <1>6, <1>7

(* Only its own last step ends an upgrade, and nothing is left to do.      *)
LEMMA UndisturbedStep ==
  ASSUME UpgradeInv, Follow, [Next]_vars, NEW u \in Programs, Undisturbed(u)
  PROVE  /\ OwnStep(u) /\ todo'[u] = <<>> /\ ~hit[u] /\ kind'[u] = "viewer"
         /\ \A v \in Programs : todo'[v] = <<>>
<1>1. PlanInv /\ PlanInv'  BY FollowKept DEF Follow
<1>2. /\ Running(u) /\ status'[u] # "running" /\ kind[u] = "viewer" /\ ~hit'[u]
      /\ \A v \in Programs \ {u} : ~Running(v)
  BY DEF Undisturbed
<1>3. ~UNCHANGED vars  BY <1>2 DEF vars, Running
<1>4. ASSUME NEW v \in Programs, Start(v)  PROVE FALSE
  <2>1. v # u  BY <1>2, <1>4 DEF Start
  <2>2. status'[u] = status[u]  BY <1>1, <1>4, <2>1, StartSteps
  <2> QED  BY <1>2, <2>2 DEF Running
<1>5. ASSUME NEW v \in Programs, StatementFails(v) \/ Crash(v)  PROVE FALSE
  <2>1. hit' = [w \in Programs |-> hit[w] \/ Running(w)]
    BY <1>5 DEF StatementFails, Crash, Mishap
  <2>2. hit'[u] = (hit[u] \/ Running(u))  BY <2>1
  <2> QED  BY <1>2, <2>2
<1>6. ASSUME NEW v \in Programs, OwnStep(v)  PROVE v = u
  BY <1>2, <1>6, OwnAdvances
<1>7. OwnStep(u)  BY <1>3, <1>4, <1>5, <1>6 DEF Next, OwnStep
<1>8. /\ \A v \in Programs \ {u} : todo'[v] = todo[v]
      /\ hit' = hit /\ kind' = kind
  BY <1>7, OwnAdvances DEF Apart
<1>9. todo'[u] = <<>>
  <2>1. ~Running(u)'  BY <1>2 DEF Running
  <2> QED  BY <1>1, <2>1 DEF PlanInv
<1>10. \A v \in Programs \ {u} : todo'[v] = <<>>
  BY <1>1, <1>2, <1>8 DEF PlanInv
<1> QED  BY <1>2, <1>7, <1>8, <1>9, <1>10

LEMMA UpgradeEnds ==
  ASSUME UpgradeInv, Follow, CleanInv, UnharmedInv, [Next]_vars, NEW u \in Programs,
         Undisturbed(u)
  PROVE  /\ Complete(db') \/ (HalfAdded(db') /\ harmed)
         /\ status'[u] = "ok" /\ Complete(db') => db'.file_count = "right"
<1>1. /\ OwnStep(u) /\ todo'[u] = <<>> /\ ~hit[u] /\ kind'[u] = "viewer"
      /\ \A v \in Programs : todo'[v] = <<>>
  BY UndisturbedStep
<1>2. kind[u] = "viewer" /\ harmed' = harmed  BY <1>1, OwnAdvances DEF Apart, Undisturbed
<1>3. /\ Columns(<<>>, "viewer", db')
      /\ \/ Names(<<>>, "viewer", db', work')
         \/ db' = db /\ ~db.timestamp
      /\ \/ Counts(todo[u], kind[u])'
         \/ status'[u] = "failed"
         \/ ~({"file_count", "fail_count"} \subseteq db'.columns)
  BY <1>1, <1>2, CleanSteps
<1>4. Layouts(db)'  BY FollowKept DEF Follow, DataInv
<1>5. Ending(<<>>, "viewer")  BY NothingLeft
<1>6. Complete(db') \/ HalfAdded(db')
  <2>1. CASE Names(<<>>, "viewer", db', work')
    <3>1. ~NamesLeft(db')  BY <1>5, <2>1 DEF Names
    <3> QED  BY <1>3, <1>4, <3>1, CompleteOrHalf
  <2>2. CASE db' = db /\ ~db.timestamp
    <3>1. ~db'.timestamp  BY <2>2
    <3> QED  BY <1>3, <1>4, <3>1, CompleteOrHalf
  <2> QED  BY <1>3, <2>1, <2>2
<1>7. HalfAdded(db') => harmed
  <2> SUFFICES ASSUME HalfAdded(db'), ~harmed  PROVE FALSE
    OBVIOUS
  <2>1. PICK a, b : Follows(a, b) /\ Done(a, db') /\ ~Done(b, db')
    BY <1>3, <1>4, CompleteOrHalf
  <2>2. UnharmedInv'  BY UnharmedKept
  <2>3. \E w \in Programs : Has(todo'[w], b)
    BY <1>2, <2>1, <2>2, Zenon DEF UnharmedInv
  <2>4. ~Has(<<>>, b)  BY ShortPlans
  <2> QED  BY <1>1, <2>3, <2>4
<1>8. ASSUME status'[u] = "ok", Complete(db')  PROVE db'.file_count = "right"
  <2>1. {"file_count", "fail_count"} \subseteq db'.columns  BY <1>8, ColumnNames DEF Complete
  <2>2. Counts(todo[u], kind[u])'  BY <1>3, <1>8, <2>1
  <2>3. ~Recounts(<<>>)  BY DEF Recounts
  <2>4. CountsKnown'  BY <1>1, <1>5, <2>2, <2>3 DEF Counts
  <2> QED  BY <1>1, <2>4 DEF CountsKnown
<1> QED  BY <1>6, <1>7, <1>8

(* Action property: an upgrade that ends with nobody else at work and no   *)
(* mishap leaves the latest schema, or one of the half added ones that     *)
(* only a crash or a tracer leaves, and with the schema complete it leaves *)
(* the file counts right (upgrade_schema, populate_counts), whatever       *)
(* others did before it was alone.                                         *)
THEOREM UpgradesComplete ==
  Spec => UpgradeCompletes
<1> DEFINE AllInv == UpgradeInv /\ Follow /\ CleanInv /\ UnharmedInv
           Ends == \A u \in Programs : Undisturbed(u) =>
                     /\ Complete(db') \/ (HalfAdded(db') /\ harmed)
                     /\ status'[u] = "ok" /\ Complete(db') => db'.file_count = "right"
<1>1. Init => AllInv  BY WrittenIsSound, FollowFirst, CleanFirst
<1>2. AllInv /\ [Next]_vars => AllInv'
  BY UpgradesKeep, FollowKept, CleanKept, UnharmedKept
<1>3. AllInv /\ [Next]_vars => [Ends]_vars
  BY UpgradeEnds
<1> HIDE DEF AllInv, Ends
<1>4. Spec => [][Ends]_vars  BY <1>1, <1>2, <1>3, PTL DEF Spec
<1> QED  BY <1>4 DEF UpgradeCompletes, Ends
=============================================================================
