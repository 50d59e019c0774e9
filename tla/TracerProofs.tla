---------------------------- MODULE TracerProofs ----------------------------
(***************************************************************************)
(* Proofs about the tracer and the books of its session.                   *)
(*                                                                         *)
(* Two facts about the kernel are assumed wherever they are used: nothing  *)
(* of a child but its initial stop is reported before the fork event of    *)
(* its parent (EarlyReports # "any"), and nobody kills a tracee (~Kills).  *)
(* TLC shows that neither can be spared.                                   *)
(*                                                                         *)
(* The argument: an incarnation is unhandled from its fork until the       *)
(* handler of its parent's fork event has run.  While it is, it still      *)
(* occupies its pid and the session has never heard of it; from then on    *)
(* the row with its pid's current synthetic id is its own, until another   *)
(* occupant of the pid is handled, which is after its death was.           *)
(***************************************************************************)
EXTENDS Tracer, TLAPS

KernelTypes ==
  /\ task \in [Pids -> Task]
  /\ \A p \in Pids : task[p].why \in {"exec", "access"} => task[p].file \in Files
  /\ born \in Seq([pid : Pids, parent : Nat])
  /\ work \in Nat
  /\ report \in [pid : Pids \cup {NoPid}, of : Task]
  /\ report.of.why \in {"exec", "access"} => report.of.file \in Files

BookTypes ==
  /\ procs \in [Pids -> ProcessState]
  /\ session \in Session
  /\ observed \subseteq [inc : Nat, file : Files]
  /\ buried \subseteq Nat
  /\ closed \in BOOLEAN

(* p waits in the stop of a fork event that the tracer has not handled. *)
Announcing(p) ==
  Stopped(p) /\ task[p].why = "fork" /\ (~task[p].told \/ report.pid = p)

(* The incarnations the session has not heard of yet. *)
Unhandled == {task[p].child : p \in {q \in Pids : Announcing(q)}}

KernelInv ==
  /\ \A p \in Pids : task[p].state = "free" => task[p] = FreeTask
  /\ \A p \in Pids : task[p].state # "free" =>
       task[p].inc \in DOMAIN born /\ born[task[p].inc].pid = p
  /\ \A p \in Pids : Stopped(p) /\ task[p].why = "fork" =>
       /\ task[p].child \in DOMAIN born
       /\ born[task[p].child].parent = task[p].inc
  /\ \A p \in Pids : task[p].told \/ task[p].why # "none" => Stopped(p)

(* An unhandled incarnation occupies its pid, alive, and nothing of it but *)
(* its initial stop has been reported.                                     *)
Hidden(i) ==
  /\ task[born[i].pid].inc = i
  /\ ~Zombie(born[i].pid)
  /\ Stopped(born[i].pid) /\ task[born[i].pid].why # "initial"
       => ~task[born[i].pid].told

(* A tracee reported stopped stays there until it is handled. *)
StopReported ==
  /\ report.pid \in Pids
  /\ report.of.state = "stopped"
  /\ task[report.pid] = [report.of EXCEPT !.told = TRUE]
  /\ report.of.why # "initial" => report.of.inc \notin Unhandled

(* The pid of a death that is reported is free, or has an unhandled owner. *)
DeathReported ==
  /\ report.pid \in Pids
  /\ report.of.state = "zombie"
  /\ report.of.inc \in DOMAIN born \ Unhandled
  /\ born[report.of.inc].pid = report.pid
  /\ \/ task[report.pid] = FreeTask
     \/ \E i \in Unhandled : task[report.pid] = StoppedTask(i, "initial")

TaskInv ==
  /\ KernelInv
  /\ \A i \in Unhandled : Hidden(i)
  /\ report = NoReport \/ StopReported \/ DeathReported

(* The row with the current id of pid p is that of incarnation i. *)
Owner(s, p, i) ==
  /\ s.gen[p] # NoGeneration
  /\ \E r \in s.rows : r.id = Synth(s.gen[p], p) /\ r.inc = i

(* The ids given out so far, and those of pid p. *)
IdOf(s, r, p) == s.gen[p] # NoGeneration /\ \E g \in 0..s.gen[p] : r.id = Synth(g, p)

(* Rows are told apart by id and by incarnation and are filled in by their *)
(* own deaths; every access has its row; what a pid has seen was seen by   *)
(* its owner.                                                              *)
Books(s) ==
  /\ s.expect = {} /\ s.collisions = 0
  /\ \A r \in s.rows : \E p \in Pids : IdOf(s, r, p)
  /\ \A r1, r2 \in s.rows : r1.id = r2.id \/ r1.inc = r2.inc => r1 = r2
  /\ \A r \in s.rows : {r.end, r.usage} \subseteq {NoInc, r.inc}
  /\ \A a \in s.accesses : \E r \in s.rows : r.inc = a.inc /\ r.id = a.id
  /\ \A p \in Pids : \A f \in s.seen[p] :
       \E a \in s.accesses : a.file = f /\ Owner(s, p, a.inc)

(* p's occupant is one the session has heard of. *)
Now(p) == task[p].inc # NoInc /\ task[p].inc \notin Unhandled

OccupantInv ==
  \A p \in Pids : Now(p) => /\ Owner(session, p, task[p].inc)
                            /\ procs[p].known /\ procs[p].ppid # NoPid
DyingInv ==
  report.of.state = "zombie" => Owner(session, report.pid, report.of.inc)
UsageInv ==
  \A p \in Pids : procs[p].usage # NoInc =>
    procs[p].ppid # NoPid /\ Owner(session, p, procs[p].usage)
BuriedInv ==
  \A i \in buried : /\ \E r \in session.rows : r.inc = i /\ r.end = i
                    /\ \A p \in Pids : task[p].inc # i
                    /\ report.of.inc # i

BookInv ==
  /\ Books(session)
  /\ \A r \in session.rows : r.inc \in DOMAIN born \ Unhandled
  /\ OccupantInv /\ DyingInv /\ UsageInv /\ BuriedInv
  /\ DedupLosesNothing

TracerInv == KernelTypes /\ TaskInv /\ BookTypes /\ BookInv

-----------------------------------------------------------------------------
(* The session *)

(* PID_GEN_STRIDE is greater than every pid, so that an id tells its pid   *)
(* and its generation (current_synth).                                     *)
LEMMA MultiplesAreApart ==
  ASSUME NEW g \in Nat, NEW h \in Nat, g < h
  PROVE  h * PidStride >= g * PidStride + PidStride
<1> DEFINE d == h - g - 1
<1>1. d \in Nat /\ h = g + 1 + d  OBVIOUS
<1>2. PidStride \in Nat  BY StrideAssumption
<1>3. d * PidStride \in Nat  BY <1>1, <1>2
<1>4. h * PidStride = g * PidStride + PidStride + d * PidStride  BY <1>1, <1>2
<1> QED  BY <1>2, <1>3, <1>4

LEMMA SynthIsLinear ==
  ASSUME NEW g \in Nat, NEW p \in Pids
  PROVE  Synth(g, p) = g * PidStride + p /\ Synth(g, p) \in Nat /\ p \in 0..(PidStride - 1)
<1>1. PidStride \in Nat /\ p \in Nat /\ p < PidStride
  BY StrideAssumption, ProcessesAssumption
<1>2. CASE g = 0  BY <1>1, <1>2 DEF Synth, NoGeneration
<1>3. CASE g # 0  BY <1>1, <1>3 DEF Synth, NoGeneration
<1> QED  BY <1>2, <1>3

LEMMA SynthTellsApart ==
  ASSUME NEW g \in Nat, NEW h \in Nat, NEW p \in Pids, NEW q \in Pids,
         Synth(g, p) = Synth(h, q)
  PROVE  g = h /\ p = q
<1>1. g * PidStride + p = h * PidStride + q /\ p < PidStride /\ q < PidStride
      /\ p \in Nat /\ q \in Nat /\ PidStride \in Nat
  BY SynthIsLinear, StrideAssumption, ProcessesAssumption
<1>2. ~(g < h)  BY <1>1, MultiplesAreApart
<1>3. ~(h < g)  BY <1>1, MultiplesAreApart
<1>4. g = h  BY <1>2, <1>3
<1> QED  BY <1>1, <1>4

(* A start inserts a row under an id nobody has; the incarnation then owns *)
(* the pid.                                                                *)
LEMMA StartAddsARow ==
  ASSUME NEW s \in Session, Books(s), NEW p \in Pids,
         NEW ppid \in Pids \cup {NoPid, TracerPid}, NEW i \in Nat,
         \A r \in s.rows : r.inc # i,
         NEW t, t = OnProcessStart(s, p, ppid, i)
  PROVE  /\ t \in Session /\ Books(t)
         /\ t.accesses = s.accesses
         /\ s.rows \subseteq t.rows
         /\ \A r \in t.rows \ s.rows : r.inc = i
         /\ Owner(t, p, i)
         /\ \A q \in Pids \ {p} : \A j : Owner(s, q, j) => Owner(t, q, j)
<1> DEFINE g  == IF s.gen[p] = NoGeneration THEN 0 ELSE s.gen[p] + 1
           u  == [s EXCEPT !.gen[p] = g, !.seen[p] = {}, !.live = @ \cup {p}]
           id == Synth(g, p)
           parent == CurrentSynth(u, ppid)
           row == [id |-> id, ppid |-> parent, inc |-> i, end |-> NoInc, usage |-> NoInc]
<1>1. s.expect = {} /\ s.gen \in [Pids -> Nat \cup {NoGeneration}]
      /\ s.rows \in SUBSET Row /\ s.seen \in [Pids -> SUBSET Files]
      /\ s.live \in SUBSET Pids /\ s.accesses \in SUBSET Access
      /\ s.lostExitStarts \in Nat /\ s.collisions = 0
      /\ s.gen[p] \in Nat \cup {NoGeneration}
  BY DEF Session, Books
<1>2. g \in Nat /\ id \in Nat  BY <1>1, SynthIsLinear DEF NoGeneration
<1>3. \A r \in s.rows : r.id # id
  <2> SUFFICES ASSUME NEW r \in s.rows, r.id = id  PROVE FALSE
    OBVIOUS
  <2>1. PICK q \in Pids : IdOf(s, r, q)  BY DEF Books
  <2>2. PICK h \in 0..s.gen[q] : r.id = Synth(h, q)  BY <2>1 DEF IdOf
  <2>3. s.gen[q] \in Nat  BY <1>1, <2>1 DEF IdOf
  <2>4. h = g /\ q = p  BY <1>2, <2>2, <2>3, SynthTellsApart
  <2> QED  BY <1>1, <2>1, <2>2, <2>3, <2>4 DEF IdOf
<1> DEFINE f == ForgetSeen(s, p)
           w == StartGeneration(f, p)
           v == [w EXCEPT !.live = @ \cup {p}]
<1>21. f \in Session /\ f.gen = s.gen /\ f.live = s.live /\ f.expect = {}
      /\ f.seen = [s.seen EXCEPT ![p] = {}] /\ f.rows = s.rows
      /\ f.accesses = s.accesses /\ f.collisions = 0
  BY <1>1 DEF ForgetSeen, Session
<1>22. w \in Session /\ w.gen = [s.gen EXCEPT ![p] = g] /\ w.expect = {}
      /\ w.seen = f.seen /\ w.rows = s.rows /\ w.accesses = s.accesses
      /\ w.collisions = 0
  <2> HIDE DEF f
  <2>1. CASE s.gen[p] = NoGeneration
    <3>1. w = [f EXCEPT !.gen[p] = 0]  BY <1>21, <2>1 DEF StartGeneration
    <3> QED  BY <1>21, <2>1, <3>1 DEF Session
  <2>2. CASE s.gen[p] # NoGeneration
    <3>1. w = [f EXCEPT !.gen[p] = @ + 1,
                        !.lostExitStarts = IF p \in f.live THEN @ + 1 ELSE @]
      BY <1>21, <2>2 DEF StartGeneration
    <3>2. s.gen[p] + 1 \in Nat /\ f.lostExitStarts \in Nat
      BY <1>1, <1>21, <2>2 DEF Session
    <3>3. w.gen = [s.gen EXCEPT ![p] = g]  BY <1>21, <2>2, <3>1 DEF Session
    <3>4. [s.gen EXCEPT ![p] = g] \in [Pids -> Nat \cup {NoGeneration}]
      BY <1>1, <1>2
    <3>5. w.lostExitStarts \in Nat  BY <1>21, <3>1, <3>2 DEF Session
    <3>6. w.seen = f.seen /\ w.rows = f.rows /\ w.accesses = f.accesses
          /\ w.collisions = 0 /\ w.expect = {} /\ w.live = f.live
      BY <1>21, <3>1 DEF Session
    <3>7. w = [gen |-> w.gen, live |-> w.live, expect |-> w.expect, seen |-> w.seen,
               rows |-> w.rows, accesses |-> w.accesses,
               lostExitStarts |-> w.lostExitStarts, collisions |-> w.collisions]
      BY <1>21, <3>1 DEF Session
    <3> QED  BY <1>21, <3>3, <3>4, <3>5, <3>6, <3>7 DEF Session
  <2> QED  BY <2>1, <2>2
<1>4. v \in Session /\ v.gen = [s.gen EXCEPT ![p] = g] /\ v.expect = {}
      /\ v.seen = [s.seen EXCEPT ![p] = {}] /\ v.rows = s.rows
      /\ v.accesses = s.accesses /\ v.collisions = 0
  <2> HIDE DEF w, f
  <2> QED  BY <1>21, <1>22 DEF Session
<1>5. CurrentSynth(v, p) = id /\ CurrentSynth(v, ppid) = parent
  <2> HIDE DEF w, f, v
  <2>1. u.gen = [s.gen EXCEPT ![p] = g]  BY <1>1 DEF Session
  <2> QED  BY <1>1, <1>4, <2>1 DEF CurrentSynth
<1>6. t = [v EXCEPT !.rows = @ \cup {row}]
  <2>1. t = InsertRow(v, [id |-> CurrentSynth(v, p), ppid |-> CurrentSynth(v, ppid),
                          inc |-> i, end |-> NoInc, usage |-> NoInc])
    BY DEF OnProcessStart
  <2>2. t = InsertRow(v, row)  BY <1>5, <2>1
  <2> HIDE DEF v
  <2> QED  BY <1>3, <1>4, <2>2 DEF InsertRow, Ids
<1> HIDE DEF w, f, v
<1>7. t.gen = [s.gen EXCEPT ![p] = g] /\ t.seen = [s.seen EXCEPT ![p] = {}]
      /\ t.rows = s.rows \cup {row} /\ t.accesses = s.accesses
      /\ t.expect = {} /\ t.collisions = 0
      /\ row.id = id /\ row.inc = i /\ row.end = NoInc /\ row.usage = NoInc
  BY <1>4, <1>6 DEF Session
<1>8. parent \in Nat
  <2>1. u.gen = [s.gen EXCEPT ![p] = g]  BY <1>1 DEF Session
  <2>2. CASE ppid \in Pids
    <3>1. u.gen[ppid] \in Nat \cup {NoGeneration}  BY <1>1, <1>2, <2>1, <2>2
    <3>2. CASE u.gen[ppid] \in Nat  BY <2>2, <3>2, SynthIsLinear DEF CurrentSynth
    <3>3. CASE u.gen[ppid] = NoGeneration
      BY <2>2, <3>3, ProcessesAssumption DEF CurrentSynth, Synth
    <3> QED  BY <3>1, <3>2, <3>3
  <2>3. CASE ppid \notin Pids
    BY <2>3, ProcessesAssumption DEF CurrentSynth, NoPid
  <2> QED  BY <2>2, <2>3
<1>9. t \in Session
  <2>1. row \in Row  BY <1>2, <1>8 DEF Row, NoInc
  <2>2. v.rows \cup {row} \in SUBSET Row  BY <1>1, <1>4, <2>1
  <2> HIDE DEF row
  <2> QED  BY <1>4, <1>6, <2>2 DEF Session
<1>10. Owner(t, p, i)
  <2>1. t.gen[p] = g  BY <1>1, <1>7
  <2>2. row \in t.rows /\ row.id = Synth(g, p) /\ row.inc = i  BY <1>7
  <2>3. g # NoGeneration  BY <1>2 DEF NoGeneration
  <2> HIDE DEF row, g
  <2> QED  BY <2>1, <2>2, <2>3 DEF Owner
<1>11. \A q \in Pids \ {p} : \A j : Owner(s, q, j) => Owner(t, q, j)
  BY <1>1, <1>7 DEF Owner
<1>12. Books(t)
  <2>1. \A r \in t.rows : \E q \in Pids : IdOf(t, r, q)
    <3> SUFFICES ASSUME NEW r \in t.rows  PROVE \E q \in Pids : IdOf(t, r, q)
      OBVIOUS
    <3>1. CASE r = row
      <4>1. t.gen[p] = g /\ r.id = Synth(g, p) /\ g \in 0..g
        BY <1>1, <1>2, <1>7, <3>1
      <4> QED  BY <1>2, <4>1 DEF IdOf, NoGeneration
    <3>2. CASE r \in s.rows
      <4>1. PICK q \in Pids : IdOf(s, r, q)  BY <3>2 DEF Books
      <4>2. PICK h \in 0..s.gen[q] : r.id = Synth(h, q)  BY <4>1 DEF IdOf
      <4>3. s.gen[q] \in Nat  BY <1>1, <4>1 DEF IdOf
      <4>4. t.gen[q] \in Nat /\ s.gen[q] <= t.gen[q]
        BY <1>1, <1>2, <1>7, <4>3 DEF NoGeneration
      <4>5. h \in 0..t.gen[q]  BY <4>3, <4>4
      <4> QED  BY <4>2, <4>4, <4>5 DEF IdOf, NoGeneration
    <3> QED  BY <1>7, <3>1, <3>2
  <2>2. \A r1, r2 \in t.rows : r1.id = r2.id \/ r1.inc = r2.inc => r1 = r2
    BY <1>3, <1>7 DEF Books
  <2>3. \A r \in t.rows : {r.end, r.usage} \subseteq {NoInc, r.inc}
    BY <1>7 DEF Books
  <2>4. \A a \in t.accesses : \E r \in t.rows : r.inc = a.inc /\ r.id = a.id
    BY <1>7 DEF Books
  <2>5. \A q \in Pids : \A x \in t.seen[q] :
          \E a \in t.accesses : a.file = x /\ Owner(t, q, a.inc)
    BY <1>1, <1>7, <1>11 DEF Books
  <2> QED  BY <1>7, <2>1, <2>2, <2>3, <2>4, <2>5 DEF Books
<1> QED  BY <1>7, <1>9, <1>10, <1>11, <1>12

LEMMA OwnerIsTheOnlyOne ==
  ASSUME NEW s, Books(s), NEW p \in Pids, NEW i, Owner(s, p, i)
  PROVE  /\ s.gen[p] # NoGeneration /\ CurrentSynth(s, p) = Synth(s.gen[p], p)
         /\ \E r \in s.rows :
              /\ r.id = CurrentSynth(s, p) /\ r.inc = i
              /\ \A r2 \in s.rows : r2.id = CurrentSynth(s, p) \/ r2.inc = i => r2 = r
         /\ \A j : Owner(s, p, j) => j = i
BY DEF Owner, Books, CurrentSynth

(* An exec replaces the row of the incarnation under the same id, with     *)
(* neither an end nor a usage.                                             *)
LEMMA ReimageReplacesTheRow ==
  ASSUME NEW s \in Session, Books(s), NEW p \in Pids,
         NEW ppid \in Pids \cup {NoPid, TracerPid}, NEW i \in Nat,
         Owner(s, p, i), NEW t, t = Reimage(s, p, ppid, i)
  PROVE  /\ t \in Session /\ Books(t)
         /\ t.accesses = s.accesses
         /\ {r \in s.rows : r.inc # i} \subseteq t.rows
         /\ \A r \in t.rows : r \in s.rows \/ r.inc = i
         /\ \A q \in Pids : \A j : Owner(s, q, j) => Owner(t, q, j)
<1> DEFINE id == Synth(s.gen[p], p)
           d  == DeleteProcess(s, p)
           f  == ForgetSeen(d, p)
           w  == StartGeneration(f, p)
           v  == [w EXCEPT !.live = @ \cup {p}]
           parent == CurrentSynth(s, ppid)
           row == [id |-> id, ppid |-> parent, inc |-> i, end |-> NoInc, usage |-> NoInc]
<1>1. s.expect = {} /\ s.gen \in [Pids -> Nat \cup {NoGeneration}]
      /\ s.rows \in SUBSET Row /\ s.seen \in [Pids -> SUBSET Files]
      /\ s.live \in SUBSET Pids /\ s.accesses \in SUBSET Access
      /\ s.lostExitStarts \in Nat /\ s.collisions = 0
      /\ s.gen[p] \in Nat
  BY DEF Session, Books, Owner
<1>2. CurrentSynth(s, p) = id  BY DEF CurrentSynth
<1>3. PICK old \in s.rows : /\ old.id = id /\ old.inc = i
                            /\ \A r \in s.rows : r.id = id \/ r.inc = i => r = old
  BY <1>2, OwnerIsTheOnlyOne
<1>4. d \in Session /\ d.gen = s.gen /\ d.expect = {p} /\ d.seen = s.seen
      /\ d.rows = s.rows \ {old} /\ d.accesses = s.accesses /\ d.collisions = 0
  <2>1. d = [s EXCEPT !.expect = @ \cup {p}, !.rows = {r \in @ : r.id # id}]
    BY <1>2 DEF DeleteProcess
  <2>2. {r \in s.rows : r.id # id} = s.rows \ {old}  BY <1>3
  <2>3. {r \in s.rows : r.id # id} \in SUBSET Row  BY <1>1
  <2>4. s.expect \cup {p} = {p} /\ {p} \in SUBSET Pids  BY <1>1
  <2>5. d = [s EXCEPT !.expect = {p}, !.rows = s.rows \ {old}]
    BY <2>1, <2>2, <2>4
  <2>6. s.rows \ {old} \in SUBSET Row  BY <1>1
  <2> HIDE DEF d
  <2> QED  BY <1>1, <2>4, <2>5, <2>6 DEF Session
<1>5. f \in Session /\ f.gen = s.gen /\ f.expect = {p} /\ f.seen = [s.seen EXCEPT ![p] = {}]
      /\ f.rows = s.rows \ {old} /\ f.accesses = s.accesses /\ f.collisions = 0
  <2> HIDE DEF d
  <2> QED  BY <1>1, <1>4 DEF ForgetSeen, Session
<1>6. w \in Session /\ w.gen = s.gen /\ w.expect = {} /\ w.seen = f.seen
      /\ w.rows = f.rows /\ w.accesses = f.accesses /\ w.collisions = 0
  <2> HIDE DEF d, f
  <2>1. w = [f EXCEPT !.expect = @ \ {p}]
    BY <1>1, <1>5 DEF StartGeneration, NoGeneration
  <2> QED  BY <1>5, <2>1 DEF Session
<1>7. v \in Session /\ v.gen = s.gen /\ v.expect = {} /\ v.seen = [s.seen EXCEPT ![p] = {}]
      /\ v.rows = s.rows \ {old} /\ v.accesses = s.accesses /\ v.collisions = 0
  <2> HIDE DEF d, f, w
  <2> QED  BY <1>5, <1>6 DEF Session
<1>8. t = [v EXCEPT !.rows = @ \cup {row}]
  <2>1. t = InsertRow(v, [id |-> CurrentSynth(v, p), ppid |-> CurrentSynth(v, ppid),
                          inc |-> i, end |-> NoInc, usage |-> NoInc])
    BY DEF Reimage, OnProcessStart
  <2> HIDE DEF v
  <2>2. CurrentSynth(v, p) = id /\ CurrentSynth(v, ppid) = parent
    BY <1>7 DEF CurrentSynth
  <2>3. t = InsertRow(v, row)  BY <2>1, <2>2
  <2>4. row.id \notin Ids(v.rows)  BY <1>3, <1>7 DEF Ids
  <2> QED  BY <2>3, <2>4 DEF InsertRow
<1>9. t.gen = s.gen /\ t.seen = [s.seen EXCEPT ![p] = {}]
      /\ t.rows = (s.rows \ {old}) \cup {row} /\ t.accesses = s.accesses
      /\ t.expect = {} /\ t.collisions = 0
  <2> HIDE DEF v
  <2> QED  BY <1>7, <1>8 DEF Session
<1>10. t \in Session
  <2>1. id \in Nat  BY <1>1, SynthIsLinear
  <2>2. parent \in Nat
    <3>1. CASE ppid \in Pids
      <4>1. s.gen[ppid] \in Nat \cup {NoGeneration}  BY <1>1, <3>1
      <4>2. CASE s.gen[ppid] \in Nat  BY <3>1, <4>2, SynthIsLinear DEF CurrentSynth
      <4>3. CASE s.gen[ppid] = NoGeneration
        BY <3>1, <4>3, ProcessesAssumption DEF CurrentSynth, Synth
      <4> QED  BY <4>1, <4>2, <4>3
    <3>2. CASE ppid \notin Pids
      BY <3>2, ProcessesAssumption DEF CurrentSynth, NoPid
    <3> QED  BY <3>1, <3>2
  <2>3. row \in Row  BY <2>1, <2>2 DEF Row, NoInc
  <2>4. v.rows \cup {row} \in SUBSET Row  BY <1>1, <1>7, <2>3
  <2> HIDE DEF v, row
  <2> QED  BY <1>7, <1>8, <2>4 DEF Session
<1> DEFINE KeptBy(r) == IF r = old THEN row ELSE r
<1>11. \A r \in s.rows : KeptBy(r) \in t.rows /\ KeptBy(r).id = r.id /\ KeptBy(r).inc = r.inc
  BY <1>3, <1>9
<1>12. \A r \in t.rows : \E r0 \in s.rows : r = KeptBy(r0)
  BY <1>9
<1>13. \A q \in Pids : \A j : Owner(s, q, j) => Owner(t, q, j)
  <2> HIDE DEF KeptBy
  <2> QED  BY <1>9, <1>11 DEF Owner
<1>14. Books(t)
  <2>1. \A r \in t.rows : \E q \in Pids : IdOf(t, r, q)
    <3> HIDE DEF KeptBy
    <3> QED  BY <1>9, <1>11, <1>12 DEF Books, IdOf
  <2>2. \A r1, r2 \in t.rows : r1.id = r2.id \/ r1.inc = r2.inc => r1 = r2
    <3> HIDE DEF KeptBy
    <3> QED  BY <1>11, <1>12 DEF Books
  <2>3. \A r \in t.rows : {r.end, r.usage} \subseteq {NoInc, r.inc}
    BY <1>9 DEF Books
  <2>4. \A a \in t.accesses : \E r \in t.rows : r.inc = a.inc /\ r.id = a.id
    <3> HIDE DEF KeptBy
    <3> QED  BY <1>9, <1>11 DEF Books
  <2>5. \A q \in Pids : \A x \in t.seen[q] :
          \E a \in t.accesses : a.file = x /\ Owner(t, q, a.inc)
    BY <1>1, <1>9, <1>13 DEF Books
  <2> QED  BY <1>9, <2>1, <2>2, <2>3, <2>4, <2>5 DEF Books
<1>15. \A r \in t.rows : r \in s.rows \/ r.inc = i  BY <1>9
<1>16. {r \in s.rows : r.inc # i} \subseteq t.rows  BY <1>3, <1>9
<1> QED  BY <1>9, <1>10, <1>13, <1>14, <1>15, <1>16

(* An access of the owner of a pid is recorded for it, or has been.        *)
LEMMA AccessIsTheOwners ==
  ASSUME NEW s \in Session, Books(s), NEW p \in Pids, NEW file \in Files, NEW i \in Nat,
         Owner(s, p, i), NEW t, t = OnAccess(s, p, file, i)
  PROVE  /\ t \in Session /\ Books(t)
         /\ t.rows = s.rows /\ t.gen = s.gen
         /\ s.accesses \subseteq t.accesses
         /\ \E a \in t.accesses : a.inc = i /\ a.file = file
<1>1. CASE file \in s.seen[p]
  BY <1>1, OwnerIsTheOnlyOne DEF OnAccess, Books
<1>2. CASE file \notin s.seen[p]
  <2> DEFINE access == [id |-> CurrentSynth(s, p), file |-> file, inc |-> i]
  <2>1. t = [s EXCEPT !.seen[p] = @ \cup {file}, !.accesses = @ \cup {access}]
    BY <1>2 DEF OnAccess
  <2>2. s.gen[p] \in Nat  BY DEF Session, Owner
  <2>3. CurrentSynth(s, p) \in Nat  BY <2>2, SynthIsLinear DEF CurrentSynth
  <2>4. access \in Access  BY <2>3 DEF Access
  <2>5. access.inc = i /\ access.file = file /\ access.id = CurrentSynth(s, p)
    OBVIOUS
  <2> HIDE DEF access
  <2>6. t.rows = s.rows /\ t.gen = s.gen /\ t.expect = s.expect /\ t.collisions = s.collisions
        /\ t.accesses = s.accesses \cup {access}
        /\ t.seen = [s.seen EXCEPT ![p] = @ \cup {file}]
    BY <2>1 DEF Session
  <2>7. t \in Session
    <3>1. [s.seen EXCEPT ![p] = @ \cup {file}] \in [Pids -> SUBSET Files]  BY DEF Session
    <3>2. s.accesses \cup {access} \in SUBSET Access  BY <2>4 DEF Session
    <3> QED  BY <2>1, <3>1, <3>2 DEF Session
  <2>8. \A q \in Pids : \A j : Owner(s, q, j) <=> Owner(t, q, j)  BY <2>6 DEF Owner
  <2>9. \A a \in t.accesses : \E r \in t.rows : r.inc = a.inc /\ r.id = a.id
    BY <2>5, <2>6, OwnerIsTheOnlyOne DEF Books
  <2>10. \A q \in Pids : \A x \in t.seen[q] :
           \E a \in t.accesses : a.file = x /\ Owner(t, q, a.inc)
    <3> SUFFICES ASSUME NEW q \in Pids, NEW x \in t.seen[q]
                 PROVE  \E a \in t.accesses : a.file = x /\ Owner(t, q, a.inc)
      OBVIOUS
    <3>1. s.seen \in [Pids -> SUBSET Files]  BY DEF Session
    <3>2. CASE x \in s.seen[q]  BY <2>6, <2>8, <3>2 DEF Books
    <3>3. CASE x \notin s.seen[q]
      <4>1. q = p /\ x = file  BY <2>6, <3>1, <3>3
      <4> QED  BY <2>5, <2>6, <2>8, <4>1
    <3> QED  BY <3>2, <3>3
  <2>11. \A r \in t.rows : \E q \in Pids : IdOf(t, r, q)  BY <2>6 DEF Books, IdOf
  <2>12. Books(t)  BY <2>6, <2>9, <2>10, <2>11 DEF Books
  <2> QED  BY <2>5, <2>6, <2>7, <2>12
<1> QED  BY <1>1, <1>2

(* A death fills in the row of the owner of the pid. *)
LEMMA ExitFillsTheOwnersRow ==
  ASSUME NEW s \in Session, Books(s), NEW p \in Pids, NEW i \in Nat, NEW u \in {NoInc, i},
         Owner(s, p, i), NEW t, t = OnProcessExit(s, p, i, u)
  PROVE  /\ t \in Session /\ Books(t)
         /\ t.accesses = s.accesses
         /\ \A r \in t.rows : \E r0 \in s.rows : r0.inc = r.inc
         /\ \A r \in s.rows : r.inc # i => r \in t.rows
         /\ \E r \in t.rows : r.inc = i /\ r.end = i
         /\ \A q \in Pids : \A j : Owner(s, q, j) => Owner(t, q, j)
<1> DEFINE id == CurrentSynth(s, p)
           Fill(r) == IF r.id = id THEN [r EXCEPT !.end = i, !.usage = u] ELSE r
<1>1. s.gen \in [Pids -> Nat \cup {NoGeneration}] /\ s.rows \in SUBSET Row
      /\ s.seen \in [Pids -> SUBSET Files]
  BY DEF Session
<1>2. PICK own \in s.rows : /\ own.id = id /\ own.inc = i
                            /\ \A r \in s.rows : r.id = id \/ r.inc = i => r = own
  BY OwnerIsTheOnlyOne
<1>3. \A r \in s.rows : /\ Fill(r) \in Row /\ Fill(r).id = r.id /\ Fill(r).inc = r.inc
                        /\ r.inc # i => Fill(r) = r
                        /\ r.inc = i => Fill(r).end = i /\ Fill(r).usage = u
  <2> SUFFICES ASSUME NEW r \in s.rows
               PROVE  /\ Fill(r) \in Row /\ Fill(r).id = r.id /\ Fill(r).inc = r.inc
                      /\ r.inc # i => Fill(r) = r
                      /\ r.inc = i => Fill(r).end = i /\ Fill(r).usage = u
    OBVIOUS
  <2>1. r \in Row /\ u \in Nat  BY <1>1 DEF NoInc
  <2>2. CASE r.id = id
    <3>1. r.inc = i /\ Fill(r) = [r EXCEPT !.end = i, !.usage = u]
      BY <1>2, <2>2
    <3> HIDE DEF Fill, id
    <3> QED  BY <2>1, <3>1 DEF Row
  <2>3. CASE r.id # id
    <3>1. r.inc # i /\ Fill(r) = r  BY <1>2, <2>3
    <3> HIDE DEF Fill, id
    <3> QED  BY <2>1, <3>1
  <2> QED  BY <2>2, <2>3
<1>4. t = [s EXCEPT !.seen[p] = {}, !.live = @ \ {p}, !.expect = @ \ {p},
                    !.rows = {Fill(r) : r \in @}]
  BY DEF OnProcessExit
<1> HIDE DEF Fill
<1>5. t.gen = s.gen /\ t.accesses = s.accesses /\ t.collisions = 0 /\ t.expect = {}
      /\ t.seen = [s.seen EXCEPT ![p] = {}] /\ t.rows = {Fill(r) : r \in s.rows}
  BY <1>4 DEF Session, Books
<1>6. t \in Session
  <2>1. {Fill(r) : r \in s.rows} \in SUBSET Row  BY <1>3
  <2>2. [s.seen EXCEPT ![p] = {}] \in [Pids -> SUBSET Files]  BY <1>1
  <2> DEFINE seen == [s.seen EXCEPT ![p] = {}]
             R == {Fill(r) : r \in s.rows}
  <2>3. t = [s EXCEPT !.seen = seen, !.live = @ \ {p}, !.expect = @ \ {p}, !.rows = R]
    <3>1. t = [s EXCEPT !.seen[p] = {}, !.live = @ \ {p}, !.expect = @ \ {p}, !.rows = R]
      BY <1>4, Zenon DEF R
    <3> HIDE DEF R
    <3> QED  BY <3>1 DEF seen
  <2> HIDE DEF seen, R
  <2>4. s.live \ {p} \in SUBSET Pids /\ s.expect \ {p} \in SUBSET Pids
    BY DEF Session
  <2>5. seen \in [Pids -> SUBSET Files] /\ R \in SUBSET Row
    BY <2>1, <2>2 DEF seen, R
  <2> HIDE DEF Books
  <2> QED  BY <2>3, <2>4, <2>5 DEF Session
<1>7. \A q \in Pids : \A j : Owner(s, q, j) => Owner(t, q, j)
  BY <1>3, <1>5 DEF Owner
<1>8. Books(t)
  <2>1. \A r \in t.rows : \E q \in Pids : IdOf(t, r, q)
    BY <1>3, <1>5 DEF Books, IdOf
  <2>2. \A r1, r2 \in t.rows : r1.id = r2.id \/ r1.inc = r2.inc => r1 = r2
    BY <1>3, <1>5 DEF Books
  <2>3. \A r \in t.rows : {r.end, r.usage} \subseteq {NoInc, r.inc}
    BY <1>3, <1>5 DEF Books
  <2>4. \A a \in t.accesses : \E r \in t.rows : r.inc = a.inc /\ r.id = a.id
    BY <1>3, <1>5 DEF Books
  <2>5. \A q \in Pids : \A x \in t.seen[q] :
          \E a \in t.accesses : a.file = x /\ Owner(t, q, a.inc)
    BY <1>1, <1>5, <1>7 DEF Books
  <2> QED  BY <1>5, <2>1, <2>2, <2>3, <2>4, <2>5 DEF Books
<1> QED  BY <1>2, <1>3, <1>5, <1>6, <1>7, <1>8

-----------------------------------------------------------------------------
(* The kernel and its reports *)

(* What a step that leaves the books alone does to the incarnations: new   *)
(* ones begin unhandled, and a pid changes hands only to such a one.       *)
Advances ==
  /\ DOMAIN born \subseteq DOMAIN born'
  /\ Unhandled \subseteq Unhandled' /\ Unhandled' \cap DOMAIN born \subseteq Unhandled
  /\ \A p \in Pids : task'[p].inc \in {task[p].inc, NoInc} \cup Unhandled'

LEMMA AnnouncedAlike ==
  ASSUME \A q \in Pids : Announcing(q)' <=> Announcing(q),
         \A q \in Pids : Announcing(q) => task'[q].child = task[q].child
  PROVE  Unhandled' = Unhandled
<1>1. Unhandled' = {task'[p].child : p \in {q \in Pids : Announcing(q)'}}
  BY DEF Unhandled
<1>2. {task'[p].child : p \in {q \in Pids : Announcing(q)'}}
        = {task[p].child : p \in {q \in Pids : Announcing(q)}}
  OBVIOUS
<1> QED  BY <1>1, <1>2 DEF Unhandled

LEMMA UnhandledAreBorn ==
  ASSUME TaskInv, KernelTypes
  PROVE  /\ Unhandled \subseteq DOMAIN born
         /\ \A i \in DOMAIN born : i \in Nat \ {NoInc} /\ born[i].pid \in Pids
         /\ DOMAIN born = 1..Len(born) /\ Len(born) \in Nat
<1>1. Unhandled \subseteq DOMAIN born
  BY DEF Unhandled, Announcing, TaskInv, KernelInv
<1>2. DOMAIN born = 1..Len(born) /\ Len(born) \in Nat
  BY DEF KernelTypes
<1>3. \A i \in DOMAIN born : born[i] \in [pid : Pids, parent : Nat]
  <2> DEFINE B == [pid : Pids, parent : Nat]
  <2>1. born \in Seq(B)  BY DEF KernelTypes
  <2> HIDE DEF B
  <2>2. \A i \in DOMAIN born : born[i] \in B  BY <1>2, <2>1
  <2> QED  BY <2>2 DEF B
<1> QED  BY <1>1, <1>2, <1>3 DEF NoInc

LEMMA TaskShapes ==
  ASSUME NEW i \in Nat
  PROVE  /\ FreeTask \in Task /\ FreeTask.state = "free" /\ FreeTask.inc = NoInc
         /\ FreeTask.why = "none" /\ FreeTask.told = FALSE
         /\ RunningTask(i) \in Task /\ RunningTask(i).state = "running"
         /\ RunningTask(i).inc = i /\ RunningTask(i).why = "none"
         /\ RunningTask(i).told = FALSE
         /\ ZombieTask(i) \in Task /\ ZombieTask(i).state = "zombie"
         /\ ZombieTask(i).inc = i /\ ZombieTask(i).why = "none"
         /\ ZombieTask(i).told = FALSE
         /\ \A why \in Reasons :
              /\ StoppedTask(i, why) \in Task /\ StoppedTask(i, why).state = "stopped"
              /\ StoppedTask(i, why).inc = i /\ StoppedTask(i, why).why = why
              /\ StoppedTask(i, why).told = FALSE
BY DEF FreeTask, RunningTask, ZombieTask, StoppedTask, Task, NoInc, Reasons

LEMMA InitialStopShape ==
  ASSUME NEW i
  PROVE  /\ StoppedTask(i, "initial").state = "stopped" /\ StoppedTask(i, "initial").inc = i
         /\ StoppedTask(i, "initial").why = "initial" /\ StoppedTask(i, "initial").told = FALSE
BY DEF StoppedTask, FreeTask

LEMMA FreeShape ==
  /\ FreeTask.state = "free" /\ FreeTask.inc = NoInc
  /\ FreeTask.why = "none" /\ FreeTask.told = FALSE
BY DEF FreeTask

LEMMA PidOfADeath ==
  ASSUME KernelTypes, TaskInv, DeathReported
  PROVE  /\ task[report.pid].state \in {"free", "stopped"}
         /\ task[report.pid].why \in {"none", "initial"}
         /\ ~task[report.pid].told
         /\ task[report.pid].inc \in Unhandled \cup {NoInc}
<1>1. CASE task[report.pid] = FreeTask  BY <1>1, TaskShapes
<1>2. CASE \E i \in Unhandled : task[report.pid] = StoppedTask(i, "initial")
  <2>1. PICK i \in Unhandled : task[report.pid] = StoppedTask(i, "initial")  BY <1>2
  <2>2. i \in Nat  BY UnhandledAreBorn
  <2> DEFINE t == StoppedTask(i, "initial")
  <2>4. t.state = "stopped" /\ t.inc = i /\ t.why = "initial" /\ t.told = FALSE
    BY InitialStopShape
  <2> HIDE DEF t
  <2>5. task[report.pid] = t  BY <2>1 DEF t
  <2> QED  BY <2>4, <2>5
<1> QED  BY <1>1, <1>2 DEF DeathReported

(* A tracee that runs stops for something else than a fork, or one under   *)
(* job control goes on.                                                    *)
LEMMA MoveKeeps ==
  ASSUME KernelTypes, TaskInv, NEW p \in Pids, NEW t \in Task,
         task' = [task EXCEPT ![p] = t], UNCHANGED <<born, report>>, work' \in Nat,
         task[p].state \in {"running", "group_stopped"},
         t.inc = task[p].inc, t.state \in {"running", "stopped"},
         t.why # "fork", ~t.told, t.why # "none" => t.state = "stopped",
         t.why \in {"exec", "access"} => t.file \in Files
  PROVE  KernelTypes' /\ TaskInv' /\ Advances
<1>1. \A q \in Pids : task'[q] = IF q = p THEN t ELSE task[q]
  BY DEF KernelTypes
<1>2. KernelTypes'  BY <1>1 DEF KernelTypes
<1>3. Unhandled' = Unhandled
  <2>1. \A q \in Pids : Announcing(q)' <=> Announcing(q)
    BY <1>1 DEF Announcing, Stopped
  <2>2. \A q \in Pids : Announcing(q) => task'[q].child = task[q].child
    BY <1>1 DEF Announcing, Stopped
  <2> QED  BY <2>1, <2>2, AnnouncedAlike
<1>4. KernelInv'
  BY <1>1 DEF TaskInv, KernelInv, Stopped
<1>5. \A i \in Unhandled : Hidden(i)'
  BY <1>1, UnhandledAreBorn DEF TaskInv, Hidden, Stopped, Zombie
<1>6. (report = NoReport \/ StopReported \/ DeathReported)'
  <2>1. CASE report = NoReport  BY <2>1
  <2>2. CASE StopReported
    <3>1. report.pid # p  BY <2>2 DEF StopReported, KernelTypes, Task
    <3> QED  BY <1>1, <1>3, <2>2, <3>1 DEF StopReported
  <2>3. CASE DeathReported
    <3>1. task[report.pid].state \in {"free", "stopped"}  BY <2>3, PidOfADeath
    <3>2. report.pid # p  BY <3>1
    <3> QED  BY <1>1, <1>3, <2>3, <3>2 DEF DeathReported
  <2> QED  BY <2>1, <2>2, <2>3 DEF TaskInv
<1>7. TaskInv'  BY <1>3, <1>4, <1>5, <1>6 DEF TaskInv
<1>8. Advances  BY <1>1, <1>3 DEF Advances
<1> QED  BY <1>2, <1>7, <1>8

(* A death goes unreported. *)
LEMMA LoseExitKeeps ==
  ASSUME KernelTypes, TaskInv, NEW p \in Pids, LoseExit(p), UNCHANGED report
  PROVE  KernelTypes' /\ TaskInv' /\ Advances
<1>1. \A q \in Pids : task'[q] = IF q = p THEN FreeTask ELSE task[q]
  BY DEF KernelTypes, LoseExit
<1>2. UNCHANGED <<born, work, report>> /\ Zombie(p)  BY DEF LoseExit
<1>3. FreeTask \in Task /\ FreeTask.why = "none" /\ FreeTask.state = "free"
      /\ FreeTask.told = FALSE /\ FreeTask.inc = NoInc
  BY TaskShapes
<1>4. KernelTypes'
  <2>1. task' \in [Pids -> Task]  BY <1>3 DEF KernelTypes, LoseExit
  <2> QED  BY <1>1, <1>2, <1>3, <2>1 DEF KernelTypes
<1>5. Unhandled' = Unhandled
  <2>1. \A q \in Pids : Announcing(q)' <=> Announcing(q)
    BY <1>1, <1>2, <1>3 DEF Announcing, Stopped, Zombie
  <2>2. \A q \in Pids : Announcing(q) => task'[q].child = task[q].child
    BY <1>1, <1>2 DEF Announcing, Stopped, Zombie
  <2> QED  BY <2>1, <2>2, AnnouncedAlike
<1>6. KernelInv'
  BY <1>1, <1>2, <1>3 DEF TaskInv, KernelInv, Stopped
<1>7. \A i \in Unhandled : Hidden(i)'
  BY <1>1, <1>2, <1>3, UnhandledAreBorn DEF TaskInv, Hidden, Stopped, Zombie
<1>8. (report = NoReport \/ StopReported \/ DeathReported)'
  <2>1. CASE report = NoReport  BY <1>2, <2>1
  <2>2. CASE StopReported
    <3>1. report.pid # p  BY <1>2, <2>2 DEF StopReported, KernelTypes, Task, Zombie
    <3> QED  BY <1>1, <1>2, <1>5, <2>2, <3>1 DEF StopReported
  <2>3. CASE DeathReported
    <3>1. task[report.pid].state \in {"free", "stopped"}  BY <2>3, PidOfADeath
    <3>2. report.pid # p  BY <1>2, <3>1 DEF Zombie
    <3> QED  BY <1>1, <1>2, <1>5, <2>3, <3>2 DEF DeathReported
  <2> QED  BY <2>1, <2>2, <2>3 DEF TaskInv
<1>9. TaskInv'  BY <1>5, <1>6, <1>7, <1>8 DEF TaskInv
<1>10. Advances  BY <1>1, <1>2, <1>3, <1>5 DEF Advances
<1> QED  BY <1>4, <1>9, <1>10

LEMMA ResumedShape ==
  ASSUME NEW t \in Task, NEW b \in BOOLEAN
  PROVE  /\ ResumedTask(t, b) \in Task /\ ResumedTask(t, b).inc = t.inc
         /\ ResumedTask(t, b).why = "none" /\ ResumedTask(t, b).told = FALSE
         /\ ResumedTask(t, b).state \in {"running", "group_stopped", "zombie"}
         /\ ResumedTask(t, b).state = "zombie" => t.why = "exit"
<1>1. t.inc \in Nat  BY DEF Task
<1> DEFINE g == [FreeTask EXCEPT !.state = "group_stopped", !.inc = t.inc]
<1>2. g \in Task /\ g.inc = t.inc /\ g.why = "none" /\ g.told = FALSE
      /\ g.state = "group_stopped"
  BY <1>1 DEF FreeTask, Task, NoInc, Reasons
<1> HIDE DEF g
<1>3. ResumedTask(t, b) = CASE t.why = "exit" -> ZombieTask(t.inc)
                            [] t.why \in {"initial", "sigstop"} /\ b -> g
                            [] OTHER -> RunningTask(t.inc)
  BY DEF ResumedTask, g
<1>4. CASE t.why = "exit"
  <2>1. ResumedTask(t, b) = ZombieTask(t.inc)  BY <1>3, <1>4
  <2> DEFINE x == ZombieTask(t.inc)
  <2>2. x \in Task /\ x.inc = t.inc /\ x.why = "none" /\ x.told = FALSE
        /\ x.state = "zombie"
    BY <1>1, TaskShapes
  <2> HIDE DEF x
  <2>3. ResumedTask(t, b) = x  BY <2>1 DEF x
  <2> QED  BY <1>4, <2>2, <2>3
<1>5. CASE t.why \in {"initial", "sigstop"} /\ b
  <2>1. ResumedTask(t, b) = g  BY <1>3, <1>5
  <2> QED  BY <1>2, <2>1
<1>6. CASE t.why # "exit" /\ ~(t.why \in {"initial", "sigstop"} /\ b)
  <2>1. ResumedTask(t, b) = RunningTask(t.inc)  BY <1>3, <1>6
  <2> DEFINE x == RunningTask(t.inc)
  <2>2. x \in Task /\ x.inc = t.inc /\ x.why = "none" /\ x.told = FALSE
        /\ x.state = "running"
    BY <1>1, TaskShapes
  <2> HIDE DEF x
  <2>3. ResumedTask(t, b) = x  BY <2>1 DEF x
  <2> QED  BY <2>2, <2>3
<1> QED  BY <1>4, <1>5, <1>6

(* A fork: the child begins unhandled. *)
LEMMA ForkKeeps ==
  ASSUME KernelTypes, TaskInv, NEW p \in Pids, NEW c \in Pids, Fork(p, c), UNCHANGED report
  PROVE  KernelTypes' /\ TaskInv' /\ Advances
<1> DEFINE k == Len(born) + 1
           X == [StoppedTask(task[p].inc, "fork") EXCEPT !.child = k]
           Y == StoppedTask(k, "initial")
<1>1. k \in Nat \ {0} /\ k \notin DOMAIN born /\ DOMAIN born = 1..Len(born)
      /\ Len(born) \in Nat
  BY UnhandledAreBorn
<1>2. p # c /\ UNCHANGED <<work, report>> /\ task[p].inc \in Nat
      /\ task[p].state = "running" /\ task[c].state = "free"
  BY DEF Fork, Running, KernelTypes, Task
<1>3. X \in Task /\ X.state = "stopped" /\ X.inc = task[p].inc /\ X.why = "fork"
      /\ X.told = FALSE /\ X.child = k
  BY <1>1, <1>2 DEF StoppedTask, FreeTask, Task, NoInc, Reasons
<1>4. Y \in Task /\ Y.state = "stopped" /\ Y.inc = k /\ Y.why = "initial" /\ Y.told = FALSE
  BY <1>1, <1>2 DEF StoppedTask, FreeTask, Task, NoInc, Reasons
<1>5. task' = [task EXCEPT ![p] = X, ![c] = Y]  BY DEF Fork
<1> HIDE DEF X, Y
<1>6. \A q \in Pids : task'[q] = IF q = c THEN Y ELSE IF q = p THEN X ELSE task[q]
  BY <1>2, <1>5 DEF KernelTypes
<1> DEFINE e == [pid |-> c, parent |-> task[p].inc]
<1>7. born' = Append(born, e) /\ e \in [pid : Pids, parent : Nat] /\ e.pid = c
      /\ e.parent = task[p].inc
  BY <1>2 DEF Fork
<1> HIDE DEF e
<1>8. /\ born' \in Seq([pid : Pids, parent : Nat])
      /\ Len(born') = k /\ DOMAIN born' = 1..k
      /\ \A i \in DOMAIN born : born'[i] = born[i]
      /\ born'[k] = e
  BY <1>1, <1>7 DEF KernelTypes
<1>9. DOMAIN born' = DOMAIN born \cup {k}  BY <1>1, <1>8
<1>10. KernelTypes'
  <2>1. task' \in [Pids -> Task]  BY <1>3, <1>4, <1>5 DEF KernelTypes
  <2> QED  BY <1>2, <1>3, <1>4, <1>6, <1>8, <2>1 DEF KernelTypes
<1>11. \A q \in Pids : Announcing(q)' <=> Announcing(q) \/ q = p
  BY <1>2, <1>3, <1>4, <1>6 DEF Announcing, Stopped
<1>12. \A q \in Pids : Announcing(q) => task'[q].child = task[q].child
  BY <1>2, <1>6 DEF Announcing, Stopped
<1>13. Unhandled' = Unhandled \cup {k}
  <2>1. Unhandled' = {task'[q].child : q \in {r \in Pids : Announcing(r)'}}
    BY DEF Unhandled
  <2>2. task'[p].child = k  BY <1>2, <1>3, <1>6
  <2>3. {task'[q].child : q \in {r \in Pids : Announcing(r)'}}
          = {task[q].child : q \in {r \in Pids : Announcing(r)}} \cup {k}
    BY <1>11, <1>12, <2>2
  <2> QED  BY <2>1, <2>3 DEF Unhandled
<1>14. KernelInv'
  <2>1. \A q \in Pids : (task[q].state = "free" => task[q] = FreeTask)'
    BY <1>3, <1>4, <1>6 DEF TaskInv, KernelInv
  <2>5. \A q \in Pids : task[q].state # "free" =>
          task[q].inc \in DOMAIN born /\ born[task[q].inc].pid = q
    BY DEF TaskInv, KernelInv
  <2>6. \A q \in Pids : task[q].state = "stopped" /\ task[q].why = "fork" =>
          task[q].child \in DOMAIN born /\ born[task[q].child].parent = task[q].inc
    BY DEF TaskInv, KernelInv, Stopped
  <2>7. \A q \in Pids \ {p, c} : task'[q] = task[q]  BY <1>6
  <2>8. task'[p] = X /\ task'[c] = Y  BY <1>2, <1>6
  <2>2. \A q \in Pids : (task[q].state # "free" =>
           task[q].inc \in DOMAIN born /\ born[task[q].inc].pid = q)'
    <3> SUFFICES ASSUME NEW q \in Pids, task'[q].state # "free"
                 PROVE  task'[q].inc \in DOMAIN born' /\ born'[task'[q].inc].pid = q
      OBVIOUS
    <3>1. CASE q = c  BY <1>4, <1>7, <1>8, <1>9, <2>8, <3>1
    <3>2. CASE q = p
      <4>1. task[p].inc \in DOMAIN born /\ born[task[p].inc].pid = p  BY <1>2, <2>5
      <4> QED  BY <1>3, <1>8, <1>9, <2>8, <3>2, <4>1
    <3>3. CASE q \notin {p, c}
      <4>1. task[q].inc \in DOMAIN born /\ born[task[q].inc].pid = q  BY <2>5, <2>7, <3>3
      <4> QED  BY <1>8, <1>9, <2>7, <3>3, <4>1
    <3> QED  BY <3>1, <3>2, <3>3
  <2>3. \A q \in Pids : (Stopped(q) /\ task[q].why = "fork" =>
           task[q].child \in DOMAIN born /\ born[task[q].child].parent = task[q].inc)'
    <3> SUFFICES ASSUME NEW q \in Pids, task'[q].state = "stopped", task'[q].why = "fork"
                 PROVE  /\ task'[q].child \in DOMAIN born'
                        /\ born'[task'[q].child].parent = task'[q].inc
      BY DEF Stopped
    <3>1. q # c  BY <1>4, <2>8
    <3>2. CASE q = p  BY <1>3, <1>7, <1>8, <1>9, <2>8, <3>2
    <3>3. CASE q # p
      <4>1. task[q].child \in DOMAIN born /\ born[task[q].child].parent = task[q].inc
            /\ task'[q] = task[q]
        BY <2>6, <2>7, <3>1, <3>3
      <4> QED  BY <1>8, <1>9, <4>1
    <3> QED  BY <3>2, <3>3
  <2>4. \A q \in Pids : (task[q].told \/ task[q].why # "none" => Stopped(q))'
    BY <1>3, <1>4, <1>6 DEF TaskInv, KernelInv, Stopped
  <2> QED  BY <2>1, <2>2, <2>3, <2>4 DEF KernelInv
<1>15. \A i \in Unhandled' : Hidden(i)'
  <2>1. \A i : i = k => Hidden(i)'
    <3> SUFFICES ASSUME NEW i, i = k  PROVE Hidden(i)'
      OBVIOUS
    <3>1. born'[i].pid = c /\ task'[c] = Y /\ Y.inc = i  BY <1>4, <1>6, <1>7, <1>8
    <3> QED  BY <1>4, <3>1 DEF Hidden, Stopped, Zombie
  <2>2. \A i \in Unhandled : Hidden(i)'
    <3> SUFFICES ASSUME NEW i \in Unhandled  PROVE Hidden(i)'
      OBVIOUS
    <3>1. Hidden(i) /\ i \in DOMAIN born /\ born'[i] = born[i] /\ born[i].pid \in Pids
          /\ i # NoInc
      BY <1>8, UnhandledAreBorn DEF TaskInv
    <3>2. born[i].pid # c
      <4>1. task[c].inc = NoInc  BY <1>2, TaskShapes DEF TaskInv, KernelInv
      <4> QED  BY <3>1, <4>1 DEF Hidden
    <3> QED  BY <1>2, <1>3, <1>6, <3>1, <3>2 DEF Hidden, Stopped, Zombie
  <2> QED  BY <1>13, <2>1, <2>2
<1>16. (report = NoReport \/ StopReported \/ DeathReported)'
  <2>1. CASE report = NoReport  BY <1>2, <2>1
  <2>2. CASE StopReported
    <3> DEFINE x == report.pid
    <3>0. /\ x \in Pids /\ report.of.state = "stopped" /\ report.of \in Task
          /\ task[x] = [report.of EXCEPT !.told = TRUE]
      BY <2>2 DEF StopReported, KernelTypes
    <3>1. task[x].state = "stopped" /\ task[x].inc = report.of.inc
      BY <3>0 DEF Task
    <3>2. report.of.inc \in DOMAIN born
      BY <3>0, <3>1 DEF TaskInv, KernelInv
    <3>3. x # p /\ x # c
      BY <1>2, <3>1, FreeShape
    <3> QED  BY <1>1, <1>2, <1>6, <1>13, <2>2, <3>2, <3>3 DEF StopReported
  <2>3. CASE DeathReported
    <3>1. report.pid # p  BY <1>2, <2>3, PidOfADeath
    <3>2. report.of.inc \in DOMAIN born' \ Unhandled' /\ born'[report.of.inc].pid = report.pid
      BY <1>1, <1>8, <1>9, <1>13, <2>3 DEF DeathReported
    <3>3. \/ task'[report.pid] = FreeTask
          \/ \E i \in Unhandled' : task'[report.pid] = StoppedTask(i, "initial")
      <4>1. CASE report.pid = c  BY <1>6, <1>13, <4>1 DEF Y
      <4>2. CASE report.pid # c  BY <1>6, <1>13, <2>3, <3>1, <4>2 DEF DeathReported
      <4> QED  BY <4>1, <4>2
    <3> QED  BY <1>2, <2>3, <3>2, <3>3 DEF DeathReported
  <2> QED  BY <2>1, <2>2, <2>3 DEF TaskInv
<1>17. TaskInv'  BY <1>14, <1>15, <1>16 DEF TaskInv
<1>18. Advances
  <2>1. \A q \in Pids : task'[q].inc \in {task[q].inc, NoInc} \cup Unhandled'
    BY <1>3, <1>4, <1>6, <1>13
  <2> QED  BY <1>1, <1>9, <1>13, <2>1 DEF Advances
<1> QED  BY <1>10, <1>17, <1>18

(* Nothing of an unhandled tracee is reported but its initial stop. *)
LEMMA WaitPidKeeps ==
  ASSUME KernelTypes, TaskInv, EarlyReports # "any", NEW p \in Pids, WaitPid(p)
  PROVE  /\ KernelTypes' /\ TaskInv' /\ Unhandled' = Unhandled
         /\ \A q \in Pids : task'[q].inc \in {task[q].inc, NoInc}
         /\ DOMAIN born' = DOMAIN born
         /\ report'.of.state \in {"zombie", "stopped"}
         /\ report'.of.inc = task[p].inc /\ report'.pid = p
         /\ report'.of.state = "zombie" => Now(p)
<1> DEFINE X == IF Zombie(p) THEN FreeTask ELSE [task[p] EXCEPT !.told = TRUE]
<1>1. report = NoReport /\ MayReport(p) /\ report' = [pid |-> p, of |-> task[p]]
      /\ UNCHANGED <<born, work>> /\ task' = [task EXCEPT ![p] = X]
      /\ task[p] \in Task
  BY DEF WaitPid, Waiting, Reported, KernelTypes
<1>2. report.pid = NoPid /\ NoPid \notin Pids
  BY <1>1, ProcessesAssumption DEF NoReport, NoPid
<1>3. /\ Zombie(p) => X = FreeTask
      /\ ~Zombie(p) => /\ X = [task[p] EXCEPT !.told = TRUE]
                       /\ X.told = TRUE /\ X.why = task[p].why /\ X.inc = task[p].inc
                       /\ X.child = task[p].child /\ X.state = task[p].state
                       /\ X.file = task[p].file
      /\ X \in Task
  BY <1>1, TaskShapes DEF Task
<1> HIDE DEF X
<1>4. \A q \in Pids : task'[q] = IF q = p THEN X ELSE task[q]
  BY <1>1 DEF KernelTypes
<1>5. report'.pid = p /\ report'.of = task[p]  BY <1>1
<1>6. Zombie(p) \/ (Stopped(p) /\ ~task[p].told)  BY <1>1 DEF MayReport, Reportable
<1>7. KernelTypes'
  <2>1. task' \in [Pids -> Task]  BY <1>1, <1>3 DEF KernelTypes
  <2>2. report' \in [pid : Pids \cup {NoPid}, of : Task]  BY <1>1
  <2>3. X.why \in {"exec", "access"} => X.file \in Files
    BY <1>3, TaskShapes DEF KernelTypes
  <2> QED  BY <1>1, <1>4, <1>5, <2>1, <2>2, <2>3 DEF KernelTypes
<1>8. Unhandled' = Unhandled
  <2>1. \A q \in Pids : Announcing(q)' <=> Announcing(q)
    <3>1. Zombie(p) => X.state = "free"  BY <1>3, TaskShapes
    <3> QED  BY <1>2, <1>3, <1>4, <1>5, <1>6, <3>1 DEF Announcing, Stopped, Zombie
  <2>2. \A q \in Pids : Announcing(q) => task'[q].child = task[q].child
    BY <1>3, <1>4 DEF Announcing, Stopped, Zombie
  <2> QED  BY <2>1, <2>2, AnnouncedAlike
<1>9. task[p].inc \in Unhandled => task[p].why = "initial" /\ ~Zombie(p)
  <2> SUFFICES ASSUME task[p].inc \in Unhandled
               PROVE  task[p].why = "initial" /\ ~Zombie(p)
    OBVIOUS
  <2>1. PICK q \in Pids : Announcing(q) /\ task[q].child = task[p].inc  BY DEF Unhandled
  <2>2. Unannounced(p)  BY <1>2, <2>1 DEF Unannounced, Announcing
  <2>3. task[p].why = "initial"  BY <1>1, <2>2 DEF MayReport
  <2>4. Hidden(task[p].inc)  BY DEF TaskInv
  <2>5. task[p].state # "free"
    BY <1>6 DEF Zombie, Stopped
  <2>6. born[task[p].inc].pid = p  BY <2>5 DEF TaskInv, KernelInv
  <2> QED  BY <2>3, <2>4, <2>6 DEF Hidden
<1>10. task[p].inc \in DOMAIN born /\ born[task[p].inc].pid = p
  BY <1>6 DEF TaskInv, KernelInv, Zombie, Stopped
<1>11. KernelInv'
  <2>1. Zombie(p) => X = FreeTask /\ X.state = "free" /\ X.told = FALSE /\ X.why = "none"
    BY <1>3, TaskShapes
  <2>2. Stopped(p) => X.state = "stopped" /\ ~Zombie(p)  BY <1>3 DEF Stopped, Zombie
  <2>3. \A q \in Pids : (task[q].state = "free" => task[q] = FreeTask)'
    BY <1>4, <1>6, <2>1, <2>2 DEF TaskInv, KernelInv
  <2>4. \A q \in Pids : (task[q].state # "free" =>
           task[q].inc \in DOMAIN born /\ born[task[q].inc].pid = q)'
    BY <1>1, <1>3, <1>4, <1>6, <1>10, <2>1, <2>2 DEF TaskInv, KernelInv
  <2>5. \A q \in Pids : (Stopped(q) /\ task[q].why = "fork" =>
           task[q].child \in DOMAIN born /\ born[task[q].child].parent = task[q].inc)'
    BY <1>1, <1>3, <1>4, <1>6, <2>1, <2>2 DEF TaskInv, KernelInv, Stopped
  <2>6. \A q \in Pids : (task[q].told \/ task[q].why # "none" => Stopped(q))'
    BY <1>4, <1>6, <2>1, <2>2 DEF TaskInv, KernelInv, Stopped
  <2> QED  BY <2>3, <2>4, <2>5, <2>6 DEF KernelInv
<1>12. \A i \in Unhandled : Hidden(i)'
  <2> SUFFICES ASSUME NEW i \in Unhandled  PROVE Hidden(i)'
    OBVIOUS
  <2>1. Hidden(i) /\ i \in DOMAIN born /\ born[i].pid \in Pids /\ born' = born
    BY <1>1, UnhandledAreBorn DEF TaskInv
  <2>2. CASE born[i].pid # p  BY <1>4, <2>1, <2>2 DEF Hidden, Stopped, Zombie
  <2>3. CASE born[i].pid = p
    <3>1. task[p].inc = i  BY <2>1, <2>3 DEF Hidden
    <3> QED  BY <1>3, <1>4, <1>9, <2>1, <2>3, <3>1 DEF Hidden, Stopped, Zombie
  <2> QED  BY <2>2, <2>3
<1>13. (StopReported \/ DeathReported)'
  <2>1. CASE Zombie(p)
    <3>1. task'[p] = FreeTask  BY <1>3, <1>4, <2>1
    <3>2. report'.of.inc \in DOMAIN born' \ Unhandled'
      BY <1>1, <1>5, <1>8, <1>9, <1>10, <2>1
    <3> QED  BY <1>1, <1>5, <1>10, <2>1, <3>1, <3>2 DEF DeathReported, Zombie
  <2>2. CASE Stopped(p)
    <3>1. ~Zombie(p)  BY <2>2 DEF Stopped, Zombie
    <3>2. task'[p] = [report'.of EXCEPT !.told = TRUE]  BY <1>3, <1>4, <1>5, <3>1
    <3> QED  BY <1>5, <1>8, <1>9, <2>2, <3>2 DEF StopReported, Stopped
  <2> QED  BY <1>6, <2>1, <2>2
<1>14. TaskInv'  BY <1>8, <1>11, <1>12, <1>13 DEF TaskInv
<1>15. \A q \in Pids : task'[q].inc \in {task[q].inc, NoInc}
  <2>1. X.inc \in {task[p].inc, NoInc}  BY <1>3, TaskShapes
  <2> QED  BY <1>4, <2>1
<1>16. report'.of.state = "zombie" => Now(p)
  BY <1>5, <1>9, <1>10, UnhandledAreBorn DEF Now, Zombie
<1> QED  BY <1>1, <1>5, <1>6, <1>7, <1>8, <1>14, <1>15, <1>16 DEF Zombie, Stopped

(* The stall check resumes tracees that have been handled, and children    *)
(* that were stopped by their initial SIGSTOP.                             *)
LEMMA CheckStallKeeps ==
  ASSUME KernelTypes, TaskInv, CheckStall
  PROVE  KernelTypes' /\ TaskInv' /\ Unhandled' = Unhandled
         /\ \A q \in Pids : task'[q].inc = task[q].inc
<1>1. report = NoReport /\ UNCHANGED <<born, work, report>>
  BY DEF CheckStall, Waiting, tracerVars
<1>2. report.pid = NoPid /\ NoPid \notin Pids
  BY <1>1, ProcessesAssumption DEF NoReport, NoPid
<1> DEFINE R(q) == ResumedTask(task[q], FALSE)
<1>3. task' = [q \in Pids |-> IF procs[q].known /\ Stuck(q) THEN R(q) ELSE task[q]]
  BY DEF CheckStall
<1>4. \A q \in Pids : /\ R(q) \in Task /\ R(q).inc = task[q].inc
                      /\ R(q).state \in {"running", "group_stopped", "zombie"}
                      /\ R(q).state = "zombie" => task[q].why = "exit"
                      /\ R(q).told = FALSE /\ R(q).why = "none"
  <2> TAKE q \in Pids
  <2>1. task[q] \in Task /\ FALSE \in BOOLEAN  BY DEF KernelTypes
  <2> QED  BY <2>1, ResumedShape
<1> HIDE DEF R
<1>5. \A q \in Pids : task'[q] = task[q] \/ (task'[q] = R(q) /\ Stopped(q) /\ task[q].told)
  BY <1>3 DEF Stuck
<1>6. KernelTypes'
  <2>1. task' \in [Pids -> Task]  BY <1>3, <1>4 DEF KernelTypes
  <2> QED  BY <1>1, <1>4, <1>5, <2>1 DEF KernelTypes
<1>7. Unhandled' = Unhandled
  <2>1. \A q \in Pids : Announcing(q)' <=> Announcing(q)
    BY <1>1, <1>2, <1>4, <1>5 DEF Announcing, Stopped
  <2>2. \A q \in Pids : Announcing(q) => task'[q].child = task[q].child
    BY <1>2, <1>5 DEF Announcing
  <2> QED  BY <2>1, <2>2, AnnouncedAlike
<1>8. KernelInv'
  BY <1>1, <1>4, <1>5 DEF TaskInv, KernelInv, Stopped
<1>9. \A i \in Unhandled : Hidden(i)'
  BY <1>1, <1>4, <1>5, UnhandledAreBorn DEF TaskInv, Hidden, Stopped, Zombie
<1>10. TaskInv'  BY <1>1, <1>7, <1>8, <1>9 DEF TaskInv
<1> QED  BY <1>4, <1>5, <1>6, <1>7, <1>10

(* While nobody kills, the tracee of a report waits to be resumed. *)
LEMMA ReportedStays ==
  ASSUME KernelTypes, TaskInv, NEW p \in Pids, NEW why, Handles(p, why)
  PROVE  /\ StopReported /\ StillThere(p) /\ report.of.inc = task[p].inc
         /\ task[p].told /\ task[p].why = why /\ report.of.child = task[p].child
         /\ task[p].inc \in DOMAIN born /\ born[task[p].inc].pid = p
         /\ why # "initial" => Now(p)
<1>1. report.pid = p /\ report.of.state = "stopped" /\ report.of.why = why
      /\ report.of \in Task
  BY DEF Handles, KernelTypes
<1>2. StopReported
  <2>1. report.pid # NoPid  BY <1>1, ProcessesAssumption DEF NoPid
  <2> QED  BY <1>1, <2>1 DEF TaskInv, NoReport, DeathReported
<1>3. task[p].state = "stopped" /\ task[p].told = TRUE /\ task[p].why = why
      /\ task[p].inc = report.of.inc /\ task[p].child = report.of.child
  BY <1>1, <1>2 DEF StopReported, Task
<1>4. task[p].inc \in DOMAIN born /\ born[task[p].inc].pid = p
  BY <1>3 DEF TaskInv, KernelInv
<1> QED  BY <1>1, <1>2, <1>3, <1>4, UnhandledAreBorn
         DEF StillThere, Stopped, Now, StopReported

(* Once its fork event is handled, a child is unhandled no more. *)
LEMMA ResumeKeeps ==
  ASSUME KernelTypes, TaskInv, NEW p \in Pids, NEW why, Handles(p, why),
         NEW b \in BOOLEAN, NEW v, Resume(p, b, v)
  PROVE  /\ KernelTypes' /\ TaskInv' /\ born' = born /\ report' = NoReport
         /\ \A q \in Pids : task'[q].inc = task[q].inc
         /\ why = "fork" => Unhandled' = Unhandled \ {report.of.child}
         /\ why # "fork" => Unhandled' = Unhandled
<1> DEFINE R == ResumedTask(task[p], b)
<1>20. task[p] \in Task  BY DEF KernelTypes
<1>21. /\ R \in Task /\ R.inc = task[p].inc /\ R.why = "none" /\ R.told = FALSE
       /\ R.state \in {"running", "group_stopped", "zombie"}
       /\ R.state = "zombie" => task[p].why = "exit"
  <2>1. CASE b = TRUE
    <3>1. R = ResumedTask(task[p], TRUE)  BY <2>1
    <3> HIDE DEF R
    <3> QED  BY <1>20, <3>1, ResumedShape
  <2>2. CASE b = FALSE
    <3>1. R = ResumedTask(task[p], FALSE)  BY <2>2
    <3> HIDE DEF R
    <3> QED  BY <1>20, <3>1, ResumedShape
  <2> QED  BY <2>1, <2>2
<1>1. /\ StillThere(p) /\ task[p].told /\ task[p].why = why
      /\ report.of.child = task[p].child
      /\ report.pid = p /\ report' = NoReport /\ born' = born /\ Stopped(p)
  BY ReportedStays DEF Handles, StillThere
<1>2. /\ \A q \in Pids : task'[q] = task[q] \/ (q = p /\ task'[q] = R)
      /\ task' \in [Pids -> Task]
      /\ work' \in Nat
  <2> HIDE DEF R
  <2>2. task' = task \/ task' = [task EXCEPT ![p] = R]  BY <1>1 DEF Resume, R
  <2>3. work' = work \/ work' = work + 1  BY <1>1 DEF Resume, Works
  <2>4. work \in Nat /\ task \in [Pids -> Task]  BY DEF KernelTypes
  <2>5. work' \in Nat  BY <2>3, <2>4
  <2>6. CASE task' = task  BY <2>4, <2>5, <2>6
  <2>7. CASE task' = [task EXCEPT ![p] = R]  BY <1>21, <2>4, <2>5, <2>7
  <2> QED  BY <2>2, <2>6, <2>7
<1>3. /\ R.inc = task[p].inc /\ R.why = "none" /\ R.told = FALSE
      /\ R.state \in {"running", "group_stopped", "zombie"}
      /\ R.state = "zombie" => why = "exit"
  BY <1>1, <1>21
<1> HIDE DEF R
<1>4. NoReport.pid = NoPid /\ NoReport.of = FreeTask /\ NoReport \in [pid : Pids \cup {NoPid}, of : Task]
      /\ NoPid \notin Pids /\ FreeTask.why = "none"
  BY TaskShapes, ProcessesAssumption DEF NoReport, NoPid
<1>5. KernelTypes'
  BY <1>1, <1>2, <1>3, <1>4 DEF KernelTypes
<1>6. \A q \in Pids : task'[q].inc = task[q].inc  BY <1>2, <1>3
<1>7. \A q \in Pids : Announcing(q)' <=> Announcing(q) /\ q # p
  BY <1>1, <1>2, <1>3, <1>4 DEF Announcing, Stopped
<1>8. \A q \in Pids \ {p} : task'[q].child = task[q].child  BY <1>2
<1>9. Announcing(p) <=> why = "fork"  BY <1>1 DEF Announcing
<1>10. ASSUME why # "fork"  PROVE Unhandled' = Unhandled
  BY <1>7, <1>8, <1>9, <1>10, AnnouncedAlike
<1>11. ASSUME why = "fork"  PROVE Unhandled' = Unhandled \ {task[p].child}
  <2>1. Unhandled' = {task'[q].child : q \in {r \in Pids : Announcing(r)'}}
    BY DEF Unhandled
  <2>2. \A q \in Pids : Announcing(q) /\ q # p => task[q].child # task[p].child
    <3> SUFFICES ASSUME NEW q \in Pids, Announcing(q), q # p, task[q].child = task[p].child
                 PROVE  FALSE
      OBVIOUS
    <3>1. task[q].inc = task[p].inc
      BY <1>1, <1>11 DEF Announcing, TaskInv, KernelInv
    <3>2. task[q].state # "free" /\ task[p].state # "free"
      BY <1>1 DEF Announcing, Stopped
    <3> QED  BY <3>1, <3>2 DEF TaskInv, KernelInv
  <2>3. {task'[q].child : q \in {r \in Pids : Announcing(r)'}}
          = {task[q].child : q \in {r \in Pids : Announcing(r) /\ r # p}}
    BY <1>7, <1>8
  <2>4. {task[q].child : q \in {r \in Pids : Announcing(r) /\ r # p}}
          = {task[q].child : q \in {r \in Pids : Announcing(r)}} \ {task[p].child}
    BY <2>2
  <2> QED  BY <2>1, <2>3, <2>4 DEF Unhandled
<1>12. Unhandled' \subseteq Unhandled  BY <1>10, <1>11
<1>13. KernelInv'
  BY <1>1, <1>2, <1>3 DEF TaskInv, KernelInv, Stopped
<1>14. \A i \in Unhandled : Hidden(i)'
  <2> SUFFICES ASSUME NEW i \in Unhandled  PROVE Hidden(i)'
    OBVIOUS
  <2>1. Hidden(i) /\ born[i].pid \in Pids /\ born' = born
    BY <1>1, UnhandledAreBorn DEF TaskInv
  <2>2. CASE born[i].pid # p  BY <1>2, <2>1, <2>2 DEF Hidden, Stopped, Zombie
  <2>3. CASE born[i].pid = p
    <3>1. task[p].why = "initial"  BY <1>1, <2>1, <2>3 DEF Hidden
    <3> QED  BY <1>1, <1>2, <1>3, <2>1, <2>3, <3>1 DEF Hidden, Stopped, Zombie
  <2> QED  BY <2>2, <2>3
<1>15. TaskInv'  BY <1>1, <1>12, <1>13, <1>14 DEF TaskInv
<1> QED  BY <1>1, <1>5, <1>6, <1>10, <1>11, <1>15

LEMMA ResumeSilentlyKeeps ==
  ASSUME KernelTypes, TaskInv, NEW p \in Pids, NEW why, Handles(p, why),
         Resume(p, FALSE, ProcsOnly)
  PROVE  /\ KernelTypes' /\ TaskInv' /\ born' = born /\ report' = NoReport
         /\ \A q \in Pids : task'[q].inc = task[q].inc
         /\ why = "fork" => Unhandled' = Unhandled \ {report.of.child}
         /\ why # "fork" => Unhandled' = Unhandled
<1>1. \E b \in BOOLEAN : \E v : Resume(p, b, v)  OBVIOUS
<1>2. PICK b \in BOOLEAN : \E v : Resume(p, b, v)  BY <1>1
<1> QED  BY <1>2, ResumeKeeps

LEMMA TakingADeathKeeps ==
  ASSUME KernelTypes, TaskInv, NEW p \in Pids, HandleDeath(p)
  PROVE  /\ DeathReported /\ report.pid = p
         /\ KernelTypes' /\ TaskInv' /\ Unhandled' = Unhandled
         /\ report' = NoReport /\ UNCHANGED <<task, born>>
<1>1. report.pid = p /\ report.of.state = "zombie" /\ report' = NoReport
      /\ UNCHANGED <<task, born, work>>
  BY DEF HandleDeath
<1>2. DeathReported
  <2>1. report.pid # NoPid  BY <1>1, ProcessesAssumption DEF NoPid
  <2> QED  BY <1>1, <2>1 DEF TaskInv, NoReport, StopReported
<1>3. NoReport.pid = NoPid /\ NoReport.of = FreeTask /\ NoReport \in [pid : Pids \cup {NoPid}, of : Task]
      /\ NoPid \notin Pids /\ FreeTask.why = "none"
  BY TaskShapes, ProcessesAssumption DEF NoReport, NoPid
<1>4. KernelTypes'  BY <1>1, <1>3, TaskShapes DEF KernelTypes
<1>5. Unhandled' = Unhandled
  <2>1. \A q \in Pids : Announcing(q)' <=> Announcing(q)
    BY <1>1, <1>2, <1>3, PidOfADeath DEF Announcing, Stopped
  <2>2. \A q \in Pids : Announcing(q) => task'[q].child = task[q].child
    BY <1>1
  <2> QED  BY <2>1, <2>2, AnnouncedAlike
<1>6. TaskInv'
  BY <1>1, <1>5 DEF TaskInv, KernelInv, Hidden, Stopped, Zombie
<1> QED  BY <1>1, <1>2, <1>4, <1>5, <1>6

-----------------------------------------------------------------------------
(* The tracer's books *)

(* A step that leaves the session alone. *)
LEMMA BooksStay ==
  ASSUME KernelTypes, KernelTypes', TaskInv, BookTypes, BookInv,
         UNCHANGED <<session, buried, observed>>, Advances,
         procs' \in [Pids -> ProcessState], closed' \in BOOLEAN,
         report'.of.inc \in {report.of.inc, NoInc} \cup {task[p].inc : p \in Pids},
         report'.of.state = "zombie" =>
           report' = report \/ (Now(report'.pid) /\ report'.pid \in Pids
                                /\ report'.of.inc = task[report'.pid].inc),
         \A p \in Pids :
           \/ procs'[p] = procs[p]
           \/ /\ procs'[p].known
              /\ procs[p].known => procs'[p].ppid = procs[p].ppid
              /\ \/ procs'[p].usage = NoInc
                 \/ procs'[p].usage = procs[p].usage /\ procs'[p].ppid = procs[p].ppid
                 \/ procs'[p].usage = task[p].inc /\ Now(p)
  PROVE  BookTypes' /\ BookInv'
<1>1. session' = session /\ buried' = buried /\ observed' = observed
  OBVIOUS
<1>2. BookTypes'  BY <1>1 DEF BookTypes
<1>3. Books(session)' /\ DedupLosesNothing'
  BY <1>1 DEF BookInv, Books, Owner, IdOf, DedupLosesNothing
<1>4. \A r \in session'.rows : r.inc \in DOMAIN born' \ Unhandled'
  BY <1>1 DEF BookInv, Advances
<1>5. \A p \in Pids : Now(p)' => Now(p) /\ task'[p].inc = task[p].inc
  BY DEF Now, Advances
<1>6. OccupantInv'
  BY <1>1, <1>5 DEF BookInv, OccupantInv, Owner
<1>7. DyingInv'
  BY <1>1 DEF BookInv, OccupantInv, DyingInv, Owner
<1>8. UsageInv'
  <2> SUFFICES ASSUME NEW p \in Pids, procs'[p].usage # NoInc
               PROVE  procs'[p].ppid # NoPid /\ Owner(session, p, procs'[p].usage)
    BY <1>1 DEF UsageInv, Owner
  <2>1. CASE procs'[p] = procs[p]  BY <2>1 DEF BookInv, UsageInv
  <2>2. CASE procs'[p].usage = procs[p].usage /\ procs'[p].ppid = procs[p].ppid
    BY <2>2 DEF BookInv, UsageInv
  <2>3. CASE procs'[p].usage = task[p].inc /\ Now(p) /\ procs'[p] # procs[p]
    BY <2>3 DEF BookInv, OccupantInv
  <2> QED  BY <2>1, <2>2, <2>3
<1>9. BuriedInv'
  <2> SUFFICES ASSUME NEW i \in buried
               PROVE  /\ \E r \in session.rows : r.inc = i /\ r.end = i
                      /\ \A p \in Pids : task'[p].inc # i
                      /\ report'.of.inc # i
    BY <1>1 DEF BuriedInv
  <2>1. PICK r \in session.rows : r.inc = i /\ r.end = i  BY DEF BookInv, BuriedInv
  <2>2. i \in DOMAIN born \ Unhandled /\ i # NoInc
    BY <2>1, UnhandledAreBorn DEF BookInv
  <2>3. \A p \in Pids : task[p].inc # i  BY DEF BookInv, BuriedInv
  <2>4. report.of.inc # i  BY DEF BookInv, BuriedInv
  <2>5. \A p \in Pids : task'[p].inc # i  BY <2>2, <2>3 DEF Advances
  <2>6. report'.of.inc # i  BY <2>2, <2>3, <2>4
  <2> QED  BY <2>1, <2>5, <2>6
<1> QED  BY <1>2, <1>3, <1>4, <1>6, <1>7, <1>8, <1>9 DEF BookInv

(* What a handler finds in procs_. *)
LEMMA EntryShape ==
  ASSUME BookTypes, NEW p \in Pids
  PROVE  /\ Entry(p) \in ProcessState /\ Entry(p).known
         /\ procs[p].known => Entry(p) = procs[p]
         /\ ~procs[p].known => Entry(p).usage = NoInc /\ Entry(p).ppid = NoPid
         /\ Entered(p) \in [Pids -> ProcessState]
         /\ \A q \in Pids : Entered(p)[q] = IF q = p THEN Entry(p) ELSE procs[q]
<1>1. NewState(NoPid) \in ProcessState /\ NewState(NoPid).known
      /\ NewState(NoPid).usage = NoInc /\ NewState(NoPid).ppid = NoPid
  BY DEF NewState, NotKnown, ProcessState, NoInc
<1>2. Entry(p) \in ProcessState /\ Entry(p).known
      /\ (procs[p].known => Entry(p) = procs[p])
      /\ (~procs[p].known => Entry(p).usage = NoInc /\ Entry(p).ppid = NoPid)
  BY <1>1 DEF Entry, BookTypes
<1> QED  BY <1>2 DEF Entered, BookTypes

LEMMA NoReportShape ==
  NoReport.of.inc = NoInc /\ NoReport.of.state = "free" /\ NoReport.pid = NoPid
BY TaskShapes DEF NoReport

(* The handlers that leave the session alone. *)
LEMMA StopHandlersKeep ==
  ASSUME KernelTypes, TaskInv, BookTypes, BookInv, NEW p \in Pids,
         HandleExitEvent(p) \/ HandleSigstop(p)
  PROVE  KernelTypes' /\ TaskInv' /\ BookTypes' /\ BookInv'
<1>1. CASE HandleExitEvent(p)
  <2> DEFINE e == [Entry(p) EXCEPT !.usage = IF StillThere(p) THEN report.of.inc ELSE NoInc]
  <2>1. Handles(p, "exit") /\ procs' = [procs EXCEPT ![p] = e] /\ Resume(p, FALSE, ProcsOnly)
        /\ UNCHANGED <<session, observed, buried, closed>>
    BY <1>1 DEF HandleExitEvent, Handles
  <2>2. StillThere(p) /\ report.of.inc = task[p].inc /\ Now(p)
    BY <2>1, ReportedStays
  <2>3. /\ KernelTypes' /\ TaskInv' /\ born' = born /\ report' = NoReport
        /\ \A q \in Pids : task'[q].inc = task[q].inc
        /\ Unhandled' = Unhandled
    <3>1. Handles(p, "exit") /\ Resume(p, FALSE, ProcsOnly)  BY <2>1
    <3> HIDE DEF e
    <3>2. PICK why \in {"exit"} : Handles(p, why)  BY <3>1
    <3> QED  BY <3>1, <3>2, ResumeSilentlyKeeps
  <2>4. e \in ProcessState /\ e.known /\ e.usage = task[p].inc /\ e.ppid = Entry(p).ppid
    <3>1. task[p].inc \in Nat  BY DEF KernelTypes, Task
    <3> QED  BY <2>2, <3>1, EntryShape DEF ProcessState
  <2> HIDE DEF e
  <2>5. procs' \in [Pids -> ProcessState]  BY <2>1, <2>4 DEF BookTypes
  <2>6. \A q \in Pids : procs'[q] = IF q = p THEN e ELSE procs[q]  BY <2>1 DEF BookTypes
  <2>7. procs[p].known => e.ppid = procs[p].ppid  BY <2>4, EntryShape
  <2>8. Advances  BY <2>3 DEF Advances
  <2>9. BookTypes' /\ BookInv'
    BY <2>1, <2>2, <2>3, <2>4, <2>5, <2>6, <2>7, <2>8, NoReportShape, BooksStay DEF BookTypes
  <2> QED  BY <2>3, <2>9
<1>2. CASE HandleSigstop(p)
  <2>1. PICK why \in {"initial", "sigstop"} : Handles(p, why)  BY <1>2 DEF HandleSigstop
  <2>2. PICK b \in BOOLEAN : \E v : Resume(p, b, v)  BY <1>2 DEF HandleSigstop
  <2>3. UNCHANGED <<session, observed, buried, closed>>
    BY <1>2 DEF HandleSigstop, Handles
  <2>4. /\ KernelTypes' /\ TaskInv' /\ born' = born /\ report' = NoReport
        /\ \A q \in Pids : task'[q].inc = task[q].inc
        /\ Unhandled' = Unhandled
    BY <2>1, <2>2, ResumeKeeps
  <2> DEFINE e == [Entry(p) EXCEPT !.traced = TRUE]
  <2>5. e \in ProcessState /\ e.known /\ e.usage = Entry(p).usage /\ e.ppid = Entry(p).ppid
    BY EntryShape DEF ProcessState
  <2>6. procs' = [procs EXCEPT ![p] = e] \/ procs' = [procs EXCEPT ![p] = Entry(p)]
    BY <1>2 DEF HandleSigstop, Entered
  <2> HIDE DEF e
  <2>7. procs' \in [Pids -> ProcessState]  BY <2>5, <2>6, EntryShape DEF BookTypes
  <2>8. \A q \in Pids :
          \/ procs'[q] = procs[q]
          \/ /\ q = p /\ procs'[q].known /\ procs'[q].usage = Entry(p).usage
             /\ procs'[q].ppid = Entry(p).ppid
    BY <2>5, <2>6, EntryShape DEF BookTypes
  <2>9. procs[p].known \/ Entry(p).usage = NoInc  BY EntryShape
  <2>10. procs[p].known => Entry(p).ppid = procs[p].ppid /\ Entry(p).usage = procs[p].usage
    BY EntryShape
  <2>11. Advances  BY <2>4 DEF Advances
  <2>12. BookTypes' /\ BookInv'
    BY <2>3, <2>4, <2>7, <2>8, <2>9, <2>10, <2>11, NoReportShape, BooksStay DEF BookTypes
  <2> QED  BY <2>4, <2>12
<1> QED  BY <1>1, <1>2

LEMMA HandleForkKeeps ==
  ASSUME KernelTypes, TaskInv, BookTypes, BookInv, NEW p \in Pids, HandleFork(p)
  PROVE  KernelTypes' /\ TaskInv' /\ BookTypes' /\ BookInv'
<1> DEFINE i == report.of.child
           c == born[i].pid
           e == ChildEntry(c, p)
<1>1. Handles(p, "fork") /\ Resume(p, FALSE, ProcsOnly)
      /\ UNCHANGED <<observed, buried, closed>>
  BY DEF HandleFork, Handles
<1>2. StillThere(p) /\ i = task[p].child /\ task[p].told /\ task[p].why = "fork"
      /\ report.pid = p /\ Stopped(p)
  BY <1>1, ReportedStays DEF StillThere, Handles
<1>3. /\ KernelTypes' /\ TaskInv' /\ born' = born /\ report' = NoReport
      /\ \A q \in Pids : task'[q].inc = task[q].inc
      /\ Unhandled' = Unhandled \ {i}
  <2>1. PICK why \in {"fork"} : Handles(p, why)  BY <1>1
  <2> QED  BY <1>1, <2>1, ResumeSilentlyKeeps
<1>4. i \in Unhandled  BY <1>2 DEF Unhandled, Announcing
<1>5. i \in DOMAIN born /\ i \in Nat \ {NoInc} /\ c \in Pids /\ Hidden(i)
  BY <1>4, UnhandledAreBorn DEF TaskInv
<1>6. c # p /\ task[c].inc = i  BY <1>2, <1>5 DEF Hidden
<1>7. procs' = [Entered(p) EXCEPT ![c] = e] /\ session' = OnProcessStart(session, c, p, i)
  BY <1>2 DEF HandleFork
<1>8. e \in ProcessState /\ e.known /\ e.ppid = p /\ e.usage = NoInc
  <2>1. CASE procs[c].known /\ procs[c].ppid = NoPid
    <3>1. e = [procs[c] EXCEPT !.ppid = p] /\ procs[c].usage = NoInc
      BY <1>5, <2>1 DEF ChildEntry, BookInv, UsageInv
    <3> HIDE DEF e
    <3> QED  BY <1>5, <2>1, <3>1 DEF BookTypes, ProcessState
  <2>2. CASE ~(procs[c].known /\ procs[c].ppid = NoPid)
    <3>1. e = NewState(p)  BY <2>2 DEF ChildEntry
    <3> HIDE DEF e
    <3> QED  BY <3>1 DEF NewState, NotKnown, ProcessState, NoInc
  <2> QED  BY <2>1, <2>2
<1> HIDE DEF e
<1>9. procs' \in [Pids -> ProcessState]  BY <1>7, <1>8, EntryShape
<1>10. \A q \in Pids : procs'[q] = IF q = c THEN e ELSE IF q = p THEN Entry(p) ELSE procs[q]
  BY <1>7, EntryShape
<1>11. /\ session' \in Session /\ Books(session')
       /\ session'.accesses = session.accesses
       /\ session.rows \subseteq session'.rows
       /\ \A r \in session'.rows \ session.rows : r.inc = i
       /\ Owner(session', c, i)
       /\ \A q \in Pids \ {c} : \A j : Owner(session, q, j) => Owner(session', q, j)
  <2>1. \A r \in session.rows : r.inc # i  BY <1>4 DEF BookInv
  <2>2. session \in Session /\ Books(session)  BY DEF BookTypes, BookInv
  <2> QED  BY <1>5, <1>7, <2>1, <2>2, StartAddsARow
<1>12. BookTypes'  BY <1>1, <1>9, <1>11 DEF BookTypes
<1>13. \A r \in session'.rows : r.inc \in DOMAIN born' \ Unhandled'
  BY <1>3, <1>5, <1>11 DEF BookInv
<1>14. OccupantInv'
  <2> SUFFICES ASSUME NEW q \in Pids, Now(q)'
               PROVE  /\ Owner(session', q, task'[q].inc)
                      /\ procs'[q].known /\ procs'[q].ppid # NoPid
    BY DEF OccupantInv, Owner
  <2>1. CASE q = c
    BY <1>3, <1>6, <1>8, <1>10, <1>11, <2>1, ProcessesAssumption DEF NoPid
  <2>2. CASE q # c
    <3>1. task[q].inc # i
      <4> SUFFICES ASSUME task[q].inc = i  PROVE FALSE
        OBVIOUS
      <4>1. task[q].state = "free" => task[q].inc = NoInc
        BY TaskShapes DEF TaskInv, KernelInv
      <4>2. born[task[q].inc].pid = q  BY <1>5, <4>1 DEF TaskInv, KernelInv
      <4> QED  BY <2>2, <4>2
    <3>2. Now(q)  BY <1>3, <3>1 DEF Now
    <3>3. Owner(session, q, task[q].inc) /\ procs[q].known /\ procs[q].ppid # NoPid
      BY <3>2 DEF BookInv, OccupantInv
    <3> QED  BY <1>3, <1>10, <1>11, <2>2, <3>3, EntryShape
  <2> QED  BY <2>1, <2>2
<1>15. DyingInv'  BY <1>3, NoReportShape DEF DyingInv
<1>16. UsageInv'
  <2> SUFFICES ASSUME NEW q \in Pids, procs'[q].usage # NoInc
               PROVE  procs'[q].ppid # NoPid /\ Owner(session', q, procs'[q].usage)
    BY DEF UsageInv, Owner
  <2>1. q # c  BY <1>8, <1>10
  <2>2. procs'[q] = procs[q]  BY <1>10, <2>1, EntryShape
  <2> QED  BY <1>11, <2>1, <2>2 DEF BookInv, UsageInv
<1>17. BuriedInv'
  BY <1>1, <1>3, <1>11, NoReportShape, UnhandledAreBorn DEF BookInv, BuriedInv
<1>18. DedupLosesNothing'
  BY <1>1, <1>11 DEF BookInv, DedupLosesNothing
<1>19. Books(session)'  BY <1>11 DEF Books, Owner, IdOf
<1> QED  BY <1>3, <1>12, <1>13, <1>14, <1>15, <1>16, <1>17, <1>18, <1>19 DEF BookInv

(* The handlers of a tracee's own stops, which write for the owner of the  *)
(* pid and nobody else.                                                    *)
LEMMA OwnStopKeeps ==
  ASSUME KernelTypes, TaskInv, BookTypes, BookInv, NEW p \in Pids,
         NEW why \in Reasons \ {"initial", "fork"},
         Handles(p, why), Resume(p, FALSE, ProcsOnly), procs' = Entered(p),
         session' \in Session, Books(session'),
         \A q \in Pids : \A j : Owner(session, q, j) => Owner(session', q, j),
         \A r \in session'.rows : r \in session.rows \/ r.inc = task[p].inc,
         {r \in session.rows : r.inc # task[p].inc} \subseteq session'.rows,
         session.accesses \subseteq session'.accesses,
         observed' \subseteq [inc : Nat, file : Files],
         \A o \in observed' \ observed :
           \E a \in session'.accesses : a.inc = o.inc /\ a.file = o.file
  PROVE  KernelTypes' /\ TaskInv' /\ BookTypes' /\ BookInv'
<1>1. /\ KernelTypes' /\ TaskInv' /\ born' = born /\ report' = NoReport
      /\ \A q \in Pids : task'[q].inc = task[q].inc
      /\ Unhandled' = Unhandled
  BY ResumeSilentlyKeeps
<1>2. UNCHANGED <<buried, closed>>  BY DEF Handles
<1>3. Now(p) /\ task[p].inc \in DOMAIN born  BY ReportedStays
<1>4. BookTypes'  BY <1>2, EntryShape DEF BookTypes
<1>5. \A r \in session'.rows : r.inc \in DOMAIN born' \ Unhandled'
  BY <1>1, <1>3 DEF BookInv, Now
<1>6. OccupantInv'
  <2> SUFFICES ASSUME NEW q \in Pids, Now(q)'
               PROVE  /\ Owner(session', q, task'[q].inc)
                      /\ procs'[q].known /\ procs'[q].ppid # NoPid
    BY DEF OccupantInv, Owner
  <2>1. Now(q)  BY <1>1 DEF Now
  <2> QED  BY <1>1, <2>1, EntryShape DEF BookInv, OccupantInv
<1>7. DyingInv'  BY <1>1, NoReportShape DEF DyingInv
<1>8. UsageInv'
  <2> SUFFICES ASSUME NEW q \in Pids, procs'[q].usage # NoInc
               PROVE  procs'[q].ppid # NoPid /\ Owner(session', q, procs'[q].usage)
    BY DEF UsageInv, Owner
  <2>1. procs'[q] = procs[q]  BY EntryShape
  <2> QED  BY <2>1 DEF BookInv, UsageInv
<1>9. BuriedInv'
  BY <1>1, <1>2, NoReportShape, UnhandledAreBorn DEF BookInv, BuriedInv
<1>10. DedupLosesNothing'
  BY DEF BookInv, DedupLosesNothing
<1>11. Books(session)'  BY DEF Books, Owner, IdOf
<1> QED  BY <1>1, <1>4, <1>5, <1>6, <1>7, <1>8, <1>9, <1>10, <1>11 DEF BookInv

LEMMA HandleSyscallKeeps ==
  ASSUME KernelTypes, TaskInv, BookTypes, BookInv, NEW p \in Pids, HandleSyscall(p)
  PROVE  KernelTypes' /\ TaskInv' /\ BookTypes' /\ BookInv'
<1> DEFINE inc == report.of.inc
           file == report.of.file
           o == [inc |-> inc, file |-> file]
<1>1. PICK why \in {"access"} : Handles(p, why)  BY DEF HandleSyscall
<1>2. Resume(p, FALSE, ProcsOnly) /\ procs' = Entered(p)  BY DEF HandleSyscall
<1>3. StillThere(p) /\ inc = task[p].inc /\ Now(p)  BY <1>1, ReportedStays
<1>4. inc \in Nat /\ file \in Files
  BY <1>1 DEF KernelTypes, Task, Handles
<1>5. session' = OnAccess(session, p, file, inc) /\ observed' = observed \cup {o}
  BY <1>3 DEF HandleSyscall
<1>6. session \in Session /\ Books(session) /\ Owner(session, p, inc)
  BY <1>3 DEF BookTypes, BookInv, OccupantInv
<1>7. /\ session' \in Session /\ Books(session')
      /\ session'.rows = session.rows /\ session'.gen = session.gen
      /\ session.accesses \subseteq session'.accesses
      /\ \E a \in session'.accesses : a.inc = inc /\ a.file = file
  BY <1>4, <1>5, <1>6, AccessIsTheOwners
<1>8. o \in [inc : Nat, file : Files] /\ o.inc = inc /\ o.file = file  BY <1>4
<1> HIDE DEF o
<1>9. observed' \subseteq [inc : Nat, file : Files]  BY <1>5, <1>8 DEF BookTypes
<1>10. \A x \in observed' \ observed :
         \E a \in session'.accesses : a.inc = x.inc /\ a.file = x.file
  BY <1>5, <1>7, <1>8
<1>11. \A q \in Pids : \A j : Owner(session, q, j) => Owner(session', q, j)
  BY <1>7 DEF Owner
<1>12. why \in Reasons \ {"initial", "fork"}  BY <1>1 DEF Reasons
<1> QED  BY <1>1, <1>2, <1>7, <1>9, <1>10, <1>11, <1>12, OwnStopKeeps

LEMMA HandleExecKeeps ==
  ASSUME KernelTypes, TaskInv, BookTypes, BookInv, NEW p \in Pids, HandleExec(p)
  PROVE  KernelTypes' /\ TaskInv' /\ BookTypes' /\ BookInv'
<1> DEFINE inc == report.of.inc
           file == report.of.file
           o == [inc |-> inc, file |-> file]
           s == OnAccess(session, p, file, inc)
<1>1. PICK why \in {"exec"} : Handles(p, why)  BY DEF HandleExec
<1>2. Resume(p, FALSE, ProcsOnly) /\ procs' = Entered(p)  BY DEF HandleExec
<1>3. StillThere(p) /\ inc = task[p].inc /\ Now(p)  BY <1>1, ReportedStays
<1>4. inc \in Nat /\ file \in Files
  BY <1>1 DEF KernelTypes, Task, Handles
<1>5. session' = Reimage(s, p, Entry(p).ppid, inc) /\ observed' = observed \cup {o}
  BY <1>3 DEF HandleExec
<1>6. session \in Session /\ Books(session) /\ Owner(session, p, inc)
  BY <1>3 DEF BookTypes, BookInv, OccupantInv
<1>7. /\ s \in Session /\ Books(s)
      /\ s.rows = session.rows /\ s.gen = session.gen
      /\ session.accesses \subseteq s.accesses
      /\ \E a \in s.accesses : a.inc = inc /\ a.file = file
  BY <1>4, <1>6, AccessIsTheOwners
<1> HIDE DEF s
<1>8. \A q \in Pids : \A j : Owner(session, q, j) <=> Owner(s, q, j)
  BY <1>7 DEF Owner
<1>9. Entry(p).ppid \in Pids \cup {NoPid, TracerPid}
  BY EntryShape DEF ProcessState
<1>10. /\ session' \in Session /\ Books(session')
       /\ session'.accesses = s.accesses
       /\ {r \in s.rows : r.inc # inc} \subseteq session'.rows
       /\ \A r \in session'.rows : r \in s.rows \/ r.inc = inc
       /\ \A q \in Pids : \A j : Owner(s, q, j) => Owner(session', q, j)
  <2>1. Owner(s, p, inc)  BY <1>6, <1>8
  <2> DEFINE pp == Entry(p).ppid
  <2>2. session' = Reimage(s, p, pp, inc) /\ pp \in Pids \cup {NoPid, TracerPid}
    BY <1>5, <1>9
  <2> HIDE DEF inc, pp
  <2> QED  BY <1>4, <1>7, <2>1, <2>2, ReimageReplacesTheRow
<1>11. o \in [inc : Nat, file : Files] /\ o.inc = inc /\ o.file = file  BY <1>4
<1> HIDE DEF o
<1>12. observed' \subseteq [inc : Nat, file : Files]  BY <1>5, <1>11 DEF BookTypes
<1>13. \A x \in observed' \ observed :
         \E a \in session'.accesses : a.inc = x.inc /\ a.file = x.file
  BY <1>5, <1>7, <1>10, <1>11
<1>14. why \in Reasons \ {"initial", "fork"}  BY <1>1 DEF Reasons
<1>15. /\ \A q \in Pids : \A j : Owner(session, q, j) => Owner(session', q, j)
       /\ \A r \in session'.rows : r \in session.rows \/ r.inc = task[p].inc
       /\ {r \in session.rows : r.inc # task[p].inc} \subseteq session'.rows
       /\ session.accesses \subseteq session'.accesses
  BY <1>3, <1>7, <1>8, <1>10
<1> QED  BY <1>1, <1>2, <1>10, <1>12, <1>13, <1>14, <1>15, OwnStopKeeps

(* A death ends the row of the owner, and the pid has no occupant the      *)
(* session has heard of.                                                   *)
LEMMA HandleDeathKeeps ==
  ASSUME KernelTypes, TaskInv, BookTypes, BookInv, NEW p \in Pids, HandleDeath(p)
  PROVE  KernelTypes' /\ TaskInv' /\ BookTypes' /\ BookInv'
<1> DEFINE i == report.of.inc
           u == Entry(p).usage
<1>1. /\ DeathReported /\ report.pid = p
      /\ KernelTypes' /\ TaskInv' /\ Unhandled' = Unhandled
      /\ report' = NoReport /\ UNCHANGED <<task, born>>
  BY TakingADeathKeeps
<1>2. /\ session' = OnProcessExit(session, p, i, u)
      /\ procs' = [procs EXCEPT ![p] = NotKnown] /\ buried' = buried \cup {i}
      /\ UNCHANGED <<observed, closed>>
  BY DEF HandleDeath
<1>3. session \in Session /\ Books(session) /\ Owner(session, p, i)
  BY <1>1 DEF BookTypes, BookInv, DyingInv, DeathReported
<1>4. u \in {NoInc, i}
  <2>1. CASE ~procs[p].known  BY <2>1, EntryShape
  <2>2. CASE procs[p].known
    <3>1. u = procs[p].usage  BY <2>2, EntryShape
    <3>2. u # NoInc => Owner(session, p, u)  BY <3>1 DEF BookInv, UsageInv
    <3> QED  BY <1>3, <3>2, OwnerIsTheOnlyOne
  <2> QED  BY <2>1, <2>2
<1>5. i \in DOMAIN born \ Unhandled /\ i \in Nat \ {NoInc} /\ born[i].pid = p
  BY <1>1, UnhandledAreBorn DEF DeathReported
<1>6. /\ session' \in Session /\ Books(session')
      /\ session'.accesses = session.accesses
      /\ \A r \in session'.rows : \E r0 \in session.rows : r0.inc = r.inc
      /\ \A r \in session.rows : r.inc # i => r \in session'.rows
      /\ \E r \in session'.rows : r.inc = i /\ r.end = i
      /\ \A q \in Pids : \A j : Owner(session, q, j) => Owner(session', q, j)
  <2> HIDE DEF u, i
  <2> QED  BY <1>2, <1>3, <1>4, <1>5, ExitFillsTheOwnersRow
<1>7. NotKnown \in ProcessState /\ NotKnown.usage = NoInc
  BY DEF NotKnown, ProcessState, NoInc
<1>8. BookTypes'  BY <1>2, <1>5, <1>6, <1>7 DEF BookTypes
<1>9. \A q \in Pids : procs'[q] = IF q = p THEN NotKnown ELSE procs[q]
  BY <1>2 DEF BookTypes
<1>10. \A r \in session'.rows : r.inc \in DOMAIN born' \ Unhandled'
  BY <1>1, <1>6 DEF BookInv
<1>11. OccupantInv'
  <2> SUFFICES ASSUME NEW q \in Pids, Now(q)'
               PROVE  /\ Owner(session', q, task'[q].inc)
                      /\ procs'[q].known /\ procs'[q].ppid # NoPid
    BY DEF OccupantInv, Owner
  <2>1. Now(q)  BY <1>1 DEF Now
  <2>2. q # p  BY <1>1, <2>1, PidOfADeath DEF Now
  <2> QED  BY <1>1, <1>6, <1>9, <2>1, <2>2 DEF BookInv, OccupantInv
<1>12. DyingInv'  BY <1>1, NoReportShape DEF DyingInv
<1>13. UsageInv'
  <2> SUFFICES ASSUME NEW q \in Pids, procs'[q].usage # NoInc
               PROVE  procs'[q].ppid # NoPid /\ Owner(session', q, procs'[q].usage)
    BY DEF UsageInv, Owner
  <2>1. procs'[q] = procs[q]  BY <1>7, <1>9
  <2> QED  BY <1>6, <2>1 DEF BookInv, UsageInv
<1>14. BuriedInv'
  <2> SUFFICES ASSUME NEW j \in buried'
               PROVE  /\ \E r \in session'.rows : r.inc = j /\ r.end = j
                      /\ \A q \in Pids : task'[q].inc # j
                      /\ report'.of.inc # j
    BY DEF BuriedInv
  <2>1. CASE j = i
    <3>1. \A q \in Pids : task[q].inc # i
      <4> SUFFICES ASSUME NEW q \in Pids, task[q].inc = i  PROVE FALSE
        OBVIOUS
      <4>1. task[q].state # "free"
        <5> SUFFICES ASSUME task[q].state = "free"  PROVE FALSE
          OBVIOUS
        <5>1. task[q] = FreeTask  BY DEF TaskInv, KernelInv
        <5> QED  BY <1>5, <5>1, FreeShape
      <4>2. q = p  BY <1>5, <4>1 DEF TaskInv, KernelInv
      <4> QED  BY <1>1, <1>5, <4>2, PidOfADeath
    <3> QED  BY <1>1, <1>5, <1>6, <2>1, <3>1, NoReportShape
  <2>2. CASE j # i
    <3>1. j \in buried  BY <1>2, <2>2
    <3>2. PICK r \in session.rows : r.inc = j /\ r.end = j  BY <3>1 DEF BookInv, BuriedInv
    <3>3. r \in session'.rows  BY <1>6, <2>2, <3>2
    <3>4. j # NoInc  BY <3>2, UnhandledAreBorn DEF BookInv
    <3> QED  BY <1>1, <3>1, <3>2, <3>3, <3>4, NoReportShape DEF BookInv, BuriedInv
  <2> QED  BY <2>1, <2>2
<1>15. DedupLosesNothing'
  BY <1>2, <1>6 DEF BookInv, DedupLosesNothing
<1>16. Books(session)'  BY <1>6 DEF Books, Owner, IdOf
<1> QED  BY <1>1, <1>8, <1>10, <1>11, <1>12, <1>13, <1>14, <1>15, <1>16 DEF BookInv

-----------------------------------------------------------------------------
(* The steps of the system *)

LEMMA TraceeStepKeeps ==
  ASSUME KernelTypes, TaskInv, BookTypes, BookInv, ~Kills, TraceeStep, UNCHANGED tracerVars
  PROVE  KernelTypes' /\ TaskInv' /\ BookTypes' /\ BookInv'
<1>1. UNCHANGED <<procs, report, session, observed, buried, closed>>  BY DEF tracerVars
<1>2. KernelTypes' /\ TaskInv' /\ Advances
  <2>1. PICK p \in Pids : \/ \E c \in Pids : Fork(p, c)
                          \/ Exec(p) \/ AccessFile(p) \/ Stop(p) \/ Exit(p) \/ Continue(p)
                          \/ Kill(p) \/ LoseExit(p)
    BY DEF TraceeStep
  <2>2. CASE \E c \in Pids : Fork(p, c)  BY <1>1, <2>2, ForkKeeps
  <2>3. ASSUME NEW why \in {"exec", "access", "exit", "sigstop"},
               NEW file \in Files \cup {NoFile},
               why \in {"exec", "access"} => file \in Files,
               StopWith(p, why, file), work' \in Nat
        PROVE  KernelTypes' /\ TaskInv' /\ Advances
    <3> DEFINE t == [StoppedTask(task[p].inc, why) EXCEPT !.file = file]
    <3>1. task[p].inc \in Nat  BY DEF KernelTypes, Task
    <3>2. t \in Task /\ t.state = "stopped" /\ t.inc = task[p].inc /\ t.why = why
          /\ t.told = FALSE /\ t.file = file
      BY <3>1 DEF StoppedTask, FreeTask, Task, NoInc, Reasons
    <3>3. task' = [task EXCEPT ![p] = t] /\ task[p].state = "running" /\ born' = born
      BY <2>3 DEF StopWith, Running
    <3> HIDE DEF t
    <3> QED  BY <1>1, <2>3, <3>2, <3>3, MoveKeeps
  <2>4. CASE Exec(p) \/ AccessFile(p)
    <3>1. PICK why \in {"exec", "access"}, file \in Files : Works /\ StopWith(p, why, file)
      BY <2>4 DEF Exec, AccessFile
    <3>2. work' \in Nat  BY <3>1 DEF Works, KernelTypes
    <3> QED  BY <2>3, <3>1, <3>2
  <2>5. CASE Stop(p) \/ Exit(p)
    <3>1. PICK why \in {"exit", "sigstop"} : StopWith(p, why, NoFile)
      BY <2>5 DEF Stop, Exit
    <3>2. work' \in Nat  BY <2>5 DEF Stop, Exit, Works, KernelTypes
    <3> QED  BY <2>3, <3>1, <3>2
  <2>6. CASE Continue(p)
    <3> DEFINE t == RunningTask(task[p].inc)
    <3>1. task[p].inc \in Nat  BY DEF KernelTypes, Task
    <3>2. t \in Task /\ t.state = "running" /\ t.inc = task[p].inc /\ t.why = "none"
          /\ t.told = FALSE
      BY <3>1, TaskShapes
    <3>3. task' = [task EXCEPT ![p] = t] /\ task[p].state = "group_stopped"
          /\ born' = born /\ work' \in Nat
      BY <2>6 DEF Continue, KernelTypes
    <3> HIDE DEF t
    <3> QED  BY <1>1, <3>2, <3>3, MoveKeeps
  <2>7. CASE LoseExit(p)  BY <1>1, <2>7, LoseExitKeeps
  <2>8. ~Kill(p)  BY DEF Kill
  <2> QED  BY <2>1, <2>2, <2>4, <2>5, <2>6, <2>7, <2>8
<1> QED  BY <1>1, <1>2, BooksStay DEF BookTypes

LEMMA WaitPidIsClean ==
  ASSUME KernelTypes, TaskInv, BookTypes, BookInv, EarlyReports # "any",
         NEW p \in Pids, WaitPid(p)
  PROVE  KernelTypes' /\ TaskInv' /\ BookTypes' /\ BookInv'
<1>1. UNCHANGED <<procs, session, observed, buried, closed>>  BY DEF WaitPid
<1>2. /\ KernelTypes' /\ TaskInv' /\ Unhandled' = Unhandled
      /\ \A q \in Pids : task'[q].inc \in {task[q].inc, NoInc}
      /\ DOMAIN born' = DOMAIN born
      /\ report'.of.inc = task[p].inc /\ report'.pid = p
      /\ report'.of.state = "zombie" => Now(p)
  BY WaitPidKeeps
<1>3. Advances  BY <1>2 DEF Advances
<1> QED  BY <1>1, <1>2, <1>3, BooksStay DEF BookTypes

LEMMA CheckStallIsClean ==
  ASSUME KernelTypes, TaskInv, BookTypes, BookInv, CheckStall
  PROVE  KernelTypes' /\ TaskInv' /\ BookTypes' /\ BookInv'
<1>1. UNCHANGED <<procs, report, session, observed, buried, closed>> /\ born' = born
  BY DEF CheckStall, tracerVars
<1>2. KernelTypes' /\ TaskInv' /\ Unhandled' = Unhandled
      /\ \A q \in Pids : task'[q].inc = task[q].inc
  BY CheckStallKeeps
<1>3. Advances  BY <1>1, <1>2 DEF Advances
<1> QED  BY <1>1, <1>2, <1>3, BooksStay DEF BookTypes

LEMMA InitIsClean ==
  ASSUME Init
  PROVE  KernelTypes /\ TaskInv /\ BookTypes /\ BookInv
<1> DEFINE first == [pid |-> RootPid, parent |-> NoInc]
<1>1. RootPid \in Pids  BY TraceesAssumption
<1>2. task = [p \in Pids |-> IF p = RootPid THEN RunningTask(1) ELSE FreeTask]
      /\ born = <<first>> /\ work = 0
      /\ procs = [p \in Pids |-> IF p = RootPid THEN NewState(TracerPid) ELSE NotKnown]
      /\ session = OnProcessStart(NewSession, RootPid, TracerPid, 1)
      /\ report = NoReport /\ observed = {} /\ buried = {} /\ closed = FALSE
  BY DEF Init, TraceesInit
<1>3. first \in [pid : Pids, parent : Nat] /\ first.pid = RootPid  BY <1>1 DEF NoInc
<1> HIDE DEF first
<1>4. born \in Seq([pid : Pids, parent : Nat]) /\ DOMAIN born = {1} /\ born[1] = first
  BY <1>2, <1>3
<1>5. /\ RunningTask(1) \in Task /\ RunningTask(1).state = "running"
      /\ RunningTask(1).inc = 1 /\ RunningTask(1).why = "none" /\ RunningTask(1).told = FALSE
      /\ FreeTask \in Task /\ FreeTask.state = "free" /\ FreeTask.inc = NoInc
      /\ FreeTask.why = "none" /\ FreeTask.told = FALSE
  BY TaskShapes
<1>6. report \in [pid : Pids \cup {NoPid}, of : Task] /\ report.of = FreeTask
  BY <1>2, <1>5 DEF NoReport
<1>7. KernelTypes  BY <1>2, <1>4, <1>5, <1>6 DEF KernelTypes
<1>8. Unhandled = {}  BY <1>2, <1>5 DEF Unhandled, Announcing, Stopped
<1>9. KernelInv  BY <1>1, <1>2, <1>3, <1>4, <1>5 DEF KernelInv, Stopped
<1>10. TaskInv  BY <1>2, <1>8, <1>9 DEF TaskInv
<1>11. NewSession \in Session /\ NewSession.rows = {} /\ NewSession.accesses = {}
       /\ NewSession.expect = {} /\ NewSession.collisions = 0
       /\ \A p \in Pids : NewSession.seen[p] = {}
  BY DEF NewSession, Session, NoGeneration
<1>12. Books(NewSession)  BY <1>11 DEF Books
<1>13. /\ session \in Session /\ Books(session)
       /\ session.accesses = NewSession.accesses
       /\ \A r \in session.rows \ NewSession.rows : r.inc = 1
       /\ Owner(session, RootPid, 1)
  <2> HIDE DEF first
  <2> DEFINE n == NewSession
  <2>1. \A r \in n.rows : r.inc # 1  BY <1>11
  <2>2. n \in Session /\ Books(n)  BY <1>11, <1>12
  <2>3. session = OnProcessStart(n, RootPid, TracerPid, 1)  BY <1>2
  <2> HIDE DEF n
  <2>4. PICK i \in {1} : session = OnProcessStart(n, RootPid, TracerPid, i)  BY <2>3
  <2>5. /\ session \in Session /\ Books(session)
        /\ session.accesses = n.accesses
        /\ \A r \in session.rows \ n.rows : r.inc = i
        /\ Owner(session, RootPid, i)
    BY <1>1, <2>1, <2>2, <2>4, StartAddsARow
  <2> QED  BY <2>5 DEF n
<1>14. NotKnown \in ProcessState /\ NotKnown.usage = NoInc
       /\ NewState(TracerPid) \in ProcessState /\ NewState(TracerPid).usage = NoInc
       /\ NewState(TracerPid).known /\ NewState(TracerPid).ppid = TracerPid
       /\ TracerPid # NoPid
  BY ProcessesAssumption DEF NotKnown, NewState, ProcessState, NoInc, NoPid
<1>15. BookTypes  BY <1>2, <1>13, <1>14 DEF BookTypes
<1>16. \A r \in session.rows : r.inc \in DOMAIN born \ Unhandled
  BY <1>4, <1>8, <1>11, <1>13
<1>17. OccupantInv /\ DyingInv /\ UsageInv /\ BuriedInv /\ DedupLosesNothing
  BY <1>2, <1>5, <1>6, <1>13, <1>14
     DEF OccupantInv, DyingInv, UsageInv, BuriedInv, DedupLosesNothing, Now
<1> QED  BY <1>7, <1>10, <1>13, <1>15, <1>16, <1>17 DEF BookInv

LEMMA NextIsClean ==
  ASSUME TracerInv, [Next]_vars, EarlyReports # "any", ~Kills
  PROVE  TracerInv'
<1> USE DEF TracerInv
<1>1. CASE TraceeStep /\ UNCHANGED tracerVars  BY <1>1, TraceeStepKeeps
<1>2. ASSUME NEW p \in Pids, WaitPid(p)  PROVE TracerInv'
  BY <1>2, WaitPidIsClean
<1>3. ASSUME NEW p \in Pids, Handle(p)  PROVE TracerInv'
  <2>1. CASE HandleDeath(p)  BY <2>1, HandleDeathKeeps
  <2>2. CASE HandleFork(p)  BY <2>2, HandleForkKeeps
  <2>3. CASE HandleExec(p)  BY <2>3, HandleExecKeeps
  <2>4. CASE HandleExitEvent(p)  BY <2>4, StopHandlersKeep
  <2>5. CASE HandleSyscall(p)  BY <2>5, HandleSyscallKeeps
  <2>6. CASE HandleSigstop(p)  BY <2>6, StopHandlersKeep
  <2> QED  BY <1>3, <2>1, <2>2, <2>3, <2>4, <2>5, <2>6 DEF Handle
<1>4. CASE CheckStall  BY <1>4, CheckStallIsClean
<1>5. ASSUME UNCHANGED <<task, born, work, procs, report, session, observed, buried>>,
             closed' \in BOOLEAN
      PROVE  TracerInv'
  <2>1. KernelTypes'  BY <1>5 DEF KernelTypes
  <2>2. Unhandled' = Unhandled  BY <1>5 DEF Unhandled, Announcing, Stopped
  <2>3. TaskInv'
    <3>1. KernelInv'  BY <1>5 DEF TaskInv, KernelInv, Stopped
    <3>2. \A i \in Unhandled' : Hidden(i)'
      BY <1>5, <2>2 DEF TaskInv, Hidden, Stopped, Zombie
    <3>3. (report = NoReport \/ StopReported \/ DeathReported)'
      <4>1. report' = report /\ task' = task /\ born' = born  BY <1>5
      <4>2. StopReported' <=> StopReported  BY <2>2, <4>1, Zenon DEF StopReported
      <4>3. DeathReported' <=> DeathReported  BY <2>2, <4>1, Zenon DEF DeathReported
      <4> QED  BY <4>1, <4>2, <4>3 DEF TaskInv
    <3> QED  BY <3>1, <3>2, <3>3 DEF TaskInv
  <2>4. BookTypes'  BY <1>5 DEF BookTypes
  <2>5. BookInv'
    <3>1. Books(session)' /\ (\A r \in session.rows : r.inc \in DOMAIN born \ Unhandled)'
      BY <1>5, <2>2 DEF BookInv, Books, Owner, IdOf
    <3>2. \A p \in Pids : Now(p)' <=> Now(p)  BY <1>5, <2>2 DEF Now
    <3>3. OccupantInv' /\ DyingInv' /\ UsageInv'
      BY <1>5, <3>2 DEF BookInv, OccupantInv, DyingInv, UsageInv, Owner
    <3>4. BuriedInv' /\ DedupLosesNothing'
      BY <1>5, <2>2, <3>2 DEF BookInv, BuriedInv, DedupLosesNothing
    <3> QED  BY <3>1, <3>3, <3>4 DEF BookInv
  <2> QED  BY <2>1, <2>3, <2>4, <2>5
<1>6. CASE Finish  BY <1>5, <1>6 DEF Finish, CloseTrace, kernelVars
<1>7. CASE UNCHANGED vars  BY <1>5, <1>7 DEF vars, BookTypes
<1> QED  BY <1>1, <1>2, <1>3, <1>4, <1>6, <1>7 DEF Next, Terminated

-----------------------------------------------------------------------------
(* Theorems *)

LEMMA TracerIsClean ==
  ASSUME EarlyReports # "any", ~Kills
  PROVE  Spec => []TracerInv
<1>1. Init => TracerInv  BY InitIsClean DEF TracerInv
<1>2. TracerInv /\ [Next]_vars => TracerInv'  BY NextIsClean
<1> QED  BY <1>1, <1>2, PTL DEF Spec

(* While no tracee is killed and the kernel reports no more of a child     *)
(* than its initial stop before the fork, every process has one row, with  *)
(* any number of pids, however often they are recycled, and whichever      *)
(* exits the kernel loses (on_process_start).                              *)
THEOREM EveryProcessHasOneRow ==
  ASSUME EarlyReports # "any", ~Kills
  PROVE  Spec => []OneRowPerProcess
<1>1. TracerInv => OneRowPerProcess
  BY DEF TracerInv, BookInv, Books, OneRowPerProcess
<1> QED  BY <1>1, TracerIsClean, PTL

(* Under the same assumptions, end times and usages are filled in in the   *)
(* rows of the processes that died (on_process_exit).                      *)
THEOREM DeathsStayApart ==
  ASSUME EarlyReports # "any", ~Kills
  PROVE  Spec => []DeathsAreTheirOwn
<1>1. TracerInv => DeathsAreTheirOwn
  BY DEF TracerInv, BookInv, Books, DeathsAreTheirOwn
<1> QED  BY <1>1, TracerIsClean, PTL

(* Under the same assumptions, every death that waitpid reported is        *)
(* recorded by the time the trace is closed (run_event_loop).              *)
THEOREM DeathsGetRecorded ==
  ASSUME EarlyReports # "any", ~Kills
  PROVE  Spec => []DeathsAreRecorded
<1>1. TracerInv => DeathsAreRecorded
  BY DEF TracerInv, BookInv, BuriedInv, DeathsAreRecorded, RowOf
<1> QED  BY <1>1, TracerIsClean, PTL

(* Under the same assumptions, an access is recorded under the id of the   *)
(* row of the process that made it (on_file_access, current_synth).        *)
THEOREM AccessesStayApart ==
  ASSUME EarlyReports # "any", ~Kills
  PROVE  Spec => []AccessesAreTheirOwn
<1>1. ASSUME TracerInv  PROVE AccessesAreTheirOwn
  <2> SUFFICES ASSUME NEW a \in session.accesses  PROVE RowIds(a.inc) = {a.id}
    BY DEF AccessesAreTheirOwn
  <2>1. PICK r \in session.rows : r.inc = a.inc /\ r.id = a.id
    BY <1>1 DEF TracerInv, BookInv, Books
  <2>2. RowOf(a.inc) = {r}
    BY <1>1, <2>1 DEF TracerInv, BookInv, Books, RowOf
  <2> QED  BY <2>1, <2>2 DEF RowIds
<1> QED  BY <1>1, TracerIsClean, PTL

(* Under the same assumptions, what the tracer saw a process access is     *)
(* recorded for it, although repeated accesses are dropped (already_seen). *)
THEOREM DedupIsSafe ==
  ASSUME EarlyReports # "any", ~Kills
  PROVE  Spec => []DedupLosesNothing
<1>1. TracerInv => DedupLosesNothing  BY DEF TracerInv, BookInv
<1> QED  BY <1>1, TracerIsClean, PTL

-----------------------------------------------------------------------------
(* Signals *)

(* p is in its initial stop, and no handler has run for it. *)
Fresh(p) ==
  Stopped(p) /\ task[p].why = "initial" /\ (~task[p].told \/ report.pid = p)

DeathPending(p) == report.pid = p /\ report.of.state = "zombie"

(* An entry that says "traced" of a tracee whose initial stop is not       *)
(* handled is left over from an earlier owner of the pid; a handler that   *)
(* comes first will drop it.                                               *)
SwallowInv ==
  /\ \A p \in Pids : Fresh(p) /\ procs[p].traced =>
       DeathPending(p) \/ (EarlyReports = "never" /\ task[p].inc \in Unhandled)
  /\ EarlyReports = "never" => \A p \in Pids : procs[p].known => procs[p].ppid # NoPid
  /\ EarlyReports # "never" =>
       \A p \in Pids : task[p].state = "free" /\ procs[p].traced => DeathPending(p)
  /\ EarlyReports = "never" /\ report.of.state = "stopped" => report.of.inc \notin Unhandled

(* What a resume with the signal held needs of the books; nothing is       *)
(* assumed of the kernel.                                                  *)
SignalInv ==
  /\ task \in [Pids -> Task]
  /\ Len(born) \in Nat /\ born \in Seq([pid : Pids, parent : Nat])
  /\ procs \in [Pids -> ProcessState]
  /\ report.of \in Task
  /\ \A p \in Pids :
       /\ task[p].inc \in 0..Len(born)
       /\ task[p].why # "none" => Stopped(p)
       /\ task[p].told => /\ Stopped(p) /\ report.pid = p /\ report.of.state = "stopped"
                          /\ report.of.inc = task[p].inc
       /\ procs[p].traced => procs[p].known
  /\ report.of.state = "stopped" /\ report.pid \in Pids =>
       /\ report.of.inc \in 0..Len(born)
       /\ \/ task[report.pid].state \in {"zombie", "free"}
          \/ task[report.pid].inc # report.of.inc
          \/ /\ task[report.pid].told /\ task[report.pid].why = report.of.why
             /\ task[report.pid].state = "stopped"

(* What tracees can do to the stops that the tracer has been told of: only *)
(* a SIGKILL ends one.                                                     *)
MoveOf(q) ==
  \/ task'[q] = task[q]
  \/ /\ ~task'[q].told /\ task'[q].inc \in 0..Len(born')
     /\ task'[q].why # "none" => Stopped(q)'
     /\ \/ task'[q].state \in {"zombie", "free"}
        \/ /\ task[q].state \in {"running", "group_stopped"}
           /\ task'[q].inc = task[q].inc
        \/ /\ task[q].state = "free" /\ task'[q].state = "stopped"
           /\ task'[q].inc = Len(born) + 1 /\ task'[q].why = "initial"

LEMMA TraceeMoves ==
  ASSUME SignalInv, TraceeStep
  PROVE  /\ task' \in [Pids -> Task]
         /\ born' \in Seq([pid : Pids, parent : Nat]) /\ Len(born') \in Nat
         /\ Len(born) <= Len(born')
         /\ \A q \in Pids : MoveOf(q)
<1>1. PICK p \in Pids : \/ \E c \in Pids : Fork(p, c)
                        \/ Exec(p) \/ AccessFile(p) \/ Stop(p) \/ Exit(p) \/ Continue(p)
                        \/ Kill(p) \/ LoseExit(p)
  BY DEF TraceeStep
<1> DEFINE M == task' \in [Pids -> Task] /\ \A q \in Pids : MoveOf(q)
<1>2. task \in [Pids -> Task] /\ task[p].inc \in Nat /\ task[p].inc \in 0..Len(born)
      /\ born \in Seq([pid : Pids, parent : Nat]) /\ Len(born) \in Nat
  BY DEF SignalInv, Task
<1>3. ASSUME NEW t \in Task, task' = [task EXCEPT ![p] = t], born' = born, ~t.told,
             t.why # "none" => t.state = "stopped",
             \/ t.state \in {"zombie", "free"} /\ t.inc \in {task[p].inc, NoInc}
             \/ task[p].state \in {"running", "group_stopped"} /\ t.inc = task[p].inc
      PROVE  M
  <2>1. \A q \in Pids : task'[q] = IF q = p THEN t ELSE task[q]  BY <1>2, <1>3
  <2>2. t.inc \in 0..Len(born')  BY <1>2, <1>3 DEF NoInc
  <2>3. task' \in [Pids -> Task]  BY <1>2, <1>3
  <2>4. MoveOf(p)  BY <1>3, <2>1, <2>2 DEF MoveOf, Stopped
  <2>5. \A q \in Pids \ {p} : MoveOf(q)  BY <2>1 DEF MoveOf
  <2> QED  BY <2>3, <2>4, <2>5
<1>4. ASSUME Exec(p) \/ AccessFile(p) \/ Stop(p) \/ Exit(p)  PROVE M
  <2>1. PICK why \in {"exec", "access", "exit", "sigstop"}, file \in Files \cup {NoFile} :
          StopWith(p, why, file)
    BY <1>4 DEF Exec, AccessFile, Stop, Exit
  <2> DEFINE t == [StoppedTask(task[p].inc, why) EXCEPT !.file = file]
  <2>2. t \in Task /\ t.state = "stopped" /\ t.inc = task[p].inc /\ t.told = FALSE
    BY <1>2 DEF StoppedTask, FreeTask, Task, NoInc, Reasons
  <2>3. task' = [task EXCEPT ![p] = t] /\ task[p].state = "running" /\ born' = born
    BY <2>1 DEF StopWith, Running
  <2> HIDE DEF t, M
  <2> QED  BY <1>3, <2>2, <2>3
<1>5. ASSUME Continue(p)  PROVE M
  <2> DEFINE t == RunningTask(task[p].inc)
  <2>1. t \in Task /\ t.inc = task[p].inc /\ t.why = "none" /\ t.told = FALSE
    BY <1>2, TaskShapes
  <2>2. task' = [task EXCEPT ![p] = t] /\ task[p].state = "group_stopped" /\ born' = born
    BY <1>5 DEF Continue
  <2> HIDE DEF t, M
  <2> QED  BY <1>3, <2>1, <2>2
<1>6. ASSUME Kill(p)  PROVE M
  <2> DEFINE t == ZombieTask(task[p].inc)
  <2>1. t \in Task /\ t.inc = task[p].inc /\ t.why = "none" /\ t.told = FALSE
        /\ t.state = "zombie"
    BY <1>2, TaskShapes
  <2>2. task' = [task EXCEPT ![p] = t] /\ born' = born  BY <1>6 DEF Kill
  <2> HIDE DEF t, M
  <2> QED  BY <1>3, <2>1, <2>2
<1>7. ASSUME LoseExit(p)  PROVE M
  <2> DEFINE t == FreeTask
  <2>1. t \in Task /\ t.inc = NoInc /\ t.why = "none" /\ t.told = FALSE /\ t.state = "free"
    BY <1>2, TaskShapes
  <2>2. task' = [task EXCEPT ![p] = t] /\ born' = born  BY <1>7 DEF LoseExit
  <2> HIDE DEF t, M
  <2> QED  BY <1>3, <2>1, <2>2
<1>8. ASSUME NEW c \in Pids, Fork(p, c)
      PROVE  /\ task' \in [Pids -> Task]
             /\ born' \in Seq([pid : Pids, parent : Nat]) /\ Len(born') = Len(born) + 1
             /\ \A q \in Pids : MoveOf(q)
  <2> DEFINE k == Len(born) + 1
             X == [StoppedTask(task[p].inc, "fork") EXCEPT !.child = k]
             Y == StoppedTask(k, "initial")
             e == [pid |-> c, parent |-> task[p].inc]
  <2>9. k \in Nat  BY <1>2
  <2>1. X \in Task /\ X.state = "stopped" /\ X.inc = task[p].inc /\ X.told = FALSE
    BY <1>2, <2>9 DEF StoppedTask, FreeTask, Task, NoInc, Reasons
  <2>2. Y \in Task /\ Y.state = "stopped" /\ Y.inc = k /\ Y.told = FALSE /\ Y.why = "initial"
    BY <1>2, <2>9 DEF StoppedTask, FreeTask, Task, NoInc, Reasons
  <2>3. task' = [task EXCEPT ![p] = X, ![c] = Y] /\ born' = Append(born, e)
        /\ task[p].state = "running" /\ task[c].state = "free"
    BY <1>8 DEF Fork, Running
  <2>4. e \in [pid : Pids, parent : Nat]  BY <1>2
  <2> HIDE DEF X, Y, e
  <2>5. born' \in Seq([pid : Pids, parent : Nat]) /\ Len(born') = Len(born) + 1
    BY <1>2, <2>3, <2>4
  <2>6. \A q \in Pids : task'[q] = IF q = c THEN Y ELSE IF q = p THEN X ELSE task[q]
    BY <1>2, <2>3
  <2>7. task' \in [Pids -> Task]  BY <1>2, <2>1, <2>2, <2>3
  <2>8. task[p].inc \in 0..Len(born') /\ k \in 0..Len(born')  BY <1>2, <2>5
  <2>10. \A q \in Pids : MoveOf(q)
    BY <2>1, <2>2, <2>3, <2>5, <2>6, <2>8 DEF MoveOf, Stopped
  <2> QED  BY <2>5, <2>7, <2>10
<1>9. M
  <2> HIDE DEF M
  <2>1. CASE \E c \in Pids : Fork(p, c)  BY <1>8, <2>1 DEF M
  <2> QED  BY <1>1, <1>4, <1>5, <1>6, <1>7, <2>1
<1>10. /\ born' \in Seq([pid : Pids, parent : Nat]) /\ Len(born') \in Nat
       /\ Len(born) <= Len(born')
  <2>1. CASE \E c \in Pids : Fork(p, c)
    <3>1. born' \in Seq([pid : Pids, parent : Nat]) /\ Len(born') = Len(born) + 1
      BY <1>8, <2>1
    <3> QED  BY <1>2, <3>1
  <2>2. CASE born' = born  BY <1>2, <2>2
  <2>3. (\E c \in Pids : Fork(p, c)) \/ born' = born
    BY <1>1 DEF Exec, AccessFile, Stop, Exit, Continue, Kill, LoseExit, StopWith
  <2> QED  BY <2>1, <2>2, <2>3
<1> QED  BY <1>9, <1>10

LEMMA TraceeMovesKeepSignals ==
  ASSUME SignalInv, TraceeStep, UNCHANGED tracerVars
  PROVE  SignalInv'
<1>1. UNCHANGED <<procs, report>>  BY DEF tracerVars
<1>2. report.of.state = "stopped" /\ report.pid \in Pids => report.of.inc \in 0..Len(born')
  BY TraceeMoves DEF SignalInv
<1>3. report.of.state = "stopped" /\ report.pid \in Pids =>
        \/ task'[report.pid].state \in {"zombie", "free"}
        \/ task'[report.pid].inc # report.of.inc
        \/ /\ task'[report.pid].told /\ task'[report.pid].why = report.of.why
           /\ task'[report.pid].state = "stopped"
  <2> SUFFICES ASSUME report.of.state = "stopped", report.pid \in Pids
               PROVE  \/ task'[report.pid].state \in {"zombie", "free"}
                      \/ task'[report.pid].inc # report.of.inc
                      \/ /\ task'[report.pid].told /\ task'[report.pid].why = report.of.why
                         /\ task'[report.pid].state = "stopped"
    OBVIOUS
  <2>1. report.of.inc # Len(born) + 1  BY DEF SignalInv
  <2>2. CASE task'[report.pid] = task[report.pid]  BY <2>2 DEF SignalInv
  <2>3. CASE task'[report.pid] # task[report.pid]
    BY <2>1, <2>3, TraceeMoves DEF SignalInv, MoveOf
  <2> QED  BY <2>2, <2>3
<1>4. \A p \in Pids :
        /\ task'[p].inc \in 0..Len(born')
        /\ task'[p].why # "none" => Stopped(p)'
        /\ task'[p].told => /\ Stopped(p)' /\ report.pid = p /\ report.of.state = "stopped"
                            /\ report.of.inc = task'[p].inc
        /\ procs[p].traced => procs[p].known
  BY TraceeMoves DEF SignalInv, MoveOf, Stopped
<1> QED  BY <1>1, <1>2, <1>3, <1>4, TraceeMoves DEF SignalInv

(* Nothing is reported while a report is pending. *)
LEMMA WaitPidKeepsSignals ==
  ASSUME SignalInv, NEW p \in Pids, WaitPid(p)
  PROVE  SignalInv'
<1> DEFINE X == IF Zombie(p) THEN FreeTask ELSE [task[p] EXCEPT !.told = TRUE]
<1>1. /\ report = NoReport /\ Reportable(p) /\ report' = [pid |-> p, of |-> task[p]]
      /\ UNCHANGED <<born, procs>> /\ task' = [task EXCEPT ![p] = X]
      /\ task[p] \in Task /\ report.pid = NoPid /\ NoPid \notin Pids
  BY ProcessesAssumption DEF WaitPid, Waiting, Reported, SignalInv, MayReport, NoReport, NoPid
<1>2. /\ Zombie(p) => X.state = "free" /\ X.told = FALSE /\ X.why = "none" /\ X.inc = NoInc
      /\ ~Zombie(p) => /\ X.told = TRUE /\ X.why = task[p].why /\ X.inc = task[p].inc
                       /\ X.state = task[p].state
      /\ X \in Task
  BY <1>1, TaskShapes DEF Task
<1> HIDE DEF X
<1>3. \A q \in Pids : task'[q] = IF q = p THEN X ELSE task[q]  BY <1>1 DEF SignalInv
<1>4. report'.pid = p /\ report'.of = task[p] /\ (Zombie(p) \/ Stopped(p))
  BY <1>1 DEF Reportable
<1>5. \A q \in Pids : ~task[q].told  BY <1>1 DEF SignalInv
<1>6. task' \in [Pids -> Task]  BY <1>1, <1>2 DEF SignalInv
<1>7. \A q \in Pids :
        /\ task'[q].inc \in 0..Len(born)
        /\ task'[q].why # "none" => Stopped(q)'
        /\ task'[q].told => /\ Stopped(q)' /\ report'.pid = q /\ report'.of.state = "stopped"
                            /\ report'.of.inc = task'[q].inc
        /\ procs[q].traced => procs[q].known
  BY <1>2, <1>3, <1>4, <1>5 DEF SignalInv, Stopped, Zombie, NoInc
<1>8. report'.of.state = "stopped" =>
        /\ report'.of.inc \in 0..Len(born)
        /\ task'[p].told /\ task'[p].why = report'.of.why /\ task'[p].state = "stopped"
  BY <1>2, <1>3, <1>4 DEF SignalInv, Stopped, Zombie
<1> QED  BY <1>1, <1>4, <1>6, <1>7, <1>8 DEF SignalInv

(* Where no resume is lost for good, the handler leaves nobody told. *)
LEMMA HandlersKeepSignals ==
  ASSUME SignalInv, NEW p \in Pids, Handle(p), ProcsOnly \/ ~ResumeMayBeLost
  PROVE  /\ SignalInv'
         /\ \A q \in Pids : task[q].why = "sigstop" /\ procs[q].traced
                              => task'[q].state # "running"
<1>1. report.pid = p /\ report' = NoReport /\ born' = born
  BY DEF Handle, HandleDeath, HandleFork, HandleExec, HandleExitEvent, HandleSyscall,
         HandleSigstop, Handles
<1>2. NoReport.pid = NoPid /\ NoReport.of = FreeTask /\ NoReport.of.state = "free"
      /\ FreeTask \in Task /\ p # NoPid
  BY TaskShapes, ProcessesAssumption DEF NoReport, NoPid
<1>3. NotKnown \in ProcessState /\ NotKnown.traced = FALSE
      /\ \A pp \in Pids \cup {NoPid} : /\ NewState(pp) \in ProcessState
                                       /\ NewState(pp).known /\ NewState(pp).traced = FALSE
  BY DEF NotKnown, NewState, ProcessState, NoInc
<1>4. Entry(p) \in ProcessState /\ Entry(p).known
      /\ (Entry(p).traced <=> procs[p].traced)
  <2>1. procs[p] \in ProcessState  BY DEF SignalInv
  <2>2. CASE procs[p].known  BY <2>1, <2>2 DEF Entry
  <2>3. CASE ~procs[p].known
    <3>1. Entry(p) = NewState(NoPid) /\ ~procs[p].traced  BY <2>3 DEF Entry, SignalInv
    <3> QED  BY <1>3, <3>1
  <2> QED  BY <2>2, <2>3
<1>5. procs' \in [Pids -> ProcessState] /\ \A q \in Pids : procs'[q].traced => procs'[q].known
  <2>1. ASSUME NEW e \in ProcessState, e.known, procs' = [procs EXCEPT ![p] = e]
        PROVE  procs' \in [Pids -> ProcessState]
               /\ \A q \in Pids : procs'[q].traced => procs'[q].known
    BY <2>1 DEF SignalInv
  <2>2. procs' = Entered(p) => procs' = [procs EXCEPT ![p] = Entry(p)]  BY DEF Entered
  <2>3. CASE HandleDeath(p)
    <3>1. procs' = [procs EXCEPT ![p] = NotKnown]  BY <2>3 DEF HandleDeath
    <3> QED  BY <1>3, <3>1 DEF SignalInv
  <2>4. CASE HandleFork(p)
    <3> DEFINE c == born[report.of.child].pid
               e == ChildEntry(c, p)
    <3>1. procs' = Entered(p) \/ procs' = [Entered(p) EXCEPT ![c] = e]
      BY <2>4 DEF HandleFork
    <3>2. c \in Pids => e \in ProcessState /\ e.known
      <4> SUFFICES ASSUME c \in Pids  PROVE e \in ProcessState /\ e.known
        OBVIOUS
      <4>1. CASE procs[c].known /\ procs[c].ppid = NoPid
        <5>1. e = [procs[c] EXCEPT !.ppid = p]  BY <4>1 DEF ChildEntry
        <5>2. procs[c] \in ProcessState  BY DEF SignalInv
        <5> HIDE DEF e, c
        <5> QED  BY <4>1, <5>1, <5>2 DEF ProcessState
      <4>2. CASE ~(procs[c].known /\ procs[c].ppid = NoPid)
        <5>1. e = NewState(p)  BY <4>2 DEF ChildEntry
        <5> HIDE DEF e
        <5> QED  BY <1>3, <5>1
      <4> QED  BY <4>1, <4>2
    <3> HIDE DEF e, c
    <3>3. Entered(p) \in [Pids -> ProcessState]
          /\ \A q \in Pids : Entered(p)[q].traced => Entered(p)[q].known
      BY <1>4 DEF Entered, SignalInv
    <3> QED  BY <3>1, <3>2, <3>3
  <2>5. CASE HandleExec(p) \/ HandleSyscall(p)
    BY <1>4, <2>1, <2>2, <2>5 DEF HandleExec, HandleSyscall
  <2>6. CASE HandleExitEvent(p)
    <3> DEFINE e == [Entry(p) EXCEPT !.usage = IF StillThere(p) THEN report.of.inc ELSE NoInc]
    <3>1. e \in ProcessState /\ e.known
      <4>1. report.of.inc \in Nat /\ NoInc \in Nat  BY DEF SignalInv, Task, NoInc
      <4> QED  BY <1>4, <4>1 DEF ProcessState
    <3>2. procs' = [procs EXCEPT ![p] = e]  BY <2>6 DEF HandleExitEvent
    <3> HIDE DEF e
    <3> QED  BY <2>1, <3>1, <3>2
  <2>7. CASE HandleSigstop(p)
    <3> DEFINE e == [Entry(p) EXCEPT !.traced = TRUE]
    <3>1. e \in ProcessState /\ e.known  BY <1>4 DEF ProcessState
    <3>2. procs' = [procs EXCEPT ![p] = e] \/ procs' = Entered(p)
      BY <2>7 DEF HandleSigstop
    <3> HIDE DEF e
    <3> QED  BY <1>4, <2>1, <2>2, <3>1, <3>2
  <2> QED  BY <2>3, <2>4, <2>5, <2>6, <2>7 DEF Handle
<1>6. \/ HandleDeath(p)
      \/ \E b \in BOOLEAN : \E v \in {ProcsOnly, TRUE} :
           /\ Resume(p, b, v)
           /\ report.of.state = "stopped"
           /\ report.of.why = "sigstop" /\ procs[p].traced => b
  <2>1. CASE HandleFork(p) \/ HandleExec(p) \/ HandleExitEvent(p) \/ HandleSyscall(p)
    <3>1. Resume(p, FALSE, ProcsOnly) /\ report.of.state = "stopped"
          /\ report.of.why # "sigstop"
      BY <2>1 DEF HandleFork, HandleExec, HandleExitEvent, HandleSyscall, Handles
    <3>2. \E b \in BOOLEAN : \E v \in {ProcsOnly, TRUE} : Resume(p, b, v)  BY <3>1
    <3> QED  BY <3>1, <3>2
  <2>2. CASE HandleSigstop(p)
    <3>1. report.of.state = "stopped"  BY <2>2 DEF HandleSigstop, Handles
    <3>2. CASE IsInitialStop(p) /\ Resume(p, FALSE, TRUE)
      <4>1. ~procs[p].traced  BY <1>4, <3>2 DEF IsInitialStop
      <4>2. \E b \in BOOLEAN : \E v \in {ProcsOnly, TRUE} : Resume(p, b, v)  BY <3>2
      <4> QED  BY <3>1, <4>1, <4>2
    <3>3. CASE Resume(p, TRUE, ProcsOnly)
      <4>1. PICK b \in {TRUE} : Resume(p, b, ProcsOnly)  BY <3>3
      <4> QED  BY <3>1, <4>1
    <3> QED  BY <2>2, <3>2, <3>3 DEF HandleSigstop
  <2> QED  BY <2>1, <2>2 DEF Handle
<1>7. /\ task' \in [Pids -> Task]
      /\ \A q \in Pids \ {p} : task'[q] = task[q]
      /\ task'[p].told = FALSE /\ task'[p].inc = task[p].inc
      /\ task'[p].why # "none" => task'[p] = task[p]
      /\ task[p].why = "sigstop" /\ procs[p].traced => task'[p].state # "running"
  <2>1. CASE HandleDeath(p)
    <3>1. task' = task /\ report.of.state = "zombie"  BY <2>1 DEF HandleDeath
    <3> QED  BY <3>1 DEF SignalInv, Stopped, Task
  <2>2. CASE ~HandleDeath(p)
    <3>1. PICK b \in BOOLEAN : \E v \in {ProcsOnly, TRUE} :
             /\ Resume(p, b, v)
             /\ report.of.state = "stopped"
             /\ report.of.why = "sigstop" /\ procs[p].traced => b
      BY <1>6, <2>2
    <3>2. CASE StillThere(p)
      <4> DEFINE R == ResumedTask(task[p], b)
      <4>1. task[p] \in Task  BY DEF SignalInv
      <4>2. /\ R \in Task /\ R.inc = task[p].inc /\ R.why = "none" /\ R.told = FALSE
        <5>1. CASE b = TRUE  BY <4>1, <5>1, ResumedShape
        <5>2. CASE b = FALSE  BY <4>1, <5>2, ResumedShape
        <5> QED  BY <5>1, <5>2
      <4>3. task' = [task EXCEPT ![p] = R]
        <5>1. PICK v \in {ProcsOnly, TRUE} : Resume(p, b, v)  BY <3>1
        <5>2. ResumeMayBeLost => v = TRUE
          <6>1. ProcsOnly \in BOOLEAN  BY TraceesAssumption
          <6> QED  BY <6>1
        <5> HIDE DEF R
        <5>3. task' = [task EXCEPT ![p] = R] \/ (ResumeMayBeLost /\ ~v)
          BY <3>2, <5>1 DEF Resume, R
        <5> QED  BY <5>2, <5>3
      <4>4. task[p].why = report.of.why
        BY <1>1, <3>1, <3>2 DEF StillThere, Stopped, SignalInv
      <4>5. task[p].why = "sigstop" /\ procs[p].traced => R.state = "group_stopped"
        <5> SUFFICES ASSUME task[p].why = "sigstop", procs[p].traced
                     PROVE  R.state = "group_stopped"
          OBVIOUS
        <5>1. b  BY <3>1, <4>4
        <5>2. R = [FreeTask EXCEPT !.state = "group_stopped", !.inc = task[p].inc]
          BY <5>1 DEF ResumedTask
        <5> HIDE DEF R
        <5> QED  BY <5>2 DEF FreeTask
      <4> HIDE DEF R
      <4> QED  BY <4>2, <4>3, <4>5 DEF SignalInv
    <3>3. CASE ~StillThere(p)
      <4>1. task' = task  BY <3>1, <3>3 DEF Resume
      <4>2. ~task[p].told
        BY <1>1, <3>1, <3>3 DEF SignalInv, StillThere, Stopped
      <4> QED  BY <4>1, <4>2 DEF SignalInv, Stopped, Task
    <3> QED  BY <3>2, <3>3
  <2> QED  BY <2>1, <2>2
<1>8. \A q \in Pids :
        /\ task'[q].inc \in 0..Len(born')
        /\ task'[q].why # "none" => Stopped(q)'
        /\ ~task'[q].told
  BY <1>1, <1>7 DEF SignalInv, Stopped
<1>9. SignalInv'
  BY <1>1, <1>2, <1>5, <1>7, <1>8 DEF SignalInv
<1>10. \A q \in Pids : task[q].why = "sigstop" /\ procs[q].traced
                         => task'[q].state # "running"
  BY <1>7 DEF SignalInv, Stopped
<1> QED  BY <1>9, <1>10

LEMMA SignalsAreKept ==
  ASSUME SignalInv, [Next]_vars, ProcsOnly \/ ~ResumeMayBeLost
  PROVE  /\ SignalInv'
         /\ \A q \in Pids : task[q].why = "sigstop" /\ procs[q].traced
                              => task'[q].state # "running"
<1>1. \A q \in Pids : task[q].why = "sigstop" => task[q].state # "running"
  BY DEF SignalInv, Stopped
<1>2. CASE TraceeStep /\ UNCHANGED tracerVars
  <2>1. \A q \in Pids : task[q].why = "sigstop" => task'[q].state # "running"
    <3> SUFFICES ASSUME NEW q \in Pids, task[q].why = "sigstop", task'[q].state = "running"
                 PROVE  FALSE
      OBVIOUS
    <3>1. task[q].state = "stopped"  BY DEF SignalInv, Stopped
    <3>2. MoveOf(q)  BY <1>2, TraceeMoves
    <3> QED  BY <1>1, <3>1, <3>2 DEF MoveOf
  <2> QED  BY <1>2, <2>1, TraceeMovesKeepSignals
<1>3. ASSUME NEW p \in Pids, WaitPid(p)
      PROVE  /\ SignalInv'
             /\ \A q \in Pids : task[q].why = "sigstop" => task'[q].state # "running"
  <2>1. task' = [task EXCEPT ![p] = IF Zombie(p) THEN FreeTask
                                                 ELSE [task[p] EXCEPT !.told = TRUE]]
    BY <1>3 DEF WaitPid, Reported
  <2>2. task[p].why = "sigstop" => task'[p].state # "running"
    <3>1. task[p] \in Task  BY DEF SignalInv
    <3> DEFINE X == [task[p] EXCEPT !.told = TRUE]
    <3>2. X.state = task[p].state  BY <3>1 DEF Task
    <3>3. FreeTask.state # "running"  BY TaskShapes
    <3> HIDE DEF X
    <3>4. task'[p] = FreeTask \/ task'[p] = X  BY <2>1 DEF SignalInv, X
    <3> QED  BY <1>1, <3>2, <3>3, <3>4
  <2>3. \A q \in Pids \ {p} : task'[q] = task[q]  BY <2>1 DEF SignalInv
  <2> QED  BY <1>1, <1>3, <2>2, <2>3, WaitPidKeepsSignals
<1>4. ASSUME NEW p \in Pids, Handle(p)
      PROVE  /\ SignalInv'
             /\ \A q \in Pids : task[q].why = "sigstop" /\ procs[q].traced
                                  => task'[q].state # "running"
  BY <1>4, HandlersKeepSignals
<1>5. ~CheckStall
  <2> SUFFICES ASSUME CheckStall  PROVE FALSE
    OBVIOUS
  <2>1. PICK p \in Pids : Stuck(p)  BY DEF CheckStall
  <2>2. report = NoReport /\ NoReport.pid = NoPid /\ NoPid \notin Pids
    BY ProcessesAssumption DEF CheckStall, Waiting, NoReport, NoPid
  <2> QED  BY <2>1, <2>2 DEF Stuck, SignalInv
<1>6. CASE UNCHANGED <<task, born, procs, report>>
  BY <1>1, <1>6 DEF SignalInv, Stopped
<1>7. CASE Finish  BY <1>6, <1>7 DEF Finish, CloseTrace, kernelVars
<1>8. CASE UNCHANGED vars  BY <1>6, <1>8 DEF vars
<1> QED  BY <1>2, <1>3, <1>4, <1>5, <1>7, <1>8 DEF Next, Terminated

LEMMA SignalsAtFirst ==
  Init => SignalInv
<1> SUFFICES ASSUME Init  PROVE SignalInv
  OBVIOUS
<1> DEFINE first == [pid |-> RootPid, parent |-> NoInc]
<1>1. RootPid \in Pids  BY TraceesAssumption
<1>2. task = [p \in Pids |-> IF p = RootPid THEN RunningTask(1) ELSE FreeTask]
      /\ born = <<first>>
      /\ procs = [p \in Pids |-> IF p = RootPid THEN NewState(TracerPid) ELSE NotKnown]
      /\ report = NoReport
  BY DEF Init, TraceesInit
<1>3. first \in [pid : Pids, parent : Nat]  BY <1>1 DEF NoInc
<1> HIDE DEF first
<1>4. born \in Seq([pid : Pids, parent : Nat]) /\ Len(born) = 1  BY <1>2, <1>3
<1>5. /\ RunningTask(1) \in Task /\ RunningTask(1).inc = 1 /\ RunningTask(1).why = "none"
      /\ RunningTask(1).told = FALSE
      /\ FreeTask \in Task /\ FreeTask.state = "free" /\ FreeTask.inc = 0
      /\ FreeTask.why = "none" /\ FreeTask.told = FALSE
  BY TaskShapes DEF NoInc
<1>6. report.of = FreeTask  BY <1>2 DEF NoReport
<1>7. NotKnown \in ProcessState /\ NotKnown.traced = FALSE
      /\ NewState(TracerPid) \in ProcessState /\ NewState(TracerPid).traced = FALSE
  BY DEF NotKnown, NewState, ProcessState, NoInc
<1> QED  BY <1>2, <1>4, <1>5, <1>6, <1>7 DEF SignalInv

(* Without kills, a tracee gets into its initial stop only by a fork.      *)
LEMMA TraceesStartStopped ==
  ASSUME KernelTypes, TaskInv, ~Kills, TraceeStep, UNCHANGED report
  PROVE  /\ Advances
         /\ \A q \in Pids :
              \/ task'[q] = task[q]
              \/ /\ task'[q].why # "initial" /\ task'[q].state # "group_stopped"
                 /\ task'[q].state = "free" => ExitMayBeLost
              \/ /\ task[q].state = "free" /\ task'[q].inc \in Unhandled'
                 /\ task'[q].state = "stopped"
<1>1. PICK p \in Pids : \/ \E c \in Pids : Fork(p, c)
                        \/ Exec(p) \/ AccessFile(p) \/ Stop(p) \/ Exit(p) \/ Continue(p)
                        \/ Kill(p) \/ LoseExit(p)
  BY DEF TraceeStep
<1>2. task[p].inc \in Nat  BY DEF KernelTypes, Task
<1>3. CASE Exec(p) \/ AccessFile(p) \/ Stop(p) \/ Exit(p)
  <2>1. PICK why \in {"exec", "access", "exit", "sigstop"}, file \in Files \cup {NoFile} :
          StopWith(p, why, file) /\ (why \in {"exec", "access"} => file \in Files)
    BY <1>3 DEF Exec, AccessFile, Stop, Exit
  <2> DEFINE t == [StoppedTask(task[p].inc, why) EXCEPT !.file = file]
  <2>2. t \in Task /\ t.state = "stopped" /\ t.inc = task[p].inc /\ t.why = why
        /\ t.told = FALSE /\ t.file = file
    BY <1>2 DEF StoppedTask, FreeTask, Task, NoInc, Reasons
  <2>3. task' = [task EXCEPT ![p] = t] /\ task[p].state = "running" /\ born' = born
    BY <2>1 DEF StopWith, Running
  <2>4. work' \in Nat  BY <1>3 DEF Exec, AccessFile, Stop, Exit, Works, KernelTypes
  <2> HIDE DEF t
  <2>5. Advances  BY <2>1, <2>2, <2>3, <2>4, MoveKeeps
  <2>6. \A q \in Pids : task'[q] = IF q = p THEN t ELSE task[q]  BY <2>3 DEF KernelTypes
  <2> QED  BY <2>1, <2>2, <2>5, <2>6
<1>4. CASE Continue(p)
  <2> DEFINE t == RunningTask(task[p].inc)
  <2>1. t \in Task /\ t.state = "running" /\ t.inc = task[p].inc /\ t.why = "none"
        /\ t.told = FALSE
    BY <1>2, TaskShapes
  <2>2. task' = [task EXCEPT ![p] = t] /\ task[p].state = "group_stopped"
        /\ born' = born /\ work' \in Nat
    BY <1>4 DEF Continue, KernelTypes
  <2> HIDE DEF t
  <2>3. Advances  BY <2>1, <2>2, MoveKeeps
  <2>4. \A q \in Pids : task'[q] = IF q = p THEN t ELSE task[q]  BY <2>2 DEF KernelTypes
  <2> QED  BY <2>1, <2>3, <2>4
<1>5. CASE LoseExit(p)
  <2>1. Advances  BY <1>5, LoseExitKeeps
  <2>2. ExitMayBeLost /\ \A q \in Pids : task'[q] = IF q = p THEN FreeTask ELSE task[q]
    BY <1>5 DEF LoseExit, KernelTypes
  <2>3. FreeTask.why = "none" /\ FreeTask.state = "free"  BY TaskShapes
  <2> QED  BY <2>1, <2>2, <2>3
<1>6. CASE \E c \in Pids : Fork(p, c)
  <2>1. PICK c \in Pids : Fork(p, c)  BY <1>6
  <2> DEFINE k == Len(born) + 1
             X == [StoppedTask(task[p].inc, "fork") EXCEPT !.child = k]
             Y == StoppedTask(k, "initial")
  <2>2. Advances  BY <2>1, ForkKeeps
  <2>3. k \in Nat  BY UnhandledAreBorn
  <2>4. X.state = "stopped" /\ X.why = "fork" /\ X.told = FALSE /\ X.child = k
    BY <1>2, <2>3 DEF StoppedTask, FreeTask, Task, NoInc, Reasons
  <2>5. Y.state = "stopped" /\ Y.inc = k
    BY <2>3 DEF StoppedTask, FreeTask, Task, NoInc, Reasons
  <2>6. task' = [task EXCEPT ![p] = X, ![c] = Y] /\ p # c /\ task[c].state = "free"
    BY <2>1 DEF Fork, Running
  <2> HIDE DEF X, Y, k
  <2>7. task'[p] = X /\ task'[c] = Y /\ \A q \in Pids \ {p, c} : task'[q] = task[q]
    BY <2>6 DEF KernelTypes
  <2>8. k \in Unhandled'
    <3>1. Announcing(p)'  BY <2>4, <2>7 DEF Announcing, Stopped
    <3> QED  BY <2>4, <2>7, <3>1 DEF Unhandled
  <2> QED  BY <2>2, <2>4, <2>5, <2>6, <2>7, <2>8
<1>7. ~Kill(p)  BY DEF Kill
<1> QED  BY <1>1, <1>3, <1>4, <1>5, <1>6, <1>7

(* No step but a resume with the signal puts a tracee in its initial stop  *)
(* under job control.                                                      *)
Swallows ==
  SwallowInv' /\ \A q \in Pids : task[q].why = "initial" => task'[q].state # "group_stopped"

LEMMA TraceesSwallow ==
  ASSUME KernelTypes, TaskInv, SwallowInv, ~Kills, TraceeStep, UNCHANGED tracerVars,
         EarlyReports = "never" \/ ~ExitMayBeLost
  PROVE  Swallows
<1>1. UNCHANGED <<procs, report>>  BY DEF tracerVars
<1>2. \A q \in Pids :
        \/ task'[q] = task[q]
        \/ /\ task'[q].why # "initial" /\ task'[q].state # "group_stopped"
           /\ task'[q].state = "free" => ExitMayBeLost
        \/ /\ task[q].state = "free" /\ task'[q].inc \in Unhandled'
           /\ task'[q].state = "stopped"
  BY <1>1, TraceesStartStopped
<1>3. DOMAIN born \subseteq DOMAIN born' /\ Unhandled \subseteq Unhandled'
      /\ Unhandled' \cap DOMAIN born \subseteq Unhandled
  BY <1>1, TraceesStartStopped DEF Advances
<1>4. \A q \in Pids : Fresh(q)' /\ procs'[q].traced =>
        DeathPending(q)' \/ (EarlyReports = "never" /\ task'[q].inc \in Unhandled')
  <2> SUFFICES ASSUME NEW q \in Pids, Fresh(q)', procs[q].traced
               PROVE  DeathPending(q)' \/ (EarlyReports = "never" /\ task'[q].inc \in Unhandled')
    BY <1>1
  <2>1. CASE task'[q] = task[q]
    BY <1>1, <1>3, <2>1 DEF SwallowInv, Fresh, Stopped, DeathPending
  <2>2. CASE task[q].state = "free" /\ task'[q].inc \in Unhandled'
    BY <1>1, <2>2 DEF SwallowInv, DeathPending
  <2> QED  BY <1>2, <2>1, <2>2 DEF Fresh
<1>5. EarlyReports # "never" =>
        \A q \in Pids : task'[q].state = "free" /\ procs'[q].traced => DeathPending(q)'
  BY <1>1, <1>2 DEF SwallowInv, DeathPending
<1>6. report.of.state = "stopped" => report.of.inc \in DOMAIN born
  <2> SUFFICES ASSUME report.of.state = "stopped"  PROVE report.of.inc \in DOMAIN born
    OBVIOUS
  <2>1. StopReported
    <3>1. report # NoReport  BY NoReportShape
    <3> QED  BY <3>1 DEF TaskInv, DeathReported
  <2>2. task[report.pid].state = "stopped" /\ task[report.pid].inc = report.of.inc
    BY <2>1 DEF StopReported, KernelTypes, Task
  <2> QED  BY <2>1, <2>2 DEF TaskInv, KernelInv, StopReported
<1>7. SwallowInv'
  BY <1>1, <1>3, <1>4, <1>5, <1>6 DEF SwallowInv
<1>8. \A q \in Pids : task[q].why = "initial" => task'[q].state # "group_stopped"
  BY <1>2 DEF TaskInv, KernelInv, Stopped
<1> QED  BY <1>7, <1>8 DEF Swallows

(* Where the kernel reports forks first, waitpid reports nothing of a      *)
(* child that is unhandled.                                                *)
LEMMA WaitPidSwallows ==
  ASSUME KernelTypes, TaskInv, SwallowInv, EarlyReports # "any", NEW p \in Pids, WaitPid(p)
  PROVE  Swallows
<1> DEFINE X == IF Zombie(p) THEN FreeTask ELSE [task[p] EXCEPT !.told = TRUE]
<1>1. /\ report = NoReport /\ MayReport(p) /\ report' = [pid |-> p, of |-> task[p]]
      /\ task' = [task EXCEPT ![p] = X] /\ procs' = procs /\ task[p] \in Task
  BY DEF WaitPid, Waiting, Reported, KernelTypes
<1>2. report.pid = NoPid /\ NoPid \notin Pids
  BY <1>1, ProcessesAssumption DEF NoReport, NoPid
<1>3. /\ Zombie(p) => X.state = "free" /\ X.why = "none"
      /\ ~Zombie(p) => X.told = TRUE /\ X.why = task[p].why /\ X.inc = task[p].inc
                       /\ X.state = task[p].state
  BY <1>1, TaskShapes DEF Task
<1> HIDE DEF X
<1>4. \A q \in Pids : task'[q] = IF q = p THEN X ELSE task[q]
  BY <1>1 DEF KernelTypes
<1>5. report'.pid = p /\ report'.of = task[p]  BY <1>1
<1>6. Zombie(p) \/ (Stopped(p) /\ ~task[p].told)  BY <1>1 DEF MayReport, Reportable
<1>7. Unhandled' = Unhandled  BY WaitPidKeeps
<1>8. \A q \in Pids : Fresh(q)' => Fresh(q) /\ task'[q].inc = task[q].inc
  BY <1>3, <1>4, <1>5, <1>6 DEF Fresh, Stopped, Zombie
<1>9. \A q \in Pids : ~DeathPending(q)  BY <1>2 DEF DeathPending
<1>10. \A q \in Pids : task'[q].state = "free" => task[q].state = "free" \/ DeathPending(q)'
  BY <1>3, <1>4, <1>5, <1>6 DEF DeathPending, Stopped, Zombie
<1>11. EarlyReports = "never" => task[p].inc \notin Unhandled
  <2> SUFFICES ASSUME EarlyReports = "never", task[p].inc \in Unhandled  PROVE FALSE
    OBVIOUS
  <2>1. PICK q \in Pids : Announcing(q) /\ task[q].child = task[p].inc  BY DEF Unhandled
  <2>2. Unannounced(p)  BY <1>2, <2>1 DEF Unannounced, Announcing
  <2> QED  BY <1>1, <2>2 DEF MayReport
<1>12. SwallowInv'
  BY <1>1, <1>5, <1>7, <1>8, <1>9, <1>10, <1>11 DEF SwallowInv
<1>13. \A q \in Pids : task[q].why = "initial" => task'[q].state # "group_stopped"
  BY <1>3, <1>4 DEF TaskInv, KernelInv, Stopped
<1> QED  BY <1>12, <1>13 DEF Swallows

(* With the entry goes what it says of the initial stop.                   *)
LEMMA DeathSwallows ==
  ASSUME KernelTypes, TaskInv, BookTypes, SwallowInv, NEW p \in Pids, HandleDeath(p)
  PROVE  Swallows
<1>1. report.pid = p /\ procs' = [procs EXCEPT ![p] = NotKnown]
  BY DEF HandleDeath
<1>2. report' = NoReport /\ UNCHANGED <<task, born>> /\ Unhandled' = Unhandled
  BY TakingADeathKeeps
<1>3. NotKnown.known = FALSE /\ NotKnown.traced = FALSE  BY DEF NotKnown
<1>4. \A q \in Pids : procs'[q] = IF q = p THEN NotKnown ELSE procs[q]
  BY <1>1 DEF BookTypes
<1>5. report'.pid = NoPid /\ NoPid \notin Pids /\ report'.of.state = "free"
  BY <1>2, NoReportShape, ProcessesAssumption DEF NoPid
<1>6. \A q \in Pids : Fresh(q)' => Fresh(q)  BY <1>2, <1>5 DEF Fresh, Stopped
<1>7. \A q \in Pids \ {p} : ~DeathPending(q)  BY <1>1 DEF DeathPending
<1>8. SwallowInv'
  BY <1>2, <1>3, <1>4, <1>5, <1>6, <1>7 DEF SwallowInv
<1>9. \A q \in Pids : task[q].why = "initial" => task'[q].state # "group_stopped"
  BY <1>2 DEF TaskInv, KernelInv, Stopped
<1> QED  BY <1>8, <1>9 DEF Swallows

(* A handler that resumes p, and after a fork enters the child c, with the *)
(* signal held if the stop is the initial one.                             *)
LEMMA ResumesSwallow ==
  ASSUME KernelTypes, TaskInv, BookTypes, OccupantInv, SwallowInv,
         NEW p \in Pids, NEW why, Handles(p, why),
         NEW b \in BOOLEAN, NEW v, Resume(p, b, v), why = "initial" => ~b,
         NEW c \in Pids, why # "fork" => c = p,
         why = "fork" => /\ c # p /\ c = born[report.of.child].pid
                         /\ task[c].state # "free" /\ procs'[c].ppid # NoPid
                         /\ Fresh(c) => ~procs'[c].traced,
         \A q \in Pids \ {p, c} : procs'[q] = procs[q],
         procs'[p].ppid = Entry(p).ppid
  PROVE  Swallows
<1> DEFINE R == ResumedTask(task[p], b)
<1>1. /\ StillThere(p) /\ task[p].told /\ task[p].why = why
      /\ task[p].inc = report.of.inc /\ task[p].inc \in DOMAIN born
      /\ report.pid = p /\ report.of.state = "stopped" /\ Stopped(p)
  BY ReportedStays DEF Handles, StillThere
<1>2. /\ report' = NoReport
      /\ \A q \in Pids : task'[q].inc = task[q].inc
      /\ why = "fork" => Unhandled' = Unhandled \ {report.of.child}
      /\ why # "fork" => Unhandled' = Unhandled
  BY ResumeKeeps
<1>3. R.why = "none" /\ R.state \in {"running", "group_stopped", "zombie"}
  <2>1. task[p] \in Task  BY DEF KernelTypes
  <2>2. CASE b = TRUE  BY <2>1, <2>2, ResumedShape
  <2>3. CASE b = FALSE  BY <2>1, <2>3, ResumedShape
  <2> QED  BY <2>2, <2>3
<1>4. why = "initial" => R.state = "running"
  <2> SUFFICES ASSUME why = "initial"  PROVE R.state = "running"
    OBVIOUS
  <2>1. R = RunningTask(task[p].inc)  BY <1>1 DEF ResumedTask
  <2>2. task[p].inc \in Nat  BY DEF KernelTypes, Task
  <2> HIDE DEF R
  <2> QED  BY <2>1, <2>2, TaskShapes
<1> HIDE DEF R
<1>5. \A q \in Pids : task'[q] = task[q] \/ (q = p /\ task'[q] = R)
  <2>1. task' = task \/ task' = [task EXCEPT ![p] = R]  BY <1>1 DEF Resume, R
  <2> QED  BY <2>1 DEF KernelTypes
<1>6. report'.pid = NoPid /\ NoPid \notin Pids /\ report'.of.state = "free"
  BY <1>2, NoReportShape, ProcessesAssumption DEF NoPid
<1>7. \A q \in Pids : Fresh(q)' => Fresh(q) /\ q # p
  BY <1>1, <1>3, <1>5, <1>6 DEF Fresh, Stopped
<1>8. \A q \in Pids : ~DeathPending(q)  BY <1>1 DEF DeathPending
<1>9. \A q \in Pids \ {p} : Fresh(q)' /\ procs'[q].traced =>
        EarlyReports = "never" /\ task'[q].inc \in Unhandled'
  <2> SUFFICES ASSUME NEW q \in Pids \ {p}, Fresh(q)', procs'[q].traced
               PROVE  EarlyReports = "never" /\ task'[q].inc \in Unhandled'
    OBVIOUS
  <2>1. q # c  BY <1>7
  <2>2. EarlyReports = "never" /\ task[q].inc \in Unhandled
    BY <1>7, <1>8, <2>1 DEF SwallowInv
  <2>3. why = "fork" => task[q].inc # report.of.child
    BY <1>7, <2>1 DEF Fresh, Stopped, TaskInv, KernelInv
  <2> QED  BY <1>2, <2>2, <2>3
<1>10. EarlyReports = "never" => \A q \in Pids : procs'[q].known => procs'[q].ppid # NoPid
  <2> SUFFICES ASSUME EarlyReports = "never", NEW q \in Pids, procs'[q].known
               PROVE  procs'[q].ppid # NoPid
    OBVIOUS
  <2>1. CASE q = p
    <3>1. Now(p)  BY <1>1, UnhandledAreBorn DEF SwallowInv, Now
    <3>2. procs[p].known /\ procs[p].ppid # NoPid  BY <3>1 DEF OccupantInv
    <3> QED  BY <2>1, <3>2 DEF Entry
  <2>2. CASE q # p /\ q = c  BY <2>2
  <2>3. CASE q # p /\ q # c  BY <2>3 DEF SwallowInv
  <2> QED  BY <2>1, <2>2, <2>3
<1>11. EarlyReports # "never" => \A q \in Pids : ~(task'[q].state = "free" /\ procs'[q].traced)
  BY <1>1, <1>3, <1>5, <1>8 DEF SwallowInv, Stopped
<1>12. SwallowInv'
  BY <1>6, <1>7, <1>9, <1>10, <1>11 DEF SwallowInv
<1>13. \A q \in Pids : task[q].why = "initial" => task'[q].state # "group_stopped"
  BY <1>1, <1>4, <1>5 DEF TaskInv, KernelInv, Stopped
<1> QED  BY <1>12, <1>13 DEF Swallows

(* A child is entered anew, or its early entry is; either says that its    *)
(* initial stop is to come, unless the entry was left by a lost exit.      *)
LEMMA ForkSwallows ==
  ASSUME KernelTypes, TaskInv, BookTypes, BookInv, SwallowInv, NEW p \in Pids, HandleFork(p)
  PROVE  Swallows
<1> DEFINE i == report.of.child
           c == born[i].pid
           e == ChildEntry(c, p)
<1>1. Handles(p, "fork") /\ Resume(p, FALSE, ProcsOnly)
  BY DEF HandleFork
<1>2. StillThere(p) /\ i = task[p].child /\ task[p].told /\ task[p].why = "fork"
      /\ report.pid = p /\ Stopped(p) /\ report.of.state = "stopped"
  BY <1>1, ReportedStays DEF StillThere, Handles
<1>3. i \in Unhandled  BY <1>2 DEF Unhandled, Announcing
<1>4. i \in Nat \ {NoInc} /\ c \in Pids /\ Hidden(i)
  BY <1>3, UnhandledAreBorn DEF TaskInv
<1>5. c # p /\ task[c].inc = i  BY <1>2, <1>4 DEF Hidden
<1>6. task[c].state # "free"
  <2>1. FreeTask.inc = NoInc  BY TaskShapes
  <2> QED  BY <1>4, <1>5, <2>1 DEF TaskInv, KernelInv
<1>7. procs' = [Entered(p) EXCEPT ![c] = e]  BY <1>2 DEF HandleFork
<1>8. p # NoPid  BY ProcessesAssumption DEF NoPid
<1>9. /\ e.ppid = p
      /\ e.traced => procs[c].known /\ procs[c].ppid = NoPid /\ procs[c].traced
  <2>1. CASE procs[c].known /\ procs[c].ppid = NoPid
    <3>1. e = [procs[c] EXCEPT !.ppid = p]  BY <2>1 DEF ChildEntry
    <3> HIDE DEF e
    <3> QED  BY <1>4, <2>1, <3>1 DEF BookTypes, ProcessState
  <2>2. CASE ~(procs[c].known /\ procs[c].ppid = NoPid)
    <3>1. e = NewState(p)  BY <2>2 DEF ChildEntry
    <3> HIDE DEF e
    <3> QED  BY <3>1 DEF NewState, NotKnown
  <2> QED  BY <2>1, <2>2
<1> HIDE DEF e
<1>10. \A q \in Pids : procs'[q] = IF q = c THEN e ELSE IF q = p THEN Entry(p) ELSE procs[q]
  BY <1>4, <1>7, EntryShape DEF BookTypes
<1>11. Fresh(c) => ~e.traced
  <2>1. ~DeathPending(c)  BY <1>2 DEF DeathPending
  <2> QED  BY <1>4, <1>9, <2>1 DEF SwallowInv
<1>12. OccupantInv  BY DEF BookInv
<1>13. procs'[c] = e /\ procs'[p] = Entry(p) /\ \A q \in Pids \ {p, c} : procs'[q] = procs[q]
  BY <1>4, <1>5, <1>10
<1>14. PICK why \in {"fork"}, b \in {FALSE} : Handles(p, why) /\ Resume(p, b, ProcsOnly)
  BY <1>1
<1>15. /\ why = "fork" => /\ c # p /\ c = born[report.of.child].pid
                          /\ task[c].state # "free" /\ procs'[c].ppid # NoPid
                          /\ Fresh(c) => ~procs'[c].traced
       /\ why # "fork" => c = p
       /\ why = "initial" => ~b
  BY <1>5, <1>6, <1>8, <1>9, <1>11, <1>13
<1> HIDE DEF i, c
<1>16. c \in Pids /\ b \in BOOLEAN  BY <1>4 DEF c, i
<1>17. c = born[report.of.child].pid  BY DEF c, i
<1> QED  BY <1>12, <1>13, <1>14, <1>15, <1>16, ResumesSwallow

(* Other handlers keep the parent in the entry; the stop of a tracee that  *)
(* is not yet "traced" is swallowed.                                       *)
LEMMA StopsSwallow ==
  ASSUME KernelTypes, TaskInv, BookTypes, BookInv, SwallowInv, NEW p \in Pids,
         HandleExec(p) \/ HandleExitEvent(p) \/ HandleSyscall(p) \/ HandleSigstop(p)
  PROVE  Swallows
<1>1. OccupantInv  BY DEF BookInv
<1>2. ASSUME NEW why, Handles(p, why), why # "fork", NEW b \in BOOLEAN, NEW v,
             Resume(p, b, v), why = "initial" => ~b, NEW e,
             procs' = [procs EXCEPT ![p] = e], e.ppid = Entry(p).ppid
      PROVE  Swallows
  <2>1. \A q \in Pids : procs'[q] = IF q = p THEN e ELSE procs[q]  BY <1>2 DEF BookTypes
  <2>2. procs'[p].ppid = Entry(p).ppid /\ \A q \in Pids \ {p} : procs'[q] = procs[q]
    BY <1>2, <2>1
  <2> QED  BY <1>1, <1>2, <2>2, ResumesSwallow
<1>3. Entry(p) \in ProcessState  BY EntryShape
<1>4. CASE HandleExec(p) \/ HandleSyscall(p)
  <2>1. PICK why \in {"exec", "access"}, b \in {FALSE} : Handles(p, why) /\ Resume(p, b, ProcsOnly)
    BY <1>4 DEF HandleExec, HandleSyscall
  <2>2. procs' = [procs EXCEPT ![p] = Entry(p)]
    BY <1>4 DEF HandleExec, HandleSyscall, Entered
  <2> QED  BY <1>2, <2>1, <2>2
<1>5. CASE HandleExitEvent(p)
  <2> DEFINE e == [Entry(p) EXCEPT !.usage = IF StillThere(p) THEN report.of.inc ELSE NoInc]
  <2>1. PICK why \in {"exit"}, b \in {FALSE} : Handles(p, why) /\ Resume(p, b, ProcsOnly)
    BY <1>5 DEF HandleExitEvent
  <2>2. procs' = [procs EXCEPT ![p] = e] /\ e.ppid = Entry(p).ppid
    BY <1>3, <1>5 DEF HandleExitEvent, ProcessState
  <2> HIDE DEF e
  <2> QED  BY <1>2, <2>1, <2>2
<1>6. CASE HandleSigstop(p)
  <2>1. PICK why \in {"initial", "sigstop"} : Handles(p, why)  BY <1>6 DEF HandleSigstop
  <2>2. CASE IsInitialStop(p) /\ procs' = [procs EXCEPT ![p] = [Entry(p) EXCEPT !.traced = TRUE]]
             /\ Resume(p, FALSE, TRUE)
    <3> DEFINE e == [Entry(p) EXCEPT !.traced = TRUE]
    <3>1. e.ppid = Entry(p).ppid /\ procs' = [procs EXCEPT ![p] = e]
      BY <1>3, <2>2 DEF ProcessState
    <3>2. PICK b \in {FALSE} : Resume(p, b, TRUE)  BY <2>2
    <3> HIDE DEF e
    <3> QED  BY <1>2, <2>1, <3>1, <3>2
  <2>3. CASE ~IsInitialStop(p) /\ procs' = Entered(p) /\ Resume(p, TRUE, ProcsOnly)
    <3>1. why # "initial"
      <4> SUFFICES ASSUME why = "initial"  PROVE FALSE
        OBVIOUS
      <4>1. /\ StillThere(p) /\ task[p].told /\ task[p].why = why /\ report.pid = p
            /\ task[p].inc = report.of.inc /\ report.of.state = "stopped"
        BY <2>1, ReportedStays DEF Handles
      <4>2. Fresh(p) /\ ~DeathPending(p)
        BY <4>1 DEF Fresh, StillThere, DeathPending
      <4>3. procs[p].traced
        BY <2>3 DEF IsInitialStop, Entry, NewState, NotKnown
      <4> QED  BY <4>1, <4>2, <4>3 DEF SwallowInv
    <3>2. procs' = [procs EXCEPT ![p] = Entry(p)]  BY <2>3 DEF Entered
    <3>3. PICK b \in {TRUE} : Resume(p, b, ProcsOnly)  BY <2>3
    <3> QED  BY <1>2, <2>1, <3>1, <3>2, <3>3
  <2> QED  BY <1>6, <2>2, <2>3 DEF HandleSigstop
<1> QED  BY <1>4, <1>5, <1>6

(* The stall check resumes without a signal.                               *)
LEMMA StallsSwallow ==
  ASSUME KernelTypes, TaskInv, SwallowInv, CheckStall
  PROVE  Swallows
<1>1. report = NoReport /\ UNCHANGED <<procs, report>>
  BY DEF CheckStall, Waiting, tracerVars
<1>2. report.pid = NoPid /\ NoPid \notin Pids /\ report.of.state = "free"
  BY <1>1, NoReportShape, ProcessesAssumption DEF NoPid
<1>3. Unhandled' = Unhandled  BY CheckStallKeeps
<1> DEFINE R(q) == ResumedTask(task[q], FALSE)
<1>4. task' = [q \in Pids |-> IF procs[q].known /\ Stuck(q) THEN R(q) ELSE task[q]]
  BY DEF CheckStall
<1>5. \A q \in Pids : /\ R(q).inc = task[q].inc /\ R(q).why = "none"
                      /\ R(q).state \in {"running", "group_stopped", "zombie"}
  <2> TAKE q \in Pids
  <2>1. task[q] \in Task /\ FALSE \in BOOLEAN  BY DEF KernelTypes
  <2> QED  BY <2>1, ResumedShape
<1>6. \A q \in Pids : task[q].why = "initial" => R(q).state = "running"
  <2> SUFFICES ASSUME NEW q \in Pids, task[q].why = "initial"  PROVE R(q).state = "running"
    OBVIOUS
  <2>1. R(q) = RunningTask(task[q].inc)  BY DEF ResumedTask
  <2>2. RunningTask(task[q].inc).state = "running"
    BY TaskShapes DEF KernelTypes, Task
  <2> QED  BY <2>1, <2>2
<1> HIDE DEF R
<1>7. \A q \in Pids : task'[q] = task[q] \/ task'[q] = R(q)  BY <1>4
<1>8. \A q \in Pids : Fresh(q)' => Fresh(q) /\ task'[q] = task[q]
  BY <1>1, <1>5, <1>7 DEF Fresh, Stopped
<1>9. \A q \in Pids : task'[q].state = "free" => task'[q] = task[q]  BY <1>5, <1>7
<1>10. SwallowInv'
  BY <1>1, <1>2, <1>3, <1>8, <1>9 DEF SwallowInv, DeathPending
<1>11. \A q \in Pids : task[q].why = "initial" => task'[q].state # "group_stopped"
  BY <1>6, <1>7 DEF TaskInv, KernelInv, Stopped
<1> QED  BY <1>10, <1>11 DEF Swallows

LEMMA NextSwallows ==
  ASSUME TracerInv, SwallowInv, [Next]_vars, ~Kills, EarlyReports # "any",
         EarlyReports = "never" \/ ~ExitMayBeLost
  PROVE  Swallows
<1> USE DEF TracerInv
<1>1. CASE TraceeStep /\ UNCHANGED tracerVars  BY <1>1, TraceesSwallow
<1>2. ASSUME NEW p \in Pids, WaitPid(p)  PROVE Swallows
  BY <1>2, WaitPidSwallows
<1>3. ASSUME NEW p \in Pids, Handle(p)  PROVE Swallows
  <2>1. CASE HandleDeath(p)  BY <2>1, DeathSwallows
  <2>2. CASE HandleFork(p)  BY <2>2, ForkSwallows
  <2>3. CASE ~HandleDeath(p) /\ ~HandleFork(p)  BY <1>3, <2>3, StopsSwallow DEF Handle
  <2> QED  BY <2>1, <2>2, <2>3
<1>4. CASE CheckStall  BY <1>4, StallsSwallow
<1>5. CASE UNCHANGED <<task, procs, report>>
  BY <1>5 DEF Swallows, SwallowInv, Fresh, DeathPending, Unhandled, Announcing, Stopped,
              TaskInv, KernelInv
<1>6. CASE Finish  BY <1>5, <1>6 DEF Finish, CloseTrace, kernelVars
<1>7. CASE UNCHANGED vars  BY <1>5, <1>7 DEF vars
<1> QED  BY <1>1, <1>2, <1>3, <1>4, <1>6, <1>7 DEF Next, Terminated

LEMMA SwallowAtFirst ==
  Init => SwallowInv
<1> SUFFICES ASSUME Init  PROVE SwallowInv
  OBVIOUS
<1>1. procs = [p \in Pids |-> IF p = RootPid THEN NewState(TracerPid) ELSE NotKnown]
      /\ report = NoReport
  BY DEF Init
<1>2. NotKnown.known = FALSE /\ NotKnown.traced = FALSE
      /\ NewState(TracerPid).traced = FALSE /\ NewState(TracerPid).ppid = TracerPid
  BY DEF NotKnown, NewState
<1>3. TracerPid # NoPid  BY ProcessesAssumption DEF NoPid
<1>4. report.of.state = "free"  BY <1>1, NoReportShape
<1> QED  BY <1>1, <1>2, <1>3, <1>4 DEF SwallowInv

(* The initial SIGSTOP of a child is swallowed, however pids are recycled, *)
(* where the kernel reports the fork first, or reports every exit; if it   *)
(* does neither, an entry left by a lost exit says that a later child of   *)
(* the same pid is traced already (handle_fork_event, run_event_loop).     *)
THEOREM InitialStopsAreSwallowed ==
  ASSUME EarlyReports # "any", ~Kills, EarlyReports = "never" \/ ~ExitMayBeLost
  PROVE  Spec => InitialStopSwallowed
<1> DEFINE Swallowed == \A p \in Pids : task[p].why = "initial"
                                          => task'[p].state # "group_stopped"
<1>1. Spec => []TracerInv  BY TracerIsClean
<1>2. Init => SwallowInv  BY SwallowAtFirst
<1>3. TracerInv /\ SwallowInv /\ [Next]_vars => SwallowInv' /\ Swallowed
  BY NextSwallows DEF Swallows
<1>4. Spec => [][Swallowed]_vars  BY <1>1, <1>2, <1>3, PTL DEF Spec
<1> QED  BY <1>4 DEF InitialStopSwallowed

(* p is a child that is past its initial stop.                             *)
Begun(p) ==
  /\ task[p].state \in {"running", "stopped", "group_stopped"}
  /\ task[p].inc # 1 /\ task[p].why # "initial"

(* A child past its initial stop is entered as traced; before its fork     *)
(* event is handled, without a parent, so that the handler keeps the entry *)
(* (ChildEntry).  Where every exit is reported, no entry is left to a pid  *)
(* that a child of an unhandled fork gets.                                 *)
TracedInv ==
  /\ \A p \in Pids : Begun(p) =>
       /\ procs[p].traced
       /\ task[p].inc \in Unhandled => EarlyReports # "never" /\ procs[p].ppid = NoPid
  /\ EarlyReports # "never" => \A p \in Pids :
       /\ procs[p].known
       /\ task[p].state = "free" \/ (Fresh(p) /\ task[p].inc \in Unhandled)
       => DeathPending(p)

LEMMA TraceesStayTraced ==
  ASSUME KernelTypes, TaskInv, SignalInv, TracedInv, ~Kills, TraceeStep,
         UNCHANGED tracerVars, EarlyReports = "never" \/ ~ExitMayBeLost
  PROVE  TracedInv'
<1>1. UNCHANGED <<procs, report>>  BY DEF tracerVars
<1>2. \A q \in Pids :
        \/ task'[q] = task[q]
        \/ /\ task'[q].why # "initial" /\ task'[q].state # "group_stopped"
           /\ task'[q].state = "free" => ExitMayBeLost
        \/ task[q].state = "free" /\ task'[q].inc \in Unhandled' /\ task'[q].state = "stopped"
  BY <1>1, TraceesStartStopped
<1>3. \A q \in Pids : MoveOf(q)  BY TraceeMoves
<1>4. Unhandled' \cap DOMAIN born \subseteq Unhandled
  BY <1>1, TraceesStartStopped DEF Advances
<1>5. \A q \in Pids : task[q].state # "free" => task[q].inc \in DOMAIN born
  BY DEF TaskInv, KernelInv
<1>6. \A q \in Pids : Begun(q)' => Begun(q) /\ task'[q].inc = task[q].inc
  <2> SUFFICES ASSUME NEW q \in Pids, Begun(q)'
               PROVE  Begun(q) /\ task'[q].inc = task[q].inc
    OBVIOUS
  <2>1. CASE task'[q] = task[q]  BY <2>1 DEF Begun
  <2>2. CASE /\ task[q].state \in {"running", "group_stopped"}
             /\ task'[q].inc = task[q].inc
    <3>1. task[q].why # "initial"  BY <2>2 DEF SignalInv, Stopped
    <3> QED  BY <2>2, <3>1 DEF Begun
  <2>3. MoveOf(q)  BY <1>3
  <2> QED  BY <2>1, <2>2, <2>3 DEF MoveOf, Begun
<1>7. \A q \in Pids : Begun(q)' =>
        /\ procs'[q].traced
        /\ task'[q].inc \in Unhandled' => EarlyReports # "never" /\ procs'[q].ppid = NoPid
  <2> SUFFICES ASSUME NEW q \in Pids, Begun(q)'
               PROVE  /\ procs[q].traced
                      /\ task'[q].inc \in Unhandled' =>
                           EarlyReports # "never" /\ procs[q].ppid = NoPid
    BY <1>1
  <2>1. Begun(q) /\ task'[q].inc = task[q].inc /\ task[q].state # "free"
    BY <1>6 DEF Begun
  <2>2. task'[q].inc \in Unhandled' => task[q].inc \in Unhandled  BY <1>4, <1>5, <2>1
  <2> QED  BY <2>1, <2>2 DEF TracedInv
<1>8. ASSUME EarlyReports # "never", NEW q \in Pids, procs'[q].known,
             task'[q].state = "free" \/ (Fresh(q)' /\ task'[q].inc \in Unhandled')
      PROVE  DeathPending(q)'
  <2>1. CASE task'[q] = task[q]
    <3>1. task[q].state = "free" \/ (Fresh(q) /\ task[q].inc \in Unhandled)
      BY <1>1, <1>4, <1>5, <1>8, <2>1 DEF Fresh, Stopped
    <3> QED  BY <1>1, <1>8, <3>1 DEF TracedInv, DeathPending
  <2>2. CASE task[q].state = "free"
    BY <1>1, <1>8, <2>2 DEF TracedInv, DeathPending
  <2> QED  BY <1>2, <1>8, <2>1, <2>2 DEF Fresh
<1> QED  BY <1>7, <1>8 DEF TracedInv

LEMMA WaitPidKeepsTraced ==
  ASSUME KernelTypes, TaskInv, TracedInv, EarlyReports # "any", NEW p \in Pids, WaitPid(p)
  PROVE  TracedInv'
<1> DEFINE X == IF Zombie(p) THEN FreeTask ELSE [task[p] EXCEPT !.told = TRUE]
<1>1. /\ report = NoReport /\ MayReport(p) /\ report' = [pid |-> p, of |-> task[p]]
      /\ task' = [task EXCEPT ![p] = X] /\ procs' = procs /\ task[p] \in Task
  BY DEF WaitPid, Waiting, Reported, KernelTypes
<1>2. report.pid = NoPid /\ NoPid \notin Pids
  BY <1>1, ProcessesAssumption DEF NoReport, NoPid
<1>3. /\ Zombie(p) => X.state = "free" /\ X.why = "none"
      /\ ~Zombie(p) => X.told = TRUE /\ X.why = task[p].why /\ X.inc = task[p].inc
                       /\ X.state = task[p].state
  BY <1>1, TaskShapes DEF Task
<1> HIDE DEF X
<1>4. \A q \in Pids : task'[q] = IF q = p THEN X ELSE task[q]
  BY <1>1 DEF KernelTypes
<1>5. report'.pid = p /\ report'.of = task[p]  BY <1>1
<1>6. Zombie(p) \/ (Stopped(p) /\ ~task[p].told)  BY <1>1 DEF MayReport, Reportable
<1>7. Unhandled' = Unhandled  BY WaitPidKeeps
<1>8. \A q \in Pids : Begun(q)' => Begun(q) /\ task'[q].inc = task[q].inc
  BY <1>3, <1>4 DEF Begun
<1>9. \A q \in Pids : Fresh(q)' => Fresh(q) /\ task'[q].inc = task[q].inc
  BY <1>3, <1>4, <1>5, <1>6 DEF Fresh, Stopped, Zombie
<1>10. \A q \in Pids : ~DeathPending(q)  BY <1>2 DEF DeathPending
<1>11. \A q \in Pids : task'[q].state = "free" => task[q].state = "free" \/ DeathPending(q)'
  BY <1>3, <1>4, <1>5, <1>6 DEF DeathPending, Stopped, Zombie
<1>12. \A q \in Pids : Begun(q)' =>
        /\ procs'[q].traced
        /\ task'[q].inc \in Unhandled' => EarlyReports # "never" /\ procs'[q].ppid = NoPid
  BY <1>1, <1>7, <1>8 DEF TracedInv
<1>13. ASSUME EarlyReports # "never", NEW q \in Pids, procs'[q].known,
              task'[q].state = "free" \/ (Fresh(q)' /\ task'[q].inc \in Unhandled')
       PROVE  DeathPending(q)'
  <2>1. task[q].state = "free" \/ (Fresh(q) /\ task[q].inc \in Unhandled) \/ DeathPending(q)'
    BY <1>7, <1>9, <1>11, <1>13
  <2> QED  BY <1>1, <1>10, <1>13, <2>1 DEF TracedInv
<1> QED  BY <1>12, <1>13 DEF TracedInv

(* The pid of a death has no owner past its initial stop.                  *)
LEMMA DeathKeepsTraced ==
  ASSUME KernelTypes, TaskInv, BookTypes, TracedInv, NEW p \in Pids, HandleDeath(p)
  PROVE  TracedInv'
<1>1. report.pid = p /\ report.of.state = "zombie" /\ procs' = [procs EXCEPT ![p] = NotKnown]
  BY DEF HandleDeath
<1>2. report' = NoReport /\ UNCHANGED <<task, born>> /\ Unhandled' = Unhandled
  BY TakingADeathKeeps
<1>3. NotKnown.known = FALSE  BY DEF NotKnown
<1>4. \A q \in Pids : procs'[q] = IF q = p THEN NotKnown ELSE procs[q]
  BY <1>1 DEF BookTypes
<1>5. ~Begun(p)
  <2>1. DeathReported
    <3>1. report # NoReport  BY <1>1, NoReportShape
    <3> QED  BY <1>1, <3>1 DEF TaskInv, StopReported
  <2>2. CASE task[p] = FreeTask  BY <2>2, FreeShape DEF Begun
  <2>3. CASE \E i \in Unhandled : task[p] = StoppedTask(i, "initial")
    <3>1. PICK i \in Unhandled : task[p] = StoppedTask(i, "initial")  BY <2>3
    <3>2. task[p].why = "initial"  BY <3>1, InitialStopShape
    <3> QED  BY <3>2 DEF Begun
  <2> QED  BY <1>1, <2>1, <2>2, <2>3 DEF DeathReported
<1>6. report'.pid = NoPid /\ NoPid \notin Pids
  BY <1>2, NoReportShape, ProcessesAssumption DEF NoPid
<1>7. \A q \in Pids : (Fresh(q)' => Fresh(q)) /\ (Begun(q)' <=> Begun(q))
  BY <1>2, <1>6 DEF Fresh, Begun, Stopped
<1>8. \A q \in Pids \ {p} : ~DeathPending(q)  BY <1>1 DEF DeathPending
<1>9. \A q \in Pids : Begun(q)' =>
        /\ procs'[q].traced
        /\ task'[q].inc \in Unhandled' => EarlyReports # "never" /\ procs'[q].ppid = NoPid
  BY <1>2, <1>4, <1>5, <1>7 DEF TracedInv
<1>10. ASSUME EarlyReports # "never", NEW q \in Pids, procs'[q].known,
              task'[q].state = "free" \/ (Fresh(q)' /\ task'[q].inc \in Unhandled')
       PROVE  DeathPending(q)'
  <2>1. q # p  BY <1>3, <1>4, <1>10
  <2> QED  BY <1>2, <1>4, <1>7, <1>8, <1>10, <2>1 DEF TracedInv
<1> QED  BY <1>9, <1>10 DEF TracedInv

(* A handler resumes p, and after a fork enters the child c.               *)
LEMMA ResumesKeepTraced ==
  ASSUME KernelTypes, TaskInv, BookTypes, SignalInv, SwallowInv, TracedInv,
         NEW p \in Pids, NEW why, Handles(p, why), NEW b \in BOOLEAN, NEW v, Resume(p, b, v),
         NEW c \in Pids, why # "fork" => c = p,
         why = "fork" => /\ c # p /\ task[c].state # "free"
                         /\ task[c].inc = report.of.child /\ report.of.child \in Unhandled
                         /\ procs[c].known /\ procs[c].ppid = NoPid /\ procs[c].traced
                              => procs'[c].traced,
         \A q \in Pids \ {p, c} : procs'[q] = procs[q],
         procs'[p].ppid = Entry(p).ppid,
         procs[p].traced \/ why = "initial" => procs'[p].traced
  PROVE  TracedInv'
<1> DEFINE R == ResumedTask(task[p], b)
<1>1. /\ StillThere(p) /\ task[p].told /\ task[p].why = why
      /\ task[p].inc = report.of.inc
      /\ report.pid = p /\ report.of.state = "stopped" /\ Stopped(p)
  BY ReportedStays DEF Handles, StillThere
<1>2. /\ report' = NoReport
      /\ \A q \in Pids : task'[q].inc = task[q].inc
      /\ why = "fork" => Unhandled' = Unhandled \ {report.of.child}
      /\ why # "fork" => Unhandled' = Unhandled
  BY ResumeKeeps
<1>3. R.why = "none" /\ R.state \in {"running", "group_stopped", "zombie"}
  <2>1. task[p] \in Task  BY DEF KernelTypes
  <2>2. CASE b = TRUE  BY <2>1, <2>2, ResumedShape
  <2>3. CASE b = FALSE  BY <2>1, <2>3, ResumedShape
  <2> QED  BY <2>2, <2>3
<1> HIDE DEF R
<1>4. \A q \in Pids : task'[q] = task[q] \/ (q = p /\ task'[q] = R)
  <2>1. task' = task \/ task' = [task EXCEPT ![p] = R]  BY <1>1 DEF Resume, R
  <2> QED  BY <2>1 DEF KernelTypes
<1>5. report'.pid = NoPid /\ NoPid \notin Pids
  BY <1>2, NoReportShape, ProcessesAssumption DEF NoPid
<1>6. \A q \in Pids : Fresh(q)' => Fresh(q) /\ q # p
  BY <1>1, <1>3, <1>4, <1>5 DEF Fresh, Stopped
<1>7. \A q \in Pids : ~DeathPending(q)  BY <1>1 DEF DeathPending
<1>8. Unhandled' \subseteq Unhandled  BY <1>2
<1>9. ASSUME Begun(p)'
      PROVE  /\ procs'[p].traced
             /\ task'[p].inc \in Unhandled' => EarlyReports # "never" /\ procs'[p].ppid = NoPid
  <2>1. task[p].inc # 1 /\ task[p].state = "stopped"
    BY <1>1, <1>2, <1>9 DEF Begun, Stopped
  <2>2. CASE why # "initial"
    <3>1. Begun(p)  BY <1>1, <2>1, <2>2 DEF Begun
    <3>2. procs[p].traced /\ Entry(p) = procs[p]  BY <3>1 DEF TracedInv, SignalInv, Entry
    <3> QED  BY <1>2, <1>8, <3>1, <3>2 DEF TracedInv
  <2>3. CASE why = "initial"
    <3>1. Fresh(p)  BY <1>1, <2>3 DEF Fresh
    <3>2. ASSUME task[p].inc \in Unhandled
          PROVE  EarlyReports # "never" /\ procs'[p].ppid = NoPid
      <4>1. EarlyReports # "never"  BY <1>1, <3>2 DEF SwallowInv
      <4>2. ~procs[p].known  BY <1>7, <3>1, <3>2, <4>1 DEF TracedInv
      <4>3. Entry(p).ppid = NoPid  BY <4>2 DEF Entry, NewState, NotKnown
      <4> QED  BY <4>1, <4>3
    <3> QED  BY <1>2, <1>8, <2>3, <3>2
  <2> QED  BY <2>2, <2>3
<1>10. ASSUME Begun(c)', c # p  PROVE procs'[c].traced /\ task'[c].inc \notin Unhandled'
  <2>1. why = "fork" /\ Begun(c)  BY <1>4, <1>10 DEF Begun
  <2>2. procs[c].traced /\ procs[c].known /\ procs[c].ppid = NoPid
    BY <2>1 DEF TracedInv, SignalInv
  <2> QED  BY <1>2, <2>1, <2>2
<1>11. \A q \in Pids \ {p, c} : Begun(q)' =>
         /\ procs'[q].traced
         /\ task'[q].inc \in Unhandled' => EarlyReports # "never" /\ procs'[q].ppid = NoPid
  BY <1>4, <1>8 DEF TracedInv, Begun
<1>12. ASSUME EarlyReports # "never", NEW q \in Pids, procs'[q].known,
              task'[q].state = "free" \/ (Fresh(q)' /\ task'[q].inc \in Unhandled')
       PROVE  DeathPending(q)'
  <2>1. q # p  BY <1>1, <1>3, <1>4, <1>6, <1>12 DEF Stopped
  <2>2. task[q].state = "free" \/ (Fresh(q) /\ task[q].inc \in Unhandled)
    BY <1>2, <1>4, <1>6, <1>8, <1>12, <2>1
  <2>3. q # c  BY <1>2, <1>4, <1>12, <2>1
  <2> QED  BY <1>7, <1>12, <2>1, <2>2, <2>3 DEF TracedInv
<1> QED  BY <1>9, <1>10, <1>11, <1>12 DEF TracedInv

(* handle_fork_event does not reset the flag of an early entry.            *)
LEMMA ForkKeepsTraced ==
  ASSUME KernelTypes, TaskInv, BookTypes, SignalInv, SwallowInv, TracedInv,
         NEW p \in Pids, HandleFork(p)
  PROVE  TracedInv'
<1> DEFINE i == report.of.child
           c == born[i].pid
           e == ChildEntry(c, p)
<1>1. Handles(p, "fork") /\ Resume(p, FALSE, ProcsOnly)
  BY DEF HandleFork
<1>2. StillThere(p) /\ i = task[p].child /\ task[p].told /\ task[p].why = "fork"
      /\ report.pid = p /\ Stopped(p)
  BY <1>1, ReportedStays DEF StillThere, Handles
<1>3. i \in Unhandled  BY <1>2 DEF Unhandled, Announcing
<1>4. i \in Nat \ {NoInc} /\ c \in Pids /\ Hidden(i)
  BY <1>3, UnhandledAreBorn DEF TaskInv
<1>5. c # p /\ task[c].inc = i  BY <1>2, <1>4 DEF Hidden
<1>6. task[c].state # "free"
  <2>1. FreeTask.inc = NoInc  BY TaskShapes
  <2> QED  BY <1>4, <1>5, <2>1 DEF TaskInv, KernelInv
<1>7. procs' = [Entered(p) EXCEPT ![c] = e]  BY <1>2 DEF HandleFork
<1>8. procs[c].known /\ procs[c].ppid = NoPid /\ procs[c].traced => e.traced
  <2> SUFFICES ASSUME procs[c].known, procs[c].ppid = NoPid, procs[c].traced
               PROVE  e.traced
    OBVIOUS
  <2>1. e = [procs[c] EXCEPT !.ppid = p]  BY DEF ChildEntry
  <2> HIDE DEF e
  <2> QED  BY <1>4, <2>1 DEF BookTypes, ProcessState
<1> HIDE DEF e
<1>9. \A q \in Pids : procs'[q] = IF q = c THEN e ELSE IF q = p THEN Entry(p) ELSE procs[q]
  BY <1>4, <1>7, EntryShape DEF BookTypes
<1>10. procs'[c] = e /\ procs'[p] = Entry(p) /\ \A q \in Pids \ {p, c} : procs'[q] = procs[q]
  BY <1>4, <1>5, <1>9
<1>11. PICK why \in {"fork"}, b \in {FALSE} : Handles(p, why) /\ Resume(p, b, ProcsOnly)
  BY <1>1
<1>12. procs[p].traced \/ why = "initial" => procs'[p].traced
  BY <1>10 DEF Entry, SignalInv
<1>13. /\ why # "fork" => c = p
       /\ why = "fork" => /\ c # p /\ task[c].state # "free"
                          /\ task[c].inc = report.of.child /\ report.of.child \in Unhandled
                          /\ procs[c].known /\ procs[c].ppid = NoPid /\ procs[c].traced
                               => procs'[c].traced
  BY <1>3, <1>5, <1>6, <1>8, <1>10
<1>14. c \in Pids /\ b \in BOOLEAN  BY <1>4
<1> HIDE DEF i, c
<1> QED  BY <1>10, <1>11, <1>12, <1>13, <1>14, ResumesKeepTraced

(* The other handlers keep the flag; the stop of a child that is not yet   *)
(* traced is its initial one, and sets it.                                 *)
LEMMA StopsKeepTraced ==
  ASSUME KernelTypes, TaskInv, BookTypes, SignalInv, SwallowInv, TracedInv,
         NEW p \in Pids,
         HandleExec(p) \/ HandleExitEvent(p) \/ HandleSyscall(p) \/ HandleSigstop(p)
  PROVE  TracedInv'
<1>1. ASSUME NEW why, Handles(p, why), why # "fork", NEW b \in BOOLEAN, NEW v,
             Resume(p, b, v), NEW e, procs' = [procs EXCEPT ![p] = e],
             e.ppid = Entry(p).ppid, Entry(p).traced \/ why = "initial" => e.traced
      PROVE  TracedInv'
  <2>1. \A q \in Pids : procs'[q] = IF q = p THEN e ELSE procs[q]  BY <1>1 DEF BookTypes
  <2>2. procs'[p].ppid = Entry(p).ppid /\ \A q \in Pids \ {p} : procs'[q] = procs[q]
    BY <1>1, <2>1
  <2>3. procs[p].traced \/ why = "initial" => procs'[p].traced
    BY <1>1, <2>1 DEF Entry, SignalInv
  <2> QED  BY <1>1, <2>2, <2>3, ResumesKeepTraced
<1>2. Entry(p) \in ProcessState  BY EntryShape
<1>3. CASE HandleExec(p) \/ HandleSyscall(p)
  <2>1. PICK why \in {"exec", "access"}, b \in {FALSE} : Handles(p, why) /\ Resume(p, b, ProcsOnly)
    BY <1>3 DEF HandleExec, HandleSyscall
  <2>2. procs' = [procs EXCEPT ![p] = Entry(p)]
    BY <1>3 DEF HandleExec, HandleSyscall, Entered
  <2> QED  BY <1>1, <2>1, <2>2
<1>4. CASE HandleExitEvent(p)
  <2> DEFINE e == [Entry(p) EXCEPT !.usage = IF StillThere(p) THEN report.of.inc ELSE NoInc]
  <2>1. PICK why \in {"exit"}, b \in {FALSE} : Handles(p, why) /\ Resume(p, b, ProcsOnly)
    BY <1>4 DEF HandleExitEvent
  <2>2. procs' = [procs EXCEPT ![p] = e] /\ e.ppid = Entry(p).ppid
        /\ e.traced = Entry(p).traced
    BY <1>2, <1>4 DEF HandleExitEvent, ProcessState
  <2> HIDE DEF e
  <2> QED  BY <1>1, <2>1, <2>2
<1>5. CASE HandleSigstop(p)
  <2>1. PICK why \in {"initial", "sigstop"} : Handles(p, why)  BY <1>5 DEF HandleSigstop
  <2>2. CASE procs' = [procs EXCEPT ![p] = [Entry(p) EXCEPT !.traced = TRUE]]
             /\ Resume(p, FALSE, TRUE)
    <3> DEFINE e == [Entry(p) EXCEPT !.traced = TRUE]
    <3>1. e.ppid = Entry(p).ppid /\ e.traced /\ procs' = [procs EXCEPT ![p] = e]
      BY <1>2, <2>2 DEF ProcessState
    <3>2. PICK b \in {FALSE} : Resume(p, b, TRUE)  BY <2>2
    <3> HIDE DEF e
    <3> QED  BY <1>1, <2>1, <3>1, <3>2
  <2>3. CASE ~IsInitialStop(p) /\ procs' = Entered(p) /\ Resume(p, TRUE, ProcsOnly)
    <3>1. Entry(p).traced  BY <2>3 DEF IsInitialStop
    <3>2. procs' = [procs EXCEPT ![p] = Entry(p)]  BY <2>3 DEF Entered
    <3>3. PICK b \in {TRUE} : Resume(p, b, ProcsOnly)  BY <2>3
    <3> QED  BY <1>1, <2>1, <3>1, <3>2, <3>3
  <2> QED  BY <1>5, <2>2, <2>3 DEF HandleSigstop
<1> QED  BY <1>3, <1>4, <1>5

LEMMA NextKeepsTraced ==
  ASSUME TracerInv, SignalInv, SwallowInv, TracedInv, [Next]_vars, ~Kills,
         EarlyReports # "any", EarlyReports = "never" \/ ~ExitMayBeLost
  PROVE  TracedInv'
<1> USE DEF TracerInv
<1>1. CASE TraceeStep /\ UNCHANGED tracerVars  BY <1>1, TraceesStayTraced
<1>2. ASSUME NEW p \in Pids, WaitPid(p)  PROVE TracedInv'
  BY <1>2, WaitPidKeepsTraced
<1>3. ASSUME NEW p \in Pids, Handle(p)  PROVE TracedInv'
  <2>1. CASE HandleDeath(p)  BY <2>1, DeathKeepsTraced
  <2>2. CASE HandleFork(p)  BY <2>2, ForkKeepsTraced
  <2>3. CASE ~HandleDeath(p) /\ ~HandleFork(p)  BY <1>3, <2>3, StopsKeepTraced DEF Handle
  <2> QED  BY <2>1, <2>2, <2>3
<1>4. ~CheckStall
  <2> SUFFICES ASSUME CheckStall  PROVE FALSE
    OBVIOUS
  <2>1. PICK p \in Pids : Stuck(p)  BY DEF CheckStall
  <2>2. report = NoReport /\ NoReport.pid = NoPid /\ NoPid \notin Pids
    BY ProcessesAssumption DEF CheckStall, Waiting, NoReport, NoPid
  <2> QED  BY <2>1, <2>2 DEF Stuck, SignalInv
<1>5. CASE UNCHANGED <<task, procs, report>>
  BY <1>5 DEF TracedInv, Begun, Fresh, DeathPending, Unhandled, Announcing, Stopped
<1>6. CASE Finish  BY <1>5, <1>6 DEF Finish, CloseTrace, kernelVars
<1>7. CASE UNCHANGED vars  BY <1>5, <1>7 DEF vars
<1> QED  BY <1>1, <1>2, <1>3, <1>4, <1>6, <1>7 DEF Next, Terminated

LEMMA TracedAtFirst ==
  Init => TracedInv
<1> SUFFICES ASSUME Init  PROVE TracedInv
  OBVIOUS
<1>1. task = [p \in Pids |-> IF p = RootPid THEN RunningTask(1) ELSE FreeTask]
      /\ procs = [p \in Pids |-> IF p = RootPid THEN NewState(TracerPid) ELSE NotKnown]
  BY DEF Init, TraceesInit
<1>2. NotKnown.known = FALSE  BY DEF NotKnown
<1>3. /\ RunningTask(1).state = "running" /\ RunningTask(1).inc = 1
      /\ RunningTask(1).why = "none" /\ FreeTask.state = "free"
  BY TaskShapes
<1> QED  BY <1>1, <1>2, <1>3 DEF TracedInv, Begun, Fresh, Stopped

(* A SIGSTOP sent to any tracee but the root stops it, where the kernel    *)
(* reports the fork first, or reports every exit, and where resumes are    *)
(* verified or none is lost: a child past its initial stop is entered as   *)
(* traced, and neither its parent's late fork event nor the death of an    *)
(* earlier owner of its pid resets the entry (run_event_loop,              *)
(* handle_fork_event, resume_verified).                                    *)
THEOREM SignalsArePassedOn ==
  ASSUME EarlyReports # "any", ~Kills, EarlyReports = "never" \/ ~ExitMayBeLost,
         ProcsOnly \/ ~ResumeMayBeLost
  PROVE  Spec => SignalsReachTracees
<1> DEFINE Reached == \A p \in Pids : task[p].why = "sigstop" /\ task[p].inc # 1
                                        => task'[p].state # "running"
<1>1. Spec => []TracerInv  BY TracerIsClean
<1>2. Init => SwallowInv /\ SignalInv /\ TracedInv
  BY SwallowAtFirst, SignalsAtFirst, TracedAtFirst
<1>3. TracerInv /\ SwallowInv /\ [Next]_vars => SwallowInv'
  BY NextSwallows DEF Swallows
<1>4. TracerInv /\ SwallowInv /\ SignalInv /\ TracedInv /\ [Next]_vars
        => SignalInv' /\ TracedInv'
  BY NextKeepsTraced, SignalsAreKept
<1>5. SignalInv /\ TracedInv /\ [Next]_vars => Reached
  <2> SUFFICES ASSUME SignalInv, TracedInv, [Next]_vars, NEW p \in Pids,
                      task[p].why = "sigstop", task[p].inc # 1
               PROVE  task'[p].state # "running"
    OBVIOUS
  <2>1. Begun(p)  BY DEF SignalInv, Stopped, Begun
  <2>2. procs[p].traced  BY <2>1 DEF TracedInv
  <2> QED  BY <2>2, SignalsAreKept
<1> HIDE DEF Reached
<1>6. Spec => [][Reached]_vars  BY <1>1, <1>2, <1>3, <1>4, <1>5, PTL DEF Spec
<1> QED  BY <1>6 DEF SignalsReachTracees, Reached
=============================================================================
