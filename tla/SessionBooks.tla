---------------------------- MODULE SessionBooks ----------------------------
(***************************************************************************)
(* The books a TraceSession keeps about process ids                        *)
(* (src/src/tracer/trace_session.cpp): generations, live pids, the pids    *)
(* an exec is about to insert again, and the accesses already written.     *)
(* Each operator is one call of the session's interface and returns the    *)
(* session after it, with the rows the database has once the events it     *)
(* queued are applied (WriterQueue shows that they are applied in order).  *)
(*                                                                         *)
(* Rows carry what they ought to mean: `inc' is the incarnation (the real  *)
(* process) a row was inserted for, `end' the one whose death filled in    *)
(* its end time, `usage' the one whose resource usage it holds.            *)
(***************************************************************************)
EXTENDS Processes

CONSTANT PidStride  \* PID_GEN_STRIDE (10,000,000)

ASSUME StrideAssumption ==
  /\ PidStride \in Nat
  /\ \A p \in Pids : p < PidStride

NoGeneration == -1  \* not in pid_gen_

Row == [id : Nat, ppid : Nat, inc : Nat, end : Nat, usage : Nat]
Access == [id : Nat, file : Files, inc : Nat]

Session == [gen      : [Pids -> Nat \cup {NoGeneration}],  \* pid_gen_
            live     : SUBSET Pids,                        \* live_pids_
            expect   : SUBSET Pids,                        \* expect_reinsert_
            seen     : [Pids -> SUBSET Files],             \* seen_
            rows     : SUBSET Row,
            accesses : SUBSET Access,
            lostExitStarts : Nat,                          \* lost_exit_starts_
            collisions     : Nat]                          \* failed INSERTs

NewSession ==
  [gen |-> [p \in Pids |-> NoGeneration], live |-> {}, expect |-> {},
   seen |-> [p \in Pids |-> {}], rows |-> {}, accesses |-> {},
   lostExitStarts |-> 0, collisions |-> 0]

-----------------------------------------------------------------------------

(* The synthetic id of generation g of pid p. *)
Synth(g, p) == IF g = NoGeneration \/ g = 0 THEN p ELSE g * PidStride + p

(* current_synth; pids that never started keep their number. *)
CurrentSynth(s, pid) == IF pid \in Pids THEN Synth(s.gen[pid], pid) ELSE pid

Ids(rows) == {r.id : r \in rows}

(* INSERT INTO processes: pid is the primary key. *)
InsertRow(s, row) ==
  IF row.id \in Ids(s.rows)
    THEN [s EXCEPT !.collisions = @ + 1]
    ELSE [s EXCEPT !.rows = @ \cup {row}]

(* Slips: no new generation for a recycled pid; a pid believed live keeps  *)
(* its generation; lost exits are not counted; seen_ survives a start.     *)
StartGenerationAlways(s, pid) ==
  [s EXCEPT !.gen[pid] = IF @ = NoGeneration THEN 0 ELSE @,
            !.expect = @ \ {pid}]

StartGenerationByLife(s, pid) ==
  CASE s.gen[pid] = NoGeneration -> [s EXCEPT !.gen[pid] = 0]
    [] s.gen[pid] # NoGeneration /\ pid \in s.live -> [s EXCEPT !.expect = @ \ {pid}]
    [] OTHER -> [s EXCEPT !.gen[pid] = @ + 1]

(* A start is the first of its pid, the re-insert of an exec, or a reuse   *)
(* of the pid of a process that is gone, whether or not its exit was seen. *)
StartGeneration(s, pid) ==
  CASE s.gen[pid] = NoGeneration -> [s EXCEPT !.gen[pid] = 0]
    [] s.gen[pid] # NoGeneration /\ pid \in s.expect ->
         [s EXCEPT !.expect = @ \ {pid}]
    [] OTHER ->
         [s EXCEPT !.gen[pid] = @ + 1,
                   !.lostExitStarts = IF pid \in s.live THEN @ + 1 ELSE @]

KeepSeen(s, pid) == s

ForgetSeen(s, pid) == [s EXCEPT !.seen[pid] = {}]

OnProcessStart(s, pid, ppid, inc) ==
  LET started == StartGeneration(ForgetSeen(s, pid), pid)
      live    == [started EXCEPT !.live = @ \cup {pid}]
  IN  InsertRow(live, [id |-> CurrentSynth(live, pid),
                       ppid |-> CurrentSynth(live, ppid),
                       inc |-> inc, end |-> NoInc, usage |-> NoInc])

OnProcessExit(s, pid, inc, usage) ==
  LET id == CurrentSynth(s, pid)
  IN  [s EXCEPT
         !.seen[pid] = {},
         !.live = @ \ {pid},
         !.expect = @ \ {pid},
         !.rows = {IF r.id = id THEN [r EXCEPT !.end = inc, !.usage = usage]
                                ELSE r : r \in @}]

(* Slip: the access is recorded under the kernel's pid. *)
OnAccessOfPid(s, pid, file, inc) ==
  IF file \in s.seen[pid]
    THEN s
    ELSE [s EXCEPT
            !.seen[pid] = @ \cup {file},
            !.accesses = @ \cup {[id |-> pid, file |-> file, inc |-> inc]}]

(* on_file_access and on_failed_access, with already_seen. *)
OnAccess(s, pid, file, inc) ==
  IF file \in s.seen[pid]
    THEN s
    ELSE [s EXCEPT
            !.seen[pid] = @ \cup {file},
            !.accesses = @ \cup {[id |-> CurrentSynth(s, pid),
                                  file |-> file, inc |-> inc]}]

DeleteProcess(s, pid) ==
  [s EXCEPT !.expect = @ \cup {pid},
            !.rows = {r \in @ : r.id # CurrentSynth(s, pid)}]
=============================================================================
