------------------------------ MODULE MCViewer ------------------------------
(***************************************************************************)
(* Viewer for TLC: recordings that go on while the server starts and       *)
(* answers, and finished ones of every shape.                              *)
(***************************************************************************)
EXTENDS Viewer

Tracer == 9
READ == 0
WRITE == 1
STAT == 3
MKNOD == 18

Start(p, ppid, at) ==
  [kind |-> "start", pid |-> p,
   row |-> [ppid |-> ppid, start |-> at, end |-> 0, name |-> "cc", file_count |-> 0]]
Exit(p, at) == [kind |-> "exit", pid |-> p, at |-> at]
Delete(p) == [kind |-> "delete", pid |-> p]
Use(p, f, m) == [kind |-> "access", pid |-> p, file |-> f, mode |-> m]
Failed == [kind |-> "failed"]
Finalize == [kind |-> "finalize"]

Question(kind, pid, file, limit) == [kind |-> kind, pid |-> pid, file |-> file, limit |-> limit]
Plainly(kinds) == {Question(kind, 0, 0, 9) : kind \in kinds}

(* A shell, a compiler it starts and execs, and a child of the compiler,   *)
(* which goes on after it or execs too; committed so far: nothing or a     *)
(* part.                                                                   *)
Events(late) ==
  <<Start(1, Tracer, 11), Use(1, 1, READ), Start(2, 1, 12), Use(2, 2, WRITE), Delete(2),
    Start(2, 1, 13), Use(2, 2, WRITE), Start(3, 2, 14), Use(3, 2, READ), Failed>>
  \o (IF late THEN <<Exit(2, 15), Use(3, 1, MKNOD), Exit(3, 16)>>
      ELSE <<Use(3, 1, STAT), Delete(3), Start(3, 2, 15), Exit(3, 16)>>)
  \o <<Exit(1, 17), Finalize>>

Growing ==
  {[events |-> Events(late), committed |-> n,
    asks |-> Plainly({"processes", "roots", "timeline", "parallelism", "critical",
                      "hotspots", "hot directories"})
               \cup {Question("children", p, 0, 0) : p \in {1, 2}}
               \cup {Question(kind, p, 0, 0) : kind \in {"files", "process_io"}, p \in {1, 2, 3}}
               \cup {Question("path", 0, f, 0) : f \in {1, 2}}] :
     late \in BOOLEAN, n \in {0, 6}}

(* Finished recordings: every tree of three processes, alive side by side, *)
(* one after the other, with pauses between them, or without an end.       *)
Forests ==
  {f \in [Pids -> Pids \cup {Tracer}] :
     \A S \in SUBSET Pids : S # {} => \E p \in S : f[p] \notin S}
Lives == {<<11, 14>>, <<12, 13>>, <<14, 15>>, <<18, 20>>, <<23, 23>>, <<12, 0>>}

Whole(forest, lives) ==
  [p \in DOMAIN lives |-> Start(p, forest[p], lives[p][1])]
    \o [p \in DOMAIN lives |->
          IF lives[p][2] = 0 THEN Use(p, 1, MKNOD) ELSE Exit(p, lives[p][2])]
    \o <<Use(1, 1, MKNOD), Use(3, 1, STAT), Use(2, 1, READ), Failed, Finalize>>

Finished ==
  {[events |-> Whole(forest, lives), committed |-> Len(Whole(forest, lives)),
    asks |-> Plainly({"processes", "parallelism", "critical", "summary", "diagnostics"})
               \cup {Question("timeline", 0, 0, n) : n \in {2, 9}}] :
     forest \in Forests, lives \in [Pids -> Lives]}

MCRecordings == [growing |-> Growing, finished |-> Finished]
MCDirectory == [f \in Files |-> 1]
=============================================================================
