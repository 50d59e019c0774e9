------------------------------ MODULE Tracees ------------------------------
(***************************************************************************)
(* The traced processes as the tracer sees them: the kernel's side of      *)
(* ptrace and of waitpid, as src/src/tracer/ptrace_backend.cpp uses it.    *)
(* External to the repository.                                             *)
(*                                                                         *)
(* A task runs until something of interest to the tracer stops it; it then *)
(* waits in ptrace-stop, first to be reported by waitpid and then to be    *)
(* resumed.  Threads are tasks like the others.                            *)
(***************************************************************************)
EXTENDS Processes, Sequences

CONSTANTS RootPid,         \* the process bdtrace starts
          MaxIncarnations, \* bound of the model: processes started
          MaxWork,         \* bound of the model: stops other than fork and exit
          EarlyReports,    \* what may be reported of a child before the fork
                           \* event of its parent: "never", "stop", "any"
          ExitMayBeLost,   \* 2.6.x: a death may go unreported
          ResumeMayBeLost, \* 2.6.x: a resume may leave the tracee stopped
          Kills,           \* somebody may SIGKILL a tracee
          Signals,         \* somebody may SIGSTOP a tracee
          ProcsOnly        \* procs_only_: syscalls do not stop tracees

NoFile == "none"

ASSUME TraceesAssumption ==
  /\ RootPid \in Pids
  /\ NoFile \notin Files
  /\ MaxIncarnations \in Nat \ {0}
  /\ MaxWork \in Nat
  /\ EarlyReports \in {"never", "stop", "any"}
  /\ {ExitMayBeLost, ResumeMayBeLost, Kills, Signals, ProcsOnly} \subseteq BOOLEAN

VARIABLES task,  \* the occupant of each pid
          born,  \* the incarnations: their pid and their parent incarnation
          work   \* work done so far

kernelVars == <<task, born, work>>

Reasons == {"none", "initial", "fork", "exec", "access", "exit", "sigstop"}

Task == [state : {"free", "running", "stopped", "group_stopped", "zombie"},
         inc   : Nat,
         why   : Reasons,                 \* of a stop
         told  : BOOLEAN,                 \* waitpid has reported the stop
         child : Nat,                     \* whom a fork created
         file  : Files \cup {NoFile}]     \* what an exec or an access is about

FreeTask == [state |-> "free", inc |-> NoInc, why |-> "none", told |-> FALSE,
             child |-> NoInc, file |-> NoFile]

RunningTask(inc) == [FreeTask EXCEPT !.state = "running", !.inc = inc]
ZombieTask(inc) == [FreeTask EXCEPT !.state = "zombie", !.inc = inc]
StoppedTask(inc, why) ==
  [FreeTask EXCEPT !.state = "stopped", !.inc = inc, !.why = why]

(* The root has stopped itself, execed the command, and runs. *)
TraceesInit ==
  /\ task = [p \in Pids |-> IF p = RootPid THEN RunningTask(1) ELSE FreeTask]
  /\ born = <<[pid |-> RootPid, parent |-> NoInc]>>
  /\ work = 0

-----------------------------------------------------------------------------
Running(p) == task[p].state = "running"
Stopped(p) == task[p].state = "stopped"
Zombie(p) == task[p].state = "zombie"
TreeIsGone == \A p \in Pids : task[p].state = "free"

Works == work < MaxWork /\ work' = work + 1

(* fork, vfork or clone: the child inherits the tracing and begins with a  *)
(* SIGSTOP, the parent stops with the event.                               *)
Fork(p, c) ==
  LET inc == Len(born) + 1
  IN  /\ Running(p) /\ task[c].state = "free"
      /\ Len(born) < MaxIncarnations
      /\ task' = [task EXCEPT
                    ![p] = [StoppedTask(@.inc, "fork") EXCEPT !.child = inc],
                    ![c] = StoppedTask(inc, "initial")]
      /\ born' = Append(born, [pid |-> c, parent |-> task[p].inc])
      /\ UNCHANGED work

StopWith(p, why, file) ==
  /\ Running(p)
  /\ task' = [task EXCEPT ![p] = [StoppedTask(@.inc, why) EXCEPT !.file = file]]
  /\ UNCHANGED born

Exec(p) == \E file \in Files : Works /\ StopWith(p, "exec", file)

(* A syscall about a file, stopped where its outcome is known. *)
AccessFile(p) == \E file \in Files : ~ProcsOnly /\ Works /\ StopWith(p, "access", file)

Stop(p) == Signals /\ Works /\ StopWith(p, "sigstop", NoFile)

Exit(p) == UNCHANGED work /\ StopWith(p, "exit", NoFile)

(* SIGCONT ends the stop of job control. *)
Continue(p) ==
  /\ task[p].state = "group_stopped"
  /\ task' = [task EXCEPT ![p] = RunningTask(@.inc)]
  /\ UNCHANGED <<born, work>>

(* SIGKILL takes a tracee out of any stop. *)
Kill(p) ==
  /\ Kills /\ Works
  /\ task[p].state \in {"running", "stopped", "group_stopped"}
  /\ task' = [task EXCEPT ![p] = ZombieTask(@.inc)]
  /\ UNCHANGED born

LoseExit(p) ==
  /\ ExitMayBeLost /\ Zombie(p)
  /\ task' = [task EXCEPT ![p] = FreeTask]
  /\ UNCHANGED <<born, work>>

TraceeStep ==
  \E p \in Pids :
    \/ \E c \in Pids : Fork(p, c)
    \/ Exec(p) \/ AccessFile(p) \/ Stop(p) \/ Exit(p) \/ Continue(p)
    \/ Kill(p) \/ LoseExit(p)

-----------------------------------------------------------------------------
Reportable(p) == Zombie(p) \/ (Stopped(p) /\ ~task[p].told)

(* The fork event of p's parent is still to be reported. *)
Unannounced(p) ==
  \E q \in Pids : /\ Stopped(q) /\ task[q].why = "fork" /\ ~task[q].told
                  /\ task[q].child = task[p].inc

MayReport(p) ==
  /\ Reportable(p)
  /\ \/ ~Unannounced(p)
     \/ EarlyReports = "any"
     \/ EarlyReports = "stop" /\ task[p].why = "initial"

(* waitpid takes the report of p; a zombie is reaped and its pid is free. *)
Reported(p) ==
  task' = [task EXCEPT ![p] = IF Zombie(p) THEN FreeTask
                                           ELSE [@ EXCEPT !.told = TRUE]]

(* What PTRACE_CONT or PTRACE_SYSCALL with a signal makes of a stopped     *)
(* task.  SIGSTOP passed on puts it under job control.                     *)
ResumedTask(t, passSignal) ==
  CASE t.why = "exit" -> ZombieTask(t.inc)
    [] t.why \in {"initial", "sigstop"} /\ passSignal ->
         [FreeTask EXCEPT !.state = "group_stopped", !.inc = t.inc]
    [] OTHER -> RunningTask(t.inc)
=============================================================================
