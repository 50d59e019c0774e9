------------------------------- MODULE Tracer -------------------------------
(***************************************************************************)
(* The ptrace event loop (src/src/tracer/ptrace_backend.cpp) and the books *)
(* of its TraceSession, tracing the processes of Tracees.                  *)
(*                                                                         *)
(* An iteration of the loop is two actions: waitpid takes a report, then   *)
(* the handler for it runs and resumes the tracee.  In between, and while  *)
(* the tracer waits, tracees run, stop, die and hand their pids on.        *)
(***************************************************************************)
EXTENDS Tracees, SessionBooks

VARIABLES procs,     \* procs_, what the tracer knows of each pid
          report,    \* what waitpid returned, until it is handled
          session,   \* the TraceSession
          observed,  \* the accesses the tracer saw, by incarnation
          buried,    \* the incarnations whose death the tracer saw
          closed     \* the loop ended and the session is finalized

tracerVars == <<procs, report, session, observed, buried, closed>>
vars == <<task, born, work, procs, report, session, observed, buried, closed>>

ProcessState == [known  : BOOLEAN,
                 ppid   : Pids \cup {NoPid, TracerPid},
                 traced : BOOLEAN,
                 usage  : Nat]   \* the incarnation whose usage was read

NotKnown == [known |-> FALSE, ppid |-> NoPid, traced |-> FALSE, usage |-> NoInc]
NewState(ppid) == [NotKnown EXCEPT !.known = TRUE, !.ppid = ppid]

NoReport == [pid |-> NoPid, of |-> FreeTask]

Waiting == ~closed /\ report = NoReport

(* start(): the root is registered and its row queued; traced stays false. *)
Init ==
  /\ TraceesInit
  /\ procs = [p \in Pids |-> IF p = RootPid THEN NewState(TracerPid) ELSE NotKnown]
  /\ session = OnProcessStart(NewSession, RootPid, TracerPid, 1)
  /\ report = NoReport
  /\ observed = {} /\ buried = {} /\ closed = FALSE

-----------------------------------------------------------------------------
(* waitpid(-1) *)
WaitPid(p) ==
  /\ Waiting
  /\ \E q \in Pids : procs[q].known
  /\ MayReport(p)
  /\ report' = [pid |-> p, of |-> task[p]]
  /\ Reported(p)
  /\ UNCHANGED <<born, work, procs, session, observed, buried, closed>>

(* An iteration that handles a report of p of this kind. *)
Handles(p, why) ==
  /\ report.pid = p /\ report.of.state = "stopped" /\ report.of.why = why
  /\ report' = NoReport
  /\ UNCHANGED <<born, buried, closed>>

(* The loop enters an unknown pid without a parent and not as traced. *)
Entry(p) == IF procs[p].known THEN procs[p] ELSE NewState(NoPid)
Entered(p) == [procs EXCEPT ![p] = Entry(p)]

(* Only a SIGKILL takes a reported tracee out of its stop; PTRACE_GETREGS, *)
(* PTRACE_GETEVENTMSG, PTRACE_CONT and /proc then find nothing.            *)
StillThere(p) == Stopped(p) /\ task[p].inc = report.of.inc

(* resume: where it is verified, kick_if_stuck repeats a lost resume. *)
Resume(p, passSignal, verified) ==
  \/ /\ StillThere(p)
     /\ task' = [task EXCEPT ![p] = ResumedTask(@, passSignal)]
     /\ UNCHANGED work
  \/ /\ StillThere(p) /\ ResumeMayBeLost /\ ~verified
     /\ Works
     /\ UNCHANGED task
  \/ /\ ~StillThere(p)
     /\ UNCHANGED <<task, work>>

HandleDeath(p) ==
  /\ report.pid = p /\ report.of.state = "zombie"
  /\ session' = OnProcessExit(session, p, report.of.inc, Entry(p).usage)
  /\ procs' = [procs EXCEPT ![p] = NotKnown]
  /\ report' = NoReport
  /\ buried' = buried \cup {report.of.inc}
  /\ UNCHANGED <<task, born, work, observed, closed>>

(* Slip: the entry is kept whoever left it. *)
ChildEntryKept(c, p) == [Entry(c) EXCEPT !.ppid = p]

(* Slip: the child is entered anew, whatever its early report has entered. *)
ChildEntryAnew(c, p) == NewState(p)

(* The child may have been entered by its own early report, without a      *)
(* parent; an entry with a parent is left over from a dead owner.          *)
ChildEntry(c, p) ==
  IF procs[c].known /\ procs[c].ppid = NoPid
    THEN [procs[c] EXCEPT !.ppid = p]
    ELSE NewState(p)

(* handle_fork_event *)
HandleFork(p) ==
  /\ Handles(p, "fork")
  /\ LET c == born[report.of.child].pid
     IN  IF StillThere(p)
           THEN /\ procs' = [Entered(p) EXCEPT ![c] = ChildEntry(c, p)]
                /\ session' = OnProcessStart(session, c, p, report.of.child)
           ELSE /\ procs' = Entered(p)
                /\ UNCHANGED session
  /\ Resume(p, FALSE, ProcsOnly)
  /\ UNCHANGED observed

(* Slip: the old image's row goes after the new one has come. *)
ReimageReversed(s, p, ppid, inc) == DeleteProcess(OnProcessStart(s, p, ppid, inc), p)

Reimage(s, p, ppid, inc) == OnProcessStart(DeleteProcess(s, p), p, ppid, inc)

(* handle_exec_event: the binary is an access of its own. *)
HandleExec(p) ==
  LET inc    == report.of.inc
      file   == report.of.file
      access == IF StillThere(p) THEN OnAccess(session, p, file, inc) ELSE session
  IN  /\ Handles(p, "exec")
      /\ procs' = Entered(p)
      /\ session' = Reimage(access, p, Entry(p).ppid, inc)
      /\ observed' = IF StillThere(p) THEN observed \cup {[inc |-> inc, file |-> file]}
                                      ELSE observed
      /\ Resume(p, FALSE, ProcsOnly)

(* handle_exit_event reads the usage while /proc still has it. *)
HandleExitEvent(p) ==
  /\ Handles(p, "exit")
  /\ procs' = [procs EXCEPT ![p] =
                 [Entry(p) EXCEPT !.usage = IF StillThere(p) THEN report.of.inc
                                                             ELSE NoInc]]
  /\ Resume(p, FALSE, ProcsOnly)
  /\ UNCHANGED <<session, observed>>

(* handle_syscall_stop at the exit of a syscall that is recorded. *)
HandleSyscall(p) ==
  LET inc  == report.of.inc
      file == report.of.file
  IN  /\ Handles(p, "access")
      /\ procs' = Entered(p)
      /\ IF StillThere(p)
           THEN /\ session' = OnAccess(session, p, file, inc)
                /\ observed' = observed \cup {[inc |-> inc, file |-> file]}
           ELSE UNCHANGED <<session, observed>>
      /\ Resume(p, FALSE, ProcsOnly)

(* Slip: every SIGSTOP is taken for the initial one. *)
IsInitialStopAlways(p) == TRUE

IsInitialStop(p) == ~Entry(p).traced

(* A SIGSTOP stop: the first one of a tracee is its initial one and is     *)
(* swallowed, with the resume verified; any other is passed on.            *)
HandleSigstop(p) ==
  /\ Handles(p, "initial") \/ Handles(p, "sigstop")
  /\ \/ /\ IsInitialStop(p)
        /\ procs' = [procs EXCEPT ![p] = [Entry(p) EXCEPT !.traced = TRUE]]
        /\ Resume(p, FALSE, TRUE)
     \/ /\ ~IsInitialStop(p)
        /\ procs' = Entered(p)
        /\ Resume(p, TRUE, ProcsOnly)
  /\ UNCHANGED <<session, observed>>

Handle(p) ==
  \/ HandleDeath(p) \/ HandleFork(p) \/ HandleExec(p) \/ HandleExitEvent(p)
  \/ HandleSyscall(p) \/ HandleSigstop(p)

(* Slip: the tick only reports. *)
StuckNever(p) == FALSE

(* A tracee that sits in ptrace-stop with nothing to report. *)
Stuck(p) == Stopped(p) /\ task[p].told

(* check_stall: waitpid stayed blocked; stuck tracees are resumed again,   *)
(* without a signal.                                                       *)
CheckStall ==
  /\ Waiting
  /\ \A p \in Pids : ~MayReport(p)
  /\ \E p \in Pids : procs[p].known /\ Stuck(p)
  /\ task' = [p \in Pids |-> IF procs[p].known /\ Stuck(p)
                               THEN ResumedTask(task[p], FALSE) ELSE task[p]]
  /\ UNCHANGED <<born, work, tracerVars>>

CloseTrace ==
  /\ closed' = TRUE
  /\ UNCHANGED <<kernelVars, procs, report, session, observed, buried>>

(* Slips: ECHILD does not end the loop; the end of the root does. *)
FinishWhenUntracked ==
  /\ Waiting /\ \A p \in Pids : ~procs[p].known
  /\ CloseTrace

(* The loop ends when no process is tracked or waitpid says ECHILD. *)
Finish ==
  /\ Waiting
  /\ \/ \A p \in Pids : ~procs[p].known
     \/ TreeIsGone
  /\ CloseTrace

Terminated == closed /\ UNCHANGED vars

Next ==
  \/ ~closed /\ TraceeStep /\ UNCHANGED tracerVars
  \/ \E p \in Pids : WaitPid(p) \/ Handle(p)
  \/ CheckStall
  \/ Finish
  \/ Terminated

Spec == Init /\ [][Next]_vars

(* The tracer is scheduled; nothing obliges the tracees to do anything. *)
FairSpec ==
  /\ Spec
  /\ WF_vars(\E p \in Pids : WaitPid(p))
  /\ WF_vars(\E p \in Pids : Handle(p))
  /\ WF_vars(CheckStall)
  /\ WF_vars(Finish)

-----------------------------------------------------------------------------
(* Properties *)

RowOf(inc) == {r \in session.rows : r.inc = inc}
RowIds(inc) == {r.id : r \in RowOf(inc)}

(* Every process that starts gets its own row: pid, the primary key, never *)
(* makes an INSERT fail, and no process has two rows, whatever pids the    *)
(* kernel recycles and however often a process execs (on_process_start).   *)
OneRowPerProcess ==
  /\ session.collisions = 0
  /\ \A r1, r2 \in session.rows : r1.inc = r2.inc => r1 = r2

(* An end time and a resource usage land in the row of the process that    *)
(* died, not in that of an earlier or later owner of its pid               *)
(* (on_process_exit).                                                      *)
DeathsAreTheirOwn ==
  \A r \in session.rows : {r.end, r.usage} \subseteq {NoInc, r.inc}

(* The drain "keeps consuming events so the tracees' exits are recorded":  *)
(* when the trace is closed, every process whose death waitpid reported    *)
(* has a row with an end time (run_event_loop).                            *)
DeathsAreRecorded ==
  closed => \A inc \in buried : \E r \in RowOf(inc) : r.end = inc

(* An access is recorded under the row id of the process that made it      *)
(* (on_file_access, current_synth).                                        *)
AccessesAreTheirOwn ==
  \A a \in session.accesses : RowIds(a.inc) = {a.id}

(* Dropping repeated accesses drops no process's first one, although pids  *)
(* are recycled: what the tracer saw is recorded (already_seen).           *)
DedupLosesNothing ==
  \A o \in observed :
    \E a \in session.accesses : a.inc = o.inc /\ a.file = o.file

(* The initial SIGSTOP of a child is never passed on, which would leave it *)
(* stopped for good (run_event_loop, handle_fork_event).                   *)
InitialStopSwallowed ==
  [][\A p \in Pids : task[p].why = "initial" => task'[p].state # "group_stopped"]_vars

(* A SIGSTOP that somebody sends to a tracee is never taken for its        *)
(* initial one: "any other signal" is passed on and stops it, whatever     *)
(* order the tracee's stops and its parent's fork event come in and        *)
(* whoever had its pid before.  The root's initial stop came before the    *)
(* loop, which swallows the first SIGSTOP sent to it (run_event_loop,      *)
(* handle_fork_event, start).                                              *)
SignalsReachTracees ==
  [][\A p \in Pids : task[p].why = "sigstop" /\ task[p].inc # 1
                       => task'[p].state # "running"]_vars

(* A tracee in ptrace-stop is resumed, even when a resume is lost, as      *)
(* long as the trace goes on (kick_if_stuck, check_stall).                 *)
StoppedIsResumed ==
  \A p \in Pids : Stopped(p) ~> (~Stopped(p) \/ closed)

(* When all processes are gone the trace is closed, even if the kernel     *)
(* lost exit reports and procs_ still holds entries (run_event_loop).      *)
TraceEnds == TreeIsGone ~> closed
=============================================================================
