---------------------------- MODULE SignalDrain ----------------------------
(***************************************************************************)
(* How a trace is stopped, and the watchdog (PtraceBackend::run_event_loop,*)
(* signal_handler, alarm_handler and check_stall in                        *)
(* src/src/tracer/ptrace_backend.cpp).                                     *)
(*                                                                         *)
(* A signal handler leaves the sender in three globals; the event loop     *)
(* reads them one after the other, tells a signal of the build itself from *)
(* a request to stop, and drains the events that are left.  A signal that  *)
(* comes just before waitpid does not interrupt it: the half second timer  *)
(* around waitpid does.  The same timer finds tracees whose resume got     *)
(* lost.  What the events record is left to Tracer.                        *)
(***************************************************************************)
EXTENDS Integers, FiniteSets

CONSTANTS Tracees,     \* the processes of the build, all tracked
          Root,        \* the command bdtrace started
          Terminal,    \* sends with a si_code above 0 and no pid
          User,        \* an untraced process
          NoOne,
          MaxSignals,  \* bound: signals sent to bdtrace
          MaxLost,     \* bound: resumes the kernel loses
          EarlyAlarm   \* can half a second pass between arming and waitpid?

ASSUME SignalAssumption ==
  /\ Root \in Tracees /\ EarlyAlarm \in BOOLEAN
  /\ MaxSignals \in Nat /\ MaxLost \in Nat
  /\ {Terminal, User, NoOne} \cap Tracees = {}

VARIABLES pc,                                    \* of the event loop
          pending,                               \* sender of an undelivered signal
          g_sig_pid, g_sig_code, g_sig_count,    \* written by signal_handler
          spid, scode,                           \* what the loop read of them
          running_, deadline,                    \* drain_deadline_us_
          timer, g_alarm_fired,
          procs_, state, exiting,                \* the tracees
          sent, losses,                          \* how much of the bounds is used
          asked                                  \* history: someone asked to stop

sigVars == <<pending, g_sig_pid, g_sig_code, g_sig_count>>
loopVars == <<spid, scode, running_, deadline>>
alarmVars == <<timer, g_alarm_fired>>
traceeVars == <<procs_, state, exiting, losses>>
vars == <<pc, sigVars, loopVars, alarmVars, traceeVars, sent, asked>>

Signals == {"SIGINT", "SIGTERM"}
Outside == {Terminal, User}
SI_USER == 0
SI_KERNEL == 128
si_pid(sender) == IF sender = Terminal THEN NoOne ELSE sender
si_code(sender) == IF sender = Terminal THEN SI_KERNEL ELSE SI_USER

Init ==
  /\ pc = "loop"
  /\ pending = [s \in Signals |-> NoOne]
  /\ g_sig_pid = NoOne /\ g_sig_code = SI_USER /\ g_sig_count = 0
  /\ spid = NoOne /\ scode = SI_USER
  /\ running_ = TRUE /\ deadline = "none"
  /\ timer = FALSE /\ g_alarm_fired = FALSE
  /\ procs_ = Tracees
  /\ state = [t \in Tracees |-> "runs"] /\ exiting = {}
  /\ sent = 0 /\ losses = 0 /\ asked = FALSE

-----------------------------------------------------------------------------
(* The tracees.  A "stopped" or "dead" one has a status waitpid can report;*)
(* a "stuck" one waits for a resume that got lost.                         *)
Reportable(t) == state[t] \in {"stopped", "dead"}

Stop(t) ==
  /\ pc # "closed" /\ state[t] = "runs" /\ t \notin exiting
  /\ state' = [state EXCEPT ![t] = "stopped"]
  /\ \/ UNCHANGED exiting
     \/ exiting' = exiting \cup {t}              \* PTRACE_EVENT_EXIT
  /\ UNCHANGED <<pc, sigVars, loopVars, alarmVars, procs_, losses, sent, asked>>

Die(t) ==
  /\ pc # "closed" /\ state[t] = "runs" /\ t \in exiting
  /\ state' = [state EXCEPT ![t] = "dead"]
  /\ UNCHANGED <<pc, sigVars, loopVars, alarmVars, procs_, exiting, losses, sent, asked>>

(* A signal of t the loop has not judged yet. *)
Unread(t) == \/ \E s \in Signals : pending[s] = t
             \/ g_sig_pid = t /\ g_sig_count > 0
             \/ spid = t

(* SIGKILL makes no exit stop.  The loop may see the death before it looks *)
(* for the sender of a signal, and takes it for an outsider then.          *)
Killed(t) ==
  /\ pc # "closed" /\ state[t] \in {"runs", "stopped", "stuck"}
  /\ state' = [state EXCEPT ![t] = "dead"]
  /\ asked' = (asked \/ Unread(t))
  /\ UNCHANGED <<pc, sigVars, loopVars, alarmVars, procs_, exiting, losses, sent>>

(* A signal that is pending already is not queued twice. *)
Send(sender, s) ==
  /\ sender \in Tracees => state[sender] = "runs" /\ sender \notin exiting
  /\ pending[s] = NoOne /\ sent < MaxSignals /\ pc # "closed"
  /\ pending' = [pending EXCEPT ![s] = sender]
  /\ sent' = sent + 1
  /\ asked' = (asked \/ sender \in Outside)
  /\ UNCHANGED <<pc, g_sig_pid, g_sig_code, g_sig_count, loopVars, alarmVars, traceeVars>>

-----------------------------------------------------------------------------
(* The handlers.  A handler that runs while waitpid blocks makes it return *)
(* EINTR, unless there is a status to return.                              *)
Interrupts ==
  IF pc = "wait"
  THEN \/ pc' = "eintr"
       \/ (\E t \in procs_ : Reportable(t)) /\ UNCHANGED pc
  ELSE UNCHANGED pc

Record(pid, code, n) ==
  /\ g_sig_pid' = pid /\ g_sig_code' = code
  /\ g_sig_count' = g_sig_count + n
  /\ Interrupts
  /\ UNCHANGED <<loopVars, alarmVars, traceeVars, sent, asked>>

signal_handler(s) ==
  /\ pc # "closed" /\ pending[s] # NoOne
  /\ pending' = [pending EXCEPT ![s] = NoOne]
  /\ Record(si_pid(pending[s]), si_code(pending[s]), 1)

(* Another signal comes between the two assignments of the handler of s. *)
nested_handler(s) ==
  \E other \in Signals \ {s} :
    /\ pc # "closed" /\ pending[s] # NoOne /\ pending[other] # NoOne
    /\ pending' = [q \in Signals |-> NoOne]
    /\ Record(si_pid(pending[other]), si_code(pending[s]), 2)

alarm_handler ==
  /\ pc # "closed" /\ timer
  /\ pc # "armed" \/ EarlyAlarm
  /\ timer' = FALSE /\ g_alarm_fired' = TRUE
  /\ Interrupts
  /\ UNCHANGED <<sigVars, loopVars, traceeVars, sent, asked>>

DeadlinePasses ==
  /\ pc # "closed" /\ deadline = "set"
  /\ deadline' = "passed"
  /\ UNCHANGED <<pc, sigVars, spid, scode, running_, alarmVars, traceeVars, sent, asked>>

-----------------------------------------------------------------------------
(* The event loop. *)
Goto(label) == pc' = label

(* No process is left, or the session has too many write errors. *)
LoopEnds ==
  /\ pc = "loop"
  /\ Goto("closed")
  /\ UNCHANGED <<sigVars, loopVars, alarmVars, traceeVars, sent, asked>>

ReadPid ==
  /\ pc = "loop" /\ procs_ # {}
  /\ IF g_sig_count > 0
     THEN Goto("code") /\ spid' = g_sig_pid
     ELSE Goto("deadline") /\ UNCHANGED spid
  /\ UNCHANGED <<sigVars, scode, running_, deadline, alarmVars, traceeVars, sent, asked>>

ReadCode ==
  /\ pc = "code" /\ Goto("reset")
  /\ scode' = g_sig_code
  /\ UNCHANGED <<sigVars, spid, running_, deadline, alarmVars, traceeVars, sent, asked>>

Reset ==
  /\ pc = "reset" /\ Goto("decide")
  /\ g_sig_count' = 0
  /\ UNCHANGED <<pending, g_sig_pid, g_sig_code, loopVars, alarmVars, traceeVars, sent, asked>>

SentByRoot == scode <= 0 /\ spid = Root                       \* Slip
SentByTracee == scode <= 0 /\ spid \in procs_

StartDrainForEver == running_' = FALSE /\ UNCHANGED deadline  \* Slip
StartDrain == running_' = FALSE /\ deadline' = "set"

(* The signal is passed on to Root, which may exit on it, at any time or   *)
(* never; a second request abandons the drain.                             *)
Decide ==
  /\ pc = "decide"
  /\ spid' = NoOne /\ scode' = SI_USER
  /\ \/ SentByTracee /\ Goto("deadline") /\ UNCHANGED <<running_, deadline>>
     \/ ~SentByTracee /\ running_ /\ StartDrain /\ Goto("deadline")
     \/ ~SentByTracee /\ ~running_ /\ Goto("closed") /\ UNCHANGED <<running_, deadline>>
  /\ UNCHANGED <<sigVars, alarmVars, traceeVars, sent, asked>>

Abandon ==
  /\ pc = "deadline" /\ ~running_ /\ deadline = "passed"
  /\ Goto("closed")
  /\ UNCHANGED <<sigVars, loopVars, alarmVars, traceeVars, sent, asked>>

LeaveOff == timer' = FALSE                                    \* Slip
arm_watchdog == timer' = TRUE

Arm ==
  /\ pc = "deadline" /\ (running_ \/ deadline # "passed")
  /\ arm_watchdog
  /\ Goto("armed")
  /\ UNCHANGED <<sigVars, loopVars, g_alarm_fired, traceeVars, sent, asked>>

waitpid ==
  /\ pc = "armed" /\ Goto("wait")
  /\ UNCHANGED <<sigVars, loopVars, alarmVars, traceeVars, sent, asked>>

(* A status.  Signals are delivered before waitpid returns; a death takes  *)
(* the process off the books, a stop is resumed.                           *)
Event(t) ==
  /\ pc = "wait" /\ t \in procs_ /\ Reportable(t)
  /\ \A s \in Signals : pending[s] = NoOne
  /\ timer' = FALSE /\ g_alarm_fired' = FALSE
  /\ Goto("loop")
  /\ \/ /\ state[t] = "dead"
        /\ procs_' = procs_ \ {t}
        /\ state' = [state EXCEPT ![t] = "gone"]
        /\ UNCHANGED losses
     \/ /\ state[t] = "stopped"
        /\ \/ state' = [state EXCEPT ![t] = "runs"] /\ UNCHANGED losses
           \/ /\ losses < MaxLost
              /\ state' = [state EXCEPT ![t] = "stuck"]
              /\ losses' = losses + 1
        /\ UNCHANGED procs_
  /\ UNCHANGED <<sigVars, loopVars, exiting, sent, asked>>

check_stall_first ==                                          \* Slip
  state' = [t \in Tracees |-> IF state[t] = "stuck" /\ t = (CHOOSE p \in procs_ : TRUE)
                              THEN "runs" ELSE state[t]]
(* The scan resumes whoever is in a ptrace stop with nothing to report.    *)
(* It stops after 256 processes, more than there are here.                 *)
check_stall ==
  state' = [t \in Tracees |-> IF state[t] = "stuck" THEN "runs" ELSE state[t]]

Eintr ==
  /\ pc = "eintr" /\ Goto("loop")
  /\ timer' = FALSE /\ g_alarm_fired' = FALSE
  /\ IF g_alarm_fired THEN check_stall ELSE UNCHANGED state
  /\ UNCHANGED <<sigVars, loopVars, procs_, exiting, losses, sent, asked>>

-----------------------------------------------------------------------------
Loop == \/ ReadPid \/ ReadCode \/ Reset \/ Decide \/ Abandon \/ Arm \/ waitpid
        \/ Eintr \/ (procs_ = {} /\ LoopEnds)
        \/ \E t \in Tracees : Event(t)

Next ==
  \/ Loop \/ LoopEnds
  \/ alarm_handler \/ DeadlinePasses
  \/ \E s \in Signals : signal_handler(s) \/ nested_handler(s)
  \/ \E t \in Tracees : Stop(t) \/ Die(t) \/ Killed(t)
  \/ \E s \in Signals, sender \in Tracees \cup Outside : Send(sender, s)

(* The tracer is scheduled, its timers run out, signals are delivered and  *)
(* time passes; nothing is expected of the tracees.                        *)
Fairness ==
  /\ WF_vars(Loop) /\ WF_vars(alarm_handler) /\ WF_vars(DeadlinePasses)
  /\ \A s \in Signals : WF_vars(signal_handler(s))

Spec == Init /\ [][Next]_vars /\ Fairness

-----------------------------------------------------------------------------
(* Safety: a trace is only stopped by a request from outside the build     *)
(* (run_event_loop): the signals of tracees, however they overtake each    *)
(* other and whichever half of the globals the loop reads, never stop it.  *)
(* The exception is a tracee killed after it sent one.                     *)
StopNeedsRequest == ~running_ => asked

(* Liveness: a request to stop that is in the globals is heeded, even when *)
(* it came just before waitpid blocked, unless a signal of a tracee        *)
(* overwrites it before the loop looks (signal_handler, run_event_loop).   *)
StopIsHeeded ==
  (/\ pc \notin {"code", "reset", "closed"}
   /\ g_sig_count > 0 /\ g_sig_pid \notin Tracees)
    ~> (~running_ \/ pc = "closed" \/ (g_sig_count > 0 /\ g_sig_pid \in Tracees))

(* Liveness: a drain ends, whatever the tracees do: their deaths, the      *)
(* deadline or a second request end it (drain_deadline_us_).               *)
DrainEnds == ~running_ ~> pc = "closed"

(* Liveness: once the tracees that run have nothing to report for good, a  *)
(* tracee whose resume was lost is resumed, in a drain as well             *)
(* (check_stall): the watchdog only looks when nothing happens.            *)
StuckIsKicked ==
  <>[](\A t \in Tracees : ~Reportable(t)) =>
    \A t \in Tracees : state[t] = "stuck" ~> (state[t] # "stuck" \/ pc = "closed")
=============================================================================
