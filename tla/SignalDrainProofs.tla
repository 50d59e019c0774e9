------------------------- MODULE SignalDrainProofs -------------------------
(***************************************************************************)
(* Proof that the signals of the build never stop a trace, for any number  *)
(* of tracees and of signals and with any resumes lost.                    *)
(*                                                                         *)
(* What has to be shown is that the sender of a signal is still on the     *)
(* books when the loop asks for it.  A tracee that has sent one dies after *)
(* a stop of its own, and waitpid reports that stop only after the signal  *)
(* has been delivered; the loop judges what is delivered before it comes   *)
(* back to waitpid, and only there takes processes off the books.          *)
(***************************************************************************)
EXTENDS SignalDrain, TLAPS

(* No stop lies between t and its death any more. *)
Leaving(t) ==
  \/ state[t] \in {"dead", "gone"}
  \/ t \in exiting /\ state[t] \in {"runs", "stuck"}

TypeInv ==
  /\ pending \in [Signals -> Tracees \cup Outside \cup {NoOne}]
  /\ g_sig_count \in Nat
  /\ running_ \in BOOLEAN /\ asked \in BOOLEAN
  /\ procs_ = {t \in Tracees : state[t] # "gone"}
  /\ state \in [Tracees -> {"runs", "stopped", "dead", "stuck", "gone"}]
  /\ exiting \subseteq Tracees

(* While nobody has asked for it, every signal on its way comes from a     *)
(* tracee that the loop will still know when it judges the signal.         *)
BuildSignals ==
  /\ running_
  /\ \A s \in Signals : pending[s] # NoOne =>
       pending[s] \in Tracees /\ ~Leaving(pending[s])
  /\ g_sig_code = SI_USER /\ scode = SI_USER
  /\ g_sig_count > 0 =>
       /\ g_sig_pid \in procs_
       /\ Leaving(g_sig_pid) => pc \in {"loop", "code", "reset", "closed"}
  /\ pc \in {"code", "reset", "decide"} => spid \in procs_
  /\ spid # NoOne => pc \in {"code", "reset", "decide"}

StopInv == TypeInv /\ (~asked => BuildSignals)

LEMMA TypeStep ==
  ASSUME TypeInv, [Next]_vars
  PROVE  TypeInv'
<1> USE DEF TypeInv
<1>1. CASE \E s \in Signals, sender \in Tracees \cup Outside : Send(sender, s)
  BY <1>1 DEF Send, loopVars, traceeVars
<1>2. CASE \E s \in Signals : signal_handler(s) \/ nested_handler(s)
  BY <1>2 DEF signal_handler, nested_handler, Record, loopVars, traceeVars
<1>3. CASE alarm_handler \/ DeadlinePasses \/ LoopEnds
  BY <1>3 DEF alarm_handler, DeadlinePasses, LoopEnds, sigVars, loopVars, traceeVars
<1>4. CASE \E t \in Tracees : Stop(t) \/ Die(t) \/ Killed(t)
  <2>1. PICK t \in Tracees : Stop(t) \/ Die(t) \/ Killed(t)
    BY <1>4
  <2>2. /\ UNCHANGED <<pending, g_sig_count, running_, procs_>>
        /\ asked' \in BOOLEAN /\ exiting' \subseteq Tracees
    BY <2>1 DEF Stop, Die, Killed, sigVars, loopVars
  <2>3. /\ state[t] # "gone"
        /\ \E to \in {"stopped", "dead"} : state' = [state EXCEPT ![t] = to]
    BY <2>1, Zenon DEF Stop, Die, Killed
  <2> QED BY <2>2, <2>3
<1>5. CASE ReadPid \/ ReadCode \/ Reset \/ Abandon \/ Arm \/ waitpid
  BY <1>5 DEF ReadPid, ReadCode, Reset, Abandon, Arm, waitpid, sigVars, loopVars,
              traceeVars
<1>6. CASE Decide
  BY <1>6 DEF Decide, StartDrain, sigVars, traceeVars
<1>7. CASE Eintr
  BY <1>7 DEF Eintr, check_stall, sigVars, loopVars
<1>8. CASE \E t \in Tracees : Event(t)
  <2>1. PICK t \in Tracees : Event(t)
    BY <1>8
  <2>2. UNCHANGED <<pending, g_sig_count, running_, exiting, asked>>
    BY <2>1 DEF Event, sigVars, loopVars
  <2>3. \/ /\ procs_' = procs_ \ {t} /\ state' = [state EXCEPT ![t] = "gone"]
        \/ /\ procs_' = procs_ /\ state[t] = "stopped"
           /\ \E to \in {"runs", "stuck"} : state' = [state EXCEPT ![t] = to]
    BY <2>1, Zenon DEF Event
  <2> QED BY <2>2, <2>3
<1>9. CASE UNCHANGED vars
  BY <1>9 DEF vars, sigVars, loopVars, traceeVars
<1> QED BY <1>1, <1>2, <1>3, <1>4, <1>5, <1>6, <1>7, <1>8, <1>9 DEF Next, Loop

(* A tracee that goes on keeps its place before or after its exit stop,    *)
(* but for Event, which reports that stop, and a kill.                     *)
LEMMA TraceeStep ==
  ASSUME TypeInv, BuildSignals, NEW t \in Tracees, Stop(t) \/ Die(t) \/ Killed(t),
         ~asked'
  PROVE  BuildSignals'
<1>1. /\ UNCHANGED <<pc, sigVars, loopVars, procs_>>
      /\ state' \in [Tracees -> {"runs", "stopped", "dead", "stuck", "gone"}]
      /\ \A u \in Tracees \ {t} : state'[u] = state[u]
  BY DEF Stop, Die, Killed, TypeInv
<1>2. \A u \in Tracees \ {t} : u \in exiting' <=> u \in exiting
  BY DEF Stop, Die, Killed
<1>3. \A u \in Tracees : Leaving(u)' => Leaving(u) \/ (u = t /\ Killed(t))
  <2>1. CASE Stop(t)
    BY <1>1, <1>2, <2>1 DEF Stop, Leaving, TypeInv
  <2>2. CASE Die(t)
    BY <1>1, <1>2, <2>2 DEF Die, Leaving, TypeInv
  <2>3. CASE Killed(t)
    BY <1>1, <1>2, <2>3 DEF Leaving, TypeInv
  <2> QED BY <2>1, <2>2, <2>3
<1>4. Killed(t) => ~Unread(t)
  BY DEF Killed
<1>5. \A s \in Signals : pending[s] # NoOne =>
        pending[s] \in Tracees /\ ~Leaving(pending[s])'
  <2> SUFFICES ASSUME NEW s \in Signals, pending[s] # NoOne
               PROVE  pending[s] \in Tracees /\ ~Leaving(pending[s])'
    OBVIOUS
  <2>1. pending[s] \in Tracees /\ ~Leaving(pending[s]) /\ pending'[s] = pending[s]
    BY <1>1 DEF BuildSignals, sigVars
  <2> QED BY <1>3, <1>4, <2>1 DEF Unread
<1>6. g_sig_count > 0 =>
        /\ g_sig_pid \in procs_
        /\ Leaving(g_sig_pid)' => pc \in {"loop", "code", "reset", "closed"}
  <2> SUFFICES ASSUME g_sig_count > 0, Leaving(g_sig_pid)', g_sig_pid \in procs_
               PROVE  pc \in {"loop", "code", "reset", "closed"}
    BY DEF BuildSignals
  <2>1. g_sig_pid \in Tracees /\ g_sig_pid' = g_sig_pid
    BY <1>1 DEF TypeInv, sigVars
  <2> QED BY <1>3, <1>4, <2>1 DEF BuildSignals, Unread
<1> QED BY <1>1, <1>5, <1>6 DEF BuildSignals, Leaving, sigVars, loopVars

LEMMA BuildSignalsStep ==
  ASSUME TypeInv, BuildSignals, ~asked', [Next]_vars
  PROVE  BuildSignals'
<1> DEFINE SameTracees == UNCHANGED <<state, exiting, procs_>>
<1>0. SameTracees => \A t : Leaving(t)' = Leaving(t)
  BY DEF Leaving
<1>1. ASSUME NEW s \in Signals, NEW sender \in Tracees \cup Outside, Send(sender, s)
      PROVE  BuildSignals'
  <2>1. sender \in Tracees
    BY <1>1 DEF Send
  <2>2. state[sender] = "runs" /\ sender \notin exiting
    BY <1>1, <2>1 DEF Send
  <2>3. \A q \in Signals : pending'[q] = IF q = s THEN sender ELSE pending[q]
    BY <1>1 DEF Send, TypeInv
  <2>4. /\ UNCHANGED <<pc, g_sig_pid, g_sig_code, g_sig_count, spid, scode, running_>>
        /\ SameTracees
    BY <1>1 DEF Send, loopVars, traceeVars
  <2> QED BY <1>0, <2>1, <2>2, <2>3, <2>4 DEF BuildSignals, Leaving
<1>2. ASSUME NEW s \in Signals, signal_handler(s) \/ nested_handler(s)
      PROVE  BuildSignals'
  <2>1. PICK from \in Signals, n \in {1, 2} :
           /\ pending[s] # NoOne /\ pending[from] # NoOne
           /\ Record(si_pid(pending[from]), si_code(pending[s]), n)
           /\ \A q \in Signals : pending'[q] \in {pending[q], NoOne}
    BY <1>2 DEF signal_handler, nested_handler, TypeInv
  <2>2. /\ pending[s] \in Tracees /\ pending[from] \in Tracees
        /\ ~Leaving(pending[from])
    BY <2>1 DEF BuildSignals
  <2>3. /\ si_pid(pending[from]) = pending[from]
        /\ si_code(pending[s]) = SI_USER
    BY <2>2, SignalAssumption DEF si_pid, si_code
  <2>4. /\ g_sig_pid' = pending[from] /\ g_sig_code' = SI_USER
        /\ UNCHANGED <<spid, scode, running_>> /\ SameTracees
    BY <2>1, <2>3 DEF Record, loopVars, traceeVars
  <2>5. pc' = pc \/ (pc = "wait" /\ pc' = "eintr")
    BY <2>1 DEF Record, Interrupts
  <2>6. g_sig_pid' \in procs_' /\ ~Leaving(g_sig_pid)'
    BY <1>0, <2>2, <2>4 DEF TypeInv, Leaving
  <2>7. \A q \in Signals : pending'[q] # NoOne =>
          pending'[q] \in Tracees /\ ~Leaving(pending[q])' /\ pending'[q] = pending[q]
    BY <1>0, <2>1, <2>4 DEF BuildSignals
  <2> QED BY <2>4, <2>5, <2>6, <2>7 DEF BuildSignals, Leaving
<1>3. CASE alarm_handler
  <2>1. pc' = pc \/ (pc = "wait" /\ pc' = "eintr")
    BY <1>3 DEF alarm_handler, Interrupts
  <2>2. UNCHANGED <<sigVars, spid, scode, running_>> /\ SameTracees
    BY <1>3 DEF alarm_handler, loopVars, traceeVars
  <2> QED BY <2>1, <2>2 DEF BuildSignals, Leaving, sigVars
<1>4. CASE DeadlinePasses \/ LoopEnds \/ Abandon \/ Arm \/ waitpid \/ UNCHANGED vars
  <2>1. UNCHANGED <<sigVars, spid, scode, running_>> /\ SameTracees
    BY <1>4 DEF DeadlinePasses, LoopEnds, Abandon, Arm, waitpid, loopVars,
                traceeVars, vars
  <2>2. \/ pc' = pc
        \/ pc' = "closed" /\ pc \in {"loop", "deadline"}
        \/ pc' = "armed" /\ pc = "deadline"
        \/ pc' = "wait" /\ pc = "armed"
    BY <1>4 DEF DeadlinePasses, LoopEnds, Abandon, Arm, waitpid, Goto, vars
  <2> QED BY <2>1, <2>2 DEF BuildSignals, Leaving, sigVars
<1>5. ASSUME NEW t \in Tracees, Stop(t) \/ Die(t) \/ Killed(t)
      PROVE  BuildSignals'
  BY <1>5, TraceeStep
<1>6. CASE ReadPid
  <2>1. UNCHANGED <<sigVars, scode, running_>> /\ SameTracees
    BY <1>6 DEF ReadPid, traceeVars
  <2>2. \/ g_sig_count > 0 /\ pc' = "code" /\ spid' = g_sig_pid
        \/ ~(g_sig_count > 0) /\ pc' = "deadline" /\ spid' = spid /\ pc = "loop"
    BY <1>6 DEF ReadPid, Goto
  <2> QED BY <2>1, <2>2 DEF BuildSignals, Leaving, sigVars
<1>7. CASE ReadCode
  BY <1>7 DEF ReadCode, Goto, BuildSignals, Leaving, sigVars, traceeVars
<1>8. CASE Reset
  BY <1>8 DEF Reset, Goto, BuildSignals, Leaving, loopVars, traceeVars
<1>9. CASE Decide
  <2>1. SentByTracee
    BY <1>9 DEF Decide, BuildSignals, SentByTracee, SI_USER
  <2>2. /\ pc' = "deadline" /\ pc = "decide" /\ spid' = NoOne /\ scode' = SI_USER
        /\ UNCHANGED <<sigVars, running_>> /\ SameTracees
    BY <1>9, <2>1 DEF Decide, Goto, traceeVars
  <2> QED BY <2>2 DEF BuildSignals, Leaving, sigVars
<1>10. CASE Eintr
  <2>1. /\ pc = "eintr" /\ pc' = "loop"
        /\ UNCHANGED <<sigVars, spid, scode, running_, exiting, procs_>>
    BY <1>10 DEF Eintr, Goto, loopVars
  <2>2. \A t \in Tracees : state'[t] = state[t] \/ (state[t] = "stuck" /\ state'[t] = "runs")
    BY <1>10 DEF Eintr, check_stall, TypeInv
  <2>3. \A t \in Tracees : Leaving(t)' => Leaving(t)
    BY <2>1, <2>2 DEF Leaving
  <2> QED BY <2>1, <2>3 DEF BuildSignals, Leaving, sigVars, TypeInv
<1>11. ASSUME NEW t \in Tracees, Event(t)
       PROVE  BuildSignals'
  <2>1. /\ pc = "wait" /\ pc' = "loop" /\ \A s \in Signals : pending[s] = NoOne
        /\ UNCHANGED <<sigVars, spid, scode, running_>>
    BY <1>11 DEF Event, Goto, loopVars
  <2>2. procs_' = procs_ \/ (procs_' = procs_ \ {t} /\ state[t] = "dead")
    BY <1>11 DEF Event
  <2>3. g_sig_count > 0 => g_sig_pid \in procs_'
    BY <2>1, <2>2 DEF BuildSignals, Leaving
  <2> QED BY <2>1, <2>3 DEF BuildSignals, Leaving, sigVars
<1> QED BY <1>1, <1>2, <1>3, <1>4, <1>5, <1>6, <1>7, <1>8, <1>9, <1>10, <1>11
        DEF Next, Loop

LEMMA StopInvStep == StopInv /\ [Next]_vars => StopInv'
<1> SUFFICES ASSUME StopInv, [Next]_vars PROVE StopInv'
  OBVIOUS
<1>1. asked => asked'
  BY DEF Next, Loop, Send, signal_handler, nested_handler, Record, alarm_handler,
         DeadlinePasses, LoopEnds, Stop, Die, Killed, ReadPid, ReadCode, Reset, Decide,
         Abandon, Arm, waitpid, Event, Eintr, vars
<1>2. TypeInv'
  BY TypeStep DEF StopInv
<1>3. ASSUME ~asked' PROVE BuildSignals'
  BY <1>1, <1>3, BuildSignalsStep DEF StopInv
<1> QED BY <1>2, <1>3 DEF StopInv

(* A trace drains and ends early only on a request from outside the build: *)
(* no order of signals, handlers, exits and reads of the three globals     *)
(* lets a signal of the build itself stop it (signal_handler,              *)
(* run_event_loop).                                                        *)
THEOREM StopsOnlyOnRequest == Spec => []StopNeedsRequest
<1>1. Init => StopInv
  <2>1. ASSUME Init PROVE TypeInv
    BY <2>1 DEF Init, TypeInv
  <2>2. ASSUME Init PROVE BuildSignals
    BY <2>2 DEF Init, BuildSignals
  <2> QED BY <2>1, <2>2 DEF StopInv
<1>2. StopInv => StopNeedsRequest
  BY DEF StopInv, BuildSignals, StopNeedsRequest
<1> QED BY <1>1, <1>2, StopInvStep, PTL DEF Spec
=============================================================================
