------------------------------ MODULE EventLog ------------------------------
(***************************************************************************)
(* What a TraceSession promises the ptrace event loop, with no queue, no   *)
(* writer thread and no transactions: the event loop hands over events,    *)
(* numbered in the order of the calls, and the rows of the database are a  *)
(* growing sequence of those events in that same order.  A session that    *)
(* is closed has written everything it accepted; a session that is killed  *)
(* keeps what it had written.  Lossy sessions (the database reported       *)
(* errors) may skip events but never reorder, repeat or take back one.     *)
(***************************************************************************)
EXTENDS Integers, Sequences

CONSTANT Lossy   \* a Boolean: may events be skipped?

VARIABLES accepted,  \* number of events handed to the session
          written,   \* numbers of the events whose rows are durable
          phase      \* "tracing", "closed" or "killed"

vars == <<accepted, written, phase>>

LastWritten == IF written = <<>> THEN 0 ELSE written[Len(written)]

Init ==
  /\ accepted = 0
  /\ written = <<>>
  /\ phase = "tracing"

Accept ==
  /\ phase = "tracing"
  /\ accepted' = accepted + 1
  /\ UNCHANGED <<written, phase>>

(* A commit makes one or more further events durable, in order. *)
Persist ==
  /\ phase = "tracing"
  /\ Len(written') > Len(written)
  /\ SubSeq(written', 1, Len(written)) = written
  /\ \A i \in Len(written) + 1 .. Len(written') :
        /\ written'[i] \in LastWritten + 1 .. accepted
        /\ i > 1 => IF Lossy THEN written'[i - 1] < written'[i]
                             ELSE written'[i] = written'[i - 1] + 1
        /\ i = 1 /\ ~Lossy => written'[i] = 1
  /\ UNCHANGED <<accepted, phase>>

Close ==
  /\ phase = "tracing"
  /\ Lossy \/ Len(written) = accepted
  /\ phase' = "closed"
  /\ UNCHANGED <<accepted, written>>

Kill ==
  /\ phase = "tracing"
  /\ phase' = "killed"
  /\ UNCHANGED <<accepted, written>>

Next == Accept \/ Persist \/ Close \/ Kill

Spec == Init /\ [][Next]_vars
=============================================================================
