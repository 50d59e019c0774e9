----------------------------- MODULE Processes -----------------------------
(***************************************************************************)
(* What the kernel's side of a trace and the session's books both speak    *)
(* of: pids, which processes occupy one after another, and incarnations,   *)
(* each of them one such process, numbered in the order they begin.        *)
(***************************************************************************)
EXTENDS Integers, FiniteSets

CONSTANTS Pids,      \* kernel process ids
          Files,     \* what an access is about: mode or errno, and path
          TracerPid  \* the pid of bdtrace itself

ASSUME ProcessesAssumption ==
  /\ Pids \subseteq Nat \ {0}
  /\ TracerPid \in Nat \ ({0} \cup Pids)

NoPid == 0  \* the ppid of a process whose parent is not known
NoInc == 0  \* no incarnation
=============================================================================
