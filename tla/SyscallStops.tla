---------------------------- MODULE SyscallStops ----------------------------
(***************************************************************************)
(* How the tracer turns syscall stops into file accesses                   *)
(* (src/src/tracer/ptrace_backend.cpp): decode_syscall_entry remembers     *)
(* what a syscall is about, its exit stop records the access.              *)
(*                                                                         *)
(* In classic mode every syscall stops at its entry and at its exit, and   *)
(* the two look alike: the handler tells them apart by -ENOSYS in the      *)
(* result register and by the phase it keeps.  In seccomp mode a syscall   *)
(* of interest stops with an event of its own and the tracer asks for the  *)
(* exit stop.                                                              *)
(*                                                                         *)
(* Syscalls stand for their family; their path is relative, so that what   *)
(* it resolves to is the directory it starts from: the one a dirfd names   *)
(* (openat, unlinkat, execveat; renameat, here, one for both paths), or    *)
(* the working directory.  A syscall is known by its number within its     *)
(* thread, which also stands for its arguments.                            *)
(***************************************************************************)
EXTENDS Integers, Sequences, FiniteSets

CONSTANTS Threads,          \* tracees
          Dirs,             \* directories
          SeccompFirst,     \* kernel 3.5 to 4.7: the seccomp stop precedes
                            \* the entry stop that PTRACE_SYSCALL asks for
          Losable,          \* stops that 2.6.x may fail to report
          MaxCalls,         \* bound of the model: syscalls of a thread
          MaxLost           \* bound of the model: lost stops of a thread

ASSUME SyscallAssumption ==
  /\ SeccompFirst \in BOOLEAN
  /\ Losable \subseteq {"entry", "seccomp", "exit"}
  /\ MaxCalls \in Nat /\ MaxLost \in Nat

VARIABLES seccomp_mode,  \* seccomp_mode_
          thread,        \* the kernel's side of each thread
          cwd,           \* the working directory of each thread
          done,          \* the syscalls each thread has carried out
          lost,          \* lost stops of each thread
          books,         \* the ProcessState of each thread
          recorded       \* the accesses recorded

vars == <<seccomp_mode, thread, cwd, done, lost, books, recorded>>

(* "plain" is of no interest, "fault" is of interest but has no path.      *)
Kinds == {"plain", "fault", "open", "unlink", "rename", "execve", "chdir", "fchdir"}
Outcomes == {"ok", "error", "ENOSYS"}
WithDirfd == {"open", "unlink", "rename", "execve"}
Args(kind) == IF kind = "rename" THEN 1..2 ELSE {1}

NoCall == 0

Thread == [at : {"user", "entry", "seccomp", "inside", "exec", "exit"},
           kind : Kinds,
           dirfd : BOOLEAN,       \* its path starts from a directory it names
           outcome : Outcomes,    \* the result register
           stopAtExit : BOOLEAN]  \* resumed with PTRACE_SYSCALL

Book == [sc_phase : {"unknown", "entry_next", "exit_next"},
         exit_needed : BOOLEAN,
         pending : Nat,           \* the call that was decoded
         kind : Kinds,            \* pending_syscall
         cached_cwd : Dirs]

Call == [kind : Kinds, dirfd : BOOLEAN, outcome : Outcomes, dir : Dirs]

(* `failed': a row of failed_accesses, with the errno, not of file_accesses. *)
Record == [thread : Threads, call : Nat, arg : 1..2, kind : Kinds,
           failed : BOOLEAN, dir : Dirs]

(* The number of the syscall a thread is in. *)
Number(t) == IF thread[t].at \in {"exec", "exit"} THEN Len(done[t])
                                                  ELSE Len(done[t]) + 1

Init ==
  /\ seccomp_mode \in BOOLEAN
  /\ thread = [t \in Threads |->
                 [at |-> "user", kind |-> "plain", dirfd |-> FALSE,
                  outcome |-> "ok", stopAtExit |-> ~seccomp_mode]]
  /\ cwd \in [Threads -> Dirs]
  /\ done = [t \in Threads |-> <<>>]
  /\ lost = [t \in Threads |-> 0]
  /\ books = [t \in Threads |->
                [sc_phase |-> "unknown", exit_needed |-> FALSE,
                 pending |-> NoCall, kind |-> "plain", cached_cwd |-> cwd[t]]]
  /\ recorded = {}

-----------------------------------------------------------------------------
(* The kernel *)

(* BD_TRACED_SYSCALLS *)
Trapped(kind) == kind # "plain"

(* A syscall begins, with -ENOSYS in its result register. *)
Issue(t, kind, dirfd) ==
  /\ thread[t].at = "user" /\ Len(done[t]) < MaxCalls
  /\ seccomp_mode => Trapped(kind)
  /\ dirfd => kind \in WithDirfd
  /\ thread' = [thread EXCEPT ![t].kind = kind, ![t].dirfd = dirfd,
                  ![t].outcome = "ENOSYS",
                  ![t].at = IF seccomp_mode THEN "seccomp" ELSE "entry"]
  /\ UNCHANGED <<seccomp_mode, cwd, done, lost, books, recorded>>

CanHappen(kind, outcome) ==
  /\ kind = "fault" => outcome = "error"
  /\ outcome = "ENOSYS" => kind \in {"plain", "open"}

(* The syscall is carried out; dir is where a dirfd points, or where       *)
(* chdir goes.  A successful execve has an event first.                    *)
CarryOut(t, outcome, dir) ==
  LET kind    == thread[t].kind
      dirfd   == thread[t].dirfd
      changes == kind \in {"chdir", "fchdir"} /\ outcome = "ok"
      toExec  == kind = "execve" /\ outcome = "ok"
  IN  /\ thread[t].at = "inside"
      /\ CanHappen(kind, outcome)
      /\ ~changes /\ ~dirfd => dir = cwd[t]
      /\ cwd' = [cwd EXCEPT ![t] = IF changes THEN dir ELSE @]
      /\ done' = [done EXCEPT ![t] = Append(@,
                   [kind |-> kind, dirfd |-> dirfd, outcome |-> outcome,
                    dir |-> IF kind = "fchdir" \/ dirfd THEN dir ELSE cwd[t]])]
      /\ thread' = [thread EXCEPT ![t].outcome = outcome,
                      ![t].at = CASE toExec -> "exec"
                                  [] ~toExec /\ thread[t].stopAtExit -> "exit"
                                  [] OTHER -> "user"]
      /\ UNCHANGED <<seccomp_mode, lost, books, recorded>>

(* Where a thread goes when it is resumed, with PTRACE_SYSCALL or not. *)
Resumed(th, withSyscall) ==
  [th EXCEPT
     !.stopAtExit = withSyscall,
     !.at = CASE th.at = "seccomp" /\ withSyscall /\ SeccompFirst -> "entry"
              [] th.at = "entry" \/ (th.at = "seccomp" /\ ~(withSyscall /\ SeccompFirst))
                   -> "inside"
              [] th.at = "exec" /\ withSyscall -> "exit"
              [] OTHER -> "user"]

-----------------------------------------------------------------------------
(* The tracer *)

(* resume: PTRACE_CONT in seccomp mode. *)
Resume(t) == thread' = [thread EXCEPT ![t] = Resumed(@, ~seccomp_mode)]

(* Slip: an exit is inspected only if a path was saved. *)
DecodePathsOnly(book, call, kind) ==
  [book EXCEPT !.pending = call, !.kind = kind,
               !.exit_needed = kind \notin {"plain", "fault", "fchdir"}]

(* decode_syscall_entry *)
Decode(book, call, kind) ==
  [book EXCEPT !.pending = call, !.kind = kind,
               !.exit_needed = kind \notin {"plain", "fault"}]

Forget(book) == [book EXCEPT !.pending = NoCall, !.kind = "plain",
                             !.exit_needed = FALSE]

(* handle_seccomp_stop *)
HandleSeccompStop(t) ==
  LET decoded == Decode(books[t], Number(t), thread[t].kind)
  IN  /\ thread[t].at = "seccomp"
      /\ books' = [books EXCEPT ![t] =
                     IF decoded.exit_needed
                       THEN [decoded EXCEPT !.sc_phase = "exit_next"]
                       ELSE [Forget(decoded) EXCEPT !.sc_phase = "entry_next"]]
      /\ thread' = [thread EXCEPT ![t] = Resumed(@, decoded.exit_needed)]
      /\ UNCHANGED <<seccomp_mode, cwd, done, lost, recorded>>

(* An exit stop records the pending syscall for these results. *)
Records(kind, outcome) ==
  \/ kind = "open"
  \/ kind \in {"unlink", "rename", "chdir", "fchdir"} /\ outcome = "ok"
  \/ kind = "execve" /\ outcome = "error"

(* Slip: the cached directory is refreshed before the path is resolved. *)
ResolvedDirLate(t) == cwd[t]

(* resolve_path_cached, which knows of no dirfd; fchdir reads /proc. *)
ResolvedDir(t) ==
  IF books[t].kind = "fchdir" THEN cwd[t] ELSE books[t].cached_cwd

(* record_failed_access stores what failed, but a failed execve, too, goes *)
(* through record_access.                                                  *)
StoredAsFailed(kind, outcome) == outcome = "error" /\ kind # "execve"

(* What the exit stop of thread t adds to the accesses. *)
Accesses(t, outcome) ==
  IF books[t].exit_needed /\ Records(books[t].kind, outcome)
    THEN {[thread |-> t, call |-> books[t].pending, arg |-> arg,
           kind |-> books[t].kind, failed |-> StoredAsFailed(books[t].kind, outcome),
           dir |-> ResolvedDir(t)] :
            arg \in Args(books[t].kind)}
    ELSE {}

ExitHandled(t, outcome) ==
  [Forget(books[t]) EXCEPT
     !.sc_phase = "entry_next",
     !.cached_cwd = IF books[t].kind \in {"chdir", "fchdir"} /\ outcome = "ok"
                      THEN cwd[t] ELSE @]

(* Slip: the phase is trusted instead of the registers. *)
IsEntryByPhase(t) == books[t].sc_phase # "exit_next"

(* The result register holds -ENOSYS at an entry, and also at the exit of  *)
(* a syscall that failed with it.                                          *)
IsEntry(t) == thread[t].outcome = "ENOSYS"

(* handle_syscall_stop *)
HandleSyscallStop(t) ==
  /\ thread[t].at \in {"entry", "exit"}
  /\ \/ /\ books[t].sc_phase = "exit_next" /\ ~books[t].exit_needed
        /\ books' = [books EXCEPT ![t] = [Forget(@) EXCEPT !.sc_phase = "entry_next"]]
        /\ UNCHANGED recorded
     \/ /\ books[t].sc_phase # "exit_next" \/ books[t].exit_needed
        /\ IsEntry(t)
        /\ books' = [books EXCEPT ![t] =
                       [Decode(@, Number(t), thread[t].kind) EXCEPT
                          !.sc_phase = "exit_next"]]
        /\ UNCHANGED recorded
     \/ /\ books[t].sc_phase # "exit_next" \/ books[t].exit_needed
        /\ ~IsEntry(t)
        /\ recorded' = recorded \cup Accesses(t, thread[t].outcome)
        /\ books' = [books EXCEPT ![t] = ExitHandled(t, thread[t].outcome)]
  /\ Resume(t)
  /\ UNCHANGED <<seccomp_mode, cwd, done, lost>>

NewImage(book, dir) == [Forget(book) EXCEPT !.cached_cwd = dir]

(* handle_exec_event *)
HandleExecEvent(t) ==
  /\ thread[t].at = "exec"
  /\ books' = [books EXCEPT ![t] = NewImage(@, cwd[t])]
  /\ Resume(t)
  /\ UNCHANGED <<seccomp_mode, cwd, done, lost, recorded>>

(* A stop whose report is lost: check_stall resumes the thread unhandled. *)
LoseStop(t) ==
  /\ thread[t].at \in Losable /\ lost[t] < MaxLost
  /\ lost' = [lost EXCEPT ![t] = @ + 1]
  /\ Resume(t)
  /\ UNCHANGED <<seccomp_mode, cwd, done, books, recorded>>

Finished ==
  /\ \A t \in Threads : thread[t].at = "user" /\ Len(done[t]) = MaxCalls
  /\ UNCHANGED vars

Next ==
  \/ \E t \in Threads :
       \/ \E kind \in Kinds, dirfd \in BOOLEAN : Issue(t, kind, dirfd)
       \/ \E outcome \in Outcomes, dir \in Dirs : CarryOut(t, outcome, dir)
       \/ HandleSeccompStop(t)
       \/ HandleSyscallStop(t)
       \/ HandleExecEvent(t)
       \/ LoseStop(t)
  \/ Finished

Spec == Init /\ [][Next]_vars

-----------------------------------------------------------------------------
(* Properties *)

(* What is recorded happened: the thread made that syscall, and it failed  *)
(* if it is stored as failed and succeeded if not.  Lost exit stops and    *)
(* exits that look like entries never join the path of one syscall to the  *)
(* result of another.  An execve is the exception: it is recorded here     *)
(* only when it failed, and stored as if it had not (handle_syscall_stop). *)
RecordsAreTrue ==
  \A r \in recorded :
    /\ r.call \in DOMAIN done[r.thread]
    /\ LET call == done[r.thread][r.call]
       IN  /\ call.kind = r.kind
           /\ IF call.kind = "execve"
                THEN call.outcome = "error" /\ ~r.failed
                ELSE call.outcome = IF r.failed THEN "error" ELSE "ok"

(* A relative path is resolved against the directory the thread was in     *)
(* when it made the syscall, although the directory is cached, as long as  *)
(* no stop of the thread is lost and the syscall names no directory of its *)
(* own, which is not looked at (resolve_path_cached).                      *)
PathsResolve ==
  \A r \in recorded :
    LET call == done[r.thread][r.call]
    IN  lost[r.thread] = 0 /\ ~call.dirfd => r.dir = call.dir

(* The accesses of thread t that are over and were not recorded.  A        *)
(* successful execve is recorded by its event, one that the kernel does    *)
(* not know (ENOSYS) is not an access.                                     *)
Missed(t) ==
  {n \in DOMAIN done[t] :
     LET call == done[t][n]
     IN  /\ n < Len(done[t]) \/ thread[t].at \notin {"exec", "exit"}
         /\ call.outcome # "ENOSYS" /\ Records(call.kind, call.outcome)
         /\ \E arg \in Args(call.kind) :
              ~\E r \in recorded : r.thread = t /\ r.call = n /\ r.arg = arg}

(* "trust the registers and resync": a lost stop costs at most one access, *)
(* that of its own syscall or of the next one; with no stop lost every     *)
(* access is recorded (handle_syscall_stop).                               *)
LossesAreBounded == \A t \in Threads : Cardinality(Missed(t)) <= lost[t]
=============================================================================
