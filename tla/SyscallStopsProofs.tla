------------------------- MODULE SyscallStopsProofs -------------------------
(***************************************************************************)
(* Proofs about the decoding of syscall stops, for any number of threads,  *)
(* of syscalls and of lost stops, in classic and in seccomp mode, and for  *)
(* both orders of the seccomp and the entry stop.                          *)
(***************************************************************************)
EXTENDS SyscallStops, FiniteSetTheorems, TLAPS

Step(t) ==
  \/ \E kind \in Kinds, dirfd \in BOOLEAN : Issue(t, kind, dirfd)
  \/ \E outcome \in Outcomes, dir \in Dirs : CarryOut(t, outcome, dir)
  \/ HandleSeccompStop(t)
  \/ HandleSyscallStop(t)
  \/ HandleExecEvent(t)
  \/ LoseStop(t)

LEMMA NextIs == [Next]_vars => UNCHANGED vars \/ \E t \in Threads : Step(t)
BY DEF Next, Finished, Step

TypeInv ==
  /\ seccomp_mode \in BOOLEAN
  /\ thread \in [Threads -> Thread]
  /\ cwd \in [Threads -> Dirs]
  /\ done \in [Threads -> Seq(Call)]
  /\ lost \in [Threads -> Nat]
  /\ books \in [Threads -> Book]
  /\ recorded \subseteq Record

-----------------------------------------------------------------------------
(* The operators *)

LEMMA ResumedType ==
  ASSUME NEW th \in Thread, NEW with \in BOOLEAN
  PROVE  /\ Resumed(th, with) \in Thread
         /\ Resumed(th, with).stopAtExit = with
         /\ Resumed(th, with).kind = th.kind /\ Resumed(th, with).outcome = th.outcome
         /\ Resumed(th, with).at \in {"entry", "inside", "exit", "user"}
         /\ th.at = "seccomp" => Resumed(th, with).at =
                                   IF with /\ SeccompFirst THEN "entry" ELSE "inside"
         /\ th.at = "entry" => Resumed(th, with).at = "inside"
         /\ th.at = "exec" => Resumed(th, with).at = IF with THEN "exit" ELSE "user"
         /\ th.at \in {"exit", "user"} => Resumed(th, with).at = "user"
BY DEF Resumed, Thread

(* resume, by the mode *)
LEMMA ResumedByMode ==
  ASSUME seccomp_mode \in BOOLEAN, NEW th \in Thread
  PROVE  LET after == Resumed(th, ~seccomp_mode)
         IN  /\ after.stopAtExit = ~seccomp_mode
             /\ after.kind = th.kind /\ after.outcome = th.outcome
             /\ after.at \in {"entry", "inside", "exit", "user"}
             /\ th.at = "seccomp" /\ seccomp_mode => after.at = "inside"
             /\ th.at = "entry" => after.at = "inside"
             /\ th.at = "exec" => after.at = IF seccomp_mode THEN "user" ELSE "exit"
             /\ th.at \in {"exit", "user"} => after.at = "user"
<1>1. CASE seccomp_mode
  <2>1. Resumed(th, ~seccomp_mode) = Resumed(th, FALSE)
    BY <1>1 DEF Resumed
  <2>2. Resumed(th, FALSE).stopAtExit = FALSE
    BY ResumedType
  <2> QED BY <1>1, <2>1, <2>2, ResumedType
<1>2. CASE ~seccomp_mode
  <2>1. Resumed(th, ~seccomp_mode) = Resumed(th, TRUE)
    BY <1>2 DEF Resumed
  <2>2. Resumed(th, TRUE).stopAtExit = TRUE
    BY ResumedType
  <2> QED BY <1>2, <2>1, <2>2, ResumedType
<1> QED BY <1>1, <1>2

LEMMA DecodeType ==
  ASSUME NEW book \in Book, NEW call \in Nat, NEW kind \in Kinds
  PROVE  /\ Decode(book, call, kind) \in Book
         /\ Decode(book, call, kind).pending = call
         /\ Decode(book, call, kind).kind = kind
         /\ Decode(book, call, kind).exit_needed = (kind \notin {"plain", "fault"})
         /\ Decode(book, call, kind).sc_phase = book.sc_phase
         /\ Decode(book, call, kind).cached_cwd = book.cached_cwd
BY DEF Decode, Book

LEMMA ForgetType ==
  ASSUME NEW book \in Book
  PROVE  /\ Forget(book) \in Book
         /\ Forget(book).exit_needed = FALSE
         /\ Forget(book).kind = "plain"
         /\ Forget(book).sc_phase = book.sc_phase
         /\ Forget(book).cached_cwd = book.cached_cwd
BY DEF Forget, Book, NoCall, Kinds

LEMMA PhaseType ==
  ASSUME NEW book \in Book, NEW phase \in {"unknown", "entry_next", "exit_next"}
  PROVE  LET after == [book EXCEPT !.sc_phase = phase]
         IN  /\ after \in Book
             /\ after.sc_phase = phase
             /\ after.exit_needed = book.exit_needed /\ after.pending = book.pending
             /\ after.kind = book.kind /\ after.cached_cwd = book.cached_cwd
BY DEF Book

LEMMA NumberType ==
  ASSUME TypeInv, NEW t \in Threads
  PROVE  Number(t) \in Nat
BY DEF TypeInv, Number

(* What each step makes of the thread it is about. *)
LEMMA IssueIs ==
  ASSUME TypeInv, NEW t \in Threads, NEW kind \in Kinds, NEW dirfd \in BOOLEAN,
         Issue(t, kind, dirfd)
  PROVE  /\ thread[t].at = "user"
         /\ thread'[t].at = IF seccomp_mode THEN "seccomp" ELSE "entry"
         /\ thread'[t].outcome = "ENOSYS"
         /\ thread'[t].stopAtExit = thread[t].stopAtExit
         /\ thread' \in [Threads -> Thread]
         /\ \A u \in Threads \ {t} : thread'[u] = thread[u]
         /\ UNCHANGED <<seccomp_mode, cwd, done, lost, books, recorded>>
<1>1. thread[t] \in Thread
  BY DEF TypeInv
<1> DEFINE after == [thread[t] EXCEPT !.kind = kind, !.dirfd = dirfd, !.outcome = "ENOSYS",
                       !.at = IF seccomp_mode THEN "seccomp" ELSE "entry"]
<1>2. /\ after \in Thread /\ after.outcome = "ENOSYS"
      /\ after.at = IF seccomp_mode THEN "seccomp" ELSE "entry"
      /\ after.stopAtExit = thread[t].stopAtExit
  BY <1>1 DEF Thread, Outcomes
<1>3. thread' = [thread EXCEPT ![t] = after]
  BY DEF Issue, TypeInv
<1> HIDE DEF after
<1>4. thread' \in [Threads -> Thread] /\ thread'[t] = after
  BY <1>2, <1>3 DEF TypeInv
<1>5. /\ thread[t].at = "user"
      /\ \A u \in Threads \ {t} : thread'[u] = thread[u]
      /\ UNCHANGED <<seccomp_mode, cwd, done, lost, books, recorded>>
  BY <1>3 DEF Issue, TypeInv
<1> QED BY <1>2, <1>4, <1>5

(* The kernel's half of a step that the tracer takes. *)
LEMMA ResumeIs ==
  ASSUME TypeInv, NEW t \in Threads, NEW with \in BOOLEAN,
         thread' = [thread EXCEPT ![t] = Resumed(@, with)]
  PROVE  /\ thread' \in [Threads -> Thread]
         /\ thread'[t] = Resumed(thread[t], with)
         /\ \A u \in Threads \ {t} : thread'[u] = thread[u]
<1>1. Resumed(thread[t], with) \in Thread
  BY ResumedType DEF TypeInv
<1> QED BY <1>1 DEF TypeInv

(* And the books' half. *)
LEMMA BooksIs ==
  ASSUME TypeInv, NEW t \in Threads, NEW book \in Book,
         books' = [books EXCEPT ![t] = book]
  PROVE  /\ books' \in [Threads -> Book]
         /\ books'[t] = book
         /\ \A u \in Threads \ {t} : books'[u] = books[u]
BY DEF TypeInv

LEMMA CarryOutIs ==
  ASSUME TypeInv, NEW t \in Threads, NEW outcome \in Outcomes, NEW dir \in Dirs,
         CarryOut(t, outcome, dir)
  PROVE  LET kind == thread[t].kind
         IN  \E call \in Call :
               /\ thread[t].at = "inside" /\ CanHappen(kind, outcome)
               /\ \/ kind \in {"chdir", "fchdir"} /\ outcome = "ok"
                  \/ call.dirfd \/ dir = cwd[t]
               /\ call.kind = kind /\ call.outcome = outcome
               /\ call.dirfd \/ call.dir = IF kind = "fchdir" THEN dir ELSE cwd[t]
               /\ done' \in [Threads -> Seq(Call)] /\ done'[t] = Append(done[t], call)
               /\ cwd' \in [Threads -> Dirs]
               /\ cwd'[t] = IF kind \in {"chdir", "fchdir"} /\ outcome = "ok"
                             THEN dir ELSE cwd[t]
               /\ thread' \in [Threads -> Thread]
               /\ thread'[t].kind = kind /\ thread'[t].outcome = outcome
               /\ thread'[t].stopAtExit = thread[t].stopAtExit
               /\ thread'[t].at = IF kind = "execve" /\ outcome = "ok" THEN "exec"
                                  ELSE IF thread[t].stopAtExit THEN "exit" ELSE "user"
               /\ \A u \in Threads \ {t} :
                    /\ thread'[u] = thread[u] /\ cwd'[u] = cwd[u] /\ done'[u] = done[u]
               /\ UNCHANGED <<seccomp_mode, lost, books, recorded>>
<1> DEFINE kind == thread[t].kind
           dirfd == thread[t].dirfd
           there == IF kind \in {"chdir", "fchdir"} /\ outcome = "ok" THEN dir ELSE cwd[t]
           call == [kind |-> kind, dirfd |-> dirfd, outcome |-> outcome,
                    dir |-> IF kind = "fchdir" \/ dirfd THEN dir ELSE cwd[t]]
           after == [thread[t] EXCEPT
                       !.outcome = outcome,
                       !.at = IF kind = "execve" /\ outcome = "ok" THEN "exec"
                              ELSE IF thread[t].stopAtExit THEN "exit" ELSE "user"]
<1>1. /\ thread[t] \in Thread /\ kind \in Kinds /\ dirfd \in BOOLEAN
      /\ cwd[t] \in Dirs /\ there \in Dirs /\ done[t] \in Seq(Call)
  BY DEF TypeInv, Thread
<1>2. /\ call \in Call /\ call.kind = kind /\ call.outcome = outcome
      /\ call.dirfd = dirfd
      /\ dirfd \/ call.dir = IF kind = "fchdir" THEN dir ELSE cwd[t]
  BY <1>1 DEF Call
<1>3. /\ after \in Thread /\ after.kind = kind /\ after.outcome = outcome
      /\ after.stopAtExit = thread[t].stopAtExit
      /\ after.at = IF kind = "execve" /\ outcome = "ok" THEN "exec"
                    ELSE IF thread[t].stopAtExit THEN "exit" ELSE "user"
  BY <1>1 DEF Thread
<1>4. /\ thread[t].at = "inside" /\ CanHappen(kind, outcome)
      /\ (kind \in {"chdir", "fchdir"} /\ outcome = "ok") \/ dirfd \/ dir = cwd[t]
      /\ cwd' = [cwd EXCEPT ![t] = there]
      /\ done' = [done EXCEPT ![t] = Append(@, call)]
      /\ thread' = [thread EXCEPT ![t] = after]
      /\ UNCHANGED <<seccomp_mode, lost, books, recorded>>
  BY <1>1 DEF CarryOut, TypeInv
<1> HIDE DEF call, after, there
<1>5. Append(done[t], call) \in Seq(Call)
  BY <1>1, <1>2
<1>6. /\ done' \in [Threads -> Seq(Call)] /\ done'[t] = Append(done[t], call)
      /\ cwd' \in [Threads -> Dirs] /\ cwd'[t] = there
      /\ thread' \in [Threads -> Thread] /\ thread'[t] = after
      /\ \A u \in Threads \ {t} :
           thread'[u] = thread[u] /\ cwd'[u] = cwd[u] /\ done'[u] = done[u]
  BY <1>1, <1>3, <1>4, <1>5 DEF TypeInv
<1> QED BY <1>2, <1>3, <1>4, <1>6 DEF there

LEMMA HandleSeccompStopIs ==
  ASSUME TypeInv, NEW t \in Threads, HandleSeccompStop(t)
  PROVE  LET needed == thread[t].kind \notin {"plain", "fault"}
             after  == books'[t]
         IN  /\ thread[t].at = "seccomp"
             /\ books' \in [Threads -> Book]
             /\ thread' \in [Threads -> Thread]
             /\ after.cached_cwd = books[t].cached_cwd
             /\ after.exit_needed = needed
             /\ after.sc_phase = IF needed THEN "exit_next" ELSE "entry_next"
             /\ needed => after.pending = Number(t) /\ after.kind = thread[t].kind
             /\ thread'[t] = Resumed(thread[t], needed)
             /\ \A u \in Threads \ {t} : thread'[u] = thread[u] /\ books'[u] = books[u]
             /\ UNCHANGED <<seccomp_mode, cwd, done, lost, recorded>>
<1> DEFINE needed == thread[t].kind \notin {"plain", "fault"}
           decoded == Decode(books[t], Number(t), thread[t].kind)
           book == IF decoded.exit_needed
                     THEN [decoded EXCEPT !.sc_phase = "exit_next"]
                     ELSE [Forget(decoded) EXCEPT !.sc_phase = "entry_next"]
<1>1. /\ thread[t] \in Thread /\ thread[t].kind \in Kinds /\ books[t] \in Book
      /\ Number(t) \in Nat
  BY NumberType DEF TypeInv, Thread
<1>2. /\ decoded \in Book /\ decoded.pending = Number(t) /\ decoded.kind = thread[t].kind
      /\ decoded.exit_needed = needed /\ decoded.cached_cwd = books[t].cached_cwd
  BY <1>1, DecodeType
<1>3. /\ books' = [books EXCEPT ![t] = book]
      /\ thread' = [thread EXCEPT ![t] = Resumed(@, needed)]
      /\ thread[t].at = "seccomp"
      /\ UNCHANGED <<seccomp_mode, cwd, done, lost, recorded>>
  BY <1>2 DEF HandleSeccompStop
<1> HIDE DEF decoded
<1>4. /\ book \in Book /\ book.cached_cwd = books[t].cached_cwd
      /\ book.exit_needed = needed
      /\ book.sc_phase = IF needed THEN "exit_next" ELSE "entry_next"
      /\ needed => book.pending = Number(t) /\ book.kind = thread[t].kind
  <2>1. CASE needed
    <3>1. book = [decoded EXCEPT !.sc_phase = "exit_next"]
      BY <1>2, <2>1
    <3> HIDE DEF book
    <3>2. /\ book \in Book /\ book.sc_phase = "exit_next"
          /\ book.exit_needed = decoded.exit_needed /\ book.pending = decoded.pending
          /\ book.kind = decoded.kind /\ book.cached_cwd = decoded.cached_cwd
      BY <1>2, <3>1, PhaseType
    <3> QED BY <1>2, <2>1, <3>2
  <2>2. CASE ~needed
    <3> DEFINE forgotten == Forget(decoded)
    <3>1. /\ forgotten \in Book /\ forgotten.exit_needed = FALSE
          /\ forgotten.cached_cwd = decoded.cached_cwd
      BY <1>2, ForgetType
    <3> HIDE DEF forgotten
    <3>2. book = [forgotten EXCEPT !.sc_phase = "entry_next"]
      BY <1>2, <2>2 DEF forgotten
    <3> HIDE DEF book
    <3>3. /\ book \in Book /\ book.sc_phase = "entry_next"
          /\ book.exit_needed = forgotten.exit_needed
          /\ book.cached_cwd = forgotten.cached_cwd
      BY <3>1, <3>2, PhaseType
    <3> QED BY <1>2, <2>2, <3>1, <3>3
  <2> QED BY <2>1, <2>2
<1>5. needed \in BOOLEAN
  OBVIOUS
<1> HIDE DEF book, needed
<1>6. /\ books' \in [Threads -> Book] /\ books'[t] = book
      /\ \A u \in Threads \ {t} : books'[u] = books[u]
  BY <1>3, <1>4, BooksIs
<1>7. /\ thread' \in [Threads -> Thread] /\ thread'[t] = Resumed(thread[t], needed)
      /\ \A u \in Threads \ {t} : thread'[u] = thread[u]
  BY <1>3, <1>5, ResumeIs
<1> QED BY <1>3, <1>4, <1>6, <1>7 DEF needed

(* An entry or exit stop is one of three things to the handler. *)
Misjudged(t) == books[t].sc_phase = "exit_next" /\ ~books[t].exit_needed

LEMMA HandleSyscallStopIs ==
  ASSUME TypeInv, NEW t \in Threads, HandleSyscallStop(t)
  PROVE  LET after == books'[t]
         IN  /\ thread[t].at \in {"entry", "exit"}
             /\ books' \in [Threads -> Book]
             /\ thread' \in [Threads -> Thread]
             /\ thread'[t] = Resumed(thread[t], ~seccomp_mode)
             /\ \A u \in Threads \ {t} : thread'[u] = thread[u] /\ books'[u] = books[u]
             /\ UNCHANGED <<seccomp_mode, cwd, done, lost>>
             /\ \/ /\ Misjudged(t)
                   /\ after.sc_phase = "entry_next" /\ ~after.exit_needed
                   /\ after.cached_cwd = books[t].cached_cwd
                   /\ UNCHANGED recorded
                \/ /\ ~Misjudged(t) /\ IsEntry(t)
                   /\ after.sc_phase = "exit_next"
                   /\ after.exit_needed = (thread[t].kind \notin {"plain", "fault"})
                   /\ after.pending = Number(t) /\ after.kind = thread[t].kind
                   /\ after.cached_cwd = books[t].cached_cwd
                   /\ UNCHANGED recorded
                \/ /\ ~Misjudged(t) /\ ~IsEntry(t)
                   /\ after.sc_phase = "entry_next" /\ ~after.exit_needed
                   /\ after.cached_cwd =
                        IF /\ books[t].kind \in {"chdir", "fchdir"}
                           /\ thread[t].outcome = "ok"
                          THEN cwd[t] ELSE books[t].cached_cwd
                   /\ recorded' = recorded \cup Accesses(t, thread[t].outcome)
<1>1. /\ thread[t] \in Thread /\ thread[t].kind \in Kinds /\ books[t] \in Book
      /\ Number(t) \in Nat /\ cwd[t] \in Dirs
  BY NumberType DEF TypeInv, Thread
<1> DEFINE resumed == /\ thread' \in [Threads -> Thread]
                      /\ thread'[t] = Resumed(thread[t], ~seccomp_mode)
                      /\ \A u \in Threads \ {t} : thread'[u] = thread[u]
<1>2. /\ resumed /\ thread[t].at \in {"entry", "exit"}
      /\ UNCHANGED <<seccomp_mode, cwd, done, lost>>
  <2>1. (~seccomp_mode) \in BOOLEAN
    BY DEF TypeInv
  <2> QED BY <2>1, ResumeIs DEF HandleSyscallStop, Resume
<1> HIDE DEF resumed
<1>3. CASE Misjudged(t)
  <2> DEFINE book == [Forget(books[t]) EXCEPT !.sc_phase = "entry_next"]
  <2>1. books' = [books EXCEPT ![t] = book] /\ UNCHANGED recorded
    BY <1>3 DEF Misjudged, HandleSyscallStop
  <2>2. /\ book \in Book /\ book.sc_phase = "entry_next" /\ ~book.exit_needed
        /\ book.cached_cwd = books[t].cached_cwd
    <3> DEFINE forgotten == Forget(books[t])
    <3>1. /\ forgotten \in Book /\ forgotten.exit_needed = FALSE
          /\ forgotten.cached_cwd = books[t].cached_cwd
      BY <1>1, ForgetType
    <3> HIDE DEF forgotten
    <3>2. /\ book \in Book /\ book.sc_phase = "entry_next"
          /\ book.exit_needed = forgotten.exit_needed
          /\ book.cached_cwd = forgotten.cached_cwd
      BY <3>1, PhaseType DEF forgotten
    <3> QED BY <3>1, <3>2
  <2> HIDE DEF book
  <2> QED BY <1>2, <1>3, <2>1, <2>2, BooksIs DEF resumed
<1>4. CASE ~Misjudged(t) /\ IsEntry(t)
  <2> DEFINE decoded == Decode(books[t], Number(t), thread[t].kind)
             book == [decoded EXCEPT !.sc_phase = "exit_next"]
  <2>1. books' = [books EXCEPT ![t] = book] /\ UNCHANGED recorded
    BY <1>4 DEF Misjudged, HandleSyscallStop
  <2>2. /\ decoded \in Book /\ decoded.cached_cwd = books[t].cached_cwd
        /\ decoded.exit_needed = (thread[t].kind \notin {"plain", "fault"})
        /\ decoded.pending = Number(t) /\ decoded.kind = thread[t].kind
    BY <1>1, DecodeType
  <2> HIDE DEF decoded
  <2>3. /\ book \in Book /\ book.sc_phase = "exit_next"
        /\ book.cached_cwd = decoded.cached_cwd
        /\ book.exit_needed = decoded.exit_needed
        /\ book.pending = decoded.pending /\ book.kind = decoded.kind
    BY <2>2, PhaseType
  <2> HIDE DEF book
  <2> QED BY <1>2, <1>4, <2>1, <2>2, <2>3, BooksIs DEF resumed
<1>5. CASE ~Misjudged(t) /\ ~IsEntry(t)
  <2> DEFINE book == ExitHandled(t, thread[t].outcome)
  <2>1. /\ books' = [books EXCEPT ![t] = book]
        /\ recorded' = recorded \cup Accesses(t, thread[t].outcome)
    BY <1>5 DEF Misjudged, HandleSyscallStop
  <2>2. /\ book \in Book /\ book.sc_phase = "entry_next" /\ ~book.exit_needed
        /\ book.cached_cwd = IF /\ books[t].kind \in {"chdir", "fchdir"}
                                /\ thread[t].outcome = "ok"
                               THEN cwd[t] ELSE books[t].cached_cwd
    <3> DEFINE forgotten == Forget(books[t])
    <3>1. /\ forgotten \in Book /\ ~forgotten.exit_needed
          /\ forgotten.cached_cwd = books[t].cached_cwd
      BY <1>1, ForgetType
    <3> HIDE DEF forgotten
    <3> QED BY <1>1, <3>1 DEF ExitHandled, forgotten, Book
  <2> HIDE DEF book
  <2> QED BY <1>2, <1>5, <2>1, <2>2, BooksIs DEF resumed
<1> QED BY <1>3, <1>4, <1>5

LEMMA HandleExecEventIs ==
  ASSUME TypeInv, NEW t \in Threads, HandleExecEvent(t)
  PROVE  LET after == books'[t]
         IN  /\ thread[t].at = "exec"
             /\ books' \in [Threads -> Book]
             /\ thread' \in [Threads -> Thread]
             /\ ~after.exit_needed /\ after.cached_cwd = cwd[t]
             /\ after.sc_phase = books[t].sc_phase
             /\ thread'[t] = Resumed(thread[t], ~seccomp_mode)
             /\ \A u \in Threads \ {t} : thread'[u] = thread[u] /\ books'[u] = books[u]
             /\ UNCHANGED <<seccomp_mode, cwd, done, lost, recorded>>
<1> DEFINE forgotten == Forget(books[t])
           book == NewImage(books[t], cwd[t])
<1>1. /\ forgotten \in Book /\ ~forgotten.exit_needed /\ cwd[t] \in Dirs
      /\ forgotten.sc_phase = books[t].sc_phase
  BY ForgetType DEF TypeInv
<1> HIDE DEF forgotten
<1>2. /\ book \in Book /\ ~book.exit_needed /\ book.cached_cwd = cwd[t]
      /\ book.sc_phase = books[t].sc_phase
  BY <1>1 DEF NewImage, forgotten, Book
<1>3. /\ books' = [books EXCEPT ![t] = book] /\ thread[t].at = "exec"
      /\ thread' = [thread EXCEPT ![t] = Resumed(@, ~seccomp_mode)]
      /\ UNCHANGED <<seccomp_mode, cwd, done, lost, recorded>>
  BY DEF HandleExecEvent, Resume
<1>4. (~seccomp_mode) \in BOOLEAN
  BY DEF TypeInv
<1> HIDE DEF book
<1> QED BY <1>2, <1>3, <1>4, BooksIs, ResumeIs

LEMMA LoseStopIs ==
  ASSUME TypeInv, NEW t \in Threads, LoseStop(t)
  PROVE  /\ thread[t].at \in Losable
         /\ thread' \in [Threads -> Thread] /\ lost' \in [Threads -> Nat]
         /\ thread'[t] = Resumed(thread[t], ~seccomp_mode)
         /\ lost'[t] = lost[t] + 1
         /\ \A u \in Threads \ {t} : thread'[u] = thread[u] /\ lost'[u] = lost[u]
         /\ UNCHANGED <<seccomp_mode, cwd, done, books, recorded>>
<1>1. (~seccomp_mode) \in BOOLEAN
  BY DEF TypeInv
<1>2. /\ thread' = [thread EXCEPT ![t] = Resumed(@, ~seccomp_mode)]
      /\ lost' = [lost EXCEPT ![t] = @ + 1] /\ thread[t].at \in Losable
      /\ UNCHANGED <<seccomp_mode, cwd, done, books, recorded>>
  BY DEF LoseStop, Resume
<1>3. lost' \in [Threads -> Nat] /\ lost'[t] = lost[t] + 1
      /\ \A u \in Threads \ {t} : lost'[u] = lost[u]
  BY <1>2 DEF TypeInv
<1> QED BY <1>1, <1>2, <1>3, ResumeIs

LEMMA AccessesType ==
  ASSUME TypeInv, NEW t \in Threads, NEW outcome \in Outcomes
  PROVE  Accesses(t, outcome) \subseteq Record
<1>1. books[t] \in Book /\ cwd[t] \in Dirs
  BY DEF TypeInv
<1>2. ResolvedDir(t) \in Dirs /\ Args(books[t].kind) \subseteq 1 .. 2
  BY <1>1 DEF ResolvedDir, Args, Book
<1>3. StoredAsFailed(books[t].kind, outcome) \in BOOLEAN
  BY DEF StoredAsFailed
<1> QED BY <1>1, <1>2, <1>3 DEF Accesses, Record, Book

LEMMA StepType ==
  ASSUME TypeInv, NEW t \in Threads, Step(t)
  PROVE  TypeInv'
<1>1. ASSUME NEW kind \in Kinds, NEW dirfd \in BOOLEAN,
         Issue(t, kind, dirfd) PROVE TypeInv'
  BY <1>1, IssueIs DEF TypeInv
<1>2. ASSUME NEW outcome \in Outcomes, NEW dir \in Dirs, CarryOut(t, outcome, dir)
      PROVE  TypeInv'
  BY <1>2, CarryOutIs DEF TypeInv
<1>3. CASE HandleSeccompStop(t)
  BY <1>3, HandleSeccompStopIs DEF TypeInv
<1>4. CASE HandleSyscallStop(t)
  <2>1. thread[t].outcome \in Outcomes
    BY DEF TypeInv, Thread
  <2>2. recorded' \subseteq Record
    BY <1>4, <2>1, HandleSyscallStopIs, AccessesType DEF TypeInv
  <2> QED BY <1>4, <2>2, HandleSyscallStopIs DEF TypeInv
<1>5. CASE HandleExecEvent(t)
  BY <1>5, HandleExecEventIs DEF TypeInv
<1>6. CASE LoseStop(t)
  BY <1>6, LoseStopIs DEF TypeInv
<1> QED BY <1>1, <1>2, <1>3, <1>4, <1>5, <1>6 DEF Step
(* A step is about one thread, and what a thread has done stays done. *)
LEMMA StepIsLocal ==
  ASSUME TypeInv, NEW t \in Threads, Step(t)
  PROVE  /\ seccomp_mode' = seccomp_mode
         /\ \A u \in Threads \ {t} :
              /\ thread'[u] = thread[u] /\ books'[u] = books[u]
              /\ done'[u] = done[u] /\ cwd'[u] = cwd[u] /\ lost'[u] = lost[u]
         /\ \A u \in Threads :
              /\ lost[u] <= lost'[u]
              /\ DOMAIN done[u] \subseteq DOMAIN done'[u]
              /\ \A n \in DOMAIN done[u] : done'[u][n] = done[u][n]
<1>0. \A u \in Threads : lost[u] <= lost[u] /\ done[u] \in Seq(Call) /\ lost[u] \in Nat
  BY DEF TypeInv
<1>1. ASSUME NEW kind \in Kinds, NEW dirfd \in BOOLEAN, Issue(t, kind, dirfd)
      PROVE  /\ seccomp_mode' = seccomp_mode /\ UNCHANGED <<books, done, cwd, lost>>
             /\ \A u \in Threads \ {t} : thread'[u] = thread[u]
  BY <1>1, IssueIs
<1>2. ASSUME NEW outcome \in Outcomes, NEW dir \in Dirs, CarryOut(t, outcome, dir)
      PROVE  /\ seccomp_mode' = seccomp_mode /\ UNCHANGED <<books, lost>>
             /\ \A u \in Threads \ {t} :
                  thread'[u] = thread[u] /\ cwd'[u] = cwd[u] /\ done'[u] = done[u]
             /\ DOMAIN done[t] \subseteq DOMAIN done'[t]
             /\ \A n \in DOMAIN done[t] : done'[t][n] = done[t][n]
  <2>1. PICK call \in Call : done'[t] = Append(done[t], call)
    BY <1>2, CarryOutIs
  <2>2. /\ DOMAIN done[t] \subseteq DOMAIN done'[t]
        /\ \A n \in DOMAIN done[t] : done'[t][n] = done[t][n]
    BY <1>0, <2>1
  <2> QED BY <1>2, <2>2, CarryOutIs
<1>3. CASE HandleSeccompStop(t)
  BY <1>0, <1>3, HandleSeccompStopIs
<1>4. CASE HandleSyscallStop(t)
  BY <1>0, <1>4, HandleSyscallStopIs
<1>5. CASE HandleExecEvent(t)
  BY <1>0, <1>5, HandleExecEventIs
<1>6. ASSUME LoseStop(t)
      PROVE  /\ seccomp_mode' = seccomp_mode /\ UNCHANGED <<books, done, cwd>>
             /\ lost[t] <= lost'[t]
             /\ \A u \in Threads \ {t} : thread'[u] = thread[u] /\ lost'[u] = lost[u]
  <2>1. lost'[t] = lost[t] + 1
    BY <1>6, LoseStopIs
  <2>2. lost[t] <= lost'[t]
    BY <1>0, <2>1
  <2> QED BY <1>6, <2>2, LoseStopIs
<1> QED BY <1>0, <1>1, <1>2, <1>3, <1>4, <1>5, <1>6 DEF Step

-----------------------------------------------------------------------------
(* The kernel's side: where a thread goes from its stops.                  *)

(* Whatever stops are lost, and in either mode. *)
KernelInv(t) ==
  /\ thread[t].at \in {"entry", "seccomp"} => thread[t].outcome = "ENOSYS"
  /\ thread[t].at = "seccomp" => seccomp_mode
  /\ seccomp_mode /\ thread[t].at \in {"user", "seccomp"} => ~thread[t].stopAtExit
  /\ thread[t].at \in {"exec", "exit"} =>
       /\ Len(done[t]) > 0
       /\ done[t][Len(done[t])].kind = thread[t].kind
       /\ done[t][Len(done[t])].outcome = thread[t].outcome

(* A syscall the tracer wants the exit stop of. *)
Wanted(t) == thread[t].kind \notin {"plain", "fault"}

LEMMA SeccompStopGoes ==
  ASSUME TypeInv, NEW t \in Threads, HandleSeccompStop(t)
  PROVE  /\ thread[t].at = "seccomp"
         /\ thread'[t].at = IF Wanted(t) /\ SeccompFirst THEN "entry" ELSE "inside"
         /\ thread'[t].stopAtExit = Wanted(t)
         /\ thread'[t].kind = thread[t].kind /\ thread'[t].outcome = thread[t].outcome
         /\ UNCHANGED <<seccomp_mode, cwd, done, lost, recorded>>
<1> DEFINE wanted == Wanted(t)
<1>1. /\ wanted \in BOOLEAN /\ thread'[t] = Resumed(thread[t], wanted)
      /\ thread[t].at = "seccomp" /\ UNCHANGED <<seccomp_mode, cwd, done, lost, recorded>>
  BY HandleSeccompStopIs DEF Wanted
<1>2. thread[t] \in Thread
  BY DEF TypeInv
<1> HIDE DEF wanted
<1>3. /\ thread'[t].at = IF wanted /\ SeccompFirst THEN "entry" ELSE "inside"
      /\ thread'[t].stopAtExit = wanted
      /\ thread'[t].kind = thread[t].kind /\ thread'[t].outcome = thread[t].outcome
  BY <1>1, <1>2, ResumedType
<1> QED BY <1>1, <1>3 DEF wanted

LEMMA SyscallStopGoes ==
  ASSUME TypeInv, NEW t \in Threads, HandleSyscallStop(t)
  PROVE  /\ thread[t].at \in {"entry", "exit"}
         /\ thread'[t].at = IF thread[t].at = "entry" THEN "inside" ELSE "user"
         /\ thread'[t].stopAtExit = ~seccomp_mode
         /\ thread'[t].kind = thread[t].kind /\ thread'[t].outcome = thread[t].outcome
         /\ UNCHANGED <<seccomp_mode, cwd, done, lost>>
<1>1. /\ thread'[t] = Resumed(thread[t], ~seccomp_mode)
      /\ thread[t].at \in {"entry", "exit"} /\ UNCHANGED <<seccomp_mode, cwd, done, lost>>
  BY HandleSyscallStopIs
<1>2. seccomp_mode \in BOOLEAN /\ thread[t] \in Thread
  BY DEF TypeInv
<1> QED BY <1>1, <1>2, ResumedByMode

LEMMA ExecEventGoes ==
  ASSUME TypeInv, NEW t \in Threads, HandleExecEvent(t)
  PROVE  /\ thread[t].at = "exec"
         /\ thread'[t].at = IF seccomp_mode THEN "user" ELSE "exit"
         /\ thread'[t].stopAtExit = ~seccomp_mode
         /\ thread'[t].kind = thread[t].kind /\ thread'[t].outcome = thread[t].outcome
         /\ UNCHANGED <<seccomp_mode, cwd, done, lost, recorded>>
<1>1. /\ thread'[t] = Resumed(thread[t], ~seccomp_mode)
      /\ thread[t].at = "exec" /\ UNCHANGED <<seccomp_mode, cwd, done, lost, recorded>>
  BY HandleExecEventIs
<1>2. seccomp_mode \in BOOLEAN /\ thread[t] \in Thread
  BY DEF TypeInv
<1> QED BY <1>1, <1>2, ResumedByMode

LEMMA LoseStopGoes ==
  ASSUME TypeInv, NEW t \in Threads, KernelInv(t), LoseStop(t)
  PROVE  /\ thread[t].at \in Losable /\ thread[t].at \in {"entry", "seccomp", "exit"}
         /\ thread'[t].at = IF thread[t].at = "exit" THEN "user" ELSE "inside"
         /\ thread'[t].stopAtExit = ~seccomp_mode
         /\ thread'[t].kind = thread[t].kind
         /\ UNCHANGED <<seccomp_mode, cwd, done, books, recorded>>
<1>1. /\ thread'[t] = Resumed(thread[t], ~seccomp_mode)
      /\ thread[t].at \in Losable /\ UNCHANGED <<seccomp_mode, cwd, done, books, recorded>>
  BY LoseStopIs
<1>2. seccomp_mode \in BOOLEAN /\ thread[t] \in Thread
  BY DEF TypeInv
<1>3. /\ thread[t].at \in {"entry", "seccomp", "exit"}
      /\ thread[t].at = "seccomp" => seccomp_mode
  BY <1>1, SyscallAssumption DEF KernelInv
<1> QED BY <1>1, <1>2, <1>3, ResumedByMode

LEMMA KernelStep ==
  ASSUME TypeInv, NEW t \in Threads, Step(t), \A u \in Threads : KernelInv(u)
  PROVE  \A u \in Threads : KernelInv(u)'
<1>0. done[t] \in Seq(Call) /\ seccomp_mode \in BOOLEAN /\ KernelInv(t)
  BY DEF TypeInv
<1>1. KernelInv(t)'
  <2>1. ASSUME NEW kind \in Kinds, NEW dirfd \in BOOLEAN, Issue(t, kind, dirfd)
        PROVE  KernelInv(t)'
    BY <1>0, <2>1, IssueIs DEF KernelInv
  <2>2. ASSUME NEW outcome \in Outcomes, NEW dir \in Dirs, CarryOut(t, outcome, dir)
        PROVE  KernelInv(t)'
    <3>1. PICK call \in Call :
            /\ thread[t].at = "inside"
            /\ call.kind = thread[t].kind /\ call.outcome = outcome
            /\ done'[t] = Append(done[t], call)
            /\ thread'[t].kind = thread[t].kind /\ thread'[t].outcome = outcome
            /\ thread'[t].stopAtExit = thread[t].stopAtExit
            /\ thread'[t].at = IF thread[t].kind = "execve" /\ outcome = "ok" THEN "exec"
                               ELSE IF thread[t].stopAtExit THEN "exit" ELSE "user"
            /\ seccomp_mode' = seccomp_mode
      BY <2>2, CarryOutIs
    <3>2. Len(done'[t]) > 0 /\ done'[t][Len(done'[t])] = call
      BY <1>0, <3>1
    <3> QED BY <3>1, <3>2 DEF KernelInv
  <2>3. CASE HandleSeccompStop(t)
    BY <1>0, <2>3, SeccompStopGoes DEF KernelInv
  <2>4. CASE HandleSyscallStop(t)
    BY <1>0, <2>4, SyscallStopGoes DEF KernelInv
  <2>5. CASE HandleExecEvent(t)
    BY <1>0, <2>5, ExecEventGoes DEF KernelInv
  <2>6. CASE LoseStop(t)
    BY <1>0, <2>6, LoseStopGoes DEF KernelInv
  <2> QED BY <2>1, <2>2, <2>3, <2>4, <2>5, <2>6 DEF Step
<1>2. ASSUME NEW u \in Threads \ {t} PROVE KernelInv(u)'
  <2>1. KernelInv(u)
    OBVIOUS
  <2> QED BY <2>1, StepIsLocal DEF KernelInv
<1> QED BY <1>1, <1>2

-----------------------------------------------------------------------------
(* Records are true, unless an entry stop is lost: the exit stop that      *)
(* follows would be judged by what the syscall before it left in the       *)
(* books.                                                                  *)

StopsAtExit(t) ==
  \/ thread[t].at = "exit"
  \/ thread[t].at = "inside" /\ (~seccomp_mode \/ thread[t].stopAtExit)

(* What the books expect of the next exit is about the call under way. *)
Decoded(t) ==
  StopsAtExit(t) /\ books[t].exit_needed =>
    books[t].pending = Number(t) /\ books[t].kind = thread[t].kind

LEMMA DecodedStep ==
  ASSUME TypeInv, "entry" \notin Losable, NEW t \in Threads, Step(t),
         \A u \in Threads : KernelInv(u) /\ Decoded(u)
  PROVE  \A u \in Threads : Decoded(u)'
<1>0. done[t] \in Seq(Call) /\ seccomp_mode \in BOOLEAN /\ KernelInv(t) /\ Decoded(t)
  BY DEF TypeInv
<1>1. Decoded(t)'
  <2>1. ASSUME NEW kind \in Kinds, NEW dirfd \in BOOLEAN, Issue(t, kind, dirfd)
        PROVE  Decoded(t)'
    BY <1>0, <2>1, IssueIs DEF Decoded, StopsAtExit
  <2>2. ASSUME NEW outcome \in Outcomes, NEW dir \in Dirs, CarryOut(t, outcome, dir)
        PROVE  Decoded(t)'
    <3>1. PICK call \in Call :
            /\ thread[t].at = "inside"
            /\ done'[t] = Append(done[t], call)
            /\ thread'[t].kind = thread[t].kind
            /\ thread'[t].at = IF thread[t].kind = "execve" /\ outcome = "ok" THEN "exec"
                               ELSE IF thread[t].stopAtExit THEN "exit" ELSE "user"
            /\ UNCHANGED <<seccomp_mode, books>>
      BY <2>2, CarryOutIs
    <3>2. Len(done'[t]) = Len(done[t]) + 1
      BY <1>0, <3>1
    <3> QED BY <1>0, <3>1, <3>2 DEF Decoded, StopsAtExit, Number
  <2>3. CASE HandleSeccompStop(t)
    <3>1. /\ books'[t].exit_needed = Wanted(t)
          /\ Wanted(t) => books'[t].pending = Number(t) /\ books'[t].kind = thread[t].kind
      BY <2>3, HandleSeccompStopIs DEF Wanted
    <3> QED BY <1>0, <2>3, <3>1, SeccompStopGoes DEF Decoded, StopsAtExit, Number
  <2>4. CASE HandleSyscallStop(t)
    <3>1. thread[t].at = "entry" =>
            \/ ~books'[t].exit_needed
            \/ books'[t].pending = Number(t) /\ books'[t].kind = thread[t].kind
      BY <2>4, HandleSyscallStopIs
    <3> QED BY <1>0, <2>4, <3>1, SyscallStopGoes DEF Decoded, StopsAtExit, Number
  <2>5. CASE HandleExecEvent(t)
    <3>1. ~books'[t].exit_needed
      BY <2>5, HandleExecEventIs
    <3> QED BY <3>1 DEF Decoded
  <2>6. CASE LoseStop(t)
    BY <1>0, <2>6, LoseStopGoes DEF Decoded, StopsAtExit, KernelInv
  <2> QED BY <2>1, <2>2, <2>3, <2>4, <2>5, <2>6 DEF Step
<1>2. ASSUME NEW u \in Threads \ {t} PROVE Decoded(u)'
  <2>1. Decoded(u)
    OBVIOUS
  <2> QED BY <2>1, StepIsLocal DEF Decoded, StopsAtExit, Number
<1> QED BY <1>1, <1>2

(* What an exit stop adds to the accesses. *)
LEMMA RecordsAdded ==
  ASSUME TypeInv, NEW t \in Threads, KernelInv(t), Step(t), recorded' # recorded
  PROVE  /\ thread[t].at = "exit" /\ books[t].exit_needed
         /\ ~Misjudged(t) /\ ~IsEntry(t)
         /\ recorded' = recorded \cup Accesses(t, thread[t].outcome)
         /\ done' = done /\ lost' = lost
<1>1. HandleSyscallStop(t)
  BY IssueIs, CarryOutIs, HandleSeccompStopIs, HandleExecEventIs, LoseStopIs DEF Step
<1>2. recorded' = recorded \cup Accesses(t, thread[t].outcome)
      /\ ~Misjudged(t) /\ ~IsEntry(t)
  BY <1>1, HandleSyscallStopIs
<1>3. books[t].exit_needed
  BY <1>2 DEF Accesses
<1>4. thread[t].at = "exit"
  BY <1>1, <1>2, HandleSyscallStopIs DEF KernelInv, IsEntry
<1> QED BY <1>1, <1>2, <1>3, <1>4, HandleSyscallStopIs

(* What became of the syscall of a record. *)
True(r, call) ==
  /\ call.kind = r.kind
  /\ IF call.kind = "execve"
       THEN call.outcome = "error" /\ ~r.failed
       ELSE call.outcome = IF r.failed THEN "error" ELSE "ok"

LEMMA RecordsStep ==
  ASSUME TypeInv, NEW t \in Threads, Step(t), KernelInv(t), Decoded(t),
         RecordsAreTrue
  PROVE  RecordsAreTrue'
<1>1. \A r \in recorded : r.thread \in Threads
  BY DEF TypeInv, Record
<1>2. ASSUME NEW r \in recorded
      PROVE  /\ r.call \in DOMAIN done'[r.thread]
             /\ True(r, done'[r.thread][r.call])
  <2>1. /\ r.call \in DOMAIN done[r.thread]
        /\ True(r, done[r.thread][r.call])
    BY DEF RecordsAreTrue, True
  <2>2. /\ r.call \in DOMAIN done'[r.thread]
        /\ done'[r.thread][r.call] = done[r.thread][r.call]
    BY <1>1, <2>1, StepIsLocal
  <2> QED BY <2>1, <2>2
<1>3. CASE recorded' = recorded
  BY <1>2, <1>3 DEF RecordsAreTrue, True
<1>4. CASE recorded' # recorded
  <2>1. /\ thread[t].at = "exit" /\ books[t].exit_needed /\ ~IsEntry(t)
        /\ recorded' = recorded \cup Accesses(t, thread[t].outcome)
        /\ done' = done
    BY <1>4, RecordsAdded
  <2>2. /\ books[t].pending = Len(done[t]) /\ books[t].kind = thread[t].kind
        /\ Len(done[t]) \in DOMAIN done[t]
        /\ done[t][Len(done[t])].kind = thread[t].kind
        /\ done[t][Len(done[t])].outcome = thread[t].outcome
    <3>1. done[t] \in Seq(Call)
      BY DEF TypeInv
    <3> QED BY <2>1, <3>1 DEF KernelInv, StopsAtExit, Decoded, Number
  <2>3. ASSUME NEW r \in Accesses(t, thread[t].outcome)
        PROVE  /\ r.thread = t /\ r.call = books[t].pending
               /\ r.kind = books[t].kind /\ Records(books[t].kind, thread[t].outcome)
               /\ r.failed = StoredAsFailed(books[t].kind, thread[t].outcome)
    BY DEF Accesses
  <2>4. thread[t].outcome \in {"ok", "error"}
    BY <2>1 DEF TypeInv, Thread, Outcomes, IsEntry
  <2>5. ASSUME NEW r \in Accesses(t, thread[t].outcome)
        PROVE  True(r, done[t][Len(done[t])])
    BY <2>2, <2>3, <2>4 DEF True, Records, StoredAsFailed
  <2>6. ASSUME NEW r \in recorded'
        PROVE  r.call \in DOMAIN done'[r.thread] /\ True(r, done'[r.thread][r.call])
    BY <1>2, <2>1, <2>2, <2>3, <2>5
  <2> QED BY <2>6 DEF RecordsAreTrue, True
<1> QED BY <1>3, <1>4

LEMMA InitStops == Init => TypeInv /\ \A t \in Threads : KernelInv(t) /\ Decoded(t)
<1> SUFFICES ASSUME Init PROVE TypeInv /\ \A t \in Threads : KernelInv(t) /\ Decoded(t)
  OBVIOUS
<1>1. TypeInv
  BY DEF Init, TypeInv, Thread, Book, Kinds, Outcomes, NoCall
<1>2. \A t \in Threads : KernelInv(t) /\ Decoded(t)
  BY DEF Init, KernelInv, StopsAtExit, Decoded
<1> QED BY <1>1, <1>2

Kernel == TypeInv /\ \A t \in Threads : KernelInv(t)

LEMMA SpecKernel == Spec => []Kernel
<1>1. Kernel /\ [Next]_vars => Kernel'
  <2> SUFFICES ASSUME Kernel, [Next]_vars PROVE Kernel'
    OBVIOUS
  <2>1. CASE UNCHANGED vars
    BY <2>1 DEF Kernel, TypeInv, KernelInv, vars
  <2>2. ASSUME NEW t \in Threads, Step(t) PROVE Kernel'
    BY <2>2, StepType, KernelStep DEF Kernel
  <2> QED BY <2>1, <2>2, NextIs
<1>2. Init => Kernel
  BY InitStops DEF Kernel
<1> QED BY <1>1, <1>2, PTL DEF Spec

(* As long as no entry stop is lost, what is recorded happened: the path   *)
(* of one syscall is never joined to the result of another, whatever other *)
(* stops are lost, whatever fails with ENOSYS, and in either mode.  A      *)
(* failed syscall is stored as one, except an execve, whose accesses here  *)
(* are the failed ones (handle_syscall_stop, handle_seccomp_stop).         *)
THEOREM RecordsHappened ==
  ASSUME "entry" \notin Losable
  PROVE  Spec => []RecordsAreTrue
<1> DEFINE I == RecordsAreTrue /\ \A t \in Threads : Decoded(t)
<1>1. Init => I
  BY InitStops DEF Init, RecordsAreTrue
<1>2. Kernel /\ I /\ [Next]_vars => I'
  <2> SUFFICES ASSUME Kernel, I, [Next]_vars PROVE I'
    OBVIOUS
  <2>1. CASE UNCHANGED vars
    BY <2>1 DEF vars, RecordsAreTrue, StopsAtExit, Decoded, Number
  <2>2. ASSUME NEW t \in Threads, Step(t) PROVE I'
    BY <2>2, DecodedStep, RecordsStep DEF Kernel
  <2> QED BY <2>1, <2>2, NextIs
<1>3. I => RecordsAreTrue
  OBVIOUS
<1> HIDE DEF I
<1> QED BY <1>1, <1>2, <1>3, SpecKernel, PTL DEF Spec
-----------------------------------------------------------------------------
(* Paths resolve against the right directory, whatever stops other threads *)
(* lose.                                                                   *)

(* The exit stop that comes will be recognised as one. *)
Expected(t) ==
  /\ books[t].sc_phase = "exit_next"
  /\ books[t].exit_needed =>
       /\ Wanted(t)
       /\ books[t].pending = Number(t) /\ books[t].kind = thread[t].kind

(* What the exit stop under way resolves its path against. *)
ExitDir(t) ==
  IF books[t].exit_needed
    THEN /\ Len(done[t]) > 0
         /\ \/ done[t][Len(done[t])].dirfd
            \/ done[t][Len(done[t])].dir = ResolvedDir(t)
         /\ \/ thread[t].outcome = "ok" /\ thread[t].kind \in {"chdir", "fchdir"}
            \/ books[t].cached_cwd = cwd[t]
    ELSE books[t].cached_cwd = cwd[t]

(* A thread that lost no stop.  With the seccomp stop first, the entry     *)
(* stop consumes the request for an exit stop, and none ever comes.        *)
DirInv(t) ==
  IF seccomp_mode /\ SeccompFirst
    THEN thread[t].at # "exit" /\ (thread[t].at # "entry" => ~thread[t].stopAtExit)
    ELSE /\ seccomp_mode => thread[t].at # "entry"
         /\ ~seccomp_mode => thread[t].at # "seccomp" /\ thread[t].stopAtExit
         /\ ~seccomp_mode /\ thread[t].at \in {"user", "entry"} => ~Misjudged(t)
         /\ thread[t].at \in {"user", "entry", "seccomp", "inside"} =>
              books[t].cached_cwd = cwd[t]
         /\ StopsAtExit(t) => Expected(t)
         /\ thread[t].at = "inside" =>
              (Wanted(t) <=> StopsAtExit(t) /\ books[t].exit_needed)
         /\ thread[t].at = "exec" /\ ~seccomp_mode => books[t].sc_phase = "exit_next"
         /\ thread[t].at = "exit" => ExitDir(t)

(* With the seccomp stop first no exit is ever inspected. *)
LEMMA FirstStep ==
  ASSUME TypeInv, NEW t \in Threads, Step(t), ~LoseStop(t), KernelInv(t), DirInv(t),
         seccomp_mode, SeccompFirst
  PROVE  DirInv(t)'
<1>1. seccomp_mode' = seccomp_mode
  BY StepIsLocal
<1>2. thread[t].at # "exit" /\ (thread[t].at # "entry" => ~thread[t].stopAtExit)
  BY DEF DirInv
<1>3. ASSUME NEW kind \in Kinds, NEW dirfd \in BOOLEAN, Issue(t, kind, dirfd)
      PROVE  thread'[t].at # "exit" /\ (thread'[t].at # "entry" => ~thread'[t].stopAtExit)
  BY <1>2, <1>3, IssueIs
<1>4. ASSUME NEW outcome \in Outcomes, NEW dir \in Dirs, CarryOut(t, outcome, dir)
      PROVE  thread'[t].at # "exit" /\ (thread'[t].at # "entry" => ~thread'[t].stopAtExit)
  <2>1. /\ thread[t].at = "inside" /\ thread'[t].stopAtExit = thread[t].stopAtExit
        /\ \/ thread'[t].at = "exec"
           \/ thread'[t].at = IF thread[t].stopAtExit THEN "exit" ELSE "user"
    BY <1>4, CarryOutIs
  <2> QED BY <1>2, <2>1
<1>5. CASE HandleSeccompStop(t)
  BY <1>1, <1>5, SeccompStopGoes DEF DirInv
<1>6. CASE HandleSyscallStop(t)
  BY <1>1, <1>2, <1>6, SyscallStopGoes DEF DirInv
<1>7. CASE HandleExecEvent(t)
  BY <1>1, <1>7, ExecEventGoes DEF DirInv
<1> QED BY <1>1, <1>3, <1>4, <1>5, <1>6, <1>7 DEF Step, DirInv

(* A syscall is carried out: chdir and fchdir move the thread, and the     *)
(* books still know where it was.                                          *)
LEMMA DirCarryOut ==
  ASSUME TypeInv, NEW t \in Threads, KernelInv(t), DirInv(t),
         ~(seccomp_mode /\ SeccompFirst),
         NEW outcome \in Outcomes, NEW dir \in Dirs, CarryOut(t, outcome, dir)
  PROVE  DirInv(t)'
<1>0. done[t] \in Seq(Call) /\ seccomp_mode \in BOOLEAN /\ books[t] \in Book
  BY DEF TypeInv
<1>1. PICK call \in Call :
        /\ thread[t].at = "inside" /\ CanHappen(thread[t].kind, outcome)
        /\ \/ thread[t].kind \in {"chdir", "fchdir"} /\ outcome = "ok"
           \/ call.dirfd \/ dir = cwd[t]
        /\ call.dirfd \/ call.dir = IF thread[t].kind = "fchdir" THEN dir ELSE cwd[t]
        /\ done'[t] = Append(done[t], call)
        /\ cwd'[t] = IF thread[t].kind \in {"chdir", "fchdir"} /\ outcome = "ok"
                      THEN dir ELSE cwd[t]
        /\ thread'[t].kind = thread[t].kind /\ thread'[t].outcome = outcome
        /\ thread'[t].stopAtExit = thread[t].stopAtExit
        /\ thread'[t].at = IF thread[t].kind = "execve" /\ outcome = "ok" THEN "exec"
                           ELSE IF thread[t].stopAtExit THEN "exit" ELSE "user"
        /\ UNCHANGED <<seccomp_mode, books>>
  BY CarryOutIs
<1>2. /\ Len(done'[t]) = Len(done[t]) + 1 /\ Len(done[t]) \in Nat
      /\ done'[t][Len(done'[t])] = call
  BY <1>0, <1>1
<1>3. /\ books[t].cached_cwd = cwd[t]
      /\ ~seccomp_mode => thread[t].stopAtExit
      /\ StopsAtExit(t) => Expected(t)
      /\ Wanted(t) <=> StopsAtExit(t) /\ books[t].exit_needed
      /\ StopsAtExit(t) = (~seccomp_mode \/ thread[t].stopAtExit)
  BY <1>1 DEF DirInv, StopsAtExit
<1>4. thread[t].stopAtExit <=> StopsAtExit(t)
  BY <1>3
<1>5. CASE thread'[t].at = "exit"
  <2>1. StopsAtExit(t) /\ Expected(t)
    BY <1>1, <1>3, <1>4, <1>5
  <2>2. Expected(t)'
    BY <1>1, <1>2, <1>5, <2>1 DEF Expected, Number, Wanted
  <2>3. CASE books[t].exit_needed
    <3>1. books[t].kind = thread[t].kind
      BY <2>1, <2>3 DEF Expected
    <3>2. call.dirfd \/ call.dir = ResolvedDir(t)'
      BY <1>1, <1>3, <3>1 DEF ResolvedDir
    <3>3. \/ outcome = "ok" /\ thread[t].kind \in {"chdir", "fchdir"}
          \/ books[t].cached_cwd = cwd'[t]
      BY <1>1, <1>3
    <3>4. ExitDir(t)'
      BY <1>1, <1>2, <2>3, <3>2, <3>3 DEF ExitDir
    <3> QED BY <1>1, <1>3, <1>5, <2>2, <3>4 DEF DirInv
  <2>4. CASE ~books[t].exit_needed
    <3>1. cwd'[t] = cwd[t]
      BY <1>1, <1>3, <2>4 DEF Wanted
    <3>2. ExitDir(t)'
      BY <1>1, <1>3, <2>4, <3>1 DEF ExitDir
    <3> QED BY <1>1, <1>3, <1>5, <2>2, <3>2 DEF DirInv
  <2> QED BY <2>3, <2>4
<1>6. CASE thread'[t].at = "exec"
  <2>1. StopsAtExit(t)' = FALSE
    BY <1>6 DEF StopsAtExit
  <2> QED BY <1>1, <1>3, <1>6, <2>1 DEF DirInv, Expected
<1>7. CASE thread'[t].at = "user"
  <2>1. seccomp_mode /\ cwd'[t] = cwd[t] /\ StopsAtExit(t)' = FALSE
    BY <1>0, <1>1, <1>3, <1>4, <1>7 DEF Wanted, StopsAtExit
  <2> QED BY <1>1, <1>3, <1>7, <2>1 DEF DirInv
<1> QED BY <1>1, <1>5, <1>6, <1>7

LEMMA DirStep ==
  ASSUME TypeInv, NEW t \in Threads, Step(t), ~LoseStop(t), KernelInv(t), DirInv(t)
  PROVE  DirInv(t)'
<1> SUFFICES ASSUME ~(seccomp_mode /\ SeccompFirst) PROVE DirInv(t)'
  BY FirstStep
<1>0. /\ done[t] \in Seq(Call) /\ seccomp_mode \in BOOLEAN /\ books[t] \in Book
  BY DEF TypeInv
<1>1. ASSUME NEW kind \in Kinds, NEW dirfd \in BOOLEAN, Issue(t, kind, dirfd)
      PROVE  DirInv(t)'
  BY <1>0, <1>1, IssueIs DEF DirInv, StopsAtExit, Misjudged
<1>2. ASSUME NEW outcome \in Outcomes, NEW dir \in Dirs, CarryOut(t, outcome, dir)
      PROVE  DirInv(t)'
  BY <1>2, DirCarryOut
<1>3. CASE HandleSeccompStop(t)
  <2>1. /\ seccomp_mode /\ ~SeccompFirst /\ thread[t].at = "seccomp"
        /\ books[t].cached_cwd = cwd[t]
    BY <1>0, <1>3, SeccompStopGoes DEF KernelInv, DirInv
  <2>2. /\ thread'[t].at = "inside" /\ thread'[t].stopAtExit = Wanted(t)
        /\ thread'[t].kind = thread[t].kind
        /\ UNCHANGED <<seccomp_mode, cwd, done>>
    BY <1>3, <2>1, SeccompStopGoes
  <2>3. /\ books'[t].exit_needed = Wanted(t) /\ books'[t].cached_cwd = books[t].cached_cwd
        /\ Wanted(t) => /\ books'[t].sc_phase = "exit_next"
                        /\ books'[t].pending = Number(t) /\ books'[t].kind = thread[t].kind
    BY <1>3, HandleSeccompStopIs DEF Wanted
  <2>4. Wanted(t)' <=> Wanted(t)
    BY <2>2 DEF Wanted
  <2>5. StopsAtExit(t)' <=> Wanted(t)
    BY <2>1, <2>2 DEF StopsAtExit
  <2>6. StopsAtExit(t)' => Expected(t)'
    BY <2>1, <2>2, <2>3, <2>4, <2>5 DEF Expected, Number
  <2> QED BY <2>1, <2>2, <2>3, <2>4, <2>5, <2>6 DEF DirInv
<1>4. CASE HandleSyscallStop(t) /\ thread[t].at = "entry"
  <2>1. /\ ~seccomp_mode /\ thread[t].stopAtExit /\ ~Misjudged(t) /\ IsEntry(t)
        /\ books[t].cached_cwd = cwd[t]
    BY <1>0, <1>4 DEF KernelInv, DirInv, IsEntry
  <2>2. /\ books'[t].sc_phase = "exit_next" /\ books'[t].exit_needed = Wanted(t)
        /\ books'[t].pending = Number(t) /\ books'[t].kind = thread[t].kind
        /\ books'[t].cached_cwd = books[t].cached_cwd
    BY <1>4, <2>1, HandleSyscallStopIs DEF Wanted
  <2>3. /\ thread'[t].at = "inside" /\ thread'[t].stopAtExit
        /\ thread'[t].kind = thread[t].kind
        /\ UNCHANGED <<seccomp_mode, cwd, done>>
    BY <1>4, <2>1, SyscallStopGoes
  <2>4. Wanted(t)' <=> Wanted(t)
    BY <2>3 DEF Wanted
  <2>5. Expected(t)'
    BY <1>4, <2>2, <2>3, <2>4 DEF Expected, Number
  <2> QED BY <2>1, <2>2, <2>3, <2>4, <2>5 DEF DirInv, StopsAtExit
<1>5. CASE HandleSyscallStop(t) /\ thread[t].at = "exit"
  <2>1. /\ thread'[t].at = "user" /\ (~seccomp_mode => thread'[t].stopAtExit)
        /\ UNCHANGED <<seccomp_mode, cwd, done>>
    BY <1>5, SyscallStopGoes
  <2>2. /\ Expected(t) /\ ExitDir(t)
    BY <1>5 DEF DirInv, StopsAtExit
  <2>3. CASE Misjudged(t)
    <3>1. ~Misjudged(t)' /\ books'[t].cached_cwd = books[t].cached_cwd
      BY <1>5, <2>3, HandleSyscallStopIs DEF Misjudged
    <3>2. books[t].cached_cwd = cwd[t]
      BY <2>2, <2>3 DEF ExitDir, Misjudged
    <3> QED BY <2>1, <3>1, <3>2 DEF DirInv, StopsAtExit
  <2>4. CASE ~Misjudged(t)
    <3>1. books[t].exit_needed /\ books[t].kind = thread[t].kind /\ Wanted(t)
      BY <1>0, <2>2, <2>4 DEF Expected, Misjudged, Book
    <3>2. CASE IsEntry(t)
      <4>1. ~Misjudged(t)' /\ books'[t].cached_cwd = books[t].cached_cwd
        BY <1>5, <2>4, <3>1, <3>2, HandleSyscallStopIs DEF Misjudged, Wanted
      <4>2. books[t].cached_cwd = cwd[t]
        BY <2>2, <3>1, <3>2 DEF ExitDir, IsEntry
      <4> QED BY <2>1, <4>1, <4>2 DEF DirInv, StopsAtExit
    <3>3. CASE ~IsEntry(t)
      <4>1. /\ ~Misjudged(t)'
            /\ books'[t].cached_cwd =
                 IF books[t].kind \in {"chdir", "fchdir"} /\ thread[t].outcome = "ok"
                   THEN cwd[t] ELSE books[t].cached_cwd
        BY <1>5, <2>4, <3>3, HandleSyscallStopIs DEF Misjudged
      <4>2. books'[t].cached_cwd = cwd[t]
        BY <2>2, <3>1, <4>1 DEF ExitDir
      <4> QED BY <2>1, <4>1, <4>2 DEF DirInv, StopsAtExit
    <3> QED BY <3>2, <3>3
  <2> QED BY <2>3, <2>4
<1>6. CASE HandleExecEvent(t)
  <2>1. /\ thread[t].at = "exec" /\ thread'[t].at = IF seccomp_mode THEN "user" ELSE "exit"
        /\ thread'[t].stopAtExit = ~seccomp_mode
        /\ UNCHANGED <<seccomp_mode, cwd, done>>
    BY <1>6, ExecEventGoes
  <2>2. /\ ~books'[t].exit_needed /\ books'[t].cached_cwd = cwd[t]
        /\ books'[t].sc_phase = books[t].sc_phase
    BY <1>6, HandleExecEventIs
  <2>3. ~seccomp_mode => books[t].sc_phase = "exit_next"
    BY <2>1 DEF DirInv
  <2> QED BY <1>0, <2>1, <2>2, <2>3 DEF DirInv, StopsAtExit, Expected, ExitDir
<1>7. HandleSyscallStop(t) => thread[t].at \in {"entry", "exit"}
  BY SyscallStopGoes
<1> QED BY <1>1, <1>2, <1>3, <1>4, <1>5, <1>6, <1>7 DEF Step

Resolved(r) ==
  lost[r.thread] = 0 => /\ r.call \in DOMAIN done[r.thread]
                        /\ \/ done[r.thread][r.call].dirfd
                           \/ r.dir = done[r.thread][r.call].dir

LEMMA ResolvedStep ==
  ASSUME TypeInv, NEW t \in Threads, Step(t), KernelInv(t), lost[t] = 0 => DirInv(t),
         \A r \in recorded : Resolved(r)
  PROVE  \A r \in recorded' : Resolved(r)'
<1>1. ASSUME NEW r \in recorded PROVE Resolved(r)'
  <2>1. r.thread \in Threads
    BY DEF TypeInv, Record
  <2>2. lost[r.thread] \in Nat /\ lost[r.thread] <= lost'[r.thread]
    BY <2>1, StepIsLocal DEF TypeInv
  <2>3. lost'[r.thread] = 0 => lost[r.thread] = 0
    BY <2>2, StepType, <2>1 DEF TypeInv
  <2> QED BY <2>1, <2>3, StepIsLocal DEF Resolved
<1>2. CASE recorded' = recorded
  BY <1>1, <1>2
<1>3. CASE recorded' # recorded
  <2>1. /\ thread[t].at = "exit" /\ books[t].exit_needed
        /\ recorded' = recorded \cup Accesses(t, thread[t].outcome)
        /\ done' = done /\ lost' = lost
    BY <1>3, RecordsAdded
  <2>2. ASSUME NEW r \in Accesses(t, thread[t].outcome), lost[t] = 0
        PROVE  /\ r.call \in DOMAIN done[t]
               /\ done[t][r.call].dirfd \/ r.dir = done[t][r.call].dir
    <3>1. DirInv(t) /\ ~(seccomp_mode /\ SeccompFirst)
      BY <2>1, <2>2 DEF DirInv
    <3>2. Expected(t) /\ ExitDir(t)
      BY <2>1, <3>1 DEF DirInv, StopsAtExit
    <3>3. r.call = books[t].pending /\ r.dir = ResolvedDir(t)
      BY DEF Accesses
    <3>4. r.call = Len(done[t])
      BY <2>1, <3>2, <3>3 DEF Expected, Number
    <3>5. /\ done[t] \in Seq(Call) /\ Len(done[t]) > 0
          /\ done[t][Len(done[t])].dirfd \/ r.dir = done[t][Len(done[t])].dir
      BY <2>1, <3>2, <3>3 DEF ExitDir, TypeInv
    <3> QED BY <3>4, <3>5
  <2>3. \A r \in Accesses(t, thread[t].outcome) : r.thread = t
    BY DEF Accesses
  <2>4. \A r \in Accesses(t, thread[t].outcome) : Resolved(r)'
    BY <2>1, <2>2, <2>3 DEF Resolved
  <2> QED BY <1>1, <2>1, <2>4
<1> QED BY <1>2, <1>3

(* The directory a relative path is resolved against is the one the thread *)
(* was in when it made the syscall, although the tracer caches it, unless  *)
(* the syscall names a directory of its own, which is not looked at: every *)
(* change of directory reaches the cache before the next path does, in     *)
(* either mode, for every order of the stops, and whatever other threads   *)
(* lose (resolve_path_cached, handle_syscall_stop, handle_exec_event).     *)
THEOREM PathsAreResolved == Spec => []PathsResolve
<1> DEFINE I == /\ \A t \in Threads : lost[t] = 0 => DirInv(t)
                /\ \A r \in recorded : Resolved(r)
<1>1. Init => I
  <2> SUFFICES ASSUME Init PROVE I
    OBVIOUS
  <2>1. ASSUME NEW t \in Threads PROVE DirInv(t)
    <3>1. /\ thread[t].at = "user" /\ books[t].sc_phase = "unknown"
          /\ books[t].cached_cwd = cwd[t]
          /\ seccomp_mode => ~thread[t].stopAtExit
          /\ ~seccomp_mode => thread[t].stopAtExit
      BY DEF Init
    <3> QED BY <3>1 DEF DirInv, StopsAtExit, Misjudged
  <2> QED BY <2>1 DEF Init
<1>2. Kernel /\ I /\ [Next]_vars => I'
  <2> SUFFICES ASSUME Kernel, I, [Next]_vars PROVE I'
    OBVIOUS
  <2>1. CASE UNCHANGED vars
    BY <2>1 DEF vars, DirInv, StopsAtExit, Misjudged, Expected, ExitDir, ResolvedDir,
                Wanted, Number, Resolved
  <2>2. ASSUME NEW t \in Threads, Step(t) PROVE I'
    <3>1. TypeInv /\ TypeInv' /\ KernelInv(t)
      BY <2>2, StepType DEF Kernel
    <3>2. \A r \in recorded' : Resolved(r)'
      BY <2>2, <3>1, ResolvedStep
    <3>3. ASSUME lost'[t] = 0 PROVE DirInv(t)'
      <4>1. ~LoseStop(t)
        <5> SUFFICES ASSUME LoseStop(t) PROVE FALSE
          OBVIOUS
        <5>1. lost'[t] = lost[t] + 1
          BY <3>1, LoseStopIs
        <5> QED BY <3>1, <3>3, <5>1 DEF TypeInv
      <4>2. lost[t] = 0
        <5>1. lost[t] <= lost'[t]
          BY <2>2, <3>1, StepIsLocal
        <5> QED BY <3>1, <3>3, <5>1 DEF TypeInv
      <4> QED BY <2>2, <3>1, <4>1, <4>2, DirStep
    <3>4. ASSUME NEW u \in Threads \ {t}, lost'[u] = 0 PROVE DirInv(u)'
      <4>1. /\ thread'[u] = thread[u] /\ books'[u] = books[u] /\ done'[u] = done[u]
            /\ cwd'[u] = cwd[u] /\ lost'[u] = lost[u] /\ seccomp_mode' = seccomp_mode
        BY <2>2, <3>1, StepIsLocal
      <4>2. DirInv(u)
        BY <3>4, <4>1
      <4> QED BY <4>1, <4>2 DEF DirInv, StopsAtExit, Misjudged, Expected, ExitDir,
                                ResolvedDir, Wanted, Number
    <3> QED BY <3>2, <3>3, <3>4
  <2> QED BY <2>1, <2>2, NextIs DEF Kernel
<1>3. I => PathsResolve
  BY DEF PathsResolve, Resolved
<1> HIDE DEF I
<1> QED BY <1>1, <1>2, <1>3, SpecKernel, PTL DEF Spec
-----------------------------------------------------------------------------
(* A lost stop costs one access at most.  A stop that is taken for the     *)
(* other kind leaves a debt: the access that will be missed because of it. *)

(* The thread runs a program of its own now: its execve has no access.     *)
Execed(t) == thread[t].kind = "execve" /\ thread[t].outcome = "ok"

Debt(t) ==
  IF seccomp_mode
    THEN thread[t].at = "inside" /\ ~thread[t].stopAtExit /\ Wanted(t)
    ELSE \/ thread[t].at \in {"user", "entry"} /\ Misjudged(t)
         \/ thread[t].at \in {"inside", "exec", "exit"} /\ books[t].sc_phase # "exit_next"

Owed(t) == IF Debt(t) THEN 1 ELSE 0

Judged(t) ==
  /\ seccomp_mode => thread[t].at # "entry"
  /\ ~seccomp_mode => thread[t].stopAtExit
  /\ thread[t].at = "exec" => Execed(t)
  /\ StopsAtExit(t) =>
       IF books[t].sc_phase = "exit_next"
         THEN books[t].exit_needed <=> Wanted(t) /\ ~(thread[t].at = "exit" /\ Execed(t))
         ELSE ~seccomp_mode /\ ~books[t].exit_needed
  /\ StopsAtExit(t) /\ seccomp_mode => books[t].exit_needed
  /\ thread[t].at = "exec" /\ ~seccomp_mode /\ books[t].sc_phase # "exit_next" =>
       ~books[t].exit_needed

LEMMA JudgedStep ==
  ASSUME TypeInv, ~SeccompFirst, "entry" \notin Losable, NEW t \in Threads, Step(t),
         \A u \in Threads : KernelInv(u) /\ Judged(u)
  PROVE  \A u \in Threads : Judged(u)'
<1>0. /\ seccomp_mode \in BOOLEAN /\ books[t] \in Book /\ thread[t] \in Thread
      /\ KernelInv(t) /\ Judged(t)
  BY DEF TypeInv
<1>1. Judged(t)'
  <2>1. ASSUME NEW kind \in Kinds, NEW dirfd \in BOOLEAN, Issue(t, kind, dirfd)
        PROVE  Judged(t)'
    BY <1>0, <2>1, IssueIs DEF Judged, StopsAtExit
  <2>2. ASSUME NEW outcome \in Outcomes, NEW dir \in Dirs, CarryOut(t, outcome, dir)
        PROVE  Judged(t)'
    <3>1. /\ thread[t].at = "inside"
          /\ thread'[t].kind = thread[t].kind /\ thread'[t].outcome = outcome
          /\ thread'[t].stopAtExit = thread[t].stopAtExit
          /\ thread'[t].at = IF thread[t].kind = "execve" /\ outcome = "ok" THEN "exec"
                             ELSE IF thread[t].stopAtExit THEN "exit" ELSE "user"
          /\ UNCHANGED <<seccomp_mode, books>>
      BY <2>2, CarryOutIs
    <3>2. Wanted(t)' <=> Wanted(t)
      BY <3>1 DEF Wanted
    <3>3. CASE thread'[t].at = "exec"
      BY <1>0, <3>1, <3>2, <3>3 DEF Judged, StopsAtExit, Execed
    <3>4. CASE thread'[t].at = "exit"
      BY <1>0, <3>1, <3>2, <3>4 DEF Judged, StopsAtExit, Execed
    <3>5. CASE thread'[t].at = "user"
      BY <1>0, <3>1, <3>2, <3>5 DEF Judged, StopsAtExit
    <3> QED BY <3>1, <3>3, <3>4, <3>5
  <2>3. CASE HandleSeccompStop(t)
    <3>1. /\ books'[t].exit_needed = Wanted(t)
          /\ Wanted(t) => books'[t].sc_phase = "exit_next"
      BY <2>3, HandleSeccompStopIs DEF Wanted
    <3>2. Wanted(t)' <=> Wanted(t)
      BY <2>3, SeccompStopGoes DEF Wanted
    <3> QED BY <1>0, <2>3, <3>1, <3>2, SeccompStopGoes DEF Judged, StopsAtExit, KernelInv
  <2>4. CASE HandleSyscallStop(t) /\ thread[t].at = "entry"
    <3>1. ~seccomp_mode /\ thread[t].stopAtExit /\ IsEntry(t)
      BY <1>0, <2>4 DEF Judged, KernelInv, IsEntry
    <3>2. IF Misjudged(t)
            THEN books'[t].sc_phase # "exit_next" /\ ~books'[t].exit_needed
            ELSE books'[t].sc_phase = "exit_next" /\ books'[t].exit_needed = Wanted(t)
      BY <2>4, <3>1, HandleSyscallStopIs DEF Wanted
    <3>3. Wanted(t)' <=> Wanted(t)
      BY <2>4, SyscallStopGoes DEF Wanted
    <3>4. /\ thread'[t].at = "inside" /\ thread'[t].stopAtExit
          /\ seccomp_mode' = seccomp_mode
      BY <2>4, <3>1, SyscallStopGoes
    <3> QED BY <3>1, <3>2, <3>3, <3>4 DEF Judged
  <2>5. CASE HandleSyscallStop(t) /\ thread[t].at = "exit"
    BY <1>0, <2>5, SyscallStopGoes DEF Judged, StopsAtExit
  <2>6. CASE HandleExecEvent(t)
    <3>1. ~books'[t].exit_needed /\ books'[t].sc_phase = books[t].sc_phase
      BY <2>6, HandleExecEventIs
    <3>2. Execed(t)' <=> Execed(t)
      BY <2>6, ExecEventGoes DEF Execed
    <3> QED BY <1>0, <2>6, <3>1, <3>2, ExecEventGoes DEF Judged, StopsAtExit
  <2>7. CASE LoseStop(t)
    <3>1. \/ thread'[t].at = "user"
          \/ thread'[t].at = "inside" /\ seccomp_mode
      BY <1>0, <2>7, LoseStopGoes DEF KernelInv
    <3> QED BY <1>0, <2>7, <3>1, LoseStopGoes DEF Judged, StopsAtExit
  <2>8. HandleSyscallStop(t) => thread[t].at \in {"entry", "exit"}
    BY SyscallStopGoes
  <2> QED BY <2>1, <2>2, <2>3, <2>4, <2>5, <2>6, <2>7, <2>8 DEF Step
<1>2. ASSUME NEW u \in Threads \ {t} PROVE Judged(u)'
  <2>1. Judged(u)
    OBVIOUS
  <2> QED BY <2>1, StepIsLocal DEF Judged, StopsAtExit, Wanted, Execed
<1> QED BY <1>1, <1>2

(* The last syscall of a thread is an access that is not recorded.         *)
Unrecorded(t) ==
  LET call == done[t][Len(done[t])]
  IN  /\ call.outcome # "ENOSYS" /\ Records(call.kind, call.outcome)
      /\ \E arg \in Args(call.kind) :
           ~\E r \in recorded : r.thread = t /\ r.call = Len(done[t]) /\ r.arg = arg

LEMMA RecordedGrows ==
  ASSUME TypeInv, NEW t \in Threads, Step(t)
  PROVE  recorded \subseteq recorded'
BY IssueIs, CarryOutIs, HandleSeccompStopIs, HandleSyscallStopIs, HandleExecEventIs,
   LoseStopIs DEF Step

LEMMA MissedStep ==
  ASSUME TypeInv, NEW t \in Threads, Step(t)
  PROVE  /\ Missed(t)' \subseteq Missed(t) \cup {Len(done'[t])}
         /\ \/ thread'[t].at \in {"exec", "exit"}
            \/ done'[t] = done[t] /\ thread[t].at \notin {"exec", "exit"}
            \/ ~Unrecorded(t)'
            => Missed(t)' \subseteq Missed(t)
<1>0. done[t] \in Seq(Call)
  BY DEF TypeInv
<1>1. \/ done'[t] = done[t]
      \/ thread[t].at = "inside" /\ \E call \in Call : done'[t] = Append(done[t], call)
  <2>1. ASSUME NEW outcome \in Outcomes, NEW dir \in Dirs, CarryOut(t, outcome, dir)
        PROVE  thread[t].at = "inside" /\ \E call \in Call : done'[t] = Append(done[t], call)
    BY <2>1, CarryOutIs
  <2> QED BY <2>1, IssueIs, HandleSeccompStopIs, HandleSyscallStopIs, HandleExecEventIs,
             LoseStopIs DEF Step
<1>2. ASSUME NEW n \in Missed(t)', n # Len(done'[t])
      PROVE  n \in Missed(t)
  <2>1. n \in DOMAIN done'[t] /\ n < Len(done'[t])
    BY <1>0, <1>1, <1>2 DEF Missed
  <2>2. n \in DOMAIN done[t]
    BY <1>0, <1>1, <2>1
  <2>3. n < Len(done[t]) \/ thread[t].at \notin {"exec", "exit"}
    BY <1>1, <2>1
  <2>4. done'[t][n] = done[t][n]
    BY <2>2, StepIsLocal
  <2> QED BY <2>2, <2>3, <2>4, RecordedGrows DEF Missed
<1>3. ASSUME Len(done'[t]) \in Missed(t)'
      PROVE  thread'[t].at \notin {"exec", "exit"} /\ Unrecorded(t)'
  <2>1. ~(Len(done'[t]) < Len(done'[t]))
    BY <1>0, <1>1
  <2> QED BY <1>3, <2>1 DEF Missed, Unrecorded
<1>4. ASSUME Len(done'[t]) \in Missed(t)', done'[t] = done[t],
             thread[t].at \notin {"exec", "exit"}
      PROVE  Len(done'[t]) \in Missed(t)
  BY <1>4, RecordedGrows DEF Missed
<1> QED BY <1>2, <1>3, <1>4

MissedIsCountable ==
  \A t \in Threads : IsFiniteSet(Missed(t)) /\ Cardinality(Missed(t)) \in Nat

LEMMA MissedIsFinite == TypeInv => MissedIsCountable
<1> SUFFICES ASSUME TypeInv, NEW t \in Threads
             PROVE  IsFiniteSet(Missed(t)) /\ Cardinality(Missed(t)) \in Nat
  BY DEF MissedIsCountable
<1>1. DOMAIN done[t] = 1 .. Len(done[t]) /\ Len(done[t]) \in Nat
  BY DEF TypeInv
<1>2. IsFiniteSet(1 .. Len(done[t]))
  BY <1>1, FS_Interval
<1>3. Missed(t) \in SUBSET (1 .. Len(done[t]))
  BY <1>1 DEF Missed
<1>4. IsFiniteSet(Missed(t))
  BY <1>2, <1>3, FS_Subset
<1> QED BY <1>4, FS_CardinalityType

LEMMA MissedStaysFinite == TypeInv' => MissedIsCountable'
BY MissedIsFinite, PTL

LEMMA MissedCounts ==
  ASSUME TypeInv, NEW t \in Threads, Step(t)
  PROVE  /\ Cardinality(Missed(t)) \in Nat /\ Cardinality(Missed(t)') \in Nat
         /\ Cardinality(Missed(t)') <= Cardinality(Missed(t)) + 1
         /\ \/ thread'[t].at \in {"exec", "exit"}
            \/ done'[t] = done[t] /\ thread[t].at \notin {"exec", "exit"}
            \/ ~Unrecorded(t)'
            => Cardinality(Missed(t)') <= Cardinality(Missed(t))
<1> DEFINE before == Missed(t)
           after == Missed(t)'
           last == Len(done'[t])
<1>1. IsFiniteSet(before) /\ Cardinality(before) \in Nat
  BY MissedIsFinite DEF MissedIsCountable
<1>2. TypeInv'
  BY StepType
<1>3. IsFiniteSet(after) /\ Cardinality(after) \in Nat
  BY <1>2, MissedStaysFinite DEF MissedIsCountable
<1>4. after \subseteq before \cup {last}
  BY MissedStep
<1>5. \/ thread'[t].at \in {"exec", "exit"}
      \/ done'[t] = done[t] /\ thread[t].at \notin {"exec", "exit"}
      \/ ~Unrecorded(t)'
      => after \subseteq before
  BY MissedStep
<1> HIDE DEF before, after, last
<1>6. Cardinality(after) <= Cardinality(before) + 1
  <2>1. /\ IsFiniteSet(before \cup {last})
        /\ Cardinality(before \cup {last}) <= Cardinality(before) + 1
    <3> DEFINE b == Cardinality(before)
               c == Cardinality(before \cup {last})
    <3>1. /\ IsFiniteSet(before \cup {last})
          /\ c = b \/ c = b + 1
      BY <1>1, FS_AddElement
    <3>2. b \in Nat
      BY <1>1
    <3> HIDE DEF b, c
    <3>3. c <= b + 1
      BY <3>1, <3>2
    <3> QED BY <3>1, <3>3 DEF b, c
  <2>2. Cardinality(after) <= Cardinality(before \cup {last})
    BY <1>4, <2>1, FS_Subset
  <2>3. Cardinality(before \cup {last}) \in Nat
    BY <2>1, FS_CardinalityType
  <2> QED BY <1>1, <1>3, <2>1, <2>2, <2>3
<1>7. after \subseteq before => Cardinality(after) <= Cardinality(before)
  BY <1>1, FS_Subset
<1> QED BY <1>1, <1>3, <1>5, <1>6, <1>7 DEF before, after
(* An exit that is handled misses its access only if its entry was         *)
(* misjudged.                                                              *)
LEMMA ExitCounts ==
  ASSUME TypeInv, NEW t \in Threads, KernelInv(t), Decoded(t), Judged(t),
         HandleSyscallStop(t), thread[t].at = "exit"
  PROVE  /\ Debt(t)' => Debt(t) /\ ~Unrecorded(t)'
         /\ Unrecorded(t)' => Debt(t)
<1>0. /\ seccomp_mode \in BOOLEAN /\ books[t] \in Book /\ thread[t] \in Thread
      /\ done[t] \in Seq(Call)
  BY DEF TypeInv
<1> DEFINE n == Len(done[t])
           call == done[t][n]
<1>1. /\ thread'[t].at = "user" /\ UNCHANGED <<seccomp_mode, done>>
  BY SyscallStopGoes
<1>2. call.kind = thread[t].kind /\ call.outcome = thread[t].outcome
  BY DEF KernelInv
<1>3. IF books[t].sc_phase = "exit_next"
        THEN books[t].exit_needed <=> Wanted(t) /\ ~Execed(t)
        ELSE ~seccomp_mode /\ ~books[t].exit_needed
  BY DEF Judged, StopsAtExit
<1>4. seccomp_mode => books[t].exit_needed
  BY DEF Judged, StopsAtExit
<1>5. Debt(t) <=> ~seccomp_mode /\ books[t].sc_phase # "exit_next"
  BY <1>0 DEF Debt
<1>6. Debt(t)' <=> ~seccomp_mode /\ Misjudged(t)'
  BY <1>1 DEF Debt
<1>7. Unrecorded(t)' => /\ call.outcome # "ENOSYS" /\ Records(call.kind, call.outcome)
                        /\ Wanted(t) /\ ~Execed(t)
  BY <1>1, <1>2 DEF Unrecorded, Records, Wanted, Execed
<1>8. CASE Misjudged(t)
  <2>1. ~Misjudged(t)'
    BY <1>8, HandleSyscallStopIs DEF Misjudged
  <2> QED BY <1>3, <1>6, <1>7, <1>8, <2>1 DEF Misjudged
<1>9. CASE ~Misjudged(t) /\ IsEntry(t)
  <2>1. ~Unrecorded(t)'
    BY <1>2, <1>7, <1>9 DEF IsEntry
  <2>2. books'[t].exit_needed = Wanted(t)
    BY <1>9, HandleSyscallStopIs DEF Wanted
  <2>3. Debt(t)' => Debt(t)
    BY <1>0, <1>3, <1>5, <1>6, <1>9, <2>2 DEF Misjudged
  <2> QED BY <2>1, <2>3
<1>10. CASE ~Misjudged(t) /\ ~IsEntry(t)
  <2>1. /\ ~Misjudged(t)'
        /\ recorded' = recorded \cup Accesses(t, thread[t].outcome)
    BY <1>10, HandleSyscallStopIs DEF Misjudged
  <2>2. CASE books[t].exit_needed
    <3>1. books[t].pending = n /\ books[t].kind = call.kind
      BY <1>2, <2>2 DEF Decoded, StopsAtExit, Number
    <3>2. ASSUME Records(call.kind, call.outcome), NEW arg \in Args(call.kind)
          PROVE  \E r \in recorded' : r.thread = t /\ r.call = n /\ r.arg = arg
      <4> DEFINE r == [thread |-> t, call |-> n, arg |-> arg, kind |-> call.kind,
                       failed |-> StoredAsFailed(call.kind, call.outcome),
                       dir |-> ResolvedDir(t)]
      <4>1. r \in Accesses(t, thread[t].outcome)
        BY <1>2, <2>2, <3>1, <3>2 DEF Accesses
      <4> QED BY <2>1, <4>1
    <3>3. ~Unrecorded(t)'
      BY <1>1, <3>2 DEF Unrecorded
    <3> QED BY <1>6, <2>1, <3>3
  <2>3. CASE ~books[t].exit_needed
    BY <1>3, <1>5, <1>6, <1>7, <2>1, <2>3
  <2> QED BY <2>2, <2>3
<1> QED BY <1>8, <1>9, <1>10

Bounded(t) == Cardinality(Missed(t)) + Owed(t) <= lost[t]

LEMMA BoundedStep ==
  ASSUME TypeInv, ~SeccompFirst, "entry" \notin Losable, NEW t \in Threads, Step(t),
         KernelInv(t), Decoded(t), Judged(t), Judged(t)', Bounded(t)
  PROVE  Bounded(t)'
<1>0. /\ seccomp_mode \in BOOLEAN /\ books[t] \in Book /\ thread[t] \in Thread
      /\ done[t] \in Seq(Call) /\ lost[t] \in Nat
  BY DEF TypeInv
<1> DEFINE before == Cardinality(Missed(t))
           after == Cardinality(Missed(t)')
<1>1. before \in Nat /\ after \in Nat /\ after <= before + 1
  BY MissedCounts
<1>2. \/ thread'[t].at \in {"exec", "exit"}
      \/ done'[t] = done[t] /\ thread[t].at \notin {"exec", "exit"}
      \/ ~Unrecorded(t)'
      => after <= before
  BY MissedCounts
<1>3. before + (IF Debt(t) THEN 1 ELSE 0) <= lost[t]
  BY DEF Bounded, Owed
<1>4. (Cardinality(Missed(t)))' = after
  OBVIOUS
<1> HIDE DEF before, after
<1>5. SUFFICES after + (IF Debt(t)' THEN 1 ELSE 0) <= lost'[t]
  BY <1>4 DEF Bounded, Owed
(* What a step may do to the two: nothing, pay the debt, be forgiven it.   *)
<1>6. ASSUME lost'[t] = lost[t], after <= before, Debt(t)' => Debt(t)
      PROVE  after + (IF Debt(t)' THEN 1 ELSE 0) <= lost'[t]
  BY <1>0, <1>1, <1>3, <1>6
<1>7. ASSUME lost'[t] = lost[t], Debt(t), ~Debt(t)'
      PROVE  after + (IF Debt(t)' THEN 1 ELSE 0) <= lost'[t]
  BY <1>0, <1>1, <1>3, <1>7
<1>8. ASSUME NEW kind \in Kinds, NEW dirfd \in BOOLEAN, Issue(t, kind, dirfd)
      PROVE  after + (IF Debt(t)' THEN 1 ELSE 0) <= lost'[t]
  <2>1. /\ thread[t].at = "user" /\ UNCHANGED <<seccomp_mode, done, lost, books>>
        /\ thread'[t].at = IF seccomp_mode THEN "seccomp" ELSE "entry"
    BY <1>8, IssueIs
  <2>2. Debt(t)' => Debt(t)
    BY <1>0, <2>1 DEF Debt, Misjudged
  <2> QED BY <1>2, <1>6, <2>1, <2>2
<1>9. ASSUME NEW outcome \in Outcomes, NEW dir \in Dirs, CarryOut(t, outcome, dir)
      PROVE  after + (IF Debt(t)' THEN 1 ELSE 0) <= lost'[t]
  <2>1. PICK call \in Call :
          /\ thread[t].at = "inside" /\ CanHappen(thread[t].kind, outcome)
          /\ call.kind = thread[t].kind /\ call.outcome = outcome
          /\ done'[t] = Append(done[t], call)
          /\ thread'[t].stopAtExit = thread[t].stopAtExit
          /\ thread'[t].at = IF thread[t].kind = "execve" /\ outcome = "ok" THEN "exec"
                             ELSE IF thread[t].stopAtExit THEN "exit" ELSE "user"
          /\ UNCHANGED <<seccomp_mode, lost, books>>
    BY <1>9, CarryOutIs
  <2>2. CASE thread'[t].at \in {"exec", "exit"}
    <3>1. Debt(t)' => Debt(t)
      BY <1>0, <2>1, <2>2 DEF Debt
    <3> QED BY <1>2, <1>6, <2>1, <2>2, <3>1
  <2>3. CASE thread'[t].at = "user"
    <3>1. seccomp_mode /\ ~thread[t].stopAtExit /\ ~Debt(t)'
      BY <1>0, <2>1, <2>3 DEF Judged, Debt
    <3>2. CASE Wanted(t)
      BY <1>7, <2>1, <3>1, <3>2 DEF Debt
    <3>3. CASE ~Wanted(t)
      <4>1. done'[t][Len(done'[t])] = call
        BY <1>0, <2>1
      <4>2. ~Unrecorded(t)'
        BY <2>1, <3>3, <4>1 DEF Unrecorded, Records, Wanted
      <4> QED BY <1>2, <1>6, <2>1, <3>1, <4>2
    <3> QED BY <3>2, <3>3
  <2> QED BY <2>1, <2>2, <2>3
<1>10. CASE HandleSeccompStop(t)
  <2>1. /\ thread[t].at = "seccomp" /\ thread'[t].at = "inside"
        /\ thread'[t].stopAtExit = Wanted(t) /\ seccomp_mode
        /\ UNCHANGED <<seccomp_mode, done, lost>>
    BY <1>10, SeccompStopGoes DEF KernelInv
  <2>2. Wanted(t)' <=> Wanted(t)
    BY <1>10, SeccompStopGoes DEF Wanted
  <2>3. ~Debt(t)'
    BY <2>1, <2>2 DEF Debt
  <2> QED BY <1>2, <1>6, <2>1, <2>3
<1>11. CASE HandleSyscallStop(t) /\ thread[t].at = "entry"
  <2>1. ~seccomp_mode /\ IsEntry(t)
    BY <1>0, <1>11 DEF Judged, KernelInv, IsEntry
  <2>2. /\ thread'[t].at = "inside" /\ UNCHANGED <<seccomp_mode, done, lost>>
    BY <1>11, SyscallStopGoes
  <2>3. ~Misjudged(t) => books'[t].sc_phase = "exit_next"
    BY <1>11, <2>1, HandleSyscallStopIs
  <2>4. Debt(t)' => Debt(t)
    BY <1>11, <2>1, <2>2, <2>3 DEF Debt
  <2> QED BY <1>2, <1>6, <1>11, <2>2, <2>4
<1>12. CASE HandleSyscallStop(t) /\ thread[t].at = "exit"
  <2>1. lost'[t] = lost[t]
    BY <1>12, SyscallStopGoes
  <2>2. /\ Debt(t)' => Debt(t) /\ ~Unrecorded(t)'
        /\ Unrecorded(t)' => Debt(t)
    BY <1>12, ExitCounts
  <2>3. CASE Unrecorded(t)'
    BY <1>7, <2>1, <2>2, <2>3
  <2>4. CASE ~Unrecorded(t)'
    BY <1>2, <1>6, <2>1, <2>2, <2>4
  <2> QED BY <2>3, <2>4
<1>13. CASE HandleExecEvent(t)
  <2>1. /\ thread[t].at = "exec" /\ thread'[t].at = IF seccomp_mode THEN "user" ELSE "exit"
        /\ UNCHANGED <<seccomp_mode, done, lost>>
    BY <1>13, ExecEventGoes
  <2>2. books'[t].sc_phase = books[t].sc_phase
    BY <1>13, HandleExecEventIs
  <2>3. Debt(t)' => Debt(t)
    BY <1>0, <2>1, <2>2 DEF Debt
  <2>4. ~Unrecorded(t)'
    <3>1. /\ done[t][Len(done[t])].kind = "execve" /\ done[t][Len(done[t])].outcome = "ok"
      BY <2>1 DEF KernelInv, Judged, Execed
    <3> QED BY <2>1, <3>1 DEF Unrecorded, Records
  <2> QED BY <1>2, <1>6, <2>1, <2>3, <2>4
<1>14. CASE LoseStop(t)
  <2>1. /\ lost'[t] = lost[t] + 1
        /\ thread[t].at \in {"seccomp", "exit"}
        /\ thread'[t].at = IF thread[t].at = "exit" THEN "user" ELSE "inside"
        /\ UNCHANGED <<seccomp_mode, done, books, recorded>>
    BY <1>14, LoseStopIs, LoseStopGoes
  <2>2. SUFFICES \/ after <= before \/ ~Debt(t)'
    BY <1>0, <1>1, <1>3, <2>1
  <2>3. CASE thread[t].at = "seccomp"
    BY <1>2, <2>1, <2>3
  <2>4. CASE thread[t].at = "exit" /\ Debt(t)'
    <3>1. Misjudged(t)
      BY <1>0, <2>1, <2>4 DEF Debt, Misjudged
    <3>2. ~Wanted(t) \/ Execed(t)
      BY <2>4, <3>1 DEF Judged, StopsAtExit, Misjudged
    <3>3. /\ done[t][Len(done[t])].kind = thread[t].kind
          /\ done[t][Len(done[t])].outcome = thread[t].outcome
      BY <2>4 DEF KernelInv
    <3>4. ~Unrecorded(t)'
      BY <2>1, <3>2, <3>3 DEF Unrecorded, Records, Wanted, Execed
    <3> QED BY <1>2, <3>4
  <2> QED BY <2>1, <2>3, <2>4
<1>15. HandleSyscallStop(t) => thread[t].at \in {"entry", "exit"}
  BY SyscallStopGoes
<1> QED BY <1>8, <1>9, <1>10, <1>11, <1>12, <1>13, <1>14, <1>15 DEF Step

(* A thread that does not move misses nothing more. *)
LEMMA BoundedElsewhere ==
  ASSUME TypeInv, NEW t \in Threads, Step(t), NEW u \in Threads \ {t}, Bounded(u)
  PROVE  Bounded(u)'
<1>1. /\ thread'[u] = thread[u] /\ books'[u] = books[u] /\ done'[u] = done[u]
      /\ lost'[u] = lost[u] /\ seccomp_mode' = seccomp_mode
  BY StepIsLocal
<1>2. Debt(u)' <=> Debt(u)
  BY <1>1 DEF Debt, Misjudged, Wanted
<1> DEFINE before == Missed(u)
           after == Missed(u)'
<1>3. after \subseteq before
  BY <1>1, RecordedGrows DEF Missed
<1>4. IsFiniteSet(before) /\ Cardinality(before) \in Nat
  BY MissedIsFinite DEF MissedIsCountable
<1>5. Cardinality(after) \in Nat
  BY StepType, MissedStaysFinite DEF MissedIsCountable
<1>6. Cardinality(before) + (IF Debt(u) THEN 1 ELSE 0) <= lost[u]
  BY DEF Bounded, Owed
<1> HIDE DEF before, after
<1>7. Cardinality(after) <= Cardinality(before)
  BY <1>3, <1>4, FS_Subset
<1>8. lost[u] \in Nat
  BY DEF TypeInv
<1>9. Cardinality(after) + (IF Debt(u)' THEN 1 ELSE 0) <= lost'[u]
  BY <1>1, <1>2, <1>4, <1>5, <1>6, <1>7, <1>8
<1> QED BY <1>9 DEF Bounded, Owed, after

(* A lost stop costs one access at most: with n stops of a thread lost, at *)
(* most n of its accesses are missing, and with none lost none is, however *)
(* the losses are spread and whatever fails with ENOSYS - the handler      *)
(* finds back by itself, after one syscall.  An entry stop is never lost,  *)
(* and the seccomp stop does not precede the entry stop, as on every       *)
(* kernel since 4.8 (handle_syscall_stop, check_stall).                    *)
THEOREM ALossCostsOneAccess ==
  ASSUME "entry" \notin Losable, ~SeccompFirst
  PROVE  Spec => []LossesAreBounded
<1> DEFINE I == \A t \in Threads : Decoded(t) /\ Judged(t) /\ Bounded(t)
<1>1. Init => I
  <2> SUFFICES ASSUME Init, NEW t \in Threads PROVE Decoded(t) /\ Judged(t) /\ Bounded(t)
    OBVIOUS
  <2>1. /\ thread[t].at = "user" /\ books[t].sc_phase = "unknown" /\ lost[t] = 0
        /\ done[t] = <<>> /\ (~seccomp_mode => thread[t].stopAtExit)
    BY DEF Init
  <2>2. Missed(t) = {}
    BY <2>1 DEF Missed
  <2>3. Cardinality(Missed(t)) = 0
    BY <2>2, FS_EmptySet
  <2>4. ~Debt(t)
    BY <2>1 DEF Debt, Misjudged
  <2>5. Bounded(t)
    BY <2>1, <2>3, <2>4 DEF Bounded, Owed
  <2> QED BY <2>1, <2>5 DEF Decoded, Judged, StopsAtExit
<1>2. Kernel /\ I /\ [Next]_vars => I'
  <2> SUFFICES ASSUME Kernel, I, [Next]_vars PROVE I'
    OBVIOUS
  <2>1. CASE UNCHANGED vars
    <3> SUFFICES ASSUME NEW t \in Threads PROVE Decoded(t)' /\ Judged(t)' /\ Bounded(t)'
      OBVIOUS
    <3>1. Decoded(t)' /\ Judged(t)'
      BY <2>1 DEF vars, Decoded, Judged, StopsAtExit, Wanted, Execed, Number
    <3>2. Missed(t)' = Missed(t)
      BY <2>1 DEF vars, Missed
    <3>3. Debt(t)' <=> Debt(t)
      BY <2>1 DEF vars, Debt, Misjudged, Wanted
    <3>4. (Cardinality(Missed(t)))' = Cardinality(Missed(t))
      BY <3>2
    <3>5. Owed(t)' = Owed(t)
      BY <3>3 DEF Owed
    <3> QED BY <2>1, <3>1, <3>4, <3>5 DEF vars, Bounded
  <2>2. ASSUME NEW t \in Threads, Step(t) PROVE I'
    <3>1. TypeInv /\ \A u \in Threads : KernelInv(u)
      BY DEF Kernel
    <3>2. \A u \in Threads : Decoded(u)' /\ Judged(u)'
      BY <2>2, <3>1, DecodedStep, JudgedStep
    <3>3. Bounded(t)'
      BY <2>2, <3>1, <3>2, BoundedStep
    <3>4. \A u \in Threads \ {t} : Bounded(u)'
      BY <2>2, <3>1, BoundedElsewhere
    <3> QED BY <3>2, <3>3, <3>4
  <2> QED BY <2>1, <2>2, NextIs
<1>3. Kernel /\ I => LossesAreBounded
  <2> SUFFICES ASSUME Kernel, I, NEW t \in Threads
               PROVE  Cardinality(Missed(t)) <= lost[t]
    BY DEF LossesAreBounded
  <2>1. Cardinality(Missed(t)) \in Nat /\ lost[t] \in Nat
    BY MissedIsFinite DEF Kernel, MissedIsCountable, TypeInv
  <2>2. Cardinality(Missed(t)) + Owed(t) <= lost[t] /\ Owed(t) \in {0, 1}
    BY DEF Bounded, Owed
  <2> QED BY <2>1, <2>2
<1> HIDE DEF I
<1> QED BY <1>1, <1>2, <1>3, SpecKernel, PTL DEF Spec
=============================================================================
