-------------------------- MODULE DependencyGraph --------------------------
(***************************************************************************)
(* The dependency graph the viewers build from a recorded trace            *)
(* (src/src/common/view_helpers.cpp).                                      *)
(*                                                                         *)
(* A trace has process rows and file accesses; its graph says who reads    *)
(* which file and who writes it.  A child that only reads is taken to      *)
(* write what its parent writes, because a shell opens the target of a     *)
(* redirection before it starts the command.  That pass visits the         *)
(* parents by pid, whatever the order they were born in.                   *)
(***************************************************************************)
EXTENDS Integers, Sequences, FiniteSets, SequencesExt, FiniteSetsExt

CONSTANTS Pids,      \* pids of the rows
          Files,     \* files, ordered like their paths
          Commands   \* command names

ASSUME GraphAssumption ==
  Pids \subseteq Nat \ {0} /\ IsFiniteSet(Pids) /\ Files \subseteq Nat

(* FileAccessMode, see types.h: 0 READ, 1 WRITE, 2 RDWR, 3 STAT, 4 ACCESS, *)
(* 5 EXEC, 8 RENAME_DST, 9 READLINK, 10 MKDIR, 12 LINK_DST,                *)
(* 14 SYMLINK_LINK, 17 TRUNCATE, 18 MKNOD; the others are neither.         *)
Modes == 0..20
is_input_mode(m) == m \in {0, 2, 5, 3, 4, 9}
is_output_mode(m) == m \in {1, 2, 8, 12, 14, 17, 18, 10}

(* A ppid need not have a row.  A row whose exit was never recorded ends   *)
(* at 0.                                                                   *)
Row == [ppid : Nat, start : Nat, end : Nat, name : Commands]
Access == [pid : Pids, file : Files, mode : Modes]

Children(procs, p) == {c \in DOMAIN procs : procs[c].ppid = p}
Roots(procs) == {p \in DOMAIN procs : procs[p].ppid \notin DOMAIN procs}

(* A parent started before its child: no process is below itself.          *)
Acyclic(procs) ==
  \A S \in SUBSET DOMAIN procs : S # {} => \E p \in S : procs[p].ppid \notin S

(* The elements of a set, each once, where Before orders them.             *)
InOrder(S, Before(_, _)) ==
  CHOOSE s \in SetToSeqs(S) : \A i, j \in DOMAIN s : i < j => Before(s[i], s[j])

(* Rows come sorted by their start, and in the order of their rowid, the   *)
(* pid, where two started together.                                        *)
ByStart(procs, S) ==
  InOrder(S, LAMBDA a, b : \/ procs[a].start < procs[b].start
                           \/ procs[a].start = procs[b].start /\ a < b)

(* Everything started below p. *)
Descendants(procs, p) ==
  LET grow[S \in SUBSET DOMAIN procs] ==
        LET T == S \cup UNION {Children(procs, q) : q \in S}
        IN  IF T = S THEN S ELSE grow[T]
  IN  grow[Children(procs, p)]

Readers(g, f) == {p \in Pids : <<p, f>> \in g.reads}
Writers(g, f) == {p \in Pids : <<p, f>> \in g.writes}
Outputs(g, p) == {f \in Files : <<p, f>> \in g.writes}
ReadsAny(g, p) == \E f \in Files : <<p, f>> \in g.reads

(* The redirections of one parent. *)
Inherit(g, parent) ==
  [g EXCEPT !.writes = @ \cup
     {c \in Children(g.procs, parent) : Outputs(g, c) = {} /\ ReadsAny(g, c)}
        \X Outputs(g, parent)]

Parents(procs) == {procs[p].ppid : p \in DOMAIN procs}
ParentsInOrder(procs) == InOrder(Parents(procs), <)

build_dependency_graph(procs, accesses) ==
  LET recorded == [procs |-> procs,
                   reads |-> {<<a.pid, a.file>> :
                                a \in {b \in accesses : is_input_mode(b.mode)}},
                   writes |-> {<<a.pid, a.file>> :
                                 a \in {b \in accesses : is_output_mode(b.mode)}}]
  IN  [recorded EXCEPT
         !.writes = FoldLeft(Inherit, recorded, ParentsInOrder(procs)).writes]

(* Who has to run again when one of a set of files changed: whoever reads  *)
(* it, and so on with what these write.                                    *)
ReadersOf(g, F) == UNION {Readers(g, f) : f \in F}
Triggered(g, S) == UNION {ReadersOf(g, Outputs(g, p)) : p \in S}

rebuild_bfs(g, changed) ==
  LET search[affected \in SUBSET Pids] ==
        LET next == affected \cup Triggered(g, affected)
        IN  IF next = affected THEN affected ELSE search[next]
  IN  search[ReadersOf(g, changed)]

(* What running a set of processes again takes; a row without an end, or   *)
(* no row, counts for nothing.                                             *)
Duration(g, p) ==
  IF p \in DOMAIN g.procs /\ g.procs[p].end > g.procs[p].start
  THEN g.procs[p].end - g.procs[p].start ELSE 0
TotalDuration(g, S) == MapThenSumSet(LAMBDA p : Duration(g, p), S)

-----------------------------------------------------------------------------
(* The definition both searches are held against, without any search: the  *)
(* least set of processes that has the readers of the changed files and    *)
(* the readers of its own outputs.                                         *)
ClosedUnder(g, changed, S) ==
  ReadersOf(g, changed) \subseteq S /\ Triggered(g, S) \subseteq S
MustRerun(g, changed) ==
  {p \in Pids : \A S \in SUBSET Pids : ClosedUnder(g, changed, S) => p \in S}
=============================================================================
