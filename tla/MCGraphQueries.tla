--------------------------- MODULE MCGraphQueries ---------------------------
(***************************************************************************)
(* GraphQueries for TLC: a family of small traces for each question.       *)
(***************************************************************************)
EXTENDS GraphQueries

Tracer == 9         \* the ppid of the traced command
READ == 0
WRITE == 1
RDWR == 2

Forests ==
  {f \in [Pids -> Pids \cup {Tracer}] :
     \A S \in SUBSET Pids : S # {} => \E p \in S : f[p] \notin S}

Rows(forest, lives) ==
  [p \in Pids |-> [ppid |-> forest[p], start |-> lives[p][1], end |-> lives[p][2],
                   name |-> CHOOSE c \in Commands : TRUE]]

Question(kind, file, depth, top, deadline) ==
  [kind |-> kind, file |-> file, depth |-> depth, top |-> top, deadline |-> deadline]

(* Every tree, lives that overlap, touch, are apart or never ended, and    *)
(* every use of one file; process 1 writes it.                             *)
Lives == {<<1, 4>>, <<2, 5>>, <<4, 6>>, <<3, 0>>}
Races ==
  {[procs |-> Rows(forest, lives),
    accesses |-> {[pid |-> 1, file |-> 1, mode |-> WRITE], [pid |-> 1, file |-> 2, mode |-> RDWR]}
      \cup {[pid |-> p, file |-> 1, mode |-> uses[p]] : p \in Pids \ {1}}
      \cup {[pid |-> p, file |-> 2, mode |-> WRITE] : p \in Pids \ {1}},
    ask |-> Question("races", 0, 0, 0, TRUE)] :
     forest \in Forests, lives \in [Pids -> Lives], uses \in [Pids \ {1} -> {READ, WRITE}]}

(* A process reads one file and writes any of them. *)
Makes(reads, writes) ==
  {[pid |-> p, file |-> reads[p], mode |-> READ] : p \in Pids}
    \cup {[pid |-> w[1], file |-> w[2], mode |-> WRITE] :
            w \in {x \in Pids \X Files : x[2] \in writes[x[1]]}}
Flat(ends) == Rows([p \in Pids |-> Tracer], [p \in Pids |-> <<0, ends[p]>>])

Rdeps ==
  {[procs |-> Flat([p \in Pids |-> p]), accesses |-> Makes(reads, writes),
    ask |-> Question("rdeps", 1, depth, 0, FALSE)] :
     depth \in {1, 3}, reads \in [Pids -> Files], writes \in [Pids -> {{}, {1}, {2}, {3}, {2, 3}}]}

Impact ==
  {[procs |-> Flat(ends), accesses |-> Makes(reads, [p \in Pids |-> {writes[p]} \ {0}]),
    ask |-> Question("impact", 0, 0, top, TRUE)] :
     top \in 1..2, reads \in [Pids -> Files], writes \in [Pids -> Files \cup {0}],
     ends \in [Pids -> {1, 3}]}

MCQuestions == [races |-> Races, rdeps |-> Rdeps, impact |-> Impact]
=============================================================================
