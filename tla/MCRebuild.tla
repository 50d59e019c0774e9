----------------------------- MODULE MCRebuild -----------------------------
(***************************************************************************)
(* Rebuild for TLC: every small trace, in two families.                    *)
(***************************************************************************)
EXTENDS Rebuild

Tracer == 9         \* the ppid of the traced command
READ == 0
WRITE == 1

Forests ==
  {f \in [Pids -> Pids \cup {Tracer}] :
     \A S \in SUBSET Pids : S # {} => \E p \in S : f[p] \notin S}

(* Process 2 never ended; ends grow with the pid otherwise.                *)
Rows(forest, names) ==
  [p \in Pids |-> [ppid |-> forest[p], start |-> p,
                   end |-> IF p = 2 THEN 0 ELSE 2 * p, name |-> names[p]]]

Accesses(reads, writes) ==
  {[pid |-> r[1], file |-> r[2], mode |-> READ] : r \in reads}
    \cup {[pid |-> w[1], file |-> w[2], mode |-> WRITE] : w \in writes}

(* Every chain: a process reads at most one file and writes at most one.   *)
(* File 1 changed.                                                         *)
OneEach(f) == {<<p, f[p]>> : p \in {q \in Pids : f[q] # 0}}
Chains ==
  {[procs |-> Rows(forest, [p \in Pids |-> "cc"]),
    accesses |-> Accesses(OneEach(reads), OneEach(writes)),
    args |-> {{1}}, collapse |-> {}] :
     forest \in {f \in Forests : f[1] = Tracer \/ f[2] = 1},
     reads \in [Pids -> Files \cup {0}], writes \in [Pids -> Files \cup {0}]}

(* Every affected set, every tree, every choice of what to collapse:       *)
(* readers of file 1, writers of file 2, which nobody reads.               *)
Trees ==
  {[procs |-> Rows(forest, names),
    accesses |-> Accesses(readers \X {1}, writers \X {2}),
    args |-> {{1, 2}}, collapse |-> {"make"}] :
     forest \in Forests, names \in [Pids -> {"cc", "make"}],
     readers \in SUBSET Pids, writers \in SUBSET Pids}

MCQuestions == [chains |-> Chains, trees |-> Trees]
=============================================================================
