SPECIFICATION Spec
CONSTANTS
  Threads = {t1}
  t1 = t1
  Dirs = {d1, d2}
  d1 = d1
  d2 = d2
  SeccompFirst = FALSE
  Losable = {"exit", "seccomp"}
  MaxCalls = 3
  MaxLost = 2
SYMMETRY DirSymmetry
INVARIANTS
  RecordsAreTrue
  PathsResolve
  LossesAreBounded
