SPECIFICATION Spec
CONSTANTS
  Pids = {1, 2, 3}
  Files = {1, 2, 3}
  Commands = {"cc"}
  Questions <- MCQuestions
CHECK_DEADLOCK FALSE
INVARIANTS
  RacesAreExact
  RdepsIsATree
  ImpactIsExact
