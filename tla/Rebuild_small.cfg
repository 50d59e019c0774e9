SPECIFICATION Spec
CONSTANTS
  Pids = {1, 2, 3}
  Files = {1, 2, 3}
  Commands = {"cc", "make"}
  Questions <- MCQuestions
CHECK_DEADLOCK FALSE
INVARIANTS
  RebuildIsExact
  NothingIsForgotten
