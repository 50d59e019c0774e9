SPECIFICATION Spec
CONSTANTS
  Pids = {1, 2, 3}
  Files = {1, 2}
  Commands = {"cc"}
  Second = 2
  MaxBuckets = 3
  HotReaders = 1
  ManyFailures = 0
  SerialGaps = 1
  Directory <- MCDirectory
  Recordings <- MCRecordings
CHECK_DEADLOCK FALSE
INVARIANTS
  UsersHaveRows
  MarksMatchRows
  RunsAreJoined
  ParallelismIsExact
  ViewersAgree
