SPECIFICATION Spec
CONSTANTS
  Paths = {p1}
  NoPath = NoPath
  MaxQueueEvents = 2
  BatchSize = 2
  CheckpointInterval = 4
  FatalErrors = 2
  Kinds = {"proc"}
  MaxEvents = 4
  Faults = {"commitBusy", "commitRollsBack"}
  MaxFaults = 1
  CanBeKilled = FALSE
INVARIANTS
  LossIsCounted
