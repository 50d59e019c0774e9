SPECIFICATION FairSpec
CONSTANTS
  Paths = {p1}
  NoPath = NoPath
  MaxQueueEvents = 2
  BatchSize = 2
  CheckpointInterval = 4
  FatalErrors = 2
  Kinds = {"proc", "access", "failed"}
  MaxEvents = 5
  Faults = {"internFails", "internRollsBack", "insertFails", "insertRollsBack",
            "finishFails", "finishRollsBack"}
  MaxFaults = 3
  CanBeKilled = TRUE
INVARIANTS
  LossIsCounted
PROPERTIES
  FatalIsFinal
  BackpressureReleases
  FinalizeEnds
  FatalErrorsEndTrace
