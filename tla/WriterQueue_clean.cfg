SPECIFICATION Spec
CONSTANTS
  Paths = {p1, p2}
  NoPath = NoPath
  MaxQueueEvents = 2
  BatchSize = 2
  CheckpointInterval = 4
  FatalErrors = 2
  Kinds = {"access", "failed"}
  MaxEvents = 5
  Faults = {}
  MaxFaults = 0
  CanBeKilled = TRUE
SYMMETRY PathSymmetry
INVARIANTS
  TypeOK
  FifoOrder
  RowsInOrder
  BoundedMemory
  SingleOwner
  InternedIdsResolve
PROPERTIES
  ImplementsEventLog
