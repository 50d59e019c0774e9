SPECIFICATION Spec
CONSTANTS
  Tracees = {sh, cc}
  Root = sh
  Terminal = Terminal
  User = User
  NoOne = NoOne
  MaxSignals = 2
  MaxLost = 1
  EarlyAlarm = FALSE
CHECK_DEADLOCK FALSE
INVARIANT StopNeedsRequest
PROPERTIES
  StopIsHeeded
  DrainEnds
  StuckIsKicked
