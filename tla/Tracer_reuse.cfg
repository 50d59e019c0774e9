SPECIFICATION Spec
CONSTANTS
  Pids <- MCPids
  Files = {f1}
  TracerPid <- MCTracerPid
  PidStride = 10
  RootPid = 1
  MaxIncarnations = 4
  MaxWork = 2
  EarlyReports = "never"
  ExitMayBeLost = TRUE
  ResumeMayBeLost = FALSE
  Kills = FALSE
  Signals = FALSE
  ProcsOnly = FALSE
  f1 = f1
INVARIANTS
  OneRowPerProcess
  DeathsAreTheirOwn
  AccessesAreTheirOwn
  DedupLosesNothing
PROPERTIES
  InitialStopSwallowed
