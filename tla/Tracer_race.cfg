SPECIFICATION Spec
CONSTANTS
  Pids <- MCPids
  Files = {f1}
  TracerPid <- MCTracerPid
  PidStride = 10
  RootPid = 1
  MaxIncarnations = 4
  MaxWork = 2
  EarlyReports = "stop"
  ExitMayBeLost = FALSE
  ResumeMayBeLost = TRUE
  Kills = FALSE
  Signals = TRUE
  ProcsOnly = TRUE
  f1 = f1
INVARIANTS
  DeathsAreRecorded
PROPERTIES
  SignalsReachTracees
