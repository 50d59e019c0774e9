SPECIFICATION FairSpec
CONSTANTS
  Pids <- TwoPids
  Files = {f1}
  TracerPid <- MCTracerPid
  PidStride = 10
  RootPid = 1
  MaxIncarnations = 3
  MaxWork = 3
  EarlyReports = "any"
  ExitMayBeLost = TRUE
  ResumeMayBeLost = TRUE
  Kills = TRUE
  Signals = FALSE
  ProcsOnly = FALSE
  f1 = f1
PROPERTIES
  StoppedIsResumed
  TraceEnds
