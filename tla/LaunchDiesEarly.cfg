SPECIFICATION FairSpec
CONSTANTS
  Msg = {0, 2686, 2687}
  Fd = {f1, f2}
  NoFd = NoFd
  ConfigSize = 8192
  AgentBitmap = {4096}
  AgentInput = {4096, 12288}
  AuxSize = 8192
  Protect = TRUE
  DiesEarly = TRUE
  MaxNew = 2
  MaxStops = 2
CHECK_DEADLOCK FALSE
PROPERTY
  LaunchReturns
