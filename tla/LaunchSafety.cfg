SPECIFICATION FairSession
CONSTANTS
  Msg = {0, 2686, 2687}
  Fd = {f1, f2}
  NoFd = NoFd
  ConfigSize = 8192
  AgentBitmap = {4096}
  AgentInput = {4096, 12288}
  AuxSize = 8192
  Protect = TRUE
  DiesEarly = FALSE
  MaxNew = 2
  MaxStops = 2
  Input = {4092, 12284, 12289}
  Foreign = {2686}
CHECK_DEADLOCK FALSE
INVARIANTS
  SessionTypeOK
  NoStrayQemu
  BootHprintfInOrder
  ProtectedFromAttach
  BuffersMapped
  ClosedOnlyIfHandedTwice
  InputDelivered
  MessagesReadable
PROPERTIES
  PanicsExplained
  OkStartsExec
  LaunchReturns
