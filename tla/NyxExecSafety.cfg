SPECIFICATION Spec
CONSTANTS
  Page = {1, 2}
  NoPage = NoPage
  Undumpable = {2}
  Msg = {m1, m2}
  Option = {timeout, reload}
  Timeout = timeout
  Value = {0, 1}
  MaxHprintf = 2
  HprintfInDump = FALSE
INVARIANTS
  TypeOK
  ExclusiveAux
  GiveUpAfterAttempt
  RunsMatchRequests
  HprintfInOrder
  AppliedInForce
PROPERTIES
  ServiceSpec
