SPECIFICATION FairSpec
CONSTANTS
  Page = {1, 2, 3}
  NoPage = NoPage
  Undumpable = {1, 2}
  Msg = {m1}
  Option = {timeout}
  Timeout = timeout
  Value = {0}
  MaxHprintf = 2
  HprintfInDump = TRUE
INVARIANTS
  AskedOnce
PROPERTIES
  NoVerdictAfterIoError
  ExecReturnsUnlessPagesAlternate
