SPECIFICATION FfiSpec
CONSTANTS
  None = None
  TimeLimit = {300}
  FileSize = {0, 5000}
  SetSize = {0, 4100, 8192}
  AuxSize = {0, 4100, 8192}
  Slots = {{}, {1, 3, 4}}
  WorkDir = {w1, w2}
  Worker = {0, 1}
  MaxNew = 2
INVARIANTS
  FfiTypeOK
  SizesArePages
  FiltersNumbered
