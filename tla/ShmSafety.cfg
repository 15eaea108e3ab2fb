SPECIFICATION Spec
CONSTANTS
  p = p
  c = c
  r = r
  q = q
  Thread = {p, c, r, q}
  Collector = {p, q}
  SlotOf <- MCSlotOf
  NoLink = NoLink
  PartFile = PartFile
  PlainFile = PlainFile
  MaxNew = 1
  OneAtATime = TRUE
CHECK_DEADLOCK FALSE
INVARIANTS
  TypeOK
  LiveDirIntact
PROPERTIES
  PanicsExplained
  StoreSpec
