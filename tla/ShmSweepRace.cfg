SPECIFICATION Spec
CONSTANTS
  p = p
  c = c
  r = r
  q = q
  Thread = {c, q}
  Collector = {q}
  SlotOf <- MCSlotOf
  NoLink = NoLink
  PartFile = PartFile
  PlainFile = PlainFile
  MaxNew = 1
  OneAtATime = TRUE
CHECK_DEADLOCK FALSE
INVARIANT
  SweepsOnlyOrphans
