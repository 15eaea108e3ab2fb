SPECIFICATION FairSpec
CONSTANTS
  p = p
  c = c
  r = r
  q = q
  Thread = {c, q}
  Collector = {q}
  SlotOf <- MCSlotOf
  NoLink = NoLink
  PartFile = PartFile
  PlainFile = PlainFile
  MaxNew = 2
  OneAtATime = FALSE
CHECK_DEADLOCK FALSE
PROPERTY
  CallsReturn
