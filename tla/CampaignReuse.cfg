SPECIFICATION Spec
CONSTANTS
  Child = {c1}
  EarlyChild = FALSE
  ReuseOwn = TRUE
  MaxCampaign = 2
  MaxRemove = 0
CHECK_DEADLOCK FALSE
INVARIANT
  ReusedSnapshotThere
