SPECIFICATION Spec
CONSTANTS
  Child = {c1}
  EarlyChild = TRUE
  ReuseOwn = FALSE
  MaxCampaign = 2
  MaxRemove = 0
CHECK_DEADLOCK FALSE
INVARIANT
  SnapshotComplete
