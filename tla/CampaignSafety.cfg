SPECIFICATION FairSpec
CONSTANTS
  Child = {c1, c2}
  EarlyChild = FALSE
  ReuseOwn = FALSE
  MaxCampaign = 2
  MaxRemove = 2
CHECK_DEADLOCK FALSE
INVARIANTS
  TypeOK
  SnapshotComplete
  BootsOnOwnFiles
PROPERTIES
  RefusalExplained
  StoreSpec
  ChildrenStart
