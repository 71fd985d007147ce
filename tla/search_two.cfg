SPECIFICATION FairSpec
CONSTANTS
  Videos <- OneVideo
  Indexers = {i1, i2}
  Free = Free
  Rejected = {}
  SlowIndexer = FALSE
  MaxEdits = 1
  MaxRenames = 1
  MaxHalts = 1
  MaxFaults = 1
PROPERTY NoEventLost
PROPERTY Drains
CHECK_DEADLOCK FALSE
