SPECIFICATION FairSpec
CONSTANTS
  Videos <- TwoVideos
  Indexers = {i1}
  Free = Free
  Rejected = {}
  SlowIndexer = FALSE
  MaxEdits = 2
  MaxRenames = 0
  MaxHalts = 1
  MaxFaults = 2
INVARIANT NothingForgotten
PROPERTY NoEventLost
PROPERTY Converges
CHECK_DEADLOCK FALSE
