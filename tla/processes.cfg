SPECIFICATION FairSpec
CONSTANTS
  p1 = p1
  p2 = p2
  Procs = {p1, p2}
  Nobody = Nobody
  Last <- OldAndNew
  Seeds = {p2}
  Workers = {"transcoder"}
  Loops = {"claims", "pool1", "pool2"}
  Main = {"claims"}
  Owner <- Transcoders
  MaxCrashes = 1
INVARIANT MigrationsOnce
INVARIANT ServesCurrentSchema
INVARIANT ClosedLast
PROPERTY StoppedEnds
PROPERTY StartUpEnds
CHECK_DEADLOCK FALSE
