SPECIFICATION FairSpec
CONSTANTS
  Videos <- OneVideo
  Workers = {w1, w2}
  Users = {"alice"}
  Admins = {}
  Owner <- SameOwner
  Size <- UnitSize
  MaxStorage = 1
  Broken = {}
  SlowTranscode = FALSE
  StalledUpload = FALSE
  MaxCrashes = 2
  MaxStops = 1
  MaxFaults = 2
  MaxLostAcks = 0
  MaxOwnerDeletes = 1
  MaxAdminDeletes = 1
INVARIANT MediaPresent
INVARIANT OneWorkerPerVideo
INVARIANT WithdrawnMediaGone
PROPERTY AcceptedSettles
PROPERTY JobDirsReclaimed
