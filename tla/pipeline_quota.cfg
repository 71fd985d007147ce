SPECIFICATION Spec
CONSTANTS
  Videos <- TwoVideos
  Workers = {w1}
  Users = {"alice"}
  Admins = {}
  Owner <- SameOwner
  Size <- UnitSize
  MaxStorage = 1
  Broken = {2}
  SlowTranscode = FALSE
  StalledUpload = FALSE
  MaxCrashes = 1
  MaxStops = 0
  MaxFaults = 0
  MaxLostAcks = 0
  MaxOwnerDeletes = 0
  MaxAdminDeletes = 1
INVARIANT QuotaRespected
INVARIANT AcceptedNotFailed
INVARIANT QueuedHasSource
