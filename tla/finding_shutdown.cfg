SPECIFICATION Spec
CONSTANTS
  Videos <- OneVideo
  Workers = {w1}
  Users = {"alice"}
  Admins = {}
  Owner <- SameOwner
  Size <- UnitSize
  MaxStorage = 1
  Broken = {}
  SlowTranscode = FALSE
  StalledUpload = FALSE
  MaxCrashes = 0
  MaxStops = 1
  MaxFaults = 0
  MaxLostAcks = 0
  MaxOwnerDeletes = 0
  MaxAdminDeletes = 0
INVARIANT AcceptedNotFailed
