SPECIFICATION Spec
CONSTANTS
  Videos <- OneVideo
  Workers = {w1, w2}
  Users = {"alice"}
  Admins = {}
  Owner <- SameOwner
  Size <- UnitSize
  MaxStorage = 1
  Broken = {}
  SlowTranscode = TRUE
  StalledUpload = TRUE
  MaxCrashes = 1
  MaxStops = 1
  MaxFaults = 1
  MaxLostAcks = 1
  MaxOwnerDeletes = 1
  MaxAdminDeletes = 0
INVARIANT SubmissionDecides
PROPERTY RefinesLifecycle
SYMMETRY WorkerSymmetry
