SPECIFICATION Spec
CONSTANTS
  u1 = u1
  v1 = v1
  v2 = v2
  s1 = s1
  s2 = s2
  Users = {u1}
  Videos = {v1, v2}
  ShareIds = {i1}
  Sessions = {s1, s2}
  Viewer <- AllByFirst
  Watched <- AllOfFirst
  Requests = {r1, r2}
  None = None
  MaxRequests = 4
  Moderated = {v2}
  CoinStart = 3
  PerCoin = 2
  DailyLimit <- SmallLimits
  MinWatch = 1
  Interval = 2
  DailyViews = 1
  DayLength = 4
  MaxTime = 4
SYMMETRY RequestSymmetry
INVARIANT CoinsConserved
INVARIANT DailyCapped
INVARIANT ExperienceAccounted
INVARIANT EventsCounted
INVARIANT ViewsSpaced
INVARIANT OnlySharesDeadlock
PROPERTY ServedAtOnce
