SPECIFICATION FairSpec
CONSTANTS
  c1 = c1
  r1 = r1
  r2 = r2
  Users = {1}
  Clients = {c1}
  Requests = {r1, r2}
  Images = {"a", "b"}
  Limit <- SmallLimits
  Window = 2
  AccessTTL = 1
  RefreshTTL = 2
  MaxCounters = 1
INVARIANT TransportsAgree
INVARIANT CallsFitTables
INVARIANT AvatarServed
INVARIANT BudgetHolds
PROPERTY LockoutEnds
