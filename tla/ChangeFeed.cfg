CONSTANTS
  p1 = p1
  p2 = p2
  c1 = c1
  Producers = {p1, p2}
  Clients = {c1}
  MaxRevision = 2
  Budgets = {1, 2}
  Loads <- FeedLoads
SPECIFICATION Spec
CHECK_DEADLOCK FALSE
SYMMETRY Interchange
PROPERTY FollowsLog
