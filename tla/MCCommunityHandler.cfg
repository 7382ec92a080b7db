\* Two users of two communities and a group, changed, cleaned up and routed to concurrently
CONSTANTS
  u1 = u1
  u2 = u2
  c1 = c1
  c2 = c2
  g = g
  w1 = w1
  w2 = w2
  bad = bad
  Users = {u1, u2}
  Communities = {c1, c2}
  Groups = {g}
  Malformed = bad
  Events <- Posts
  Workers = {w1, w2}
  Callers <- OneEach
  Nobody = nobody
SPECIFICATION FairSpec
INVARIANTS TypeOK MapsAgree RoutedAreMembers StuckOnlyInCircle
PROPERTIES CleanupLeavesNothing CallsReturn
CHECK_DEADLOCK FALSE
