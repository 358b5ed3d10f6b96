CONSTANTS
  s1 = s1
  s2 = s2
  r1 = r1
  k2 = k2
  p1 = p1
  p2 = p2
  Servers = {s1, s2}
  Attempts = {r1, k2}
  Jobs = {k2}
  On <- MCOn
  People = {p1, p2}
  Lists <- MCLists
  Leavers = {p2}
  MaxCrashes = 0
SPECIFICATION MCSpec
INVARIANTS SentOnce
PROPERTIES SendingEndsThen ScheduledStartsThen
