CONSTANTS
  Calls = {r1, r2}
  None = None
  Members = {m1, m2}
  Numbers = {n1}
  Forms = {local, full}
  Targets = {1, 2}
  Usual = 2
  Deltas <- UpAndDown
  MaxChanges = 4
  Orders = {o1, o2}
  Settled = {p1}
  Items = {i1}
  Categories = {c1}
  MaxEvents = 9
  Links = {w1}
  Keys = {k1}
  Happenings = {e1, e2}
  Retries = 2
  DisableAfter = 2
  MaxKeys = 1
  MaxLinks = 1
  RateMax = 2
  MaxSteps = 6
  Briefs = {q1, q2}
  Cost <- MCCost
  Models <- MCModels
  Grants <- MCGrants
  TrialCredits = 2
  MaxGranted = 6
SPECIFICATION MCSpec
SYMMETRY Sym
INVARIANTS CardIsTrue KitchenHearsOnce   
CHECK_DEADLOCK FALSE
