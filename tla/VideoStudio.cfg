CONSTANTS
  j1 = j1
  j2 = j2
  c1 = c1
  p1 = p1
  p2 = p2
  Jobs = {j1, j2}
  Polls = {c1}
  Procs = {p1, p2}
  Cost = 2
  MaxRunning = 2
  Unlimited = FALSE
  MaxCrashes = 1
  GrantSizes <- Grants
  MaxGranted = 4
SPECIFICATION FairSpec
INVARIANTS CreditsAccounted
PROPERTIES HoldsCredits EveryVideoCloses
