CONSTANTS
  s1 = s1
  s2 = s2
  a1 = a1
  a2 = a2
  Servers = {s1, s2}
  Schedulers = {s2}
  Desks = {s1}
  Accounts = {a1, a2}
  Flaky = {a1, a2}
SPECIFICATION Spec
SYMMETRY EitherAccount
INVARIANTS PublishedOnce ApprovedText
