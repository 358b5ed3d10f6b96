CONSTANTS
  b1 = b1
  b2 = b2
  s1 = s1
  s2 = s2
  g1 = g1
  m1 = m1
  v1 = v1
  v2 = v2
  None = None
  Bookings = {b1, b2}
  Slots = {s1, s2}
  At <- MCAt
  Methods = {"free", "cash", "transfer", "gateway"}
  Pages = {g1}
  Staff = {m1}
  Servers = {v1, v2}
  Named = {b1}
  Before = 1
  MaxTime = 3
  MaxCrashes = 1
SPECIFICATION MCSpec
INVARIANTS NoDoubleBooking SettledBeforeNews RemindedOnce
 
