CONSTANTS
  i1 = i1
  i2 = i2
  r1 = r1
  r2 = r2
  r3 = r3
  r4 = r4
  r5 = r5
  o1 = o1
  Items = {i1, i2}
  Orders = {o1}
  Requests = {r1, r2, r3, r4, r5}
  Initial <- MCInitial
  Deltas <- MCDeltas
  Amounts = {1}
  Baskets <- MCBaskets
SYMMETRY MCSymmetry
SPECIFICATION Spec
INVARIANTS NoNegativeStock LedgerExplains
CHECK_DEADLOCK FALSE
