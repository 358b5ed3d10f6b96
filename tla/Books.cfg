CONSTANTS
  Requests = {r1, r2}
  Invoices = {i1}
  Payments = {p1, p2}
  Bills = {b1}
  Subtotals = {20}
  Amounts = {5, 8}
  Manual = {"1000", "1010"}
  Days = {1, 2}
  NoDoc = NoDoc
  MaxRequests = 5
SPECIFICATION Spec
INVARIANTS ReportsHold EntriesExplained
SYMMETRY Sym
CHECK_DEADLOCK FALSE
