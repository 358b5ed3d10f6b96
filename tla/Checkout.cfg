CONSTANTS
  o1 = o1
  o2 = o2
  g1 = g1
  w1 = w1
  w2 = w2
  ai = ai
  crm = crm
  None = None
  Modules = {ai, crm}
  ModulesOf <- MCModulesOf
  Orders = {o1, o2}
  ExtraOrders = {o2}
  Pages = {g1}
  Workers = {w1}
  Named = {o1}
  MaxCrashes = 1
SPECIFICATION MCSpec
INVARIANTS AppliedOnce  
 
