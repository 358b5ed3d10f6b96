CONSTANTS
  Requests = {r1, r2}
  Firms = {c1, c2}
  Agency = agency
  Users = {u1, u2, u3}
  First = u1
  Home = c1
  Mail = e1
  Emails = {e1, e2}
  Nobody = Nobody
  NoFirm = NoFirm
  NoEmail = NoEmail
  MaxRequests = 3
  Tokens = {t1, t2, t3}
  Links = {l1}
  NoToken = NoToken
  NoLink = NoLink
  LinksPerHour = 1
  TTL = 1
  MaxEvents = 2
  Servers = {s1, s2}
  Modules = {"erp", "ai"}
  PriceTags = {1, 2}
  Rules <- MCRules
  RuleLists <- MCLists
  Buys <- MCBuys
  YearlyDiscount = 20
  RatesSeen = {3}
  Fallback = 4
  PriceTTL = 2
  RateTTL = 1
  MaxTime = 3
  LessTime = 2
  MaxChanges = 2
  None = None
  Services = {"erp"}
  Graces = {0, 1}
  AccessTTL = 2
  GraceTTL = 1
  MaxTicks = 2
  MaxEdits = 3
SPECIFICATION MCSpec
INVARIANTS   SessionsEnd PricesHold ServicesFollowPlan
SYMMETRY Sym
CHECK_DEADLOCK FALSE
