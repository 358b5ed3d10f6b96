CONSTANTS
  one = one
  two = two
  Requests = {r1, r2}
  Threads = {t1, t2}
  Private = {t1}
  Shown = 2
  Questions = 2
  MaxClock = 4
  LessClock = 3
  Comments = {one, two}
  AuthorOf <- OneAuthor
  Rules = {1, 2}
  Matches <- EachComment
  MaxEdits = 4
  Ads = {one, two}
  Budgets = {1, 2}
  MaxEvents = 4
  Addresses = {x1}
  MaxTokens = 3
  MaxMonths = 2
  wrong = wrong
  Numbers = {one, two, wrong}
  Valid = {one, two}
  NoNumber = NoNumber
  Purposes <- MCPurposes
  Languages = {"en"}
  Own <- MCOwn
  Ids = {one, two}
  NoId = NoId
  Carousels <- MCCarousels
  MaxReviews = 2
SPECIFICATION MCSpec
SYMMETRY Sym
INVARIANTS FlowAnswersOnce  ReadWasShown OneMessagePerRule   WhatsappFollowsMeta
CHECK_DEADLOCK FALSE
