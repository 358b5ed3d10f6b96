------------------------------- MODULE Accounts -------------------------------
(***************************************************************************)
(* Who may come in, what he may use and what it costs: the companies with  *)
(* their owners and users, a user's sessions, the prices, and the services *)
(* a company may use.  They run side by side.  Sessions alone looks at     *)
(* whether a user is disabled; nothing else is shared.                     *)
(***************************************************************************)
EXTENDS Companies

CONSTANTS Tokens, Links, NoToken, NoLink, LinksPerHour, TTL, MaxEvents
VARIABLES user, company, tokens, links, cache, request, panel, shut, lateFill, successors, events
ASSUME TTLAssumption == TTL \in Nat
Session == INSTANCE Sessions WITH job <- request

CONSTANTS Servers, Modules, PriceTags, Rules, RuleLists, Buys, YearlyDiscount, RatesSeen, Fallback,
          PriceTTL, RateTTL, MaxTime, MaxChanges, None
VARIABLES now, config, rates, memory, rateMemory, buy, changes, said, late, blurred
ASSUME PriceTTLAssumption == PriceTTL \in Nat \ {0} /\ RateTTL \in Nat \ {0}
ASSUME TagsAssumption ==
  /\ PriceTags \subseteq Nat /\ PriceTags # {}
  /\ RatesSeen \subseteq Nat /\ Fallback \in Nat /\ YearlyDiscount \in 0..100
ASSUME RulesAssumption ==
  /\ \A d \in Rules : d.pct \in 0..100
  /\ RuleLists \subseteq SUBSET Rules
  /\ \A b \in Buys : b.module \in Modules
Pricing == INSTANCE Prices WITH job <- buy, lateFill <- late, TTL <- PriceTTL

CONSTANTS Services, Graces, AccessTTL, GraceTTL, MaxTicks, MaxEdits
VARIABLES plan, grace, known, answers, ask, switched, redated, torn, lastYes, lastNo, graceAt, clock, edits
ASSUME AccessTTLAssumption == AccessTTL \in Nat \ {0} /\ GraceTTL \in Nat
ASSUME GracesAssumption == Graces \subseteq Nat
Service == INSTANCE Access WITH Modules <- Services, TTL <- AccessTTL, ConfigTTL <- GraceTTL, MaxTime <- MaxTicks, MaxChanges <- MaxEdits,
                                job <- ask, cache <- answers, now <- clock, changes <- edits

sessions == <<user, company, tokens, links, cache, request, panel, shut, lateFill, successors, events>>
prices   == <<now, config, rates, memory, rateMemory, buy, changes, said, late, blurred>>
plans    == <<plan, grace, known, answers, ask, switched, redated, torn, lastYes, lastNo, graceAt, clock, edits>>

AccountsInit == Init /\ Session!Init /\ Pricing!Init /\ Service!Init
FirmStep    == Next         /\ UNCHANGED <<sessions, prices, plans>>
SessionStep == Session!Next /\ UNCHANGED <<vars, prices, plans>>
PriceStep   == Pricing!Next /\ UNCHANGED <<vars, sessions, plans>>
ServiceStep == Service!Next /\ UNCHANGED <<vars, sessions, prices>>
AccountsNext == FirmStep \/ SessionStep \/ PriceStep \/ ServiceStep
AccountsSpec == AccountsInit /\ [][AccountsNext]_<<vars, sessions, prices, plans>>

\* A closed company's pages are closed; a reset closes the sessions, and a link
\* or a token is used once.
SessionsEnd == Session!ClosedIsClosed /\ Session!ResetClosesSessions /\ Session!UsedOnce

\* Prices stay as they were set, and orders are charged by them.
PricesHold == Pricing!PricesKept /\ Pricing!OrderIsFair

\* What is paid for opens, what has ended closes, and what is switched on again
\* runs.
ServicesFollowPlan == Service!AccessFollowsPlan /\ Service!OnAgainRuns
=============================================================================
