--------------------------------- MODULE Shop ---------------------------------
(***************************************************************************)
(* What a company has beside its books and appointments: loyalty cards, a  *)
(* menu with its orders, events sent to its own servers, and the AI studio *)
(* that writes and draws for it.  They run side by side and share no state. *)
(***************************************************************************)
EXTENDS Integers, FiniteSets

CONSTANTS Calls, None  \* requests to the cards, the menu and the links

CONSTANTS Members, Numbers, Forms, Targets, Usual, Deltas, MaxChanges
VARIABLES settings, member, log, spent, card, syncs, counter, changes, overtaken, doubtful
ASSUME TargetsAssumption == Targets \subseteq Nat \ {0} /\ Usual \in Targets /\ Deltas \subseteq Int
Cards == INSTANCE Wallet WITH Requests <- Calls, events <- log, job <- counter

CONSTANTS Orders, Settled, Items, Categories, MaxEvents
VARIABLES menu, category, required, pay, order, told, paid, desk, clicks, twice, reused, cut
Menu == INSTANCE Catalog WITH Requests <- Calls, Payments <- Settled, job <- desk, events <- clicks
ASSUME NoneAssumption == None \notin Orders \cup Settled \cup Menu!Types

CONSTANTS Links, Keys, Happenings, Retries, DisableAfter, MaxKeys, MaxLinks, RateMax, MaxSteps
VARIABLES key, minute, link, tries, answers, sent, tested, lost, form, steps
ASSUME RetriesAssumption == Retries \in Nat /\ DisableAfter \in Nat \ {0}
Hooks == INSTANCE Webhooks WITH Requests <- Calls, job <- form, Events <- Happenings

CONSTANTS Briefs, Cost, Models, TrialCredits, Grants, MaxGranted
VARIABLES owner, balance, ledger, granted, trial, rows, files, tool, unreturned
AI == INSTANCE Studio WITH Requests <- Briefs, job <- tool, cut <- unreturned
ASSUME BriefsAssumption == IsFiniteSet(Briefs)
ASSUME CostAssumption   == Cost \in [AI!Tools -> Nat \ {0}] /\ TrialCredits \in Nat /\ Grants \subseteq Int

cards  == <<settings, member, log, spent, card, syncs, counter, changes, overtaken, doubtful>>
orders == <<menu, category, required, pay, order, told, paid, desk, clicks, twice, reused, cut>>
hooks  == <<key, minute, link, tries, answers, sent, tested, lost, form, steps>>
studio == <<owner, balance, ledger, granted, trial, rows, files, tool, unreturned>>

ShopInit   == Cards!Init /\ Menu!Init /\ Hooks!Init /\ AI!Init
CardStep   == Cards!Next /\ UNCHANGED <<orders, hooks, studio>>
MenuStep   == Menu!Next  /\ UNCHANGED <<cards, hooks, studio>>
HookStep   == Hooks!Next /\ UNCHANGED <<cards, orders, studio>>
StudioStep == AI!Next    /\ UNCHANGED <<cards, orders, hooks>>
ShopNext   == CardStep \/ MenuStep \/ HookStep \/ StudioStep
ShopSpec   == ShopInit /\ [][ShopNext]_<<cards, orders, hooks, studio>>

\* A card shows what its log adds up to, in the shop and in the phone.
CardIsTrue == Cards!LogExplainsCard /\ Cards!CardShowsMember

\* What the orders promise.
KitchenHearsOnce        == Menu!KitchenHearsOnce
PaymentConfirmsOneOrder == Menu!PaymentConfirmsOneOrder

\* A link that is on works, and each event sent to it has one outcome.
LinksAreServed == Hooks!OnMeansHealthy /\ Hooks!OneOutcome

\* What the AI studio promises.
PaidForWork == AI!PaidForWork
=============================================================================
