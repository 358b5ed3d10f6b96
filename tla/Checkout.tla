------------------------------- MODULE Checkout -------------------------------
(***************************************************************************)
(* Subscription orders of one company, from the order to its activation.   *)
(*                                                                         *)
(* An order is paid at the gateway (MyFatoorah).  Three parties learn of   *)
(* it, each on its own: the page the customer returns to (the public       *)
(* status route), the payment-sync job and the super admin.  All of them   *)
(* end in activateSubscriptionOrder, which adds the order's modules and    *)
(* included AI credits to the company or, for an EXTRA_COMPANY order,      *)
(* creates the new company.  A step is what happens between two awaits.    *)
(*                                                                         *)
(* Time is counted in billing periods that do not elapse: expiry[m] is the *)
(* number of periods module m is paid ahead.                               *)
(***************************************************************************)
EXTENDS Integers, FiniteSets

CONSTANTS Orders,
          ExtraOrders,   \* those whose orderType is EXTRA_COMPANY
          Modules,
          ModulesOf,     \* ModulesOf[o]: order.selectedModules
          Pages,         \* customers' pages that call the status route
          Workers,       \* the payment-sync job and the super admin's requests
          Named,         \* orders whose payment the gateway answers with its invoice
          None,
          MaxCrashes

Actors == Pages \cup Workers
Services == Orders \ ExtraOrders

ASSUME OrdersAssumption == ExtraOrders \subseteq Orders /\ None \notin Orders
ASSUME ModulesAssumption == ModulesOf \in [Orders -> SUBSET Modules]
ASSUME ActorsAssumption == Pages \cap Workers = {}
ASSUME BoundsAssumption == Named \subseteq Orders /\ MaxCrashes \in Nat

VARIABLES
  status,     \* status[o]: subscriptionOrder.status, "absent" before it exists
  invoices,   \* orders whose row has a myFatoorahInvoiceId
  payRef,     \* payRef[o]: order.myFatoorahPaymentId (o's own payment is o)
  paid,       \* invoices paid at the gateway
  subscribed, \* tenant.subscribedModules
  expiry,     \* tenant.moduleExpirations
  applied,    \* applied[o]: how often o's modules and credits were added
  companies,  \* companies[o]: companies created for the extra order o
  pc, ord,    \* where each actor stands, and the order it is handling
  seen,       \* seen[a]: order.status as a read it
  ref,        \* ref[a]: the paymentId in the page's query, or None
  next,       \* next[a]: merged modules and expirations computed by a
  byAdmin,    \* orders the super admin asked to activate
  reopened,   \* settled orders that a page set back to PAID
  crashes

orders == <<status, invoices, payRef>>
tenant == <<subscribed, expiry, applied, companies>>
local  == <<pc, ord, seen, ref, next>>
notes  == <<byAdmin, reopened, crashes>>
vars   == <<status, invoices, payRef, paid, subscribed, expiry, applied, companies,
            pc, ord, seen, ref, next, byAdmin, reopened, crashes>>

Open     == {"PENDING", "PAID"}
Settled  == {"ACTIVATED", "CANCELLED"}
Statuses == {"absent", "PENDING", "PAID", "ACTIVATED", "CANCELLED"}
Places   == {"idle", "askPayment", "checkReuse", "markPaid", "sync", "askInvoice",
             "markPaidIf", "activate", "commit", "create", "configure"}
Nothing  == [modules |-> {}, expiry |-> [m \in Modules |-> 0]]

Init ==
  /\ status = [o \in Orders |-> "absent"] /\ invoices = {} /\ paid = {}
  /\ payRef = [o \in Orders |-> None]
  /\ subscribed = {} /\ expiry = [m \in Modules |-> 0]
  /\ applied = [o \in Orders |-> 0] /\ companies = [o \in Orders |-> 0]
  /\ pc = [a \in Actors |-> "idle"] /\ ord = [a \in Actors |-> None]
  /\ seen = [a \in Actors |-> "absent"] /\ ref = [a \in Actors |-> None]
  /\ next = [a \in Actors |-> Nothing]
  /\ byAdmin = {} /\ reopened = {} /\ crashes = 0

Goto(a, place) == pc' = [pc EXCEPT ![a] = place]
\* The actor has answered: it forgets what it read.
Return(a) ==
  /\ Goto(a, "idle")
  /\ ord' = [ord EXCEPT ![a] = None] /\ seen' = [seen EXCEPT ![a] = "absent"]
  /\ ref' = [ref EXCEPT ![a] = None] /\ next' = [next EXCEPT ![a] = Nothing]
Stay(a, place) == Goto(a, place) /\ UNCHANGED <<ord, seen, ref, next>>

-----------------------------------------------------------------------------
(* The customer.                                                           *)

\* POST /orders and /extra-company-orders: the row first, then the gateway.
CreateOrder(o) ==
  /\ status[o] = "absent"
  /\ status' = [status EXCEPT ![o] = "PENDING"]
  /\ UNCHANGED <<invoices, payRef, paid, tenant, local, notes>>

\* The gateway made an invoice: it is stored and the customer gets its link.
\* When it did not, the order stays PENDING without one.
AttachInvoice(o) ==
  /\ status[o] # "absent" /\ o \notin invoices
  /\ invoices' = invoices \cup {o}
  /\ UNCHANGED <<status, payRef, paid, tenant, local, notes>>

Pay(o) ==
  /\ o \in invoices /\ o \notin paid
  /\ paid' = paid \cup {o}
  /\ UNCHANGED <<orders, tenant, local, notes>>

-----------------------------------------------------------------------------
(* GET /orders/:id/status, the page the customer returns to.               *)

\* With a payment id p in its query when the customer comes from the gateway.
OpenPage(a, o, p) ==
  /\ a \in Pages /\ pc[a] = "idle" /\ status[o] \in Open
  /\ p = None \/ (p \in paid /\ o \in invoices)
  /\ ord' = [ord EXCEPT ![a] = o] /\ ref' = [ref EXCEPT ![a] = p]
  /\ Goto(a, IF status[o] = "PENDING" /\ p # None THEN "askPayment" ELSE "sync")
  /\ UNCHANGED <<orders, paid, tenant, seen, next, notes>>

\* checkMyFatoorahPaymentStatus: paid, or no clear answer.
AskPayment(a) ==
  /\ pc[a] = "askPayment"
  /\ Stay(a, "checkReuse") \/ Stay(a, "sync")
  /\ UNCHANGED <<orders, paid, tenant, notes>>

MatchIgnored(a) == "unknown"                               \* mutant
Match(a) ==
  IF ref[a] \in Named /\ ord[a] \in invoices
  THEN IF ref[a] = ord[a] THEN "match" ELSE "mismatch"
  ELSE "unknown"
Reused(a) == \E o \in Orders \ {ord[a]} : payRef[o] = ref[a]

CheckReuse(a) ==
  /\ pc[a] = "checkReuse"
  /\ Stay(a, IF Match(a) # "mismatch" /\ ~Reused(a) THEN "markPaid" ELSE "sync")
  /\ UNCHANGED <<orders, paid, tenant, notes>>

\* An update by id: the status read before the gateway was asked is not checked
\* again.  An unknown invoice is activated only if the amount matches.
MarkPaid(a) ==
  /\ pc[a] = "markPaid"
  /\ status' = [status EXCEPT ![ord[a]] = "PAID"]
  /\ payRef' = [payRef EXCEPT ![ord[a]] = ref[a]]
  /\ \/ Stay(a, "activate")
     \/ Match(a) = "unknown" /\ Return(a)
  /\ reopened' = IF status[ord[a]] \in Settled THEN reopened \cup {ord[a]} ELSE reopened
  /\ UNCHANGED <<invoices, paid, tenant, byAdmin, crashes>>

-----------------------------------------------------------------------------
(* syncOrderPayment: the job, "Check payment", and the page without an id. *)

StartSync(a, o) ==
  /\ a \in Workers /\ pc[a] = "idle" /\ o \in invoices
  /\ ord' = [ord EXCEPT ![a] = o] /\ Goto(a, "sync")
  /\ UNCHANGED <<orders, paid, tenant, seen, ref, next, notes>>

SyncablePending(s) == s = "PENDING"                        \* mutant
Syncable(s) == s \in Open

Sync(a) ==
  /\ pc[a] = "sync"
  /\ IF ord[a] \in invoices /\ Syncable(status[ord[a]])
     THEN /\ seen' = [seen EXCEPT ![a] = status[ord[a]]]
          /\ Goto(a, "askInvoice") /\ UNCHANGED <<ord, ref, next>>
     ELSE Return(a)
  /\ UNCHANGED <<orders, paid, tenant, notes>>

InvoiceTrusted(a) ==                                       \* mutant
  /\ pc[a] = "askInvoice"
  /\ Stay(a, IF seen[a] = "PENDING" THEN "markPaidIf" ELSE "activate")
  /\ UNCHANGED <<orders, paid, tenant, notes>>
InvoicePaid(a) ==
  /\ pc[a] = "askInvoice" /\ ord[a] \in paid
  /\ Stay(a, IF seen[a] = "PENDING" THEN "markPaidIf" ELSE "activate")
  /\ UNCHANGED <<orders, paid, tenant, notes>>

\* Not paid yet, the gateway does not answer, or answers about another invoice.
InvoiceUnclear(a) ==
  /\ pc[a] = "askInvoice"
  /\ Return(a)
  /\ UNCHANGED <<orders, paid, tenant, notes>>

MarkPaidIf(a) ==
  /\ pc[a] = "markPaidIf"
  /\ IF status[ord[a]] = "PENDING"
     THEN /\ status' = [status EXCEPT ![ord[a]] = "PAID"]
          /\ payRef' \in {payRef, [payRef EXCEPT ![ord[a]] = ord[a]]}
     ELSE UNCHANGED <<status, payRef>>
  /\ Stay(a, "activate")
  /\ UNCHANGED <<invoices, paid, tenant, notes>>

-----------------------------------------------------------------------------
(* activateSubscriptionOrder.                                              *)

\* The super admin's button.
AskActivation(a, o) ==
  /\ a \in Workers /\ pc[a] = "idle" /\ status[o] # "absent"
  /\ ord' = [ord EXCEPT ![a] = o] /\ Goto(a, "activate")
  /\ byAdmin' = byAdmin \cup {o}
  /\ UNCHANGED <<orders, paid, tenant, seen, ref, next, reopened, crashes>>

\* A module still running is extended from its own expiry, a new one from now.
Merge(o) ==
  [modules |-> subscribed \cup ModulesOf[o],
   expiry  |-> [m \in Modules |-> IF m \in ModulesOf[o] THEN expiry[m] + 1 ELSE expiry[m]]]

\* The order and its company are read, and the new expirations computed.
ReadOrder(a) ==
  /\ pc[a] = "activate"
  /\ IF status[ord[a]] \notin Open THEN Return(a)
     ELSE /\ next' = [next EXCEPT ![a] = Merge(ord[a])]
          /\ Goto(a, "commit") /\ UNCHANGED <<ord, seen, ref>>
  /\ UNCHANGED <<orders, paid, tenant, notes>>

ClaimsAlways(o) == status[o] # "CANCELLED"                 \* mutant
Claims(o) == status[o] \in Open

\* One transaction: the claim, the modules, the credits.
Commit(a) ==
  /\ pc[a] = "commit" /\ ord[a] \in Services
  /\ IF Claims(ord[a])
     THEN /\ status' = [status EXCEPT ![ord[a]] = "ACTIVATED"]
          /\ subscribed' = next[a].modules /\ expiry' = next[a].expiry
          /\ applied' = [applied EXCEPT ![ord[a]] = @ + 1]
     ELSE UNCHANGED <<status, subscribed, expiry, applied>>
  /\ Return(a)
  /\ UNCHANGED <<invoices, payRef, paid, companies, notes>>

\* An extra company: the claim, then the company, then its modules and credits.
Claim(a) ==
  /\ pc[a] = "commit" /\ ord[a] \in ExtraOrders
  /\ IF Claims(ord[a])
     THEN status' = [status EXCEPT ![ord[a]] = "ACTIVATED"] /\ Stay(a, "create")
     ELSE UNCHANGED status /\ Return(a)
  /\ UNCHANGED <<invoices, payRef, paid, tenant, notes>>

CreateCompany(a) ==
  /\ pc[a] = "create"
  /\ companies' = [companies EXCEPT ![ord[a]] = @ + 1]
  /\ IF ModulesOf[ord[a]] = {} THEN Return(a) ELSE Stay(a, "configure")
  /\ UNCHANGED <<orders, paid, subscribed, expiry, applied, notes>>

Configure(a) ==
  /\ pc[a] = "configure"
  /\ applied' = [applied EXCEPT ![ord[a]] = @ + 1]
  /\ Return(a)
  /\ UNCHANGED <<orders, paid, subscribed, expiry, companies, notes>>

-----------------------------------------------------------------------------
\* The super admin's cancel: an update by id, whatever the status.
Cancel(o) ==
  /\ status[o] # "absent"
  /\ status' = [status EXCEPT ![o] = "CANCELLED"]
  /\ UNCHANGED <<invoices, payRef, paid, tenant, local, notes>>

\* The process restarts in the middle of a's work, or one of its calls throws.
Crash(a) ==
  /\ crashes < MaxCrashes /\ pc[a] # "idle"
  /\ crashes' = crashes + 1
  /\ Return(a)
  /\ UNCHANGED <<orders, paid, tenant, byAdmin, reopened>>

Customer(o) == CreateOrder(o) \/ AttachInvoice(o) \/ Pay(o)
Page(a)     == AskPayment(a) \/ CheckReuse(a) \/ MarkPaid(a)
SyncStep(a) == Sync(a) \/ InvoicePaid(a) \/ InvoiceUnclear(a) \/ MarkPaidIf(a)
Activation(a) == ReadOrder(a) \/ Commit(a) \/ Claim(a) \/ CreateCompany(a) \/ Configure(a)

Next ==
  \/ \E o \in Orders : Customer(o) \/ Cancel(o)
  \/ \E a \in Actors : Page(a) \/ SyncStep(a) \/ Activation(a) \/ Crash(a)
  \/ \E a \in Actors, o \in Orders : StartSync(a, o) \/ AskActivation(a, o)
                                     \/ \E p \in Orders \cup {None} : OpenPage(a, o, p)

Spec == Init /\ [][Next]_vars

\* The job asks about each open order again and again; the gateway, asked often
\* enough about a paid invoice, says so; and node runs what is ready.
Fairness ==
  /\ \A a \in Actors : /\ WF_vars(Page(a) \/ SyncStep(a) \/ Activation(a))
                       /\ SF_vars(InvoicePaid(a))
  /\ \A a \in Workers, o \in Orders : SF_vars(StartSync(a, o))
FairSpec == Spec /\ Fairness

-----------------------------------------------------------------------------
(* Properties.                                                             *)

RowsOK ==
  /\ status \in [Orders -> Statuses] /\ invoices \subseteq Orders /\ paid \subseteq Orders
  /\ payRef \in [Orders -> Orders \cup {None}]
  /\ subscribed \subseteq Modules /\ expiry \in [Modules -> Nat]
  /\ applied \in [Orders -> Nat] /\ companies \in [Orders -> Nat]
  /\ byAdmin \subseteq Orders /\ reopened \subseteq Orders /\ crashes \in Nat
LocalOK ==
  /\ pc \in [Actors -> Places] /\ ord \in [Actors -> Orders \cup {None}]
  /\ seen \in [Actors -> Statuses] /\ ref \in [Actors -> Orders \cup {None}]
  /\ next \in [Actors -> [modules : SUBSET Modules, expiry : [Modules -> Nat]]]
  /\ \A a \in Actors : pc[a] # "idle" => ord[a] \in Orders
TypeOK == RowsOK /\ LocalOK

\* An order takes effect at most once, however the page, the job and the super
\* admin overlap, and a company ordered once is created once; only a page that
\* reopens a settled order can break that.
AppliedOnce == \A o \in Orders \ reopened : applied[o] <= 1 /\ companies[o] <= 1

\* "The lock guarantees the credits are added only once, even if activation is
\* called twice at the same moment."
AppliedOnceAlways == \A o \in Orders : applied[o] <= 1 /\ companies[o] <= 1

\* Nobody gets a service for nothing: what took effect was paid at the gateway,
\* or asked for by the super admin, or marked with a payment whose answer names
\* no invoice and that some order did make.
Entitled(o) == o \in paid \cup byAdmin \/ payRef[o] \in paid \ Named
PaidOrAsked == \A o \in Orders : applied[o] > 0 \/ companies[o] > 0 => Entitled(o)

\* A payment whose answer names its invoice is never counted for two orders.
PaymentUsedOnce ==
  \A o1, o2 \in Orders : payRef[o1] \in Named /\ payRef[o1] = payRef[o2] => o1 = o2

\* A cancelled order stays cancelled, unless a page reopens it.
CancelledStays ==
  [][\A o \in Orders : status[o] = "CANCELLED" =>
       status'[o] = "CANCELLED" \/ o \in reopened']_status

\* The inductive invariants behind them.  PayInv: an actor on its way to
\* activate an order has found it paid, or was asked to.  ClaimInv: until a
\* page reopens it, an order that took effect is settled, and an extra order
\* being made is in the hands of one actor.
PageWork   == {"askPayment", "checkReuse", "markPaid"}
Activating == {"markPaidIf", "activate", "commit", "create", "configure"}
PayInv ==
  /\ \A o \in Orders : status[o] = "PAID" \/ applied[o] > 0 \/ companies[o] > 0 => Entitled(o)
  /\ \A a \in Actors :
       /\ pc[a] \in Activating => Entitled(ord[a])
       /\ pc[a] = "markPaidIf" => ord[a] \in paid
       /\ pc[a] \in PageWork => ref[a] \in paid /\ ord[a] \in invoices
       /\ pc[a] = "markPaid" => ref[a] = ord[a] \/ ref[a] \notin Named
       /\ pc[a] = "askInvoice" /\ seen[a] = "PAID" => Entitled(ord[a])

EffectsSettled ==
  \A o \in Orders \ reopened :
    /\ applied[o] \in {0, 1} /\ companies[o] \in {0, 1}
    /\ applied[o] > 0 \/ companies[o] > 0 => status[o] \in Settled
Making == {a \in Actors : pc[a] \in {"create", "configure"} /\ ord[a] \notin reopened}
MakingClaimed ==
  \A a \in Making :
    /\ ord[a] \in ExtraOrders /\ status[ord[a]] \in Settled
    /\ applied[ord[a]] = 0 /\ (pc[a] = "create" => companies[ord[a]] = 0)
MakingAlone == \A a, b \in Making : ord[a] = ord[b] => a = b
ClaimInv == EffectsSettled /\ MakingClaimed /\ MakingAlone

\* A paid order is activated in the end, though the customer never comes back
\* and processes restart, unless the super admin cancels it.
PaidIsActivated ==
  \A o \in Orders : (o \in paid /\ status[o] \in Open) ~> status[o] \in {"ACTIVATED", "CANCELLED"}
=============================================================================
