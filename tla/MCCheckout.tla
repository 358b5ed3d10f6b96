------------------------------ MODULE MCCheckout ------------------------------
(* Small instances of Checkout: two orders of one company that share a      *)
(* module, or one order and the gateway's answers without an invoice.       *)
EXTENDS Checkout

CONSTANTS o1, o2, g1, w1, w2, ai, crm
MCModulesOf == [o \in Orders |-> IF o = o1 THEN {ai} ELSE {ai, crm}]

VARIABLE part
mcvars == <<part, vars>>
one == part = "one"
One == INSTANCE Checkout WITH Orders <- {o1}, ExtraOrders <- {}, Named <- {}, ModulesOf <- [o \in {o1} |-> {ai}]

MCInit == part \in {"two", "one"} /\ Init
MCNext ==
  \/ ~one /\ Next /\ UNCHANGED part
  \/ one /\ One!Next /\ UNCHANGED part
\* The fairness of Checkout, for the single order.
Some(A) == one /\ A /\ UNCHANGED part
MCSpec ==
  /\ MCInit /\ [][MCNext]_mcvars
  /\ \A a \in Actors : /\ WF_mcvars(Some(One!Page(a) \/ One!SyncStep(a) \/ One!Activation(a)))
                       /\ SF_mcvars(Some(One!InvoicePaid(a)))
  /\ \A a \in Workers : SF_mcvars(Some(One!StartSync(a, o1)))

\* An order that is paid is activated or cancelled.
OneIsActivated == one => One!PaidIsActivated
=============================================================================
