----------------------------- MODULE CheckoutProofs -----------------------------
(***************************************************************************)
(* Proofs about Checkout, for any sets of orders, modules, pages and       *)
(* workers and any number of crashes.                                      *)
(***************************************************************************)
EXTENDS Checkout, TLAPS

\* Moving an actor on, or letting it answer, keeps its local state in its types.
LEMMA ReturnOK == ASSUME LocalOK, NEW a \in Actors, Return(a) PROVE LocalOK'
  BY DEF LocalOK, Return, Goto, Nothing, Places, Statuses

LEMMA StayOK == ASSUME LocalOK, NEW a \in Actors, NEW place \in Places, Stay(a, place), pc[a] # "idle" PROVE LocalOK'
  BY DEF LocalOK, Stay, Goto

\* Every action keeps the variables in their types.
LEMMA TypeStep == ASSUME TypeOK, [Next]_vars PROVE TypeOK'
<1> USE OrdersAssumption, ModulesAssumption, BoundsAssumption
    DEF TypeOK, Actors, Services, orders, tenant, local, notes, Statuses, Places
<1>1. ASSUME NEW o \in Orders, CreateOrder(o) PROVE TypeOK'
  BY <1>1 DEF CreateOrder, RowsOK, LocalOK
<1>2. ASSUME NEW o \in Orders, AttachInvoice(o) PROVE TypeOK'
  BY <1>2 DEF AttachInvoice, RowsOK, LocalOK
<1>3. ASSUME NEW o \in Orders, Pay(o) PROVE TypeOK'
  BY <1>3 DEF Pay, RowsOK, LocalOK
<1>4. ASSUME NEW o \in Orders, Cancel(o) PROVE TypeOK'
  BY <1>4 DEF Cancel, RowsOK, LocalOK
<1>5. ASSUME NEW a \in Actors, AskPayment(a) PROVE TypeOK'
  <2>1. LocalOK'
    BY <1>5, ReturnOK, StayOK DEF AskPayment
  <2>2. RowsOK'
    BY <1>5 DEF AskPayment, RowsOK
  <2>3. QED BY <2>1, <2>2
<1>6. ASSUME NEW a \in Actors, CheckReuse(a) PROVE TypeOK'
  <2>1. LocalOK'
    BY <1>6, ReturnOK, StayOK DEF CheckReuse
  <2>2. RowsOK'
    BY <1>6 DEF CheckReuse, RowsOK
  <2>3. QED BY <2>1, <2>2
<1>7. ASSUME NEW a \in Actors, MarkPaid(a) PROVE TypeOK'
  <2>1. LocalOK'
    BY <1>7, ReturnOK, StayOK DEF MarkPaid
  <2>2. RowsOK'
    BY <1>7 DEF MarkPaid, RowsOK, LocalOK, Settled
  <2>3. QED BY <2>1, <2>2
<1>8. ASSUME NEW a \in Actors, Sync(a) PROVE TypeOK'
  <2>1. CASE Return(a)
    BY <1>8, <2>1, ReturnOK DEF Sync, RowsOK
  <2>2. CASE ~Return(a)
    BY <1>8, <2>2 DEF Sync, Goto, RowsOK, LocalOK
  <2>3. QED BY <2>1, <2>2
<1>9. ASSUME NEW a \in Actors, InvoicePaid(a) PROVE TypeOK'
  <2>1. LocalOK'
    BY <1>9, ReturnOK, StayOK DEF InvoicePaid
  <2>2. RowsOK'
    BY <1>9 DEF InvoicePaid, RowsOK
  <2>3. QED BY <2>1, <2>2
<1>10. ASSUME NEW a \in Actors, InvoiceUnclear(a) PROVE TypeOK'
  <2>1. LocalOK'
    BY <1>10, ReturnOK, StayOK DEF InvoiceUnclear
  <2>2. RowsOK'
    BY <1>10 DEF InvoiceUnclear, RowsOK
  <2>3. QED BY <2>1, <2>2
<1>11. ASSUME NEW a \in Actors, MarkPaidIf(a) PROVE TypeOK'
  <2>1. LocalOK'
    BY <1>11, ReturnOK, StayOK DEF MarkPaidIf
  <2>2. RowsOK'
    BY <1>11, ZenonT(30) DEF MarkPaidIf, RowsOK, LocalOK
  <2>3. QED BY <2>1, <2>2
<1>12. ASSUME NEW a \in Actors, ReadOrder(a) PROVE TypeOK'
  <2>1. CASE Return(a)
    BY <1>12, <2>1, ReturnOK DEF ReadOrder, RowsOK
  <2>2. CASE ~Return(a)
    <3>1. RowsOK' /\ next' = [next EXCEPT ![a] = Merge(ord[a])] /\ UNCHANGED <<ord, seen, ref>>
          /\ pc' = [pc EXCEPT ![a] = "commit"] /\ ord[a] \in Orders
      BY <1>12, <2>2 DEF ReadOrder, Goto, RowsOK, LocalOK
    <3>2. Merge(ord[a]) \in [modules : SUBSET Modules, expiry : [Modules -> Nat]]
      <4>1. subscribed \cup ModulesOf[ord[a]] \in SUBSET Modules
        BY <3>1 DEF RowsOK
      <4>2. [m \in Modules |-> IF m \in ModulesOf[ord[a]] THEN expiry[m] + 1 ELSE expiry[m]] \in [Modules -> Nat]
        BY DEF RowsOK
      <4>3. QED BY <4>1, <4>2 DEF Merge
    <3>3. QED BY <3>1, <3>2 DEF LocalOK
  <2>3. QED BY <2>1, <2>2
<1>13. ASSUME NEW a \in Actors, Commit(a) PROVE TypeOK'
  <2>1. LocalOK'
    BY <1>13, ReturnOK, StayOK DEF Commit
  <2>2. RowsOK'
    <3>1. ord[a] \in Orders /\ next[a].modules \subseteq Modules /\ next[a].expiry \in [Modules -> Nat]
      BY <1>13 DEF Commit, LocalOK
    <3>2. QED BY <1>13, <3>1 DEF Commit, RowsOK
  <2>3. QED BY <2>1, <2>2
<1>14. ASSUME NEW a \in Actors, Claim(a) PROVE TypeOK'
  <2>1. LocalOK'
    BY <1>14, ReturnOK, StayOK DEF Claim
  <2>2. RowsOK'
    BY <1>14 DEF Claim, RowsOK
  <2>3. QED BY <2>1, <2>2
<1>15. ASSUME NEW a \in Actors, CreateCompany(a) PROVE TypeOK'
  <2>1. LocalOK'
    BY <1>15, ReturnOK, StayOK DEF CreateCompany
  <2>2. RowsOK'
    BY <1>15 DEF CreateCompany, RowsOK, LocalOK
  <2>3. QED BY <2>1, <2>2
<1>16. ASSUME NEW a \in Actors, Configure(a) PROVE TypeOK'
  <2>1. LocalOK'
    BY <1>16, ReturnOK, StayOK DEF Configure
  <2>2. RowsOK'
    BY <1>16 DEF Configure, RowsOK, LocalOK
  <2>3. QED BY <2>1, <2>2
<1>17. ASSUME NEW a \in Actors, Crash(a) PROVE TypeOK'
  <2>1. LocalOK'
    BY <1>17, ReturnOK, StayOK DEF Crash
  <2>2. RowsOK'
    BY <1>17 DEF Crash, RowsOK
  <2>3. QED BY <2>1, <2>2
<1>18. ASSUME NEW a \in Actors, NEW o \in Orders, StartSync(a, o) PROVE TypeOK'
  BY <1>18 DEF StartSync, Goto, RowsOK, LocalOK
<1>19. ASSUME NEW a \in Actors, NEW o \in Orders, AskActivation(a, o) PROVE TypeOK'
  BY <1>19 DEF AskActivation, Goto, RowsOK, LocalOK
<1>20. ASSUME NEW a \in Actors, NEW o \in Orders, NEW p \in Orders \cup {None}, OpenPage(a, o, p) PROVE TypeOK'
  BY <1>20 DEF OpenPage, Goto, RowsOK, LocalOK
<1>21. CASE UNCHANGED vars
  BY <1>21 DEF vars, RowsOK, LocalOK
<1>22. QED
  BY <1>1, <1>2, <1>3, <1>4, <1>5, <1>6, <1>7, <1>8, <1>9, <1>10, <1>11, <1>12, <1>13, <1>14, <1>15, <1>16, <1>17, <1>18, <1>19, <1>20, <1>21
     DEF Next, Customer, Page, SyncStep, Activation

THEOREM TypeCorrect == Spec => []TypeOK
<1>1. Init => TypeOK
  BY DEF Init, TypeOK, RowsOK, LocalOK, Statuses, Places, Nothing
<1>2. QED
  BY <1>1, TypeStep, PTL DEF Spec

-----------------------------------------------------------------------------
\* An actor on its way to activate an order has found it paid or was asked to.
LEMMA PayStep == ASSUME TypeOK, PayInv, [Next]_vars PROVE PayInv'
<1> USE OrdersAssumption, ActorsAssumption
    DEF TypeOK, RowsOK, LocalOK, PayInv, Entitled, PageWork, Activating, Actors, Services, orders, tenant, local, notes, Open, Statuses, Places, Goto, Return, Stay
<1>1. ASSUME NEW o \in Orders, CreateOrder(o) PROVE PayInv'
  BY <1>1 DEF CreateOrder
<1>2. ASSUME NEW o \in Orders, AttachInvoice(o) PROVE PayInv'
  BY <1>2 DEF AttachInvoice
<1>3. ASSUME NEW o \in Orders, Pay(o) PROVE PayInv'
  BY <1>3 DEF Pay
<1>4. ASSUME NEW o \in Orders, Cancel(o) PROVE PayInv'
  BY <1>4 DEF Cancel
<1>5. ASSUME NEW a \in Actors, AskPayment(a) PROVE PayInv'
  BY <1>5 DEF AskPayment
<1>6. ASSUME NEW a \in Actors, CheckReuse(a) PROVE PayInv'
  BY <1>6 DEF CheckReuse, Match, Reused
<1>7. ASSUME NEW a \in Actors, MarkPaid(a) PROVE PayInv'
  BY <1>7 DEF MarkPaid, Match
<1>8. ASSUME NEW a \in Actors, Sync(a) PROVE PayInv'
  BY <1>8 DEF Sync, Syncable
<1>9. ASSUME NEW a \in Actors, InvoicePaid(a) PROVE PayInv'
  BY <1>9 DEF InvoicePaid
<1>10. ASSUME NEW a \in Actors, InvoiceUnclear(a) PROVE PayInv'
  BY <1>10 DEF InvoiceUnclear
<1>11. ASSUME NEW a \in Actors, MarkPaidIf(a) PROVE PayInv'
  <2>1. /\ pc' = [pc EXCEPT ![a] = "activate"] /\ UNCHANGED <<ord, seen, ref, paid, byAdmin, applied, companies, invoices>>
        /\ pc[a] = "markPaidIf" /\ ord[a] \in Orders /\ ord[a] \in paid
    BY <1>11 DEF MarkPaidIf
  <2>2. \A o \in Orders : payRef'[o] = payRef[o] \/ (o = ord[a] /\ payRef'[o] = o)
    BY <1>11 DEF MarkPaidIf
  <2>3. \A o \in Orders : status'[o] = "PAID" => status[o] = "PAID" \/ o = ord[a]
    BY <1>11 DEF MarkPaidIf
  <2>4. \A o \in Orders : Entitled(o) => Entitled(o)'
    BY <2>1, <2>2
  <2>5. QED BY <2>1, <2>3, <2>4
<1>12. ASSUME NEW a \in Actors, ReadOrder(a) PROVE PayInv'
  BY <1>12 DEF ReadOrder
<1>13. ASSUME NEW a \in Actors, Commit(a) PROVE PayInv'
  <2>1. /\ pc[a] = "commit" /\ Return(a) /\ UNCHANGED <<invoices, payRef, paid, companies, byAdmin>>
        /\ ord[a] \in Orders /\ Entitled(ord[a])
    BY <1>13 DEF Commit
  <2>2. \A o \in Orders : o # ord[a] => status'[o] = status[o] /\ applied'[o] = applied[o]
    BY <1>13 DEF Commit
  <2>3. QED BY <2>1, <2>2
<1>14. ASSUME NEW a \in Actors, Claim(a) PROVE PayInv'
  BY <1>14 DEF Claim, Claims
<1>15. ASSUME NEW a \in Actors, CreateCompany(a) PROVE PayInv'
  BY <1>15 DEF CreateCompany
<1>16. ASSUME NEW a \in Actors, Configure(a) PROVE PayInv'
  BY <1>16 DEF Configure
<1>17. ASSUME NEW a \in Actors, Crash(a) PROVE PayInv'
  BY <1>17 DEF Crash
<1>18. ASSUME NEW a \in Actors, NEW o \in Orders, StartSync(a, o) PROVE PayInv'
  BY <1>18 DEF StartSync
<1>19. ASSUME NEW a \in Actors, NEW o \in Orders, AskActivation(a, o) PROVE PayInv'
  BY <1>19 DEF AskActivation
<1>20. ASSUME NEW a \in Actors, NEW o \in Orders, NEW p \in Orders \cup {None}, OpenPage(a, o, p) PROVE PayInv'
  BY <1>20 DEF OpenPage
<1>21. CASE UNCHANGED vars
  BY <1>21 DEF vars
<1>22. QED
  BY <1>1, <1>2, <1>3, <1>4, <1>5, <1>6, <1>7, <1>8, <1>9, <1>10, <1>11, <1>12, <1>13, <1>14, <1>15, <1>16, <1>17, <1>18, <1>19, <1>20, <1>21
     DEF Next, Customer, Page, SyncStep, Activation

\* Nothing is applied, and no company created, for an order that is not entitled
\* to it by a payment or by the super admin's request.
THEOREM PaidOrAskedHolds == Spec => []PaidOrAsked
<1>1. Init => PayInv
  BY DEF Init, PayInv, PageWork, Activating, Actors
<1>2. PayInv => PaidOrAsked
  BY DEF PayInv, PaidOrAsked
<1>3. QED
  BY <1>1, <1>2, PayStep, TypeCorrect, PTL DEF Spec

-----------------------------------------------------------------------------
\* Until a page reopens an order, whoever claims it is alone with it.
LEMMA ClaimStep == ASSUME TypeOK, ClaimInv, [Next]_vars PROVE ClaimInv'
<1> USE OrdersAssumption
    DEF TypeOK, RowsOK, LocalOK, ClaimInv, Settled, EffectsSettled, MakingClaimed, MakingAlone, Making, Actors, Services, orders, tenant, local, notes, Open, Statuses, Places, Goto, Return, Stay
<1>1. ASSUME NEW o \in Orders, CreateOrder(o) PROVE ClaimInv'
  BY <1>1 DEF CreateOrder
<1>2. ASSUME NEW o \in Orders, AttachInvoice(o) PROVE ClaimInv'
  BY <1>2 DEF AttachInvoice
<1>3. ASSUME NEW o \in Orders, Pay(o) PROVE ClaimInv'
  BY <1>3 DEF Pay
<1>4. ASSUME NEW o \in Orders, Cancel(o) PROVE ClaimInv'
  BY <1>4 DEF Cancel
<1>5. ASSUME NEW a \in Actors, AskPayment(a) PROVE ClaimInv'
  BY <1>5 DEF AskPayment
<1>6. ASSUME NEW a \in Actors, CheckReuse(a) PROVE ClaimInv'
  BY <1>6 DEF CheckReuse, Match, Reused
<1>7. ASSUME NEW a \in Actors, MarkPaid(a) PROVE ClaimInv'
  <2>1. /\ pc[a] = "markPaid" /\ pc'[a] \in {"activate", "idle"} /\ pc' = [pc EXCEPT ![a] = pc'[a]]
        /\ ord[a] \in Orders /\ \A b \in Actors \ {a} : ord'[b] = ord[b]
        /\ status' = [status EXCEPT ![ord[a]] = "PAID"] /\ UNCHANGED <<applied, companies>>
        /\ reopened' = IF status[ord[a]] \in Settled THEN reopened \cup {ord[a]} ELSE reopened
    BY <1>7 DEF MarkPaid
  <2>2. Making' \subseteq Making /\ \A b \in Making' : b # a /\ ord[b] # ord[a]
    BY <2>1
  <2>3. EffectsSettled'
    BY <2>1
  <2>4. MakingClaimed'
    BY <2>1, <2>2
  <2>5. MakingAlone'
    BY <2>1, <2>2
  <2>6. QED BY <2>3, <2>4, <2>5
<1>8. ASSUME NEW a \in Actors, Sync(a) PROVE ClaimInv'
  <2>1. CASE ~(ord[a] \in invoices /\ Syncable(status[ord[a]]))
    <3>1. Return(a) /\ pc[a] = "sync" /\ UNCHANGED <<status, applied, companies, reopened>>
      BY <1>8, <2>1 DEF Sync
    <3>2. Making' = Making /\ \A b \in Making : ord'[b] = ord[b] /\ pc'[b] = pc[b]
      BY <3>1 DEF Making
    <3>3. QED BY <3>1, <3>2
  <2>2. CASE ord[a] \in invoices /\ Syncable(status[ord[a]])
    <3>1. pc' = [pc EXCEPT ![a] = "askInvoice"] /\ UNCHANGED <<ord, status, applied, companies, reopened>>
      BY <1>8, <2>2 DEF Sync
    <3>2. Making' = Making
      BY <1>8, <3>1 DEF Sync
    <3>3. QED BY <3>1, <3>2
  <2>3. QED BY <2>1, <2>2
<1>9. ASSUME NEW a \in Actors, InvoicePaid(a) PROVE ClaimInv'
  BY <1>9 DEF InvoicePaid
<1>10. ASSUME NEW a \in Actors, InvoiceUnclear(a) PROVE ClaimInv'
  BY <1>10 DEF InvoiceUnclear
<1>11. ASSUME NEW a \in Actors, MarkPaidIf(a) PROVE ClaimInv'
  <2>1. CASE status[ord[a]] = "PENDING"
    <3>1. /\ pc' = [pc EXCEPT ![a] = "activate"] /\ UNCHANGED <<ord, applied, companies, reopened>>
          /\ status' = [status EXCEPT ![ord[a]] = "PAID"] /\ ord[a] \in Orders
      BY <1>11, <2>1 DEF MarkPaidIf
    <3>2. Making' = Making /\ \A b \in Making : ord[b] # ord[a]
      BY <1>11, <2>1, <3>1 DEF MarkPaidIf
    <3>3. EffectsSettled'
      BY <2>1, <3>1
    <3>4. MakingAlone'
      BY <3>1, <3>2
    <3>5. MakingClaimed'
      BY <3>1, <3>2
    <3>6. QED BY <3>3, <3>4, <3>5
  <2>2. CASE status[ord[a]] # "PENDING"
    BY <1>11, <2>2 DEF MarkPaidIf
  <2>3. QED BY <2>1, <2>2
<1>12. ASSUME NEW a \in Actors, ReadOrder(a) PROVE ClaimInv'
  <2>1. CASE Return(a)
    BY <1>12, <2>1 DEF ReadOrder
  <2>2. CASE ~Return(a)
    <3>1. pc' = [pc EXCEPT ![a] = "commit"] /\ UNCHANGED <<ord, status, applied, companies, reopened>>
      BY <1>12, <2>2 DEF ReadOrder
    <3>2. Making' = Making
      BY <1>12, <3>1 DEF ReadOrder
    <3>3. QED BY <3>1, <3>2
  <2>3. QED BY <2>1, <2>2
<1>13. ASSUME NEW a \in Actors, Commit(a) PROVE ClaimInv'
  <2>1. CASE Claims(ord[a])
    <3>1. EffectsSettled'
      BY <1>13, <2>1 DEF Commit, Claims
    <3>3. MakingClaimed'
      BY <1>13, <2>1 DEF Commit, Claims
    <3>4. MakingAlone'
      BY <1>13, <2>1 DEF Commit, Claims
    <3>5. QED BY <3>1, <3>3, <3>4
  <2>2. CASE ~Claims(ord[a])
    BY <1>13, <2>2 DEF Commit
  <2>3. QED BY <2>1, <2>2
<1>14. ASSUME NEW a \in Actors, Claim(a) PROVE ClaimInv'
  <2>1. CASE Claims(ord[a])
    <3>1. EffectsSettled'
      BY <1>14, <2>1 DEF Claim, Claims
    <3>3. /\ pc' = [pc EXCEPT ![a] = "create"] /\ UNCHANGED <<ord, applied, companies, reopened>>
          /\ status' = [status EXCEPT ![ord[a]] = "ACTIVATED"] /\ ord[a] \in ExtraOrders
          /\ ord[a] \notin reopened => applied[ord[a]] = 0 /\ companies[ord[a]] = 0
      <4>1. ord[a] \in ExtraOrders /\ ord[a] \in Orders /\ status[ord[a]] \notin Settled
        BY <1>14, <2>1 DEF Claim, Claims
      <4>2. ord[a] \notin reopened => applied[ord[a]] = 0 /\ companies[ord[a]] = 0
        BY <4>1
      <4>3. QED BY <1>14, <2>1, <4>1, <4>2 DEF Claim
    <3>4. Making' \subseteq Making \cup {a} /\ \A b \in Making : ord[b] # ord[a]
      <4>1. Making' \subseteq Making \cup {a}
        BY <3>3
      <4>2. status[ord[a]] \notin Settled
        BY <2>1 DEF Claims
      <4>3. QED BY <4>1, <4>2
    <3>5. MakingClaimed'
      BY <3>3, <3>4
    <3>6. MakingAlone'
      BY <3>3, <3>4
    <3>7. QED BY <3>1, <3>5, <3>6
  <2>2. CASE ~Claims(ord[a])
    <3>1. UNCHANGED <<status, applied, companies, reopened>> /\ Return(a) /\ pc[a] = "commit"
      BY <1>14, <2>2 DEF Claim
    <3>2. Making' = Making /\ \A b \in Making : ord'[b] = ord[b] /\ pc'[b] = pc[b]
      BY <3>1 DEF Making
    <3>3. QED BY <3>1, <3>2
  <2>3. QED BY <2>1, <2>2
<1>15. ASSUME NEW a \in Actors, CreateCompany(a) PROVE ClaimInv'
  <2>1. CASE Return(a)
    BY <1>15, <2>1 DEF CreateCompany
  <2>2. CASE Stay(a, "configure")
    <3>1. EffectsSettled'
      BY <1>15, <2>2 DEF CreateCompany
    <3>2. MakingClaimed'
      BY <1>15, <2>2 DEF CreateCompany
    <3>3. MakingAlone'
      BY <1>15, <2>2 DEF CreateCompany
    <3>4. QED BY <3>1, <3>2, <3>3
  <2>3. QED BY <1>15, <2>1, <2>2 DEF CreateCompany
<1>16. ASSUME NEW a \in Actors, Configure(a) PROVE ClaimInv'
  BY <1>16 DEF Configure
<1>17. ASSUME NEW a \in Actors, Crash(a) PROVE ClaimInv'
  BY <1>17 DEF Crash
<1>18. ASSUME NEW a \in Actors, NEW o \in Orders, StartSync(a, o) PROVE ClaimInv'
  BY <1>18 DEF StartSync
<1>19. ASSUME NEW a \in Actors, NEW o \in Orders, AskActivation(a, o) PROVE ClaimInv'
  BY <1>19 DEF AskActivation
<1>20. ASSUME NEW a \in Actors, NEW o \in Orders, NEW p \in Orders \cup {None}, OpenPage(a, o, p) PROVE ClaimInv'
  BY <1>20 DEF OpenPage
<1>21. CASE UNCHANGED vars
  BY <1>21 DEF vars
<1>22. QED
  BY <1>1, <1>2, <1>3, <1>4, <1>5, <1>6, <1>7, <1>8, <1>9, <1>10, <1>11, <1>12, <1>13, <1>14, <1>15, <1>16, <1>17, <1>18, <1>19, <1>20, <1>21
     DEF Next, Customer, Page, SyncStep, Activation

\* The page, the payment-sync job and the super admin, however they overlap and
\* crash, apply an order at most once and create at most one company for it,
\* as long as no page reopens it.
THEOREM AppliedOnceHolds == Spec => []AppliedOnce
<1>1. Init => ClaimInv
  BY DEF Init, ClaimInv, Settled, EffectsSettled, MakingClaimed, MakingAlone, Making, Actors
<1>2. ClaimInv => AppliedOnce
  <2> SUFFICES ASSUME ClaimInv, NEW o \in Orders \ reopened PROVE applied[o] <= 1 /\ companies[o] <= 1
    BY DEF AppliedOnce
  <2>1. applied[o] \in {0, 1} /\ companies[o] \in {0, 1}
    BY DEF ClaimInv, EffectsSettled
  <2>2. QED BY <2>1
<1>3. QED
  BY <1>1, <1>2, ClaimStep, TypeCorrect, PTL DEF Spec

-----------------------------------------------------------------------------
\* A payment whose answer names its invoice is stored with that order only.
OwnPayment == \A o \in Orders : payRef[o] \in Named => payRef[o] = o

LEMMA OwnPaymentStep == ASSUME TypeOK, PayInv, OwnPayment, [Next]_vars PROVE OwnPayment'
<1> USE OrdersAssumption, BoundsAssumption
    DEF TypeOK, RowsOK, LocalOK, OwnPayment, orders, Actors, Places
<1>1. ASSUME NEW o \in Orders, CreateOrder(o) PROVE OwnPayment'
  BY <1>1 DEF CreateOrder
<1>2. ASSUME NEW o \in Orders, AttachInvoice(o) PROVE OwnPayment'
  BY <1>2 DEF AttachInvoice
<1>3. ASSUME NEW o \in Orders, Pay(o) PROVE OwnPayment'
  BY <1>3 DEF Pay
<1>4. ASSUME NEW o \in Orders, Cancel(o) PROVE OwnPayment'
  BY <1>4 DEF Cancel
<1>5. ASSUME NEW a \in Actors, AskPayment(a) PROVE OwnPayment'
  BY <1>5 DEF AskPayment
<1>6. ASSUME NEW a \in Actors, CheckReuse(a) PROVE OwnPayment'
  BY <1>6 DEF CheckReuse
<1>7. ASSUME NEW a \in Actors, MarkPaid(a) PROVE OwnPayment'
  BY <1>7 DEF MarkPaid, PayInv
<1>8. ASSUME NEW a \in Actors, Sync(a) PROVE OwnPayment'
  BY <1>8 DEF Sync
<1>9. ASSUME NEW a \in Actors, InvoicePaid(a) PROVE OwnPayment'
  BY <1>9 DEF InvoicePaid
<1>10. ASSUME NEW a \in Actors, InvoiceUnclear(a) PROVE OwnPayment'
  BY <1>10 DEF InvoiceUnclear
<1>11. ASSUME NEW a \in Actors, MarkPaidIf(a) PROVE OwnPayment'
  BY <1>11 DEF MarkPaidIf
<1>12. ASSUME NEW a \in Actors, ReadOrder(a) PROVE OwnPayment'
  BY <1>12 DEF ReadOrder
<1>13. ASSUME NEW a \in Actors, Commit(a) PROVE OwnPayment'
  BY <1>13 DEF Commit
<1>14. ASSUME NEW a \in Actors, Claim(a) PROVE OwnPayment'
  BY <1>14 DEF Claim
<1>15. ASSUME NEW a \in Actors, CreateCompany(a) PROVE OwnPayment'
  BY <1>15 DEF CreateCompany
<1>16. ASSUME NEW a \in Actors, Configure(a) PROVE OwnPayment'
  BY <1>16 DEF Configure
<1>17. ASSUME NEW a \in Actors, Crash(a) PROVE OwnPayment'
  BY <1>17 DEF Crash
<1>18. ASSUME NEW a \in Actors, NEW o \in Orders, StartSync(a, o) PROVE OwnPayment'
  BY <1>18 DEF StartSync
<1>19. ASSUME NEW a \in Actors, NEW o \in Orders, AskActivation(a, o) PROVE OwnPayment'
  BY <1>19 DEF AskActivation
<1>20. ASSUME NEW a \in Actors, NEW o \in Orders, NEW p \in Orders \cup {None}, OpenPage(a, o, p) PROVE OwnPayment'
  BY <1>20 DEF OpenPage
<1>21. CASE UNCHANGED vars
  BY <1>21 DEF vars
<1>22. QED
  BY <1>1, <1>2, <1>3, <1>4, <1>5, <1>6, <1>7, <1>8, <1>9, <1>10,
     <1>11, <1>12, <1>13, <1>14, <1>15, <1>16, <1>17, <1>18, <1>19, <1>20, <1>21
     DEF Next, Customer, Page, SyncStep, Activation

\* No payment that names its invoice is counted for two orders.
THEOREM PaymentUsedOnceHolds == Spec => []PaymentUsedOnce
<1>1. Init => PayInv /\ OwnPayment
  BY OrdersAssumption, BoundsAssumption DEF Init, PayInv, PageWork, Activating, Actors, OwnPayment
<1>2. OwnPayment => PaymentUsedOnce
  BY DEF OwnPayment, PaymentUsedOnce
<1>3. QED
  BY <1>1, <1>2, PayStep, OwnPaymentStep, TypeCorrect, PTL DEF Spec

-----------------------------------------------------------------------------
\* What CancelledStays says of one step.
CancelledKept ==
  \A o \in Orders : status[o] = "CANCELLED" => status'[o] = "CANCELLED" \/ o \in reopened'

LEMMA CancelledStep == ASSUME TypeOK, [Next]_vars PROVE CancelledKept
<1> USE OrdersAssumption
    DEF TypeOK, RowsOK, LocalOK, CancelledKept, orders, tenant, notes, Actors, Services, Open, Settled
<1>1. ASSUME NEW o \in Orders, CreateOrder(o) PROVE CancelledKept
  BY <1>1 DEF CreateOrder
<1>2. ASSUME NEW o \in Orders, AttachInvoice(o) PROVE CancelledKept
  BY <1>2 DEF AttachInvoice
<1>3. ASSUME NEW o \in Orders, Pay(o) PROVE CancelledKept
  BY <1>3 DEF Pay
<1>4. ASSUME NEW o \in Orders, Cancel(o) PROVE CancelledKept
  BY <1>4 DEF Cancel
<1>5. ASSUME NEW a \in Actors, AskPayment(a) PROVE CancelledKept
  BY <1>5 DEF AskPayment
<1>6. ASSUME NEW a \in Actors, CheckReuse(a) PROVE CancelledKept
  BY <1>6 DEF CheckReuse
<1>7. ASSUME NEW a \in Actors, MarkPaid(a) PROVE CancelledKept
  BY <1>7 DEF MarkPaid
<1>8. ASSUME NEW a \in Actors, Sync(a) PROVE CancelledKept
  BY <1>8 DEF Sync
<1>9. ASSUME NEW a \in Actors, InvoicePaid(a) PROVE CancelledKept
  BY <1>9 DEF InvoicePaid
<1>10. ASSUME NEW a \in Actors, InvoiceUnclear(a) PROVE CancelledKept
  BY <1>10 DEF InvoiceUnclear
<1>11. ASSUME NEW a \in Actors, MarkPaidIf(a) PROVE CancelledKept
  BY <1>11 DEF MarkPaidIf
<1>12. ASSUME NEW a \in Actors, ReadOrder(a) PROVE CancelledKept
  BY <1>12 DEF ReadOrder
<1>13. ASSUME NEW a \in Actors, Commit(a) PROVE CancelledKept
  BY <1>13 DEF Commit, Claims
<1>14. ASSUME NEW a \in Actors, Claim(a) PROVE CancelledKept
  BY <1>14 DEF Claim, Claims
<1>15. ASSUME NEW a \in Actors, CreateCompany(a) PROVE CancelledKept
  BY <1>15 DEF CreateCompany
<1>16. ASSUME NEW a \in Actors, Configure(a) PROVE CancelledKept
  BY <1>16 DEF Configure
<1>17. ASSUME NEW a \in Actors, Crash(a) PROVE CancelledKept
  BY <1>17 DEF Crash
<1>18. ASSUME NEW a \in Actors, NEW o \in Orders, StartSync(a, o) PROVE CancelledKept
  BY <1>18 DEF StartSync
<1>19. ASSUME NEW a \in Actors, NEW o \in Orders, AskActivation(a, o) PROVE CancelledKept
  BY <1>19 DEF AskActivation
<1>20. ASSUME NEW a \in Actors, NEW o \in Orders, NEW p \in Orders \cup {None}, OpenPage(a, o, p) PROVE CancelledKept
  BY <1>20 DEF OpenPage
<1>21. CASE UNCHANGED vars
  BY <1>21 DEF vars
<1>22. QED
  BY <1>1, <1>2, <1>3, <1>4, <1>5, <1>6, <1>7, <1>8, <1>9, <1>10,
     <1>11, <1>12, <1>13, <1>14, <1>15, <1>16, <1>17, <1>18, <1>19, <1>20, <1>21
     DEF Next, Customer, Page, SyncStep, Activation

\* A cancelled order stays cancelled, unless a page reopens it.
THEOREM CancelledStaysHolds == Spec => CancelledStays
<1>1. TypeOK /\ [Next]_vars => [CancelledKept]_status
  BY CancelledStep
<1>2. QED
  BY <1>1, TypeCorrect, PTL DEF Spec, CancelledStays, CancelledKept
=============================================================================
