------------------------------ MODULE StockProofs ------------------------------
(***************************************************************************)
(* Proofs about Stock, for any items, purchase orders and requests.        *)
(***************************************************************************)
EXTENDS Stock, TLAPS

\* Every action keeps the variables in their types.
LEMMA TypeStep == ASSUME TypeOK, [Next]_vars PROVE TypeOK'
<1> USE InitialAssumption, DeltasAssumption, AmountsAssumption, BasketsAssumption
    DEF TypeOK, Statuses, Places, stock, purchase, request
<1>1. ASSUME NEW r \in Requests, NEW delta \in Deltas, StartMovement(r, delta) PROVE
   TypeOK'
  BY <1>1 DEF StartMovement, ReadItem, Goto
<1>2. ASSUME NEW r \in Requests, NEW n \in Amounts, StartSale(r, n) PROVE TypeOK'
  BY <1>2 DEF StartSale, ReadItem, Goto
<1>3. ASSUME NEW r \in Requests, Move(r) PROVE TypeOK'
  BY <1>3 DEF Move, Goto, MovementLedger
<1>4. ASSUME NEW r \in Requests, Sell(r) PROVE TypeOK'
  BY <1>4 DEF Sell, Goto, Enough
<1>5. ASSUME NEW r \in Requests, NEW lines \in Baskets, CreateOrder(r, lines) PROVE
   TypeOK'
  BY <1>5 DEF CreateOrder, Goto
<1>6. ASSUME NEW r \in Requests, NEW value \in {"ORDERED", "CANCELLED"}, StartStatus(r,
   value) PROVE TypeOK'
  BY <1>6 DEF StartStatus, ReadOrder, Goto
<1>7. ASSUME NEW r \in Requests, SetStatus(r) PROVE TypeOK'
  BY <1>7 DEF SetStatus, Write, Goto
<1>8. ASSUME NEW r \in Requests, StartReceive(r) PROVE TypeOK'
  BY <1>8 DEF StartReceive, ReadOrder, Goto, Receivable
<1>9. ASSUME NEW r \in Requests, Receive(r) PROVE TypeOK'
  BY <1>9 DEF Receive, Write, Goto, StatusReceived
<1>10. ASSUME NEW r \in Requests, StartPay(r) PROVE TypeOK'
  BY <1>10 DEF StartPay, ReadOrder, Goto
<1>11. ASSUME NEW r \in Requests, Pay(r) PROVE TypeOK'
  BY <1>11 DEF Pay, Goto
<1>12. ASSUME NEW r \in Requests, Abandon(r) PROVE TypeOK'
  BY <1>12 DEF Abandon, Goto
<1>13. CASE UNCHANGED vars
  BY <1>13 DEF vars
<1>14. QED
  BY <1>1, <1>2, <1>3, <1>4, <1>5, <1>6, <1>7, <1>8, <1>9, <1>10, <1>11, <1>12, <1>13
     DEF Next, Inventory, Procurement

\* Every action keeps the inductive invariant.
LEMMA StockInvStep == ASSUME StockInv, TypeOK', [Next]_vars PROVE StockInv'
<1> USE InitialAssumption, DeltasAssumption, AmountsAssumption, BasketsAssumption
    DEF StockInv, TypeOK, Statuses, Places, stock, purchase, request
<1>1. ASSUME NEW r \in Requests, NEW delta \in Deltas, StartMovement(r, delta) PROVE
   StockInv'
  <2>1. NoNegativeStock'
    BY <1>1 DEF StartMovement, ReadItem, Goto, NoNegativeStock, RequestInv
  <2>2. LedgerExplains'
    BY <1>1 DEF StartMovement, ReadItem, Goto, LedgerExplains
  <2>3. OrderTells'
    BY <1>1 DEF StartMovement, ReadItem, Goto, OrderTells, RequestInv, ReceivedInv
  <2>4. RequestInv'
    BY <1>1 DEF StartMovement, ReadItem, Goto, RequestInv, ReceivedInv, NoNegativeStock
  <2>5. ReceivedInv'
    BY <1>1 DEF StartMovement, ReadItem, Goto, ReceivedInv, RequestInv, OrderTells
  <2>6. QED BY <2>1, <2>2, <2>3, <2>4, <2>5
<1>2. ASSUME NEW r \in Requests, NEW n \in Amounts, StartSale(r, n) PROVE StockInv'
  <2>1. NoNegativeStock'
    BY <1>2 DEF StartSale, ReadItem, Goto, NoNegativeStock, RequestInv
  <2>2. LedgerExplains'
    BY <1>2 DEF StartSale, ReadItem, Goto, LedgerExplains
  <2>3. OrderTells'
    BY <1>2 DEF StartSale, ReadItem, Goto, OrderTells, RequestInv, ReceivedInv
  <2>4. RequestInv'
    BY <1>2 DEF StartSale, ReadItem, Goto, RequestInv, ReceivedInv, NoNegativeStock
  <2>5. ReceivedInv'
    BY <1>2 DEF StartSale, ReadItem, Goto, ReceivedInv, RequestInv, OrderTells
  <2>6. QED BY <2>1, <2>2, <2>3, <2>4, <2>5
<1>3. ASSUME NEW r \in Requests, Move(r) PROVE StockInv'
  <2>1. NoNegativeStock'
    BY <1>3 DEF Move, Goto, MovementLedger, NoNegativeStock, RequestInv
  <2>2. LedgerExplains'
    BY <1>3 DEF Move, Goto, MovementLedger, LedgerExplains
  <2>3. OrderTells'
    BY <1>3 DEF Move, Goto, MovementLedger, OrderTells, RequestInv, ReceivedInv
  <2>4. RequestInv'
    BY <1>3 DEF Move, Goto, MovementLedger, RequestInv, ReceivedInv, NoNegativeStock
  <2>5. ReceivedInv'
    BY <1>3 DEF Move, Goto, MovementLedger, ReceivedInv, RequestInv, OrderTells
  <2>6. QED BY <2>1, <2>2, <2>3, <2>4, <2>5
<1>4. ASSUME NEW r \in Requests, Sell(r) PROVE StockInv'
  <2>1. NoNegativeStock'
    <3>1. CASE Enough(r)
      <4>1. qty' = [qty EXCEPT ![item[r]] = @ - amount[r]] /\ qty[item[r]] >= amount[r]
        BY <1>4, <3>1 DEF Sell, Enough
      <4>2. QED BY <4>1 DEF NoNegativeStock
    <3>2. CASE ~Enough(r)
      BY <1>4, <3>2 DEF Sell, NoNegativeStock
    <3>3. QED BY <3>1, <3>2
  <2>2. LedgerExplains'
    BY <1>4 DEF Sell, Goto, Enough, LedgerExplains
  <2>3. OrderTells'
    BY <1>4 DEF Sell, Goto, Enough, OrderTells, RequestInv, ReceivedInv
  <2>4. RequestInv'
    BY <1>4 DEF Sell, Goto, Enough, RequestInv, ReceivedInv, NoNegativeStock
  <2>5. ReceivedInv'
    BY <1>4 DEF Sell, Goto, Enough, ReceivedInv, RequestInv, OrderTells
  <2>6. QED BY <2>1, <2>2, <2>3, <2>4, <2>5
<1>5. ASSUME NEW r \in Requests, NEW lines \in Baskets, CreateOrder(r, lines) PROVE
   StockInv'
  <2>1. NoNegativeStock'
    BY <1>5 DEF CreateOrder, Goto, NoNegativeStock, RequestInv
  <2>2. LedgerExplains'
    BY <1>5 DEF CreateOrder, Goto, LedgerExplains
  <2>3. OrderTells'
    BY <1>5 DEF CreateOrder, Goto, OrderTells, RequestInv, ReceivedInv
  <2>4. RequestInv'
    BY <1>5 DEF CreateOrder, Goto, RequestInv, ReceivedInv, NoNegativeStock
  <2>5. ReceivedInv'
    BY <1>5 DEF CreateOrder, Goto, ReceivedInv, RequestInv, OrderTells
  <2>6. QED BY <2>1, <2>2, <2>3, <2>4, <2>5
<1>6. ASSUME NEW r \in Requests, NEW value \in {"ORDERED", "CANCELLED"}, StartStatus(r,
   value) PROVE StockInv'
  <2>1. NoNegativeStock'
    BY <1>6 DEF StartStatus, ReadOrder, Goto, NoNegativeStock, RequestInv
  <2>2. LedgerExplains'
    BY <1>6 DEF StartStatus, ReadOrder, Goto, LedgerExplains
  <2>3. OrderTells'
    BY <1>6 DEF StartStatus, ReadOrder, Goto, OrderTells, RequestInv, ReceivedInv
  <2>4. RequestInv'
    BY <1>6 DEF StartStatus, ReadOrder, Goto, RequestInv, ReceivedInv, NoNegativeStock
  <2>5. ReceivedInv'
    BY <1>6 DEF StartStatus, ReadOrder, Goto, ReceivedInv, RequestInv, OrderTells
  <2>6. QED BY <2>1, <2>2, <2>3, <2>4, <2>5
<1>7. ASSUME NEW r \in Requests, SetStatus(r) PROVE StockInv'
  <2>1. NoNegativeStock'
    BY <1>7 DEF SetStatus, Write, Goto, NoNegativeStock, RequestInv
  <2>2. LedgerExplains'
    BY <1>7 DEF SetStatus, Write, Goto, LedgerExplains
  <2>3. OrderTells'
    BY <1>7 DEF SetStatus, Write, Goto, OrderTells, RequestInv, ReceivedInv
  <2>4. RequestInv'
    BY <1>7 DEF SetStatus, Write, Goto, RequestInv, ReceivedInv, NoNegativeStock
  <2>5. ReceivedInv'
    BY <1>7 DEF SetStatus, Write, Goto, ReceivedInv, RequestInv, OrderTells
  <2>6. QED BY <2>1, <2>2, <2>3, <2>4, <2>5
<1>8. ASSUME NEW r \in Requests, StartReceive(r) PROVE StockInv'
  <2>1. NoNegativeStock'
    BY <1>8 DEF StartReceive, ReadOrder, Goto, Receivable, NoNegativeStock, RequestInv
  <2>2. LedgerExplains'
    BY <1>8 DEF StartReceive, ReadOrder, Goto, Receivable, LedgerExplains
  <2>3. OrderTells'
    BY <1>8 DEF StartReceive, ReadOrder, Goto, Receivable, OrderTells, RequestInv,
       ReceivedInv
  <2>4. RequestInv'
    BY <1>8 DEF StartReceive, ReadOrder, Goto, Receivable, RequestInv, ReceivedInv,
       NoNegativeStock
  <2>5. ReceivedInv'
    BY <1>8 DEF StartReceive, ReadOrder, Goto, Receivable, ReceivedInv, RequestInv,
       OrderTells
  <2>6. QED BY <2>1, <2>2, <2>3, <2>4, <2>5
<1>9. ASSUME NEW r \in Requests, Receive(r) PROVE StockInv'
  <2>1. NoNegativeStock'
    BY <1>9 DEF Receive, Write, Goto, StatusReceived, NoNegativeStock, RequestInv
  <2>2. LedgerExplains'
    BY <1>9 DEF Receive, Write, Goto, StatusReceived, LedgerExplains
  <2>3. OrderTells'
    <3> SUFFICES ASSUME NEW o \in Orders
                 PROVE  /\ o \notin raced' => received'[o] = IF status'[o] = "RECEIVED" THEN 1 ELSE 0
                        /\ o \in paid' => received'[o] >= 1
      BY DEF OrderTells
    <3>1. paid' = paid /\ raced \subseteq raced' /\ saw[r] \in {"DRAFT", "ORDERED"}
      BY <1>9 DEF Receive, Write, RequestInv
    <3>2. CASE o = order[r]
      <4>1. received'[o] = received[o] + 1 /\ status'[o] = "RECEIVED"
        BY <1>9, <3>2 DEF Receive, Write, StatusReceived
      <4>2. o \notin raced' => status[o] = saw[r] /\ o \notin raced
        BY <1>9, <3>2 DEF Receive, Write
      <4>3. o \notin raced' => received[o] = 0
        BY <3>1, <4>2 DEF OrderTells
      <4>4. QED BY <4>1, <4>3
    <3>3. CASE o # order[r]
      BY <1>9, <3>1, <3>3 DEF Receive, Write, StatusReceived, OrderTells
    <3>4. QED BY <3>2, <3>3
  <2>4. RequestInv'
    BY <1>9 DEF Receive, Write, Goto, StatusReceived, RequestInv, ReceivedInv,
       NoNegativeStock
  <2>5. ReceivedInv'
    BY <1>9 DEF Receive, Write, Goto, StatusReceived, ReceivedInv, RequestInv,
       OrderTells
  <2>6. QED BY <2>1, <2>2, <2>3, <2>4, <2>5
<1>10. ASSUME NEW r \in Requests, StartPay(r) PROVE StockInv'
  <2>1. NoNegativeStock'
    BY <1>10 DEF StartPay, ReadOrder, Goto, NoNegativeStock, RequestInv
  <2>2. LedgerExplains'
    BY <1>10 DEF StartPay, ReadOrder, Goto, LedgerExplains
  <2>3. OrderTells'
    BY <1>10 DEF StartPay, ReadOrder, Goto, OrderTells, RequestInv, ReceivedInv
  <2>4. RequestInv'
    BY <1>10 DEF StartPay, ReadOrder, Goto, RequestInv, ReceivedInv, NoNegativeStock
  <2>5. ReceivedInv'
    BY <1>10 DEF StartPay, ReadOrder, Goto, ReceivedInv, RequestInv, OrderTells
  <2>6. QED BY <2>1, <2>2, <2>3, <2>4, <2>5
<1>11. ASSUME NEW r \in Requests, Pay(r) PROVE StockInv'
  <2>1. NoNegativeStock'
    BY <1>11 DEF Pay, Goto, NoNegativeStock, RequestInv
  <2>2. LedgerExplains'
    BY <1>11 DEF Pay, Goto, LedgerExplains
  <2>3. OrderTells'
    BY <1>11 DEF Pay, Goto, OrderTells, RequestInv, ReceivedInv
  <2>4. RequestInv'
    BY <1>11 DEF Pay, Goto, RequestInv, ReceivedInv, NoNegativeStock
  <2>5. ReceivedInv'
    BY <1>11 DEF Pay, Goto, ReceivedInv, RequestInv, OrderTells
  <2>6. QED BY <2>1, <2>2, <2>3, <2>4, <2>5
<1>12. ASSUME NEW r \in Requests, Abandon(r) PROVE StockInv'
  <2>1. NoNegativeStock'
    BY <1>12 DEF Abandon, Goto, NoNegativeStock, RequestInv
  <2>2. LedgerExplains'
    BY <1>12 DEF Abandon, Goto, LedgerExplains
  <2>3. OrderTells'
    BY <1>12 DEF Abandon, Goto, OrderTells, RequestInv, ReceivedInv
  <2>4. RequestInv'
    BY <1>12 DEF Abandon, Goto, RequestInv, ReceivedInv, NoNegativeStock
  <2>5. ReceivedInv'
    BY <1>12 DEF Abandon, Goto, ReceivedInv, RequestInv, OrderTells
  <2>6. QED BY <2>1, <2>2, <2>3, <2>4, <2>5
<1>13. CASE UNCHANGED vars
  BY <1>13 DEF vars, NoNegativeStock, LedgerExplains, OrderTells, RequestInv, ReceivedInv
<1>14. QED
  BY <1>1, <1>2, <1>3, <1>4, <1>5, <1>6, <1>7, <1>8, <1>9, <1>10, <1>11, <1>12, <1>13
     DEF Next, Inventory, Procurement

\* The inductive invariant holds in every reachable state.
THEOREM StockInvHolds == Spec => []StockInv
<1>1. Init => StockInv
  BY InitialAssumption, DeltasAssumption, AmountsAssumption, BasketsAssumption
     DEF Init, StockInv, TypeOK, Statuses, Places, NoNegativeStock, LedgerExplains, OrderTells, RequestInv, ReceivedInv
<1>2. StockInv /\ [Next]_vars => StockInv'
  BY TypeStep, StockInvStep DEF StockInv
<1>3. QED
  BY <1>1, <1>2, PTL DEF Spec

\* The variables keep their types.
THEOREM TypeCorrect == Spec => []TypeOK
  BY StockInvHolds, PTL DEF StockInv

\* No interleaving of sales, movements and receipts takes a quantity below zero.
THEOREM NoNegativeStockHolds == Spec => []NoNegativeStock
  BY StockInvHolds, PTL DEF StockInv

\* The history explains the quantity, unless a movement overwrote what it had not read.
THEOREM LedgerExplainsHolds == Spec => []LedgerExplains
  BY StockInvHolds, PTL DEF StockInv

\* An order tells whether its goods are in the stock unless two requests raced for its
\* status, and nothing unreceived is paid.
THEOREM OrderTellsHolds == Spec => []OrderTells
  BY StockInvHolds, PTL DEF StockInv
=============================================================================
