-------------------------------- MODULE Stock --------------------------------
(***************************************************************************)
(* The stock of a company and what moves it: movements entered by hand,    *)
(* sales and received purchase orders, each leaving an InventoryMovement.  *)
(* A request first reads and checks, then writes in one transaction.  Two  *)
(* requests may meet in between: a sale guards its decrement, a movement   *)
(* writes the quantity it computed from what it read, and an order's       *)
(* status is written whatever it has become since it was read.             *)
(***************************************************************************)
EXTENDS Integers

CONSTANTS Requests,   \* HTTP requests, each made once
          Items,
          Orders,     \* purchase orders
          Initial,    \* Initial[i]: the quantity given when i was created
          Deltas,     \* what a movement adds: its quantity, negated for OUT and WASTAGE
          Amounts,    \* quantities sold
          Baskets     \* the lines of an order, summed by item

ASSUME InitialAssumption == Initial \in [Items -> Nat]
ASSUME DeltasAssumption  == Deltas \subseteq Int
ASSUME AmountsAssumption == Amounts \subseteq Nat \ {0}
ASSUME BasketsAssumption == Baskets \subseteq [Items -> Nat]

VARIABLES
  qty, ledger,     \* each item: its quantity, and the signed sum of its movements
  status, basket, paid,   \* the orders
  pc, item, order, amount, read, \* each request, and the quantity it read
  saw, to,         \* the status it read of its order, and the one it asks for
  overwrote,       \* items written over another quantity than the one read
  raced,           \* orders written over another status than the one read
  received         \* how often each order's basket was added to the stock

stock    == <<qty, ledger, overwrote>>
purchase == <<status, basket, paid, raced, received>>
request  == <<item, order, amount, read, saw, to>>
vars     == <<qty, ledger, overwrote, status, basket, paid, raced, received,
              pc, item, order, amount, read, saw, to>>

Statuses == {"NONE", "DRAFT", "ORDERED", "CANCELLED", "RECEIVED"}
Places   == {"start", "move", "sell", "status", "receive", "pay", "done"}

Init ==
  /\ qty = Initial /\ ledger = [i \in Items |-> 0]
  /\ status = [o \in Orders |-> "NONE"] /\ paid = {}
  /\ basket = [o \in Orders |-> [i \in Items |-> 0]]
  /\ pc = [r \in Requests |-> "start"]
  /\ item \in [Requests -> Items] /\ order \in [Requests -> Orders]
  /\ amount = [r \in Requests |-> 0] /\ read = [r \in Requests |-> 0]
  /\ saw = [r \in Requests |-> "NONE"] /\ to = [r \in Requests |-> "NONE"]
  /\ overwrote = {} /\ raced = {} /\ received = [o \in Orders |-> 0]

Goto(r, place) == pc' = [pc EXCEPT ![r] = place]

-----------------------------------------------------------------------------
(* Movements and sales.                                                    *)

ReadItem(r, n) ==
  /\ pc[r] = "start"
  /\ amount' = [amount EXCEPT ![r] = n]
  /\ read' = [read EXCEPT ![r] = qty[item[r]]]
  /\ UNCHANGED <<stock, purchase, item, order, saw, to>>

\* POST /:itemId/movements, up to its transaction: refused below zero.
StartMovement(r, delta) ==
  /\ qty[item[r]] + delta >= 0
  /\ ReadItem(r, delta) /\ Goto(r, "move")

\* The quantity as computed and the movement.
MovementLedgerAdds(l, r) == [l EXCEPT ![item[r]] = read[r] + amount[r]]       \* mutant
MovementLedger(l, r) == [l EXCEPT ![item[r]] = @ + amount[r]]
Move(r) ==
  /\ pc[r] = "move"
  /\ qty' = [qty EXCEPT ![item[r]] = read[r] + amount[r]]
  /\ ledger' = MovementLedger(ledger, r)
  /\ overwrote' = IF qty[item[r]] = read[r] THEN overwrote ELSE overwrote \cup {item[r]}
  /\ Goto(r, "done")
  /\ UNCHANGED <<purchase, request>>

\* recordSale, up to its transaction.
StartSale(r, n) ==
  /\ qty[item[r]] >= n
  /\ ReadItem(r, n) /\ Goto(r, "sell")

\* The conditional decrement with its movement, the entry in the books and the sale;
\* when the items ran out meanwhile the transaction is rolled back.
EnoughRead(r) == read[r] >= amount[r]                        \* mutant
Enough(r) == qty[item[r]] >= amount[r]
Sell(r) ==
  /\ pc[r] = "sell"
  /\ IF Enough(r)
     THEN /\ qty'    = [qty    EXCEPT ![item[r]] = @ - amount[r]]
          /\ ledger' = [ledger EXCEPT ![item[r]] = @ - amount[r]]
     ELSE UNCHANGED <<qty, ledger>>
  /\ Goto(r, "done")
  /\ UNCHANGED <<overwrote, purchase, request>>

-----------------------------------------------------------------------------
(* Purchase orders.                                                        *)

ReadOrder(r) ==
  /\ pc[r] = "start"
  /\ saw' = [saw EXCEPT ![r] = status[order[r]]]
  /\ UNCHANGED <<stock, purchase, item, order, amount, read>>

\* The update by id, whatever the status is now.
Write(r, value) ==
  /\ status' = [status EXCEPT ![order[r]] = value]
  /\ raced' = IF status[order[r]] = saw[r] THEN raced ELSE raced \cup {order[r]}
  /\ Goto(r, "done")
  /\ UNCHANGED <<basket, paid, overwrote, request>>

\* createPurchaseOrder.
CreateOrder(r, lines) ==
  /\ pc[r] = "start" /\ status[order[r]] = "NONE"
  /\ status' = [status EXCEPT ![order[r]] = "DRAFT"]
  /\ basket' = [basket EXCEPT ![order[r]] = lines]
  /\ Goto(r, "done")
  /\ UNCHANGED <<stock, paid, raced, received, request>>

\* updatePurchaseOrderStatus: only a draft moves.
StartStatus(r, value) ==
  /\ status[order[r]] = "DRAFT"
  /\ ReadOrder(r) /\ Goto(r, "status")
  /\ to' = [to EXCEPT ![r] = value]
SetStatus(r) ==
  /\ pc[r] = "status" /\ Write(r, to[r])
  /\ UNCHANGED <<qty, ledger, received>>

\* receivePurchaseOrder: the checks, and then one transaction.
Receivable(o) == status[o] \in {"DRAFT", "ORDERED"}
StartReceive(r) ==
  /\ Receivable(order[r])
  /\ ReadOrder(r) /\ Goto(r, "receive") /\ UNCHANGED to
StatusReceived == "RECEIVED"
Receive(r) ==
  /\ pc[r] = "receive"
  /\ qty'    = [i \in Items |-> qty[i]    + basket[order[r]][i]]
  /\ ledger' = [i \in Items |-> ledger[i] + basket[order[r]][i]]
  /\ received' = [received EXCEPT ![order[r]] = @ + 1]
  /\ Write(r, StatusReceived)

\* markPurchaseOrderPaid: only what was received is owed.
StartPay(r) ==
  /\ status[order[r]] = "RECEIVED"
  /\ ReadOrder(r) /\ Goto(r, "pay") /\ UNCHANGED to
Pay(r) ==
  /\ pc[r] = "pay" /\ paid' = paid \cup {order[r]}
  /\ Goto(r, "done")
  /\ UNCHANGED <<stock, status, basket, raced, received, request>>

\* A failed query or transaction, a restart of the server, or a request never made.
Abandon(r) ==
  /\ pc[r] # "done" /\ Goto(r, "done")
  /\ UNCHANGED <<stock, purchase, request>>

-----------------------------------------------------------------------------

Inventory(r) ==
  \/ \E delta \in Deltas : StartMovement(r, delta)
  \/ \E n \in Amounts : StartSale(r, n)
  \/ Move(r) \/ Sell(r)
Procurement(r) ==
  \/ \E lines \in Baskets : CreateOrder(r, lines)
  \/ \E value \in {"ORDERED", "CANCELLED"} : StartStatus(r, value)
  \/ SetStatus(r) \/ StartReceive(r) \/ Receive(r) \/ StartPay(r) \/ Pay(r)

Next == \E r \in Requests : Inventory(r) \/ Procurement(r) \/ Abandon(r)

Spec == Init /\ [][Next]_vars

-----------------------------------------------------------------------------

\* The variables keep their types.
TypeOK ==
  /\ qty \in [Items -> Int] /\ ledger \in [Items -> Int]
  /\ status \in [Orders -> Statuses] /\ basket \in [Orders -> [Items -> Nat]]
  /\ paid \subseteq Orders /\ raced \subseteq Orders /\ overwrote \subseteq Items
  /\ received \in [Orders -> Nat]
  /\ pc \in [Requests -> Places] /\ item \in [Requests -> Items]
  /\ order \in [Requests -> Orders]
  /\ amount \in [Requests -> Int] /\ read \in [Requests -> Int]
  /\ saw \in [Requests -> Statuses] /\ to \in [Requests -> Statuses]

\* Sales, movements and receipts of one item at the same moment never take its
\* quantity below zero: sales re-check it where they write it, and a movement writes
\* what it checked.
NoNegativeStock == \A i \in Items : qty[i] >= 0

\* The history of an item explains its quantity (inventory.routes.ts:60: "the movement
\* is recorded in a real history"), unless a movement overwrote a change made since
\* it read the item.
LedgerExplains ==
  \A i \in Items \ overwrote : qty[i] = Initial[i] + ledger[i]

\* An order's goods are in the stock exactly when it is RECEIVED, and once, unless two
\* requests wrote its status from the same reading; and what was never received is
\* never paid for, even then.
OrderTells ==
  \A o \in Orders :
    /\ o \notin raced => received[o] = IF status[o] = "RECEIVED" THEN 1 ELSE 0
    /\ o \in paid => received[o] >= 1

\* What makes NoNegativeStock and OrderTells inductive.
RequestInv ==
  \A r \in Requests :
    /\ pc[r] = "move" => read[r] + amount[r] >= 0
    /\ pc[r] = "sell" => amount[r] >= 0
    /\ pc[r] = "status" => to[r] \in {"ORDERED", "CANCELLED"} /\ saw[r] = "DRAFT"
    /\ pc[r] = "receive" => saw[r] \in {"DRAFT", "ORDERED"}
    /\ pc[r] = "pay" => received[order[r]] >= 1

ReceivedInv == \A o \in Orders : status[o] = "RECEIVED" => received[o] >= 1

StockInv == TypeOK /\ NoNegativeStock /\ LedgerExplains /\ OrderTells /\ RequestInv /\ ReceivedInv
=============================================================================
