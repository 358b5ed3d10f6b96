------------------------------- MODULE Catalog --------------------------------
(***************************************************************************)
(* A company's menu and its orders.  An order takes its prices from the    *)
(* menu; the kitchen hears of it at once, or when it is paid if it must be *)
(* paid online.  The page the customer comes back to asks MyFatoorah about *)
(* the payment, and the merchant marks the others as paid.                 *)
(*                                                                         *)
(* Neither confirmation writes under a condition on what it has read, and  *)
(* an order is saved before the kitchen is told.                           *)
(***************************************************************************)
EXTENDS Integers

CONSTANTS Requests, Orders, Payments, Items, Categories,
          MaxEvents,
          None

VARIABLES
  menu,      \* menu_items: their category and price
  category,  \* menu_categories
  required,  \* catalog_settings.paymentRequired
  pay,       \* tenant_payment_settings: MyFatoorah's key and the list of methods
  order,     \* catalog_orders and their lines
  told,      \* how many times the kitchen heard of an order
  paid,      \* at MyFatoorah: the invoice a payment settled
  job,       \* job[r]: what request r has read
  events,    \* requests so far
  twice,     \* orders confirmed by two requests at once
  reused,    \* payments two requests looked up at once
  cut        \* orders whose request was cut off before the kitchen was told

vars == <<menu, category, required, pay, order, told, paid, job, events, twice, reused, cut>>

Types == {"MYFATOORAH", "LINK", "BANK_TRANSFER", "CASH", "CASH_OR_TRANSFER"}
NoItem     == [category |-> None, price |-> 0]
NoCategory == [live |-> FALSE, demo |-> FALSE]
NoOrder == [item |-> None, total |-> 0, status |-> "none", method |-> None, invoice |-> None, payment |-> None]
Idle == [at |-> "idle", o |-> None, item |-> None, total |-> 0, method |-> None, payment |-> None]

Init ==
  /\ menu = [i \in Items |-> NoItem] /\ category = [c \in Categories |-> NoCategory]
  /\ required = FALSE /\ pay = [key |-> FALSE, methods |-> {}, old |-> TRUE]
  /\ order = [o \in Orders |-> NoOrder] /\ told = [o \in Orders |-> 0] /\ paid = [p \in Payments |-> None]
  /\ job = [r \in Requests |-> Idle] /\ events = 0
  /\ twice = {} /\ reused = {} /\ cut = {}

At(r, place) == job[r].at = place
Spend == events < MaxEvents /\ events' = events + 1
End(r) == job' = [job EXCEPT ![r] = Idle]
Go(r, place) == job' = [job EXCEPT ![r].at = place]
Placed == {o \in Orders : order[o].status # "none"}

-----------------------------------------------------------------------------
(* The menu and the methods of payment.                                    *)

Live(i) == menu[i] # NoItem
CreateCategory(c) ==
  /\ ~category[c].live /\ category' = [category EXCEPT ![c] = [live |-> TRUE, demo |-> FALSE]] /\ Spend
  /\ UNCHANGED <<menu, required, pay, order, told, paid, job, twice, reused, cut>>
SetItem(i, c, price) ==
  /\ category[c].live /\ (Live(i) => menu[i].category = c) /\ menu[i].price # price
  /\ menu' = [menu EXCEPT ![i] = [category |-> c, price |-> price]] /\ Spend
  /\ UNCHANGED <<category, required, pay, order, told, paid, job, twice, reused, cut>>
\* A line of an order refers to its item: the database refuses to delete it.
Ordered(i) == \E o \in Placed : order[o].item = i
DeleteItem(i) ==
  /\ Live(i) /\ ~Ordered(i) /\ menu' = [menu EXCEPT ![i] = NoItem] /\ Spend
  /\ UNCHANGED <<category, required, pay, order, told, paid, job, twice, reused, cut>>
ItemsOf(c) == {i \in Items : menu[i].category = c}
DropCategory(c) ==
  /\ category' = [category EXCEPT ![c] = NoCategory]
  /\ menu' = [i \in Items |-> IF i \in ItemsOf(c) THEN NoItem ELSE menu[i]]
DeleteCategory(c) ==
  /\ category[c].live /\ (\A i \in ItemsOf(c) : ~Ordered(i)) /\ DropCategory(c) /\ Spend
  /\ UNCHANGED <<required, pay, order, told, paid, job, twice, reused, cut>>
\* The demo menu adds the categories it lacks, and leaves those with orders
\* when it goes.
addDemoMenu(c, i) ==
  /\ ~(\E d \in Categories : category[d].demo) /\ ~category[c].live /\ ~Live(i) /\ Spend
  /\ category' = [category EXCEPT ![c] = [live |-> TRUE, demo |-> TRUE]]
  /\ menu' = [menu EXCEPT ![i] = [category |-> c, price |-> 1]]
  /\ UNCHANGED <<required, pay, order, told, paid, job, twice, reused, cut>>
removeDemoMenu(c) ==
  /\ category[c].demo /\ (\A i \in ItemsOf(c) : ~Ordered(i)) /\ DropCategory(c) /\ Spend
  /\ UNCHANGED <<required, pay, order, told, paid, job, twice, reused, cut>>

PaymentRequired ==
  /\ required' = ~required /\ Spend
  /\ UNCHANGED <<menu, category, pay, order, told, paid, job, twice, reused, cut>>
\* The key is saved by itself; the list, whose order is the page's only, may
\* name MyFatoorah only once it is.
SaveKey ==
  /\ ~pay.key /\ pay' = [pay EXCEPT !.key = TRUE] /\ Spend
  /\ UNCHANGED <<menu, category, required, order, told, paid, job, twice, reused, cut>>
PutMethods(list) ==
  /\ "MYFATOORAH" \in list => pay.key
  /\ pay' = [pay EXCEPT !.methods = list, !.old = FALSE] /\ pay' # pay /\ Spend
  /\ UNCHANGED <<menu, category, required, order, told, paid, job, twice, reused, cut>>
\* A merchant who never used the list has the one method of the old settings.
resolvePaymentMethods ==
  IF ~pay.old THEN {t \in pay.methods : t = "MYFATOORAH" => pay.key} ELSE IF pay.key THEN {"MYFATOORAH"} ELSE {}
confirmsOnOrder(type) == type \in {"CASH", "CASH_OR_TRANSFER"}

-----------------------------------------------------------------------------
(* Orders.                                                                 *)

\* The item, the settings and the methods are read; any of the methods is picked.
ReadMenu(r, i) ==
  LET methods == resolvePaymentMethods IN
  /\ job[r] = Idle /\ Live(i) /\ Spend
  /\ IF required /\ menu[i].price > 0
     THEN \E type \in methods :
            job' = [job EXCEPT ![r] = [Idle EXCEPT !.at = "create", !.item = i, !.total = menu[i].price, !.method = type]]
     ELSE job' = [job EXCEPT ![r] = [Idle EXCEPT !.at = "create", !.item = i, !.total = menu[i].price]]
  /\ UNCHANGED <<menu, category, required, pay, order, told, paid, twice, reused, cut>>
\* The line refers to the item: one deleted meanwhile fails the request.
CreateOrder(r) ==
  LET method == job[r].method IN
  /\ At(r, "create")
  /\ IF ~Live(job[r].item) THEN End(r) /\ UNCHANGED order
     ELSE \E o \in Orders \ Placed :
            /\ order' = [order EXCEPT ![o] = [NoOrder EXCEPT !.item = job[r].item, !.total = job[r].total, !.method = method,
                           !.status = IF method = None THEN "NOT_REQUIRED" ELSE "AWAITING_PAYMENT"]]
            /\ job' = [job EXCEPT ![r].o = o,
                         ![r].at = IF method = None \/ confirmsOnOrder(method) THEN "tell"
                                   ELSE IF method = "MYFATOORAH" THEN "invoice" ELSE "done"]
  /\ UNCHANGED <<menu, category, required, pay, told, paid, events, twice, reused, cut>>
\* A link and a transfer have nothing more to do; MyFatoorah makes an invoice,
\* named here by its order, or fails and leaves the order without one.
startTenantPayment(r) ==
  /\ \/ At(r, "done") /\ UNCHANGED order
     \/ At(r, "invoice") /\ order' = [order EXCEPT ![job[r].o].invoice = job[r].o]
     \/ At(r, "invoice") /\ UNCHANGED order
  /\ End(r)
  /\ UNCHANGED <<menu, category, required, pay, told, paid, events, twice, reused, cut>>
notifyNewOrder(r) ==
  /\ At(r, "tell") /\ End(r)
  /\ told' = [told EXCEPT ![job[r].o] = @ + 1]
  /\ UNCHANGED <<menu, category, required, pay, order, paid, events, twice, reused, cut>>
\* The process stops, or the notification fails: what was saved stays.
Stop(r) ==
  /\ job[r] # Idle /\ Spend /\ End(r)
  /\ cut' = IF At(r, "tell") THEN cut \cup {job[r].o} ELSE cut
  /\ UNCHANGED <<menu, category, required, pay, order, told, paid, twice, reused>>

-----------------------------------------------------------------------------
(* Payment.                                                                *)

\* The customer pays an invoice at MyFatoorah.
PayInvoice(p, o) ==
  /\ paid[p] = None /\ order[o].invoice = o /\ Spend /\ paid' = [paid EXCEPT ![p] = o]
  /\ UNCHANGED <<menu, category, required, pay, order, told, job, twice, reused, cut>>

\* The customer has the order's number once its request has answered.
ReadOrder(r, o, p) ==
  /\ \A q \in Requests : At(q, "invoice") => job[q].o # o
  /\ job[r] = Idle /\ o \in Placed /\ order[o].status = "AWAITING_PAYMENT" /\ Spend
  /\ job' = [job EXCEPT ![r] = [Idle EXCEPT !.at = "ask", !.o = o, !.payment = p]]
  /\ UNCHANGED <<menu, category, required, pay, order, told, paid, twice, reused, cut>>
\* An order without an invoice matches any payment.
Mismatch(p, invoice) == invoice # None /\ paid[p] # invoice
UsedElsewhere(o, p) == \E q \in Orders \ {o} : order[q].payment = p
Unused(o, p) == FALSE   \* mutant: nobody looks whether the payment was used
Reused(o, p) == UsedElsewhere(o, p)
\* The order's invoice was read with it.
AskPaid(r) ==
  LET o == job[r].o  p == job[r].payment IN
  /\ At(r, "ask")
  /\ IF paid[p] = None \/ Mismatch(p, order[o].invoice) \/ Reused(o, p) THEN End(r) ELSE Go(r, "confirm")
  /\ reused' = IF \E q \in Requests \ {r} : At(q, "confirm") /\ job[q].payment = p THEN reused \cup {p} ELSE reused
  /\ UNCHANGED <<menu, category, required, pay, order, told, paid, events, twice, cut>>
ConfirmOrderPaymentIfPaid(r) ==
  LET o == job[r].o IN
  /\ At(r, "confirm") /\ Go(r, "tell")
  /\ order' = [order EXCEPT ![o].status = "PAID", ![o].payment = job[r].payment]
  /\ twice' = IF order[o].status = "PAID" THEN twice \cup {o} ELSE twice
  /\ UNCHANGED <<menu, category, required, pay, told, paid, events, reused, cut>>

ReadToMark(r, o) ==
  /\ job[r] = Idle /\ order[o].status = "AWAITING_PAYMENT" /\ Spend
  /\ job' = [job EXCEPT ![r] = [Idle EXCEPT !.at = "mark", !.o = o]]
  /\ UNCHANGED <<menu, category, required, pay, order, told, paid, twice, reused, cut>>
Tells(type) == ~confirmsOnOrder(type)
AlwaysTells(type) == TRUE   \* mutant: a cash order is told again
TellsWhenPaid(type) == Tells(type)
markOrderPaidManually(r) ==
  LET o == job[r].o IN
  /\ At(r, "mark")
  /\ IF TellsWhenPaid(order[o].method) THEN Go(r, "tell") ELSE End(r)
  /\ order' = [order EXCEPT ![o].status = "PAID"]
  /\ twice' = IF order[o].status = "PAID" THEN twice \cup {o} ELSE twice
  /\ UNCHANGED <<menu, category, required, pay, told, paid, events, reused, cut>>

Lists == {{type} : type \in Types} \cup {{"CASH", "MYFATOORAH"}}
Next ==
  \/ \E c \in Categories : CreateCategory(c) \/ DeleteCategory(c) \/ removeDemoMenu(c)
  \/ \E i \in Items, c \in Categories : addDemoMenu(c, i) \/ (\E price \in 0..1 : SetItem(i, c, price))
  \/ \E i \in Items : DeleteItem(i)
  \/ PaymentRequired \/ SaveKey \/ (\E list \in Lists : PutMethods(list))
  \/ \E r \in Requests : CreateOrder(r) \/ startTenantPayment(r) \/ notifyNewOrder(r) \/ Stop(r)
       \/ AskPaid(r) \/ ConfirmOrderPaymentIfPaid(r) \/ markOrderPaidManually(r) \/ (\E i \in Items : ReadMenu(r, i))
  \/ \E p \in Payments, o \in Orders : PayInvoice(p, o) \/ (\E r \in Requests : ReadOrder(r, o, p))
  \/ \E r \in Requests, o \in Orders : ReadToMark(r, o)
Spec == Init /\ [][Next]_vars

-----------------------------------------------------------------------------
(* What the orders promise.                                                *)

\* The kitchen hears once of an order it has to prepare, and never of one
\* that still waits for its money online or by transfer.  Two confirmations
\* at once tell it twice, as does a payment accepted for an order that has no
\* invoice to compare it with; a request cut off before it leaves it untold.
KitchenHearsOnce ==
  \A o \in Placed :
    /\ (order[o].status = "AWAITING_PAYMENT" /\ ~confirmsOnOrder(order[o].method)) => told[o] = 0
    /\ (o \notin twice /\ (order[o].payment # None => order[o].invoice # None)) => told[o] <= 1
    /\ (o \notin cut /\ (order[o].status # "AWAITING_PAYMENT" \/ confirmsOnOrder(order[o].method))
          /\ \A r \in Requests : job[r].o # o) => told[o] >= 1

OwnPayment(o) == order[o].payment # None =>
  /\ order[o].invoice # None => paid[order[o].payment] = o
  /\ order[o].payment \notin reused => ~UsedElsewhere(o, order[o].payment)

\* A payment confirms one order: it settled that order's invoice, or the
\* order has none, and no other order has taken it, unless two requests
\* looked it up at the same time.
PaymentConfirmsOneOrder == \A o \in Placed : OwnPayment(o)
-----------------------------------------------------------------------------
(* Why: who will tell the kitchen has found the order in the state that    *)
(* calls for it, and who will confirm an order has found its payment free. *)

Statuses == {"none", "NOT_REQUIRED", "AWAITING_PAYMENT", "PAID"}
Serving  == {"tell", "invoice", "done", "ask", "confirm", "mark"}
Job == [at : {"idle", "create"} \cup Serving, o : Orders \cup {None}, item : Items \cup {None}, total : Nat,
        method : Types \cup {None}, payment : Payments \cup {None}]
TypeOK ==
  /\ menu \in [Items -> [category : Categories \cup {None}, price : Nat]]
  /\ category \in [Categories -> [live : BOOLEAN, demo : BOOLEAN]]
  /\ required \in BOOLEAN /\ pay \in [key : BOOLEAN, methods : SUBSET Types, old : BOOLEAN]
  /\ order \in [Orders -> [item : Items \cup {None}, total : Nat, status : Statuses, method : Types \cup {None},
                           invoice : Orders \cup {None}, payment : Payments \cup {None}]]
  /\ told \in [Orders -> Nat] /\ paid \in [Payments -> Orders \cup {None}]
  /\ job \in [Requests -> Job] /\ events \in Nat
  /\ twice \subseteq Orders /\ reused \subseteq Payments /\ cut \subseteq Orders

Due(o)     == order[o].status # "AWAITING_PAYMENT" \/ confirmsOnOrder(order[o].method)
Tellers(o) == {r \in Requests : At(r, "tell") /\ job[r].o = o}
OrderInv(o) ==
  /\ o \notin Placed => order[o] = NoOrder /\ told[o] = 0
  /\ order[o].invoice # None => order[o].invoice = o /\ order[o].method = "MYFATOORAH"
  /\ ~Due(o) => told[o] = 0
  /\ o \notin twice /\ (order[o].payment # None => order[o].invoice # None) =>
       /\ told[o] <= 1
       /\ \A r \in Tellers(o) : told[o] = 0 /\ Tellers(o) = {r}
  /\ o \in Placed \ cut /\ Due(o) => told[o] >= 1 \/ Tellers(o) # {}
RequestInv(r) ==
  LET o == job[r].o  p == job[r].payment IN
  /\ At(r, "create") => job[r].item \in Items
  /\ job[r].at \in Serving => o \in Placed
  /\ At(r, "tell") => Due(o)
  /\ At(r, "invoice") => order[o].method = "MYFATOORAH" /\ order[o].payment = None
  /\ job[r].at \in {"ask", "confirm", "mark"} => order[o].status \in {"AWAITING_PAYMENT", "PAID"}
  /\ job[r].at \in {"ask", "confirm"} => p \in Payments /\ \A q \in Requests : At(q, "invoice") => job[q].o # o
  /\ At(r, "confirm") =>
       /\ paid[p] # None /\ ~Mismatch(p, order[o].invoice)
       /\ p \notin reused => ~UsedElsewhere(o, p) /\ \A q \in Requests \ {r} : At(q, "confirm") => job[q].payment # p
CatalogInv ==
  /\ TypeOK /\ PaymentConfirmsOneOrder
  /\ \A o \in Orders : OrderInv(o)
  /\ \A r \in Requests : RequestInv(r)
=============================================================================
