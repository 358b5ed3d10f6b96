-------------------------------- MODULE Books ---------------------------------
(***************************************************************************)
(* A company's books: invoices and their payments, vendor bills, and the   *)
(* journal that records them.  A document remembers the journal entry made *)
(* for it, and an entry is deleted or written again with its document.     *)
(*                                                                         *)
(* Issuing an invoice, and changing or deleting a bill, read the document  *)
(* before their transaction: others come in between.  A payment locks its  *)
(* invoice.  Amounts are whole units of money, the smallest a difference   *)
(* can be.                                                                 *)
(***************************************************************************)
EXTENDS Integers, FiniteSets, FiniteSetsExt

CONSTANTS Requests, Invoices, Payments, Bills,
          Subtotals,     \* of an invoice, before VAT
          Amounts,       \* of payments, bills and manual entries
          Manual,        \* accounts of manual entries
          Days,          \* 1 .. last
          NoDoc,
          MaxRequests

ASSUME DocumentsAssumption ==
  /\ Invoices \cap Payments = {} /\ Invoices \cap Bills = {} /\ Payments \cap Bills = {}
  /\ NoDoc \notin Invoices \cup Payments \cup Bills
\* Rows of tables, prices and amounts from 0 up, accounts of the chart.
ASSUME AmountsAssumption ==
  /\ IsFiniteSet(Invoices) /\ IsFiniteSet(Payments) /\ IsFiniteSet(Bills)
  /\ Subtotals \subseteq Nat /\ Amounts \subseteq Nat
  /\ Manual \subseteq {"1000", "1010", "1100", "2000", "2100", "4000", "5100"}

VARIABLES
  invoices,  \* status, number, subtotal, VAT, day of issue and journal entry
  payments,  \* invoice, amount, day, time of the day and journal entry
  bills,     \* status, amount, day, day of payment and the two entries
  journal,   \* journal_entries: their id, document, day and lines
  lastId,    \* ids given to entries so far
  accounts,  \* the chart of accounts
  vatNumber, \* the company has one
  today,
  job,       \* job[r]: what request r has read
  asked,
  tangled    \* documents that changed between a request's reading and writing

vars == <<invoices, payments, bills, journal, lastId, accounts, vatNumber, today, job, asked, tangled>>

TypeOf == [a \in {"1000", "1010", "1100", "2000", "2100", "4000", "5100"} |->
  CASE a \in {"1000", "1010", "1100"} -> "ASSET" [] a \in {"2000", "2100"} -> "LIABILITY"
    [] a = "4000" -> "REVENUE" [] OTHER -> "EXPENSE"]
Codes == DOMAIN TypeOf

NoInvoice == [status |-> "none", number |-> 0, subtotal |-> 0, vat |-> 0, day |-> 0, entry |-> 0]
NoPayment == [invoice |-> NoDoc, amount |-> 0, day |-> 0, time |-> 0, entry |-> 0]
NoBill    == [status |-> "none", amount |-> 0, day |-> 0, paid |-> 0, entry |-> 0, payment |-> 0]
Idle == [at |-> "idle", doc |-> NoDoc, number |-> 0, amount |-> 0, paid |-> FALSE, day |-> 0, read |-> NoBill]

Init ==
  /\ invoices = [i \in Invoices |-> NoInvoice] /\ payments = [p \in Payments |-> NoPayment]
  /\ bills = [b \in Bills |-> NoBill] /\ journal = {} /\ lastId = 0 /\ accounts = {}
  /\ vatNumber = FALSE /\ today = 1
  /\ job = [r \in Requests |-> Idle] /\ asked = 0 /\ tangled = {}

Spend == asked < MaxRequests /\ asked' = asked + 1
Start(r, j) == job[r] = Idle /\ Spend /\ job' = [job EXCEPT ![r] = j]
End(r) == job' = [job EXCEPT ![r] = Idle] /\ UNCHANGED asked
At(r, place) == job[r].at = place

\* getOrCreateAccount, and the upserts of an invoice.
getOrCreate(codes) == accounts' = accounts \cup codes
\* Debits less credits, account by account.
Double(debit, credit, amount) ==
  [a \in Codes |-> (IF a = debit THEN amount ELSE 0) - (IF a = credit THEN amount ELSE 0)]
Entry(id, doc, day, lines) == [id |-> id, doc |-> doc, day |-> day, lines |-> lines]
Keep(ids) == {e \in journal : e.id \notin ids}
Stop(ids) == journal   \* mutant: the entries stay
deleteEntry(ids) == Keep(ids)

-----------------------------------------------------------------------------
(* Invoices.                                                               *)

Vat(subtotal) == (subtotal * 5 + 50) \div 100
Total(i) == invoices[i].subtotal + invoices[i].vat
Paid(i)  == SumFunction([p \in {q \in Payments : payments[q].invoice = i} |-> payments[p].amount])
Due(i, paid) == IF Total(i) > paid THEN Total(i) - paid ELSE 0
invoiceLines(i) ==
  [a \in Codes |-> CASE a = "1100" -> Total(i) [] a = "4000" -> 0 - invoices[i].subtotal
                     [] a = "2100" -> 0 - invoices[i].vat [] OTHER -> 0]
Issued   == {i \in Invoices : invoices[i].status \in {"ISSUED", "PAID"}}

\* The next number is the count of the invoices, read before.
NextInvoiceNumber(r) ==
  /\ Start(r, [Idle EXCEPT !.at = "number",
                 !.number = Cardinality({i \in Invoices : invoices[i].status # "none"}) + 1])
  /\ UNCHANGED <<invoices, payments, bills, journal, lastId, accounts, vatNumber, today, tangled>>
CreateInvoice(r) ==
  /\ At(r, "number") /\ End(r)
  /\ IF \E i \in Invoices : invoices[i].number = job[r].number THEN UNCHANGED invoices
     ELSE \E i \in Invoices, s \in Subtotals :
            /\ invoices[i] = NoInvoice
            /\ invoices' = [invoices EXCEPT ![i] = [NoInvoice EXCEPT
                              !.status = "DRAFT", !.number = job[r].number, !.subtotal = s, !.vat = Vat(s)]]
  /\ UNCHANGED <<payments, bills, journal, lastId, accounts, vatNumber, today, tangled>>

ReadDraft(r, i) ==
  /\ invoices[i].status = "DRAFT" /\ vatNumber /\ Start(r, [Idle EXCEPT !.at = "issue", !.doc = i])
  /\ getOrCreate({"1100", "4000", "2100"})
  /\ UNCHANGED <<invoices, payments, bills, journal, lastId, vatNumber, today, tangled>>
IssueInvoice(r) ==
  LET i == job[r].doc IN
  /\ At(r, "issue") /\ End(r)
  /\ journal' = journal \cup {Entry(lastId + 1, i, today, invoiceLines(i))}
  /\ lastId' = lastId + 1
  /\ invoices' = [invoices EXCEPT ![i].status = "ISSUED", ![i].day = today, ![i].entry = lastId + 1]
  /\ tangled' = IF invoices[i].status # "DRAFT" THEN tangled \cup {i} ELSE tangled
  /\ UNCHANGED <<payments, bills, accounts, vatNumber, today>>

cashAccountFor(method) == IF method = "BANK" THEN "1010" ELSE "1000"
NotBeforeIssue(i, day) == day >= invoices[i].day
DayAllowed(i, day) == NotBeforeIssue(i, day)
StatusOf(i, paid) == IF Due(i, paid) = 0 THEN "PAID" ELSE "ISSUED"

\* In one transaction, with the invoice's row locked; a payment dated by day
\* is at midnight.
AddInvoicePayment(i, amount, method, day, time) ==
  LET due == Due(i, Paid(i))  paid == IF amount = 0 THEN due ELSE amount IN
  /\ i \in Issued /\ due > 0 /\ paid <= due /\ DayAllowed(i, day) /\ Spend
  /\ getOrCreate({cashAccountFor(method), "1100"})
  /\ \E p \in Payments :
       /\ payments[p] = NoPayment
       /\ payments' = [payments EXCEPT ![p] = [invoice |-> i, amount |-> paid, day |-> day, time |-> time,
                                               entry |-> lastId + 1]]
       /\ journal' = journal \cup {Entry(lastId + 1, p, day, Double(cashAccountFor(method), "1100", paid))}
  /\ lastId' = lastId + 1
  /\ invoices' = [invoices EXCEPT ![i].status = StatusOf(i, Paid(i) + paid)]
  /\ UNCHANGED <<bills, vatNumber, today, job, tangled>>
DeleteInvoicePayment(p) ==
  LET i == payments[p].invoice IN
  /\ i # NoDoc /\ Spend
  /\ journal' = deleteEntry({payments[p].entry})
  /\ payments' = [payments EXCEPT ![p] = NoPayment]
  /\ invoices' = [invoices EXCEPT ![i].status = StatusOf(i, Paid(i) - payments[p].amount)]
  /\ UNCHANGED <<bills, lastId, accounts, vatNumber, today, job, tangled>>

SetVatNumber ==
  /\ ~vatNumber /\ vatNumber' = TRUE
  /\ UNCHANGED <<invoices, payments, bills, journal, lastId, accounts, today, job, asked, tangled>>

-----------------------------------------------------------------------------
(* Vendor bills.                                                           *)

postBillEntry(id, b, amount, day)    == Entry(id, b, day, Double("5100", "2000", amount))
postPaymentEntry(id, b, amount, day) == Entry(id, b, day, Double("2000", "1000", amount))
BillAccounts(paid) == {"5100", "2000"} \cup (IF paid THEN {"1000"} ELSE {})

CreateBill(b, amount, day, paid) ==
  /\ bills[b] = NoBill /\ Spend /\ getOrCreate(BillAccounts(paid))
  /\ LET settled == IF paid THEN {postPaymentEntry(lastId + 2, b, amount, day)} ELSE {} IN
       /\ journal' = journal \cup {postBillEntry(lastId + 1, b, amount, day)} \cup settled
       /\ lastId' = lastId + 1 + Cardinality(settled)
       /\ bills' = [bills EXCEPT ![b] = [status |-> IF paid THEN "PAID" ELSE "UNPAID", amount |-> amount,
                      day |-> day, paid |-> IF paid THEN day ELSE 0, entry |-> lastId + 1,
                      payment |-> IF paid THEN lastId + 2 ELSE 0]]
  /\ UNCHANGED <<invoices, payments, vatNumber, today, job, tangled>>

ReadBill(r, b, change) ==
  /\ bills[b] # NoBill
  /\ Start(r, [change EXCEPT !.doc = b, !.read = bills[b]])
  /\ UNCHANGED <<invoices, payments, bills, journal, lastId, accounts, vatNumber, today, tangled>>
Tangle(r) ==
  tangled' = IF bills[job[r].doc] # job[r].read THEN tangled \cup {job[r].doc} ELSE tangled

\* The entries are written again when what they say has changed; on is the day
\* of payment the request gives, or 0.
UpdateBill(r, renamed, on) ==
  LET b == job[r].doc  old == job[r].read  amount == job[r].amount  paid == job[r].paid
      paidDay == IF ~paid THEN 0 ELSE IF on # 0 THEN on ELSE IF old.paid # 0 THEN old.paid ELSE today
      changed == renamed \/ amount # old.amount \/ job[r].day # old.day
      settle  == ~paid \/ changed \/ old.payment = 0 \/ (old.paid # 0 /\ paidDay # old.paid)
      billId  == IF changed THEN lastId + 1 ELSE old.entry
      payId   == IF ~settle THEN old.payment ELSE IF ~paid THEN 0
                 ELSE lastId + (IF changed THEN 2 ELSE 1)
      dropped == (IF changed THEN {old.entry} ELSE {}) \cup (IF settle THEN {old.payment} ELSE {})
      added   == (IF changed THEN {postBillEntry(billId, b, amount, job[r].day)} ELSE {})
                 \cup (IF settle /\ paid THEN {postPaymentEntry(payId, b, amount, paidDay)} ELSE {}) IN
  /\ At(r, "update") /\ End(r)
  /\ IF bills[b] = NoBill THEN UNCHANGED <<bills, journal, lastId, accounts, tangled>>
     ELSE /\ journal' = deleteEntry(dropped) \cup added /\ lastId' = lastId + Cardinality(added)
          /\ getOrCreate(BillAccounts(paid)) /\ Tangle(r)
          /\ bills' = [bills EXCEPT ![b] = [status |-> IF paid THEN "PAID" ELSE "UNPAID", amount |-> amount,
                         day |-> job[r].day, paid |-> paidDay, entry |-> billId, payment |-> payId]]
  /\ UNCHANGED <<invoices, payments, vatNumber, today>>
DeleteBill(r) ==
  LET b == job[r].doc IN
  /\ At(r, "delete") /\ End(r)
  /\ IF bills[b] = NoBill THEN UNCHANGED <<bills, journal, tangled>>
     ELSE /\ journal' = deleteEntry({job[r].read.entry, job[r].read.payment})
          /\ bills' = [bills EXCEPT ![b] = NoBill] /\ Tangle(r)
  /\ UNCHANGED <<invoices, payments, lastId, accounts, vatNumber, today>>

-----------------------------------------------------------------------------
(* The journal and the chart of accounts.                                  *)

Equal(debit, credit) == debit = credit
Balanced(debit, credit) == Equal(debit, credit)
CreateJournalEntry(d, c, debit, credit) ==
  /\ {d, c} \subseteq accounts /\ d # c /\ Balanced(debit, credit) /\ Spend
  /\ journal' = journal \cup {Entry(lastId + 1, NoDoc, today,
                  [a \in Codes |-> (IF a = d THEN debit ELSE 0) - (IF a = c THEN credit ELSE 0)])}
  /\ lastId' = lastId + 1
  /\ UNCHANGED <<invoices, payments, bills, accounts, vatNumber, today, job, tangled>>
DefaultAccounts == {"1000", "2000", "4000", "5100"}
SeedDefaults ==
  /\ ~(DefaultAccounts \subseteq accounts) /\ Spend /\ getOrCreate(DefaultAccounts)
  /\ UNCHANGED <<invoices, payments, bills, journal, lastId, vatNumber, today, job, tangled>>
CreateAccount(a) ==
  /\ a \notin accounts /\ Spend /\ getOrCreate({a})
  /\ UNCHANGED <<invoices, payments, bills, journal, lastId, vatNumber, today, job, tangled>>
Tomorrow ==
  /\ today + 1 \in Days /\ today' = today + 1
  /\ UNCHANGED <<invoices, payments, bills, journal, lastId, accounts, vatNumber, job, asked, tangled>>

Next ==
  \/ \E r \in Requests :
       \/ NextInvoiceNumber(r) \/ CreateInvoice(r) \/ IssueInvoice(r) \/ DeleteBill(r)
       \/ \E renamed \in BOOLEAN, on \in {0, today} : UpdateBill(r, renamed, on)
       \/ \E i \in Invoices : ReadDraft(r, i)
       \/ \E b \in Bills, amount \in Amounts, paid \in BOOLEAN, day \in 1..today :
            ReadBill(r, b, [Idle EXCEPT !.at = "update", !.amount = amount, !.paid = paid, !.day = day])
       \/ \E b \in Bills : ReadBill(r, b, [Idle EXCEPT !.at = "delete"])
  \/ \E i \in Invoices, amount \in Amounts \cup {0}, method \in {"CASH", "BANK"}, day \in 1..today,
        time \in {0, 1} : AddInvoicePayment(i, amount, method, day, time)
  \/ \E p \in Payments : DeleteInvoicePayment(p)
  \/ \E b \in Bills, amount \in Amounts, paid \in BOOLEAN, day \in 1..today : CreateBill(b, amount, day, paid)
  \/ \E d, c \in Manual, x, y \in Amounts : CreateJournalEntry(d, c, x, y)
  \/ \E a \in Manual : CreateAccount(a)
  \/ SetVatNumber \/ SeedDefaults \/ Tomorrow

Spec == Init /\ [][Next]_vars

-----------------------------------------------------------------------------
(* The reports, computed from the journal or from the documents.           *)

getTrialBalance(entries) == [a \in Codes |-> SumFunction([e \in entries |-> e.lines[a]])]
SumOf(balance, type) == SumFunctionOnSet(balance, {a \in Codes : TypeOf[a] = type})
getProfitAndLoss(entries) ==
  LET b == getTrialBalance(entries)
  IN [revenue |-> 0 - SumOf(b, "REVENUE"), expenses |-> SumOf(b, "EXPENSE")]
getBalanceSheet(entries) ==
  LET b == getTrialBalance(entries)  pl == getProfitAndLoss(entries)
  IN [assets |-> SumOf(b, "ASSET"), liabilities |-> 0 - SumOf(b, "LIABILITY"),
      equity |-> pl.revenue - pl.expenses]
getVatReport == SumFunction([i \in Issued |-> invoices[i].vat])
receivablesByCustomer ==
  SumFunction([i \in {x \in Invoices : invoices[x].status = "ISSUED"} |-> Due(i, Paid(i))])

StatementEvents ==
  {[day |-> invoices[i].day, type |-> 0, time |-> 1, doc |-> i, amount |-> Total(i)] : i \in Issued}
  \cup {[day |-> payments[p].day, type |-> 1, time |-> payments[p].time, doc |-> p,
         amount |-> 0 - payments[p].amount] : p \in {q \in Payments : payments[q].invoice \in Issued}}
\* By day, an invoice before the payments of its day.
InvoiceFirst(x, y) ==
  \/ x.day < y.day
  \/ x.day = y.day /\ (x.type < y.type \/ (x.type = y.type /\ x.time <= y.time))
ByTime(x, y) ==   \* mutant: by time alone
  x.day < y.day \/ (x.day = y.day /\ x.time <= y.time)
UpTo(x, y) == InvoiceFirst(x, y)
Running(e) == SumFunction([x \in {y \in StatementEvents : UpTo(y, e)} |-> x.amount])

Documents == {e \in journal : e.doc # NoDoc}

\* The reports agree, however they are computed: the balance sheet balances,
\* and what the journal says of receivables, VAT and expenses is what the
\* invoices, the payments and the bills say.  Two requests that wrote over
\* each other's document may have left its entries behind.
ReportsAgree ==
  LET sheet == getBalanceSheet(journal)  b == getTrialBalance(Documents) IN
  /\ sheet.assets = sheet.liabilities + sheet.equity
  /\ tangled = {} =>
       /\ b["1100"] = receivablesByCustomer
       /\ b["2100"] = 0 - getVatReport
       /\ b["5100"] = SumFunction([x \in Bills |-> bills[x].amount])
       /\ b["2000"] = 0 - SumFunction([x \in {y \in Bills : bills[y].status = "UNPAID"} |-> bills[x].amount])

\* The customer's statement never shows that he paid more than he was billed
\* by then, unless an invoice was issued twice at once: the second issue
\* moves its date past the payments.
StatementStaysPositive == tangled \cap Invoices = {} => \A e \in StatementEvents : Running(e) >= 0

\* Both: what the reports say of the books and of a customer holds.
ReportsHold == ReportsAgree /\ StatementStaysPositive

IdsOf(d, entries) == {e.id : e \in {f \in entries : f.doc = d}}

\* Every entry of a document is the one its document points to, and the other
\* way round, unless two requests wrote over each other.
EntriesExplained ==
  /\ \A i \in Invoices \ tangled : IdsOf(i, journal) = {invoices[i].entry} \ {0}
  /\ \A p \in Payments : IdsOf(p, journal) = {payments[p].entry} \ {0}
  /\ \A b \in Bills \ tangled : IdsOf(b, journal) = {bills[b].entry, bills[b].payment} \ {0}

-----------------------------------------------------------------------------
(* The inductive invariant: what is deleted with a document was its own.   *)

\* The id is given already, and to no entry but one of document d.
Owns(d, id, entries, last) == id \in 0..last /\ \A e \in entries : e.id = id => e.doc = d
OwnsBoth(b, bill, entries, last) ==
  /\ Owns(b, bill.entry, entries, last) /\ Owns(b, bill.payment, entries, last)
  /\ bill.entry = bill.payment => bill.entry = 0

Shape ==
  /\ DOMAIN invoices = Invoices /\ \A i \in Invoices : DOMAIN invoices[i] = DOMAIN NoInvoice
  /\ DOMAIN payments = Payments /\ DOMAIN bills = Bills /\ DOMAIN job = Requests
  /\ lastId \in Nat /\ \A e \in journal : e.id \in 1..lastId
JobsHaveDocuments ==
  \A r \in Requests : /\ job[r].at \in {"update", "delete"} => job[r].doc \in Bills
                      /\ job[r].at = "issue" => job[r].doc \in Invoices
DraftsHaveNone == \A i \in Invoices : invoices[i].status \in {"none", "DRAFT"} => invoices[i].entry = 0
OwnEntries ==
  /\ \A p \in Payments : Owns(p, payments[p].entry, journal, lastId)
  /\ \A b \in Bills : OwnsBoth(b, bills[b], journal, lastId)
ReadEntries == \A r \in Requests : OwnsBoth(job[r].doc, job[r].read, journal, lastId)

BooksInv == Shape /\ JobsHaveDocuments /\ DraftsHaveNone /\ OwnEntries /\ ReadEntries /\ EntriesExplained

-----------------------------------------------------------------------------
(* What the reports need besides: the amounts of the documents, and what   *)
(* each entry says of its document.                                        *)

BillOk(bill) ==
  /\ bill.status \in {"UNPAID", "PAID"} /\ bill.amount \in Nat
  /\ bill.entry # 0 /\ (bill.payment # 0 <=> bill.status = "PAID")
Amounted ==
  /\ \A i \in Invoices :
       /\ invoices[i].status \in {"none", "DRAFT", "ISSUED", "PAID"}
       /\ invoices[i].subtotal \in Nat /\ invoices[i].vat \in Nat /\ invoices[i].day \in Int
       /\ i \in Issued => invoices[i].entry # 0
  /\ \A p \in Payments :
       \/ payments[p] = NoPayment
       \/ /\ payments[p].invoice \in Issued /\ payments[p].amount \in Nat \ {0}
          /\ payments[p].day \in Int /\ payments[p].entry # 0
  /\ \A b \in Bills : bills[b] = NoBill \/ BillOk(bills[b])
  /\ \A r \in Requests : job[r].at = "update" => job[r].amount \in Nat /\ BillOk(job[r].read)
  /\ today \in Int

Balances(lines) == lines \in [Codes -> Int] /\ SumFunctionOnSet(lines, Codes) = 0
EntriesBalance ==
  /\ IsFiniteSet(journal) /\ \A e, f \in journal : e.id = f.id => e = f
  /\ \A e \in journal : Balances(e.lines) /\ e.doc \in Invoices \cup Payments \cup Bills \cup {NoDoc}

\* The lines of an entry are those of its document as it is now.
BillLines(b, e) ==
  /\ e.id = bills[b].entry => e.lines = Double("5100", "2000", bills[b].amount)
  /\ e.id = bills[b].payment => e.lines = Double("2000", "1000", bills[b].amount)
EntriesSay ==
  \A e \in journal :
    /\ e.doc \in Invoices \ tangled => e.lines = invoiceLines(e.doc)
    /\ e.doc \in Payments => \E cash \in {"1000", "1010"} : e.lines = Double(cash, "1100", payments[e.doc].amount)
    /\ e.doc \in Bills \ tangled => BillLines(e.doc, e)

NeverOverpaid ==
  \A i \in Invoices : Paid(i) <= Total(i) /\ (invoices[i].status = "PAID" => Paid(i) = Total(i))
PaidAfterIssue ==
  \A p \in Payments : payments[p].invoice \in Invoices \ tangled => payments[p].day >= invoices[payments[p].invoice].day

ReportsInv == BooksInv /\ Amounted /\ EntriesBalance /\ EntriesSay /\ NeverOverpaid /\ PaidAfterIssue

\* Every step is one of the promise Receivables, or changes nothing in it.
billedNow   == [i \in Invoices |-> IF i \in Issued THEN Total(i) ELSE -1]
receivedNow == [i \in Invoices |-> Paid(i)]
settledNow  == {i \in Invoices : invoices[i].status = "PAID"}
Owing == INSTANCE Receivables WITH billed <- billedNow, received <- receivedNow, settled <- settledNow
KeepsReceivables == Owing!Spec
=============================================================================
