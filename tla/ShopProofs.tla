------------------------------ MODULE ShopProofs ------------------------------
(***************************************************************************)
(* Proofs about a company's own business.  First its books: every entry of *)
(* the journal that is made for a document is pointed to by its document,  *)
(* for any invoices, payments, bills and overlapping requests.  A change   *)
(* of the books always has the same form: the entries of some ids of one   *)
(* document go, and new ones with fresh ids come.  Then the loyalty cards, *)
(* the menu and its orders, the links to the company's servers and the AI  *)
(* studio, each by the inductive invariant its module ends with.           *)
(***************************************************************************)
EXTENDS Books, Shop, FiniteSetTheorems, SequenceTheorems, WellFoundedInduction, TLAPS

\* Nobody's id is 0.
LEMMA OwnsNone ==
  ASSUME NEW J, NEW d, NEW last \in Nat, \A e \in J : e.id \in 1..last
  PROVE  Owns(d, 0, J, last)
BY DEF Owns

LEMMA InitBooks == Init => BooksInv
<1> SUFFICES ASSUME Init PROVE BooksInv
  OBVIOUS
<1>1. Shape
  BY DEF Init, Shape
<1>2. JobsHaveDocuments
  BY DEF Init, JobsHaveDocuments, Idle
<1>3. DraftsHaveNone
  BY DEF Init, DraftsHaveNone, NoInvoice
<1>4. OwnEntries /\ ReadEntries
  BY DEF Init, OwnEntries, ReadEntries, Owns, OwnsBoth, NoPayment, NoBill, Idle
<1>5. EntriesExplained
  BY DEF Init, EntriesExplained, IdsOf, NoInvoice, NoPayment, NoBill
<1> QED BY <1>1, <1>2, <1>3, <1>4, <1>5 DEF BooksInv

\* Steps that leave the entries, the payments and the bills alone.
LEMMA NothingWritten ==
  ASSUME BooksInv, UNCHANGED <<payments, bills, journal, lastId, tangled>>,
         DOMAIN invoices' = Invoices, DOMAIN job' = Requests,
         \A i \in Invoices : \/ invoices[i]' = invoices[i]
                             \/ /\ invoices[i] = NoInvoice
                                /\ invoices[i]'.entry = 0 /\ DOMAIN invoices[i]' = DOMAIN NoInvoice,
         JobsHaveDocuments',
         \A r \in Requests : \/ job[r]' = job[r] \/ job[r]'.read = NoBill
                             \/ job[r]'.doc \in Bills /\ job[r]'.read = bills[job[r]'.doc]
  PROVE  BooksInv'
<1>1. Shape'
  BY DEF BooksInv, Shape
<1>2. DraftsHaveNone'
  BY DEF BooksInv, DraftsHaveNone
<1>3. OwnEntries'
  BY DEF BooksInv, OwnEntries
<1>4. \A d : Owns(d, 0, journal, lastId)
  BY OwnsNone DEF BooksInv, Shape
<1>5. ReadEntries'
  BY <1>4 DEF BooksInv, ReadEntries, OwnEntries, OwnsBoth, NoBill
<1>6. EntriesExplained'
  BY DEF BooksInv, EntriesExplained, NoInvoice
<1> QED BY <1>1, <1>2, <1>3, <1>5, <1>6 DEF BooksInv

\* The form of a change, and what it does to the ids of the documents and to
\* who owns them.
Change(d, dropped, new) ==
  /\ lastId' \in Nat /\ lastId <= lastId'
  /\ \A id \in dropped : Owns(d, id, journal, lastId)
  /\ \A e \in new : e.doc = d /\ e.id \in lastId + 1 .. lastId'
  /\ journal' = Keep(dropped) \cup new
OwnersStay(d) ==
  /\ \A e \in journal' : e.id \in 1..lastId'
  /\ \A x, id : Owns(x, id, journal, lastId) => Owns(x, id, journal', lastId')
  /\ \A id \in lastId + 1 .. lastId' : Owns(d, id, journal', lastId')
  /\ \A x : Owns(x, 0, journal', lastId')
OthersKeep(d) == \A x : x # d => IdsOf(x, journal') = IdsOf(x, journal)

LEMMA Written ==
  ASSUME BooksInv, NEW d, NEW dropped, NEW new, Change(d, dropped, new)
  PROVE  /\ OwnersStay(d) /\ OthersKeep(d)
         /\ IdsOf(d, journal') = (IdsOf(d, journal) \ dropped) \cup {e.id : e \in new}
<1> USE DEF Change
<1>1. lastId \in Nat /\ \A e \in journal : e.id \in 1..lastId
  BY DEF BooksInv, Shape
<1>2. journal' = {e \in journal : e.id \notin dropped} \cup new
  BY DEF Keep
<1>3. \A e \in journal' : e.id \in 1..lastId'
  BY <1>1, <1>2
<1>4. ASSUME NEW x, NEW id, Owns(x, id, journal, lastId) PROVE Owns(x, id, journal', lastId')
  BY <1>1, <1>2, <1>4 DEF Owns
<1>5. ASSUME NEW id \in lastId + 1 .. lastId' PROVE Owns(d, id, journal', lastId')
  BY <1>1, <1>2, <1>5 DEF Owns
<1>6. ASSUME NEW x, x # d PROVE IdsOf(x, journal') = IdsOf(x, journal)
  BY <1>2, <1>6 DEF IdsOf, Owns
<1>7. IdsOf(d, journal') = (IdsOf(d, journal) \ dropped) \cup {e.id : e \in new}
  BY <1>2 DEF IdsOf
<1>8. \A x : Owns(x, 0, journal', lastId')
  BY <1>3, OwnsNone
<1> QED BY <1>3, <1>4, <1>5, <1>6, <1>7, <1>8 DEF OwnersStay, OthersKeep

LEMMA IssueWrites == ASSUME BooksInv, NEW r \in Requests, IssueInvoice(r) PROVE BooksInv'
<1>1. PICK i \in Invoices : i = job[r].doc
  BY DEF BooksInv, JobsHaveDocuments, IssueInvoice, At
<1>2. PICK lines : journal' = journal \cup {Entry(lastId + 1, i, today, lines)}
  BY <1>1 DEF IssueInvoice
<1> DEFINE new == {Entry(lastId + 1, i, today, lines)}
<1>3. Change(i, {}, new) /\ {e.id : e \in new} = {lastId + 1}
  BY <1>2 DEF Change, IssueInvoice, BooksInv, Shape, Entry, Keep
<1>4. OwnersStay(i) /\ OthersKeep(i) /\ IdsOf(i, journal') = IdsOf(i, journal) \cup {lastId + 1}
  <2> HIDE DEF new
  <2> QED BY <1>3, Written
<1>5. /\ DOMAIN invoices' = Invoices /\ \A x \in Invoices \ {i} : invoices[x]' = invoices[x]
      /\ DOMAIN invoices[i]' = DOMAIN NoInvoice
      /\ invoices[i]'.status = "ISSUED" /\ invoices[i]'.entry = lastId + 1
      /\ UNCHANGED <<payments, bills>>
      /\ job' = [job EXCEPT ![r] = Idle]
      /\ tangled' = IF invoices[i].status # "DRAFT" THEN tangled \cup {i} ELSE tangled
  BY <1>1 DEF IssueInvoice, End, BooksInv, Shape, NoInvoice
<1>6. Shape'
  BY <1>3, <1>4, <1>5 DEF Change, OwnersStay, BooksInv, Shape
<1>7. JobsHaveDocuments'
  BY <1>5 DEF BooksInv, JobsHaveDocuments, Idle, Shape
<1>8. DraftsHaveNone'
  BY <1>5 DEF BooksInv, DraftsHaveNone
<1>9. OwnEntries'
  BY <1>4, <1>5 DEF OwnersStay, BooksInv, OwnEntries, OwnsBoth
<1>10. ReadEntries'
  BY <1>4, <1>5 DEF OwnersStay, BooksInv, ReadEntries, OwnsBoth, Idle, NoBill, Shape
<1>11. EntriesExplained'
  <2>1. ASSUME NEW x \in Invoices \ tangled' PROVE IdsOf(x, journal)' = {invoices[x].entry}' \ {0}
    <3>1. CASE x # i
      BY <2>1, <3>1, <1>4, <1>5 DEF OthersKeep, BooksInv, EntriesExplained
    <3>2. CASE x = i
      <4>1. x \notin tangled /\ invoices[x].status = "DRAFT" /\ invoices[x].entry = 0
        BY <2>1, <3>2, <1>5 DEF BooksInv, DraftsHaveNone
      <4>2. IdsOf(x, journal) = {}
        BY <2>1, <4>1 DEF BooksInv, EntriesExplained
      <4>3. IdsOf(i, journal') = {lastId + 1} /\ lastId + 1 # 0
        BY <3>2, <4>2, <1>4 DEF BooksInv, Shape
      <4> QED BY <3>2, <4>3, <1>5
    <3> QED BY <3>1, <3>2
  <2>2. \A p \in Payments : p # i
    BY DocumentsAssumption
  <2>3. \A b \in Bills : b # i
    BY DocumentsAssumption
  <2>4. tangled \subseteq tangled'
    BY <1>5
  <2> QED BY <2>1, <2>2, <2>3, <2>4, <1>4, <1>5 DEF OthersKeep, BooksInv, EntriesExplained
<1> QED BY <1>6, <1>7, <1>8, <1>9, <1>10, <1>11 DEF BooksInv

\* A payment or its deletion changes no more of an invoice than its status.
OnlyStatus ==
  /\ DOMAIN invoices' = Invoices
  /\ \A x \in Invoices : /\ DOMAIN invoices[x]' = DOMAIN NoInvoice /\ invoices[x]'.entry = invoices[x].entry
                          /\ \/ invoices[x]'.status = invoices[x].status
                             \/ invoices[x]'.status \in {"PAID", "ISSUED"}

LEMMA StatusChange ==
  ASSUME BooksInv, NEW i, NEW isPaid, invoices' = [invoices EXCEPT ![i].status = StatusOf(i, isPaid)]
  PROVE  OnlyStatus
<1>1. StatusOf(i, isPaid) \in {"PAID", "ISSUED"}
  BY DEF StatusOf
<1>2. DOMAIN invoices = Invoices /\ \A x \in Invoices : DOMAIN invoices[x] = DOMAIN NoInvoice
  BY DEF BooksInv, Shape
<1>3. DOMAIN invoices' = Invoices
  BY <1>2
<1>4. ASSUME NEW x \in Invoices, x = i
      PROVE  invoices[x]' = [invoices[x] EXCEPT !.status = StatusOf(i, isPaid)]
  BY <1>2, <1>4
<1>5. ASSUME NEW x \in Invoices, x # i
      PROVE  invoices[x]' = invoices[x]
  BY <1>2, <1>5
<1> HIDE DEF StatusOf
<1> QED BY <1>1, <1>2, <1>3, <1>4, <1>5 DEF OnlyStatus, NoInvoice

\* A write that concerns a payment.
LEMMA PaymentWritten ==
  ASSUME BooksInv, NEW p \in Payments, OwnersStay(p), OthersKeep(p), OnlyStatus, lastId' \in Nat,
         DOMAIN payments' = Payments, \A x \in Payments \ {p} : payments[x]' = payments[x],
         UNCHANGED <<bills, job, tangled>>,
         Owns(p, payments[p].entry, journal, lastId)',
         IdsOf(p, journal)' = {payments[p].entry}' \ {0}
  PROVE  BooksInv'
<1>1. Shape'
  BY DEF OwnersStay, OnlyStatus, BooksInv, Shape
<1>2. JobsHaveDocuments' /\ DraftsHaveNone'
  BY DEF OnlyStatus, BooksInv, JobsHaveDocuments, DraftsHaveNone
<1>3. OwnEntries'
  BY DEF OwnersStay, BooksInv, OwnEntries, OwnsBoth
<1>4. ReadEntries'
  BY DEF OwnersStay, BooksInv, ReadEntries, OwnsBoth
<1>5. (\A i \in Invoices : i # p) /\ (\A b \in Bills : b # p)
  BY DocumentsAssumption
<1>6. EntriesExplained'
  BY <1>5 DEF OthersKeep, OnlyStatus, BooksInv, EntriesExplained
<1> QED BY <1>1, <1>2, <1>3, <1>4, <1>6 DEF BooksInv

LEMMA PaymentAdded ==
  ASSUME BooksInv, NEW i, NEW amount, NEW method, NEW day, NEW time, AddInvoicePayment(i, amount, method, day, time)
  PROVE  BooksInv'
<1>1. PICK p, isPaid, lines :
        /\ p \in Payments
        /\ payments[p] = NoPayment
        /\ payments' = [payments EXCEPT ![p] = [invoice |-> i, amount |-> isPaid, day |-> day, time |-> time,
                                                entry |-> lastId + 1]]
        /\ journal' = journal \cup {Entry(lastId + 1, p, day, lines)}
  BY DEF AddInvoicePayment
<1> p \in Payments
  BY <1>1
<1> DEFINE new == {Entry(lastId + 1, p, day, lines)}
<1>2. Change(p, {}, new) /\ {e.id : e \in new} = {lastId + 1} /\ lastId \in Nat /\ lastId' = lastId + 1
  BY <1>1 DEF Change, AddInvoicePayment, BooksInv, Shape, Entry, Keep
<1>3. OwnersStay(p) /\ OthersKeep(p) /\ IdsOf(p, journal') = IdsOf(p, journal) \cup {lastId + 1}
  <2> HIDE DEF new
  <2> QED BY <1>2, Written
<1>4. OnlyStatus
  BY StatusChange DEF AddInvoicePayment
<1>5. /\ DOMAIN payments' = Payments /\ \A x \in Payments \ {p} : payments[x]' = payments[x]
      /\ payments[p]'.entry = lastId + 1
      /\ UNCHANGED <<bills, job, tangled>>
  BY <1>1 DEF AddInvoicePayment, BooksInv, Shape
<1>6. IdsOf(p, journal) = {}
  BY <1>1 DEF BooksInv, EntriesExplained, NoPayment
<1>7. Owns(p, payments[p].entry, journal, lastId)'
  BY <1>2, <1>3, <1>5 DEF OwnersStay
<1>8. IdsOf(p, journal)' = {payments[p].entry}' \ {0}
  BY <1>2, <1>3, <1>5, <1>6
<1> QED BY <1>2, <1>3, <1>4, <1>5, <1>7, <1>8, PaymentWritten

LEMMA PaymentDeleted == ASSUME BooksInv, NEW p \in Payments, DeleteInvoicePayment(p) PROVE BooksInv'
<1>1. Change(p, {payments[p].entry}, {}) /\ lastId' \in Nat
  BY DEF Change, DeleteInvoicePayment, deleteEntry, BooksInv, Shape, OwnEntries
<1>2. OwnersStay(p) /\ OthersKeep(p) /\ IdsOf(p, journal') = IdsOf(p, journal) \ {payments[p].entry}
  <2>1. /\ OwnersStay(p) /\ OthersKeep(p)
        /\ IdsOf(p, journal') = (IdsOf(p, journal) \ {payments[p].entry}) \cup {e.id : e \in {}}
    BY <1>1, Written
  <2> QED BY <2>1
<1>3. OnlyStatus
  BY StatusChange DEF DeleteInvoicePayment
<1>4. /\ DOMAIN payments' = Payments /\ \A x \in Payments \ {p} : payments[x]' = payments[x]
      /\ payments[p]'.entry = 0
      /\ UNCHANGED <<bills, job, tangled>>
  BY DEF DeleteInvoicePayment, BooksInv, Shape, NoPayment
<1>5. Owns(p, payments[p].entry, journal, lastId)'
  BY <1>2, <1>4 DEF OwnersStay
<1>6. IdsOf(p, journal)' = {payments[p].entry}' \ {0}
  BY <1>2, <1>4 DEF BooksInv, EntriesExplained
<1> QED BY <1>1, <1>2, <1>3, <1>4, <1>5, <1>6, PaymentWritten

LEMMA EntryCreated ==
  ASSUME BooksInv, NEW d, NEW c, NEW debit, NEW credit, CreateJournalEntry(d, c, debit, credit) PROVE BooksInv'
<1>1. PICK lines : journal' = journal \cup {Entry(lastId + 1, NoDoc, today, lines)}
  BY DEF CreateJournalEntry
<1> DEFINE new == {Entry(lastId + 1, NoDoc, today, lines)}
<1>2. Change(NoDoc, {}, new) /\ lastId' \in Nat
  BY <1>1 DEF Change, CreateJournalEntry, BooksInv, Shape, Entry, Keep
<1>3. OwnersStay(NoDoc) /\ OthersKeep(NoDoc)
  <2> HIDE DEF new
  <2> QED BY <1>2, Written
<1>4. UNCHANGED <<invoices, payments, bills, job, tangled>>
  BY DEF CreateJournalEntry
<1>5. Shape' /\ JobsHaveDocuments' /\ DraftsHaveNone'
  BY <1>2, <1>3, <1>4 DEF OwnersStay, BooksInv, Shape, JobsHaveDocuments, DraftsHaveNone
<1>6. OwnEntries' /\ ReadEntries'
  BY <1>3, <1>4 DEF OwnersStay, BooksInv, OwnEntries, ReadEntries, OwnsBoth
<1>7. EntriesExplained'
  BY <1>3, <1>4, DocumentsAssumption DEF OthersKeep, BooksInv, EntriesExplained
<1> QED BY <1>5, <1>6, <1>7 DEF BooksInv

\* A write that concerns a bill.
LEMMA BillWritten ==
  ASSUME BooksInv, NEW b \in Bills, OwnersStay(b), OthersKeep(b), lastId' \in Nat,
         DOMAIN bills' = Bills, \A x \in Bills \ {b} : bills[x]' = bills[x],
         UNCHANGED <<invoices, payments>>, tangled \subseteq tangled',
         DOMAIN job' = Requests, \A r \in Requests : job[r]' \in {job[r], Idle},
         OwnsBoth(b, bills[b], journal, lastId)',
         b \notin tangled' => IdsOf(b, journal)' = {bills[b].entry, bills[b].payment}' \ {0}
  PROVE  BooksInv'
<1>1. Shape'
  BY DEF OwnersStay, BooksInv, Shape
<1>2. JobsHaveDocuments'
  BY DEF BooksInv, JobsHaveDocuments, Idle
<1>3. DraftsHaveNone'
  BY DEF BooksInv, DraftsHaveNone
<1>4. OwnEntries'
  <2>1. \A p \in Payments : Owns(p, payments[p].entry, journal, lastId)'
    BY DEF OwnersStay, BooksInv, OwnEntries
  <2>2. \A x \in Bills \ {b} : OwnsBoth(x, bills[x], journal, lastId)'
    BY DEF OwnersStay, BooksInv, OwnEntries, OwnsBoth
  <2> QED BY <2>1, <2>2 DEF OwnEntries
<1>5. ReadEntries'
  <2>1. OwnsBoth(NoDoc, NoBill, journal, lastId)'
    BY DEF OwnersStay, OwnsBoth, NoBill
  <2>2. \A r \in Requests : OwnsBoth(job[r].doc, job[r].read, journal', lastId')
    BY DEF OwnersStay, BooksInv, ReadEntries, OwnsBoth
  <2> QED BY <2>1, <2>2 DEF ReadEntries, Idle
<1>6. (\A i \in Invoices : i # b) /\ (\A p \in Payments : p # b)
  BY DocumentsAssumption
<1>7. EntriesExplained'
  BY <1>6 DEF OthersKeep, BooksInv, EntriesExplained
<1> QED BY <1>1, <1>2, <1>3, <1>4, <1>5, <1>7 DEF BooksInv

LEMMA BillCreated ==
  ASSUME BooksInv, NEW b \in Bills, NEW amount, NEW day, NEW isPaid, CreateBill(b, amount, day, isPaid) PROVE BooksInv'
<1> DEFINE settled == IF isPaid THEN {postPaymentEntry(lastId + 2, b, amount, day)} ELSE {}
           new     == {postBillEntry(lastId + 1, b, amount, day)} \cup settled
<1>1. /\ lastId' = lastId + 1 + Cardinality(settled)
      /\ bills[b] = NoBill /\ bills' = [bills EXCEPT ![b] = bills'[b]]
      /\ bills'[b].entry = lastId + 1 /\ bills'[b].payment = (IF isPaid THEN lastId + 2 ELSE 0)
      /\ journal' = Keep({}) \cup new
      /\ UNCHANGED <<invoices, payments, job, tangled>>
  BY DEF CreateBill, Keep, BooksInv, Shape
<1>2. Cardinality(settled) = IF isPaid THEN 1 ELSE 0
  BY FS_EmptySet, FS_Singleton
<1>3. lastId \in Nat /\ lastId' \in Nat /\ lastId' = lastId + (IF isPaid THEN 2 ELSE 1)
  BY <1>1, <1>2 DEF BooksInv, Shape
<1>4. /\ \A e \in new : e.doc = b /\ e.id \in lastId + 1 .. lastId'
      /\ {e.id : e \in new} = {lastId + 1} \cup (IF isPaid THEN {lastId + 2} ELSE {})
  <2>1. CASE isPaid
    BY <1>3, <2>1 DEF postBillEntry, postPaymentEntry, Entry
  <2>2. CASE ~isPaid
    BY <1>3, <2>2 DEF postBillEntry, Entry
  <2> QED BY <2>1, <2>2
<1>5. Change(b, {}, new)
  <2> HIDE DEF new, settled
  <2> QED BY <1>1, <1>3, <1>4 DEF Change
<1>6. OwnersStay(b) /\ OthersKeep(b) /\ IdsOf(b, journal') = IdsOf(b, journal) \cup {e.id : e \in new}
  <2> HIDE DEF new
  <2> QED BY <1>5, Written
<1>7. DOMAIN bills' = Bills /\ \A x \in Bills \ {b} : bills[x]' = bills[x]
  BY <1>1 DEF BooksInv, Shape
<1>8. OwnsBoth(b, bills[b], journal, lastId)'
  <2> HIDE DEF new, settled
  <2>1. bills[b]'.entry \in lastId + 1 .. lastId' /\ bills[b]'.payment \in {0} \cup (lastId + 1 .. lastId')
    BY <1>1, <1>3
  <2>2. Owns(b, bills[b].entry, journal, lastId)' /\ Owns(b, bills[b].payment, journal, lastId)'
    BY <2>1, <1>6 DEF OwnersStay
  <2>3. bills[b]'.entry # bills[b]'.payment
    BY <1>1, <1>3
  <2> QED BY <2>2, <2>3 DEF OwnsBoth
<1>9. b \notin tangled' => IdsOf(b, journal)' = {bills[b].entry, bills[b].payment}' \ {0}
  <2>1. b \notin tangled => IdsOf(b, journal) = {}
    BY <1>1 DEF BooksInv, EntriesExplained, NoBill
  <2>2. {lastId + 1} \cup (IF isPaid THEN {lastId + 2} ELSE {}) = {bills[b].entry, bills[b].payment}' \ {0}
    BY <1>1, <1>3
  <2> HIDE DEF new
  <2> QED BY <2>1, <2>2, <1>1, <1>4, <1>6
<1>10. DOMAIN job' = Requests /\ \A r \in Requests : job[r]' \in {job[r], Idle}
  BY <1>1 DEF BooksInv, Shape
<1> HIDE DEF new, settled
<1> QED BY <1>1, <1>3, <1>6, <1>7, <1>8, <1>9, <1>10, BillWritten

LEMMA BillDeleted == ASSUME BooksInv, NEW r \in Requests, DeleteBill(r), bills[job[r].doc] # NoBill PROVE BooksInv'
<1>1. PICK b, old : b \in Bills /\ b = job[r].doc /\ old = job[r].read
  BY DEF BooksInv, JobsHaveDocuments, DeleteBill, At
<1> b \in Bills
  BY <1>1
<1> DEFINE dropped == {old.entry, old.payment}
<1>2. /\ journal' = Keep(dropped) /\ bills' = [bills EXCEPT ![b] = NoBill]
      /\ tangled' = IF bills[b] # old THEN tangled \cup {b} ELSE tangled
      /\ job' = [job EXCEPT ![r] = Idle] /\ UNCHANGED <<invoices, payments, lastId>>
  BY <1>1 DEF DeleteBill, End, Tangle, deleteEntry
<1>3. Change(b, dropped, {})
  BY <1>1, <1>2 DEF Change, BooksInv, Shape, ReadEntries, OwnsBoth
<1>4. OwnersStay(b) /\ OthersKeep(b) /\ IdsOf(b, journal') = IdsOf(b, journal) \ dropped
  <2>1. /\ OwnersStay(b) /\ OthersKeep(b)
        /\ IdsOf(b, journal') = (IdsOf(b, journal) \ dropped) \cup {e.id : e \in {}}
    BY <1>3, Written
  <2> QED BY <2>1
<1>5. /\ DOMAIN bills' = Bills /\ \A x \in Bills \ {b} : bills[x]' = bills[x]
      /\ bills[b]' = NoBill /\ lastId' \in Nat /\ tangled \subseteq tangled'
      /\ DOMAIN job' = Requests /\ \A q \in Requests : job[q]' \in {job[q], Idle}
  BY <1>2 DEF BooksInv, Shape
<1>6. OwnsBoth(b, bills[b], journal, lastId)'
  BY <1>4, <1>5 DEF OwnersStay, OwnsBoth, NoBill
<1>7. b \notin tangled' => IdsOf(b, journal)' = {bills[b].entry, bills[b].payment}' \ {0}
  <2> SUFFICES ASSUME b \notin tangled' PROVE IdsOf(b, journal') = {}
    BY <1>5 DEF NoBill
  <2>1. b \notin tangled /\ bills[b] = old
    BY <1>2
  <2> QED BY <2>1, <1>4 DEF BooksInv, EntriesExplained
<1> QED BY <1>2, <1>4, <1>5, <1>6, <1>7, BillWritten

\* Two entries with two ids are two.
LEMMA TwoEntries ==
  ASSUME NEW x, NEW y, x.id # y.id PROVE Cardinality({x} \cup {y}) = 2
<1>1. IsFiniteSet({x}) /\ Cardinality({x}) = 1 /\ y \notin {x}
  BY FS_Singleton
<1>2. Cardinality({x} \cup {y}) = Cardinality({x}) + 1
  BY <1>1, FS_AddElement
<1> QED BY <1>1, <1>2

LEMMA BillUpdated ==
  ASSUME BooksInv, NEW r \in Requests, NEW renamed, NEW on, UpdateBill(r, renamed, on), bills[job[r].doc] # NoBill
  PROVE  BooksInv'
<1> DEFINE b == job[r].doc
           old == job[r].read
           amount == job[r].amount
           isPaid == job[r].paid
           paidDay == IF ~isPaid THEN 0 ELSE IF on # 0 THEN on ELSE IF old.paid # 0 THEN old.paid ELSE today
           changed == renamed \/ amount # old.amount \/ job[r].day # old.day
           settle  == ~isPaid \/ changed \/ old.payment = 0 \/ (old.paid # 0 /\ paidDay # old.paid)
           billId  == IF changed THEN lastId + 1 ELSE old.entry
           payId   == IF ~settle THEN old.payment ELSE IF ~isPaid THEN 0 ELSE lastId + (IF changed THEN 2 ELSE 1)
           dropped == (IF changed THEN {old.entry} ELSE {}) \cup (IF settle THEN {old.payment} ELSE {})
           bill    == postBillEntry(billId, b, amount, job[r].day)
           payment == postPaymentEntry(payId, b, amount, paidDay)
           new     == (IF changed THEN {bill} ELSE {}) \cup (IF settle /\ isPaid THEN {payment} ELSE {})
<1>1. /\ journal' = Keep(dropped) \cup new /\ lastId' = lastId + Cardinality(new)
      /\ bills' = [bills EXCEPT ![b] = [status |-> IF isPaid THEN "PAID" ELSE "UNPAID", amount |-> amount,
                     day |-> job[r].day, paid |-> paidDay, entry |-> billId, payment |-> payId]]
      /\ tangled' = IF bills[b] # old THEN tangled \cup {b} ELSE tangled
      /\ job' = [job EXCEPT ![r] = Idle] /\ UNCHANGED <<invoices, payments>>
  BY DEF UpdateBill, End, Tangle, deleteEntry
<1>2. (changed => settle) /\ (~settle => isPaid)
  OBVIOUS
<1>3. /\ b \in Bills /\ lastId \in Nat
      /\ OwnsBoth(b, old, journal, lastId)
  BY DEF BooksInv, Shape, ReadEntries, JobsHaveDocuments, UpdateBill, At
<1>4. bill.doc = b /\ bill.id = billId /\ payment.doc = b /\ payment.id = payId
  BY DEF postBillEntry, postPaymentEntry, Entry
<1>5. /\ DOMAIN bills' = Bills /\ \A x \in Bills \ {b} : bills'[x] = bills[x]
      /\ bills'[b].entry = billId /\ bills'[b].payment = payId
  BY <1>1, <1>3 DEF BooksInv, Shape
<1> HIDE DEF bill, payment, paidDay, changed, settle
\* The three forms of the change: both entries, the payment's alone, or none.
<1>6. /\ Change(b, dropped, new)
      /\ billId \in {old.entry} \cup (lastId + 1 .. lastId') /\ payId \in {0, old.payment} \cup (lastId + 1 .. lastId')
      /\ billId = payId => billId = 0
      /\ (({old.entry, old.payment} \ {0}) \ dropped) \cup {e.id : e \in new} = {billId, payId} \ {0}
  <2>1. CASE changed /\ isPaid
    <3>1. /\ billId = lastId + 1 /\ payId = lastId + 2 /\ dropped = {old.entry, old.payment}
          /\ new = {bill} \cup {payment}
      BY <1>2, <2>1
    <3>2. Cardinality(new) = 2
      BY <3>1, <1>3, <1>4, TwoEntries
    <3> HIDE DEF billId, payId, dropped, new
    <3>3. {e.id : e \in new} = {lastId + 1, lastId + 2} /\ lastId' = lastId + 2
      BY <3>1, <3>2, <1>1, <1>4
    <3> QED BY <3>1, <3>3, <1>1, <1>3, <1>4 DEF Change, OwnsBoth
  <2>2. CASE changed /\ ~isPaid
    <3>1. billId = lastId + 1 /\ payId = 0 /\ dropped = {old.entry, old.payment} /\ new = {bill}
      BY <1>2, <2>2
    <3>2. Cardinality(new) = 1
      BY <3>1, FS_Singleton
    <3> HIDE DEF billId, payId, dropped, new
    <3>3. {e.id : e \in new} = {lastId + 1} /\ lastId' = lastId + 1
      BY <3>1, <3>2, <1>1, <1>4
    <3> QED BY <3>1, <3>3, <1>1, <1>3, <1>4 DEF Change, OwnsBoth
  <2>3. CASE ~changed /\ settle /\ isPaid
    <3>1. billId = old.entry /\ payId = lastId + 1 /\ dropped = {old.payment} /\ new = {payment}
      BY <2>3
    <3>2. Cardinality(new) = 1
      BY <3>1, FS_Singleton
    <3> HIDE DEF billId, payId, dropped, new
    <3>3. {e.id : e \in new} = {lastId + 1} /\ lastId' = lastId + 1
      BY <3>1, <3>2, <1>1, <1>4
    <3> QED BY <3>1, <3>3, <1>1, <1>3, <1>4 DEF Change, OwnsBoth, Owns
  <2>4. CASE ~changed /\ settle /\ ~isPaid
    <3>1. billId = old.entry /\ payId = 0 /\ dropped = {old.payment} /\ new = {}
      BY <2>4
    <3>2. Cardinality(new) = 0
      BY <3>1, FS_EmptySet
    <3> HIDE DEF billId, payId, dropped, new
    <3>3. {e.id : e \in new} = {} /\ lastId' = lastId
      BY <3>1, <3>2, <1>1, <1>3
    <3> QED BY <3>1, <3>3, <1>1, <1>3 DEF Change, OwnsBoth
  <2>5. CASE ~settle
    <3>1. billId = old.entry /\ payId = old.payment /\ dropped = {} /\ new = {}
      BY <1>2, <2>5
    <3>2. Cardinality(new) = 0
      BY <3>1, FS_EmptySet
    <3> HIDE DEF billId, payId, dropped, new
    <3>3. {e.id : e \in new} = {} /\ lastId' = lastId
      BY <3>1, <3>2, <1>1, <1>3
    <3> QED BY <3>1, <3>3, <1>1, <1>3 DEF Change, OwnsBoth
  <2> QED BY <1>2, <2>1, <2>2, <2>3, <2>4, <2>5
<1> HIDE DEF billId, payId, dropped, new
<1>7. OwnersStay(b) /\ OthersKeep(b) /\ IdsOf(b, journal') = (IdsOf(b, journal) \ dropped) \cup {e.id : e \in new}
  BY <1>6, Written
<1>8. OwnsBoth(b, bills'[b], journal', lastId')
  BY <1>3, <1>5, <1>6, <1>7 DEF OwnersStay, OwnsBoth
<1>9. b \notin tangled' => IdsOf(b, journal') = {bills'[b].entry, bills'[b].payment} \ {0}
  <2> SUFFICES ASSUME b \notin tangled' PROVE IdsOf(b, journal') = {billId, payId} \ {0}
    BY <1>5
  <2>1. b \notin tangled /\ bills[b] = old
    BY <1>1
  <2>2. IdsOf(b, journal) = {old.entry, old.payment} \ {0}
    BY <2>1, <1>3 DEF BooksInv, EntriesExplained
  <2> QED BY <2>2, <1>6, <1>7
<1>10. /\ DOMAIN job' = Requests /\ \A q \in Requests : job[q]' \in {job[q], Idle}
       /\ lastId' \in Nat /\ tangled \subseteq tangled' /\ UNCHANGED <<invoices, payments>>
  BY <1>1, <1>6 DEF BooksInv, Shape, Change
<1>11. PICK x \in Bills : x = b
  BY <1>3
<1> HIDE DEF b
<1>12. /\ OwnsBoth(x, bills[x], journal, lastId)'
       /\ x \notin tangled' => IdsOf(x, journal)' = {bills[x].entry, bills[x].payment}' \ {0}
  BY <1>8, <1>9, <1>11
<1> QED BY <1>5, <1>7, <1>10, <1>11, <1>12, BillWritten

\* The steps that read, or make a draft, write no entry.
LEMMA NumberRead == ASSUME BooksInv, NEW r \in Requests, NextInvoiceNumber(r) PROVE BooksInv'
<1>1. /\ DOMAIN job' = Requests /\ \A q \in Requests \ {r} : job[q]' = job[q]
      /\ job[r]'.read = NoBill /\ job[r]'.at = "number"
      /\ UNCHANGED <<invoices, payments, bills, journal, lastId, tangled>>
  BY DEF NextInvoiceNumber, Start, Idle, BooksInv, Shape
<1>2. JobsHaveDocuments'
  BY <1>1 DEF BooksInv, JobsHaveDocuments
<1>3. DOMAIN invoices = Invoices
  BY DEF BooksInv, Shape
<1> QED BY <1>1, <1>2, <1>3, NothingWritten

LEMMA InvoiceCreated == ASSUME BooksInv, NEW r \in Requests, CreateInvoice(r) PROVE BooksInv'
<1>1. /\ DOMAIN job' = Requests /\ \A q \in Requests \ {r} : job[q]' = job[q]
      /\ job[r]'.read = NoBill /\ job[r]'.at = "idle"
      /\ UNCHANGED <<payments, bills, journal, lastId, tangled>>
  BY DEF CreateInvoice, End, Idle, BooksInv, Shape
<1>2. JobsHaveDocuments'
  BY <1>1 DEF BooksInv, JobsHaveDocuments
<1>3. DOMAIN invoices = Invoices
  BY DEF BooksInv, Shape
<1>4. CASE UNCHANGED invoices
  BY <1>1, <1>2, <1>3, <1>4, NothingWritten
<1>5. CASE \E i \in Invoices, s \in Subtotals :
            /\ invoices[i] = NoInvoice
            /\ invoices' = [invoices EXCEPT ![i] = [NoInvoice EXCEPT
                              !.status = "DRAFT", !.number = job[r].number, !.subtotal = s, !.vat = Vat(s)]]
  <2>1. PICK i \in Invoices, s \in Subtotals :
            /\ invoices[i] = NoInvoice
            /\ invoices' = [invoices EXCEPT ![i] = [NoInvoice EXCEPT
                              !.status = "DRAFT", !.number = job[r].number, !.subtotal = s, !.vat = Vat(s)]]
    BY <1>5
  <2> DEFINE draft == [NoInvoice EXCEPT !.status = "DRAFT", !.number = job[r].number, !.subtotal = s, !.vat = Vat(s)]
  <2>2. draft.entry = 0 /\ DOMAIN draft = DOMAIN NoInvoice
    BY DEF NoInvoice
  <2>3. invoices[i] = NoInvoice /\ invoices' = [invoices EXCEPT ![i] = draft]
    BY <2>1
  <2> HIDE DEF draft
  <2>4. /\ DOMAIN invoices' = Invoices /\ invoices[i]' = draft
        /\ \A x \in Invoices \ {i} : invoices[x]' = invoices[x]
    BY <1>3, <2>3
  <2> QED BY <1>1, <1>2, <2>2, <2>3, <2>4, NothingWritten
<1> QED BY <1>4, <1>5 DEF CreateInvoice

LEMMA DraftRead == ASSUME BooksInv, NEW r \in Requests, NEW i \in Invoices, ReadDraft(r, i) PROVE BooksInv'
<1>1. /\ DOMAIN job' = Requests /\ \A q \in Requests \ {r} : job[q]' = job[q]
      /\ job[r]'.read = NoBill /\ job[r]'.at = "issue" /\ job[r]'.doc = i
      /\ UNCHANGED <<invoices, payments, bills, journal, lastId, tangled>>
  BY DEF ReadDraft, Start, Idle, BooksInv, Shape
<1>2. JobsHaveDocuments'
  BY <1>1 DEF BooksInv, JobsHaveDocuments
<1>3. DOMAIN invoices = Invoices
  BY DEF BooksInv, Shape
<1> QED BY <1>1, <1>2, <1>3, NothingWritten

LEMMA BillRead ==
  ASSUME BooksInv, NEW r \in Requests, NEW b \in Bills, NEW change, ReadBill(r, b, change),
         change.at \in {"update", "delete"}, DOMAIN change = DOMAIN Idle
  PROVE  BooksInv'
<1>1. /\ DOMAIN job' = Requests /\ \A q \in Requests \ {r} : job[q]' = job[q]
      /\ job[r]' = [change EXCEPT !.doc = b, !.read = bills[b]]
      /\ UNCHANGED <<invoices, payments, bills, journal, lastId, tangled>>
  BY DEF ReadBill, Start, BooksInv, Shape
<1>2. job[r]'.at \in {"update", "delete"} /\ job[r]'.doc = b /\ job[r]'.read = bills[b]
  BY <1>1 DEF Idle
<1>3. JobsHaveDocuments'
  BY <1>1, <1>2 DEF BooksInv, JobsHaveDocuments
<1>4. DOMAIN invoices = Invoices
  BY DEF BooksInv, Shape
<1> QED BY <1>1, <1>2, <1>3, <1>4, NothingWritten

\* Steps after which the books, and the requests, are as they were.
LEMMA NothingTouched ==
  ASSUME BooksInv, UNCHANGED <<invoices, payments, bills, journal, lastId, tangled, job>> PROVE BooksInv'
BY DEF BooksInv, Shape, JobsHaveDocuments, DraftsHaveNone, OwnEntries, ReadEntries, EntriesExplained

\* A bill that is gone when a request comes to write it: the transaction
\* changes nothing.
LEMMA BillGone ==
  ASSUME BooksInv, NEW r \in Requests, bills[job[r].doc] = NoBill,
         DeleteBill(r) \/ \E renamed \in BOOLEAN, on \in {0, today} : UpdateBill(r, renamed, on)
  PROVE  BooksInv'
<1>1. job' = [job EXCEPT ![r] = Idle] /\ UNCHANGED <<invoices, payments, bills, journal, lastId, tangled>>
  BY DEF DeleteBill, UpdateBill, End
<1>2. /\ DOMAIN invoices = Invoices /\ DOMAIN job' = Requests
      /\ \A q \in Requests \ {r} : job[q]' = job[q]
      /\ job[r]'.read = NoBill
  BY <1>1 DEF BooksInv, Shape, Idle
<1>3. JobsHaveDocuments'
  BY <1>1 DEF BooksInv, Shape, JobsHaveDocuments, Idle
<1> QED BY <1>1, <1>2, <1>3, NothingWritten

LEMMA NextBooks == BooksInv /\ [Next]_vars => BooksInv'
<1> SUFFICES ASSUME BooksInv, [Next]_vars PROVE BooksInv'
  OBVIOUS
<1>1. ASSUME NEW r \in Requests, IssueInvoice(r) PROVE BooksInv'
  BY <1>1, IssueWrites
<1>2. ASSUME NEW r \in Requests, DeleteBill(r) PROVE BooksInv'
  BY <1>2, BillDeleted, BillGone
<1>3. ASSUME NEW r \in Requests, NEW renamed \in BOOLEAN, NEW on \in {0, today}, UpdateBill(r, renamed, on)
      PROVE  BooksInv'
  BY <1>3, BillUpdated, BillGone
<1>4. ASSUME NEW r \in Requests, NextInvoiceNumber(r) \/ CreateInvoice(r) \/ \E i \in Invoices : ReadDraft(r, i)
      PROVE  BooksInv'
  BY <1>4, NumberRead, InvoiceCreated, DraftRead
<1>5. ASSUME NEW r \in Requests, NEW b \in Bills, NEW amount \in Amounts, NEW isPaid \in BOOLEAN, NEW day \in 1..today,
              ReadBill(r, b, [Idle EXCEPT !.at = "update", !.amount = amount, !.paid = isPaid, !.day = day])
       PROVE  BooksInv'
  <2> DEFINE change == [Idle EXCEPT !.at = "update", !.amount = amount, !.paid = isPaid, !.day = day]
  <2>1. change.at = "update" /\ DOMAIN change = DOMAIN Idle
    BY DEF Idle
  <2>2. ReadBill(r, b, change)
    BY <1>5
  <2> HIDE DEF change
  <2> QED BY <2>1, <2>2, BillRead
<1>6. ASSUME NEW r \in Requests, NEW b \in Bills, ReadBill(r, b, [Idle EXCEPT !.at = "delete"]) PROVE BooksInv'
  <2> DEFINE change == [Idle EXCEPT !.at = "delete"]
  <2>1. change.at = "delete" /\ DOMAIN change = DOMAIN Idle
    BY DEF Idle
  <2>2. ReadBill(r, b, change)
    BY <1>6
  <2> HIDE DEF change
  <2> QED BY <2>1, <2>2, BillRead
<1>7. ASSUME NEW i \in Invoices, NEW amount \in Amounts \cup {0}, NEW method \in {"CASH", "BANK"},
             NEW day \in 1..today, NEW time \in {0, 1}, AddInvoicePayment(i, amount, method, day, time)
      PROVE  BooksInv'
  BY <1>7, PaymentAdded
<1>8. ASSUME NEW p \in Payments, DeleteInvoicePayment(p) PROVE BooksInv'
  BY <1>8, PaymentDeleted
<1>9. ASSUME NEW b \in Bills, NEW amount \in Amounts, NEW isPaid \in BOOLEAN, NEW day \in 1..today,
             CreateBill(b, amount, day, isPaid)
      PROVE  BooksInv'
  BY <1>9, BillCreated
<1>10. ASSUME NEW d \in Manual, NEW c \in Manual, NEW x \in Amounts, NEW y \in Amounts, CreateJournalEntry(d, c, x, y)
      PROVE  BooksInv'
  BY <1>10, EntryCreated
<1>11. ASSUME (\E a \in Manual : CreateAccount(a)) \/ SetVatNumber \/ SeedDefaults \/ Tomorrow \/ UNCHANGED vars
      PROVE  BooksInv'
  BY <1>11, NothingTouched DEF CreateAccount, SetVatNumber, SeedDefaults, Tomorrow, vars
<1> QED BY <1>1, <1>2, <1>3, <1>4, <1>5, <1>6, <1>7, <1>8, <1>9, <1>10, <1>11 DEF Next

\* What is deleted or written again with a document is its own entries, and
\* what a request has read of a bill names no entry of another document.
THEOREM BooksInvHolds == Spec => []BooksInv
BY InitBooks, NextBooks, PTL DEF Spec

\* The entries of a document are those it points to (issueInvoice,
\* addInvoicePayment, deleteInvoicePayment and the bills' handlers).
THEOREM EntriesExplainedHolds == Spec => []EntriesExplained
<1>1. BooksInv => EntriesExplained
  BY DEF BooksInv
<1> QED BY <1>1, BooksInvHolds, PTL
-----------------------------------------------------------------------------
(* Sums over finite sets, by well-founded induction over the subsets.      *)

\* Induction over the subsets of a finite set, for a set C of subsets: what
\* holds of a set when it holds of its smaller subsets holds of all.
LEMMA SmallerSubsets ==
  ASSUME NEW S, IsFiniteSet(S), NEW C,
         \A T \in SUBSET S : (\A U \in SUBSET T : U # T => U \in C) => T \in C
  PROVE  SUBSET S \subseteq C
<1> DEFINE Bad == {T \in SUBSET S : T \notin C}
           R == StrictSubsetOrdering(S)
<1>1. SUFFICES ASSUME Bad # {} PROVE FALSE
  OBVIOUS
<1>2. IsWellFoundedOn(R, SUBSET S)
  BY FS_StrictSubsetOrderingWellFounded, FS_FiniteSubsetsOfFinite
<1>3. Bad # {} /\ Bad \subseteq SUBSET S
  BY <1>1
<1>4. \E T \in Bad : \A U \in Bad : ~ (<<U, T>> \in R)
  <2> HIDE DEF Bad, R
  <2> QED BY <1>2, <1>3, WFMin
<1>5. PICK T \in Bad : \A U \in Bad : ~ (<<U, T>> \in R)
  BY <1>4
<1>6. ASSUME NEW U \in SUBSET T, U # T PROVE U \in C
  <2>1. <<U, T>> \in R
    BY <1>5, <1>6 DEF StrictSubsetOrdering
  <2> QED BY <1>5, <1>6, <2>1
<1> QED BY <1>5, <1>6

\* Induction by one element more.
LEMMA SubsetInduction ==
  ASSUME NEW S, IsFiniteSet(S), NEW C, {} \in C,
         \A T \in SUBSET S, x \in S : T \in C /\ x \notin T => T \cup {x} \in C
  PROVE  SUBSET S \subseteq C
<1>1. ASSUME NEW T \in SUBSET S, \A U \in SUBSET T : U # T => U \in C PROVE T \in C
  <2>1. CASE T = {}
    BY <2>1
  <2>2. CASE T # {}
    <3>1. PICK x \in T : TRUE
      BY <2>2
    <3>2. T \ {x} \in C /\ (T \ {x}) \cup {x} = T
      BY <1>1, <3>1
    <3> QED BY <3>1, <3>2
  <2> QED BY <2>1, <2>2
<1> QED BY <1>1, SmallerSubsets

-----------------------------------------------------------------------------
\* The element the fold takes next.
Taken(s) == CHOOSE x \in s : TRUE
\* f is the function by which the fold sums g over the subsets of S.
IsSum(f, g, S) ==
  f = [s \in SUBSET S |-> IF s = {} THEN 0
                          ELSE g[Taken(s)] + f[s \ {Taken(s)}]]

\* The community module's sum, by that function.
LEMMA SumIs ==
  ASSUME NEW g, NEW S PROVE SumFunctionOnSet(g, S) = (CHOOSE f : IsSum(f, g, S))[S]
BY Zenon DEF SumFunctionOnSet, FoldFunctionOnSet, MapThenFoldSet, IsSum, Taken

\* One step of the fold, and a sum over fewer elements.
LEMMA SumStep ==
  ASSUME NEW f, NEW g, NEW S, IsSum(f, g, S), NEW T \in SUBSET S
  PROVE  /\ T = {} => f[T] = 0
         /\ T # {} => /\ Taken(T) \in T
                      /\ f[T] = g[Taken(T)] + f[T \ {Taken(T)}]
<1>1. f[T] = IF T = {} THEN 0 ELSE g[Taken(T)] + f[T \ {Taken(T)}]
  BY Zenon DEF IsSum
<1>2. T # {} => Taken(T) \in T
  BY Zenon DEF Taken
<1> QED BY <1>1, <1>2

\* The same for the whole set.
LEMMA SumWhole ==
  ASSUME NEW f, NEW g, NEW S, IsSum(f, g, S)
  PROVE  /\ S = {} => f[S] = 0
         /\ S # {} => Taken(S) \in S /\ f[S] = g[Taken(S)] + f[S \ {Taken(S)}]
<1>1. S \in SUBSET S
  OBVIOUS
<1>2. f[S] = IF S = {} THEN 0 ELSE g[Taken(S)] + f[S \ {Taken(S)}]
  BY <1>1, Zenon DEF IsSum
<1>3. S # {} => Taken(S) \in S
  BY Zenon DEF Taken
<1> QED BY <1>2, <1>3

\* Two of them agree on the subsets they have in common.
LEMMA SumsAgree ==
  ASSUME NEW S, NEW T, NEW U, IsFiniteSet(U), U \subseteq S, U \subseteq T,
         NEW g, NEW f, NEW h, IsSum(f, g, S), IsSum(h, g, T)
  PROVE  f[U] = h[U]
<1> DEFINE C == {V \in SUBSET U : f[V] = h[V]}
<1>1. ASSUME NEW V \in SUBSET U, \A W \in SUBSET V : W # V => W \in C PROVE V \in C
  <2>1. V \in SUBSET S /\ V \in SUBSET T
    OBVIOUS
  <2>2. CASE V = {}
    BY <2>1, <2>2, SumStep
  <2>3. CASE V # {}
    <3> DEFINE c == Taken(V)
    <3>1. c \in V /\ f[V] = g[c] + f[V \ {c}]
      BY <2>1, <2>3, SumStep
    <3>2. h[V] = g[c] + h[V \ {c}]
      <4>1. IsSum(h, g, T) /\ V \in SUBSET T /\ V # {}
        BY <2>1, <2>3
      <4> HIDE DEF C
      <4>2. h[V] = g[Taken(V)] + h[V \ {Taken(V)}]
        BY ONLY <4>1, SumStep
      <4> QED BY <4>2
    <3> HIDE DEF c
    <3>3. f[V \ {c}] = h[V \ {c}]
      BY <3>1, <1>1
    <3> QED BY <3>1, <3>2, <3>3
  <2> QED BY <2>2, <2>3
<1>2. SUBSET U \subseteq C
  <2> HIDE DEF C
  <2> QED BY <1>1, SmallerSubsets
<1> QED BY <1>2

\* There is one for every finite set.
LEMMA SumExists ==
  ASSUME NEW S, IsFiniteSet(S), NEW g
  PROVE  \E f : IsSum(f, g, S)
<1> DEFINE C == {V \in SUBSET S : \E f : IsSum(f, g, V)}
<1>1. ASSUME NEW V \in SUBSET S, \A W \in SUBSET V : W # V => W \in C PROVE V \in C
  <2> DEFINE The(W) == CHOOSE f : IsSum(f, g, W)
             h == [W \in SUBSET V |-> IF W = {} THEN 0 ELSE g[Taken(W)] + The(W \ {Taken(W)})[W \ {Taken(W)}]]
  <2>1. ASSUME NEW W \in SUBSET V, W # V PROVE IsSum(The(W), g, W)
    <3>1. \E f : IsSum(f, g, W)
      BY <1>1, <2>1
    <3> QED BY <3>1
  <2>2. ASSUME NEW W \in SUBSET V, W # V PROVE h[W] = The(W)[W]
    <3>1. h[W] = IF W = {} THEN 0 ELSE g[Taken(W)] + The(W \ {Taken(W)})[W \ {Taken(W)}]
      OBVIOUS
    <3>2. IsSum(The(W), g, W)
      BY <2>1, <2>2
    <3> HIDE DEF h, The
    <3>3. CASE W = {}
      BY <3>1, <3>2, <3>3, SumWhole
    <3>4. CASE W # {}
      <4>1. Taken(W) \in W /\ The(W)[W] = g[Taken(W)] + The(W)[W \ {Taken(W)}]
        BY <3>2, <3>4, SumWhole
      <4>2. W \ {Taken(W)} \in SUBSET V /\ W \ {Taken(W)} # V /\ W \ {Taken(W)} \subseteq W
        BY <4>1
      <4>3. IsSum(The(W \ {Taken(W)}), g, W \ {Taken(W)})
        BY <4>2, <2>1
      <4>4. IsFiniteSet(W \ {Taken(W)})
        BY <4>2, FS_Subset
      <4>5. The(W)[W \ {Taken(W)}] = The(W \ {Taken(W)})[W \ {Taken(W)}]
        BY <4>2, <4>3, <4>4, <3>2, SumsAgree
      <4> QED BY <4>1, <4>5, <3>1, <3>4
    <3> QED BY <3>3, <3>4
  <2>3. ASSUME NEW W \in SUBSET V, W # {}
        PROVE  The(W \ {Taken(W)})[W \ {Taken(W)}] = h[W \ {Taken(W)}]
    <3>1. Taken(W) \in W
      BY <2>3 DEF Taken
    <3> HIDE DEF h, The
    <3>2. W \ {Taken(W)} \in SUBSET V /\ W \ {Taken(W)} # V
      BY <3>1
    <3> QED BY <3>2, <2>2
  <2>4. IsSum(h, g, V)
    <3>1. h = [W \in SUBSET V |-> IF W = {} THEN 0 ELSE g[Taken(W)] + The(W \ {Taken(W)})[W \ {Taken(W)}]]
      OBVIOUS
    <3> HIDE DEF h, The
    <3>2. ASSUME NEW W \in SUBSET V
          PROVE  (IF W = {} THEN 0 ELSE g[Taken(W)] + The(W \ {Taken(W)})[W \ {Taken(W)}])
                 = (IF W = {} THEN 0 ELSE g[Taken(W)] + h[W \ {Taken(W)}])
      BY <2>3
    <3>3. h = [W \in SUBSET V |-> IF W = {} THEN 0 ELSE g[Taken(W)] + h[W \ {Taken(W)}]]
      BY <3>1, <3>2, Zenon
    <3> QED BY <3>3, Zenon DEF IsSum
  <2> QED BY <2>4
<1>2. SUBSET S \subseteq C
  <2> HIDE DEF C
  <2> QED BY <1>1, SmallerSubsets
<1> QED BY <1>2

\* Whatever set it was made for, it gives the sum.
LEMMA SumOfSubset ==
  ASSUME NEW S, IsFiniteSet(S), NEW g, NEW T \in SUBSET S, NEW f, IsSum(f, g, S)
  PROVE  f[T] = SumFunctionOnSet(g, T)
<1>1. IsFiniteSet(T)
  BY FS_Subset
<1>2. IsSum(CHOOSE h : IsSum(h, g, T), g, T)
  BY <1>1, SumExists, Zenon
<1>3. f[T] = (CHOOSE h : IsSum(h, g, T))[T]
  BY <1>1, <1>2, SumsAgree
<1> QED BY <1>3, SumIs

\* The equation of the fold.
LEMMA SumChosen ==
  ASSUME NEW S, IsFiniteSet(S), NEW g
  PROVE  /\ S = {} => SumFunctionOnSet(g, S) = 0
         /\ S # {} => \E c \in S : SumFunctionOnSet(g, S) = g[c] + SumFunctionOnSet(g, S \ {c})
<1>1. PICK f : IsSum(f, g, S)
  BY SumExists
<1>2. S \in SUBSET S /\ f[S] = SumFunctionOnSet(g, S)
  BY <1>1, SumOfSubset
<1>3. CASE S = {}
  BY <1>1, <1>2, <1>3, SumWhole
<1>4. CASE S # {}
  <2> DEFINE c == Taken(S)
  <2>1. c \in S /\ f[S] = g[c] + f[S \ {c}]
    BY <1>1, <1>2, <1>4, SumWhole
  <2> HIDE DEF c
  <2>2. f[S \ {c}] = SumFunctionOnSet(g, S \ {c})
    BY <1>1, SumOfSubset
  <2> QED BY <2>1, <2>2, <1>2, <1>4
<1> QED BY <1>3, <1>4

\* Nothing adds up to 0.
LEMMA SumEmpty == ASSUME NEW g PROVE SumFunctionOnSet(g, {}) = 0
BY SumChosen, FS_EmptySet

\* A sum of integers is one.
LEMMA SumInt ==
  ASSUME NEW S, IsFiniteSet(S), NEW g, \A x \in S : g[x] \in Int
  PROVE  SumFunctionOnSet(g, S) \in Int
<1> DEFINE C == {T \in SUBSET S : SumFunctionOnSet(g, T) \in Int}
<1>1. ASSUME NEW T \in SUBSET S, \A U \in SUBSET T : U # T => U \in C PROVE T \in C
  <2>1. IsFiniteSet(T)
    BY FS_Subset
  <2>2. CASE T = {}
    BY <2>2, SumEmpty
  <2>3. CASE T # {}
    <3>1. PICK c \in T : SumFunctionOnSet(g, T) = g[c] + SumFunctionOnSet(g, T \ {c})
      BY <2>1, <2>3, SumChosen
    <3>2. T \ {c} \in C
      BY <1>1
    <3> QED BY <3>1, <3>2
  <2> QED BY <2>2, <2>3
<1>2. SUBSET S \subseteq C
  <2> HIDE DEF C
  <2> QED BY <1>1, SmallerSubsets
<1> QED BY <1>2

\* Whatever element is taken out first.
LEMMA SumElement ==
  ASSUME NEW S, IsFiniteSet(S), NEW g, \A x \in S : g[x] \in Int, NEW y \in S
  PROVE  SumFunctionOnSet(g, S) = g[y] + SumFunctionOnSet(g, S \ {y})
<1> DEFINE Sum(T) == SumFunctionOnSet(g, T)
           C == {T \in SUBSET S : \A x \in T : Sum(T) = g[x] + Sum(T \ {x})}
<1> HIDE DEF Sum
<1>1. ASSUME NEW T \in SUBSET S, \A U \in SUBSET T : U # T => U \in C PROVE T \in C
  <2>1. SUFFICES ASSUME NEW x \in T PROVE Sum(T) = g[x] + Sum(T \ {x})
    OBVIOUS
  <2>2. PICK c \in T : Sum(T) = g[c] + Sum(T \ {c})
    <3>1. IsFiniteSet(T) /\ T # {}
      BY FS_Subset
    <3> QED BY <3>1, SumChosen DEF Sum
  <2>3. CASE c = x
    BY <2>2, <2>3
  <2>4. CASE c # x
    <3>1. T \ {c} \in C /\ T \ {x} \in C /\ x \in T \ {c} /\ c \in T \ {x}
      BY <1>1, <2>4
    <3>2. Sum(T \ {c}) = g[x] + Sum((T \ {c}) \ {x}) /\ Sum(T \ {x}) = g[c] + Sum((T \ {x}) \ {c})
      BY <3>1
    <3>3. (T \ {c}) \ {x} = (T \ {x}) \ {c}
      OBVIOUS
    <3>4. IsFiniteSet((T \ {x}) \ {c})
      BY FS_Subset
    <3>5. Sum((T \ {x}) \ {c}) \in Int
      BY <3>4, SumInt DEF Sum
    <3>6. g[x] \in Int /\ g[c] \in Int
      OBVIOUS
    <3>7. Sum(T) = g[c] + (g[x] + Sum((T \ {x}) \ {c}))
      BY <2>2, <3>2, <3>3
    <3>8. Sum(T \ {x}) = g[c] + Sum((T \ {x}) \ {c})
      BY <3>2
    <3>9. PICK k \in Int, a \in Int, b \in Int : k = Sum((T \ {x}) \ {c}) /\ a = g[x] /\ b = g[c]
      BY <3>5, <3>6
    <3>10. b + (a + k) = a + (b + k)
      OBVIOUS
    <3> QED BY <3>7, <3>8, <3>9, <3>10
  <2> QED BY <2>3, <2>4
<1>2. SUBSET S \subseteq C
  <2> HIDE DEF C
  <2> QED BY <1>1, SmallerSubsets
<1> QED BY <1>2 DEF Sum

\* Only the values on the set count.
LEMMA SumSame ==
  ASSUME NEW S, IsFiniteSet(S), NEW f, NEW g, \A x \in S : f[x] = g[x]
  PROVE  SumFunctionOnSet(f, S) = SumFunctionOnSet(g, S)
<1> DEFINE C == {T \in SUBSET S : SumFunctionOnSet(f, T) = SumFunctionOnSet(g, T)}
<1>1. ASSUME NEW T \in SUBSET S, \A U \in SUBSET T : U # T => U \in C PROVE T \in C
  <2>1. CASE T = {}
    BY <2>1, SumEmpty
  <2>2. CASE T # {}
    <3>1. PICK F : IsSum(F, f, S)
      BY SumExists
    <3>2. PICK G : IsSum(G, g, S)
      BY SumExists
    <3>3. PICK c : c = Taken(T)
      OBVIOUS
    <3>9. Taken(T) \in T /\ F[T] = f[Taken(T)] + F[T \ {Taken(T)}]
      BY ONLY <3>1, <2>2, T \in SUBSET S, SumStep
    <3>10. G[T] = g[Taken(T)] + G[T \ {Taken(T)}]
      BY ONLY <3>2, <2>2, T \in SUBSET S, SumStep
    <3>4. c \in T /\ F[T] = f[c] + F[T \ {c}]
      BY <3>3, <3>9
    <3>5. G[T] = g[c] + G[T \ {c}]
      BY <3>3, <3>10
    <3>6. T \ {c} \in C /\ T \ {c} \in SUBSET S
      BY <1>1, <3>4
    <3>7. F[T] = SumFunctionOnSet(f, T) /\ F[T \ {c}] = SumFunctionOnSet(f, T \ {c})
      BY <3>1, <3>6, SumOfSubset
    <3>8. G[T] = SumFunctionOnSet(g, T) /\ G[T \ {c}] = SumFunctionOnSet(g, T \ {c})
      BY ONLY <3>2, <3>6, IsFiniteSet(S), T \in SUBSET S, SumOfSubset
    <3> QED BY <3>4, <3>5, <3>6, <3>7, <3>8
  <2> QED BY <2>1, <2>2
<1>2. SUBSET S \subseteq C
  <2> HIDE DEF C
  <2> QED BY <1>1, SmallerSubsets
<1> QED BY <1>2

\* One element more.
LEMMA SumAdded ==
  ASSUME NEW S, IsFiniteSet(S), NEW x, x \notin S, NEW g, \A y \in S \cup {x} : g[y] \in Int
  PROVE  SumFunctionOnSet(g, S \cup {x}) = g[x] + SumFunctionOnSet(g, S)
<1>1. IsFiniteSet(S \cup {x}) /\ (S \cup {x}) \ {x} = S /\ x \in S \cup {x}
  BY FS_AddElement
<1>2. SumFunctionOnSet(g, S \cup {x}) = g[x] + SumFunctionOnSet(g, (S \cup {x}) \ {x})
  BY <1>1, SumElement
<1> QED BY <1>1, <1>2

\* The sum of one element, and of two.
LEMMA SumOne == ASSUME NEW x, NEW g, g[x] \in Int PROVE SumFunctionOnSet(g, {x}) = g[x]
<1>1. SumFunctionOnSet(g, {} \cup {x}) = g[x] + SumFunctionOnSet(g, {})
  BY SumAdded, FS_EmptySet
<1>2. {} \cup {x} = {x}
  OBVIOUS
<1> QED BY <1>1, <1>2, SumEmpty

LEMMA SumTwo ==
  ASSUME NEW x, NEW y, x # y, NEW g, g[x] \in Int, g[y] \in Int
  PROVE  SumFunctionOnSet(g, {x, y}) = g[x] + g[y]
<1>1. SumFunctionOnSet(g, {x} \cup {y}) = g[y] + SumFunctionOnSet(g, {x})
  BY SumAdded, FS_Singleton
<1>2. {x} \cup {y} = {x, y}
  OBVIOUS
<1>3. SumFunctionOnSet(g, {x} \cup {y}) = SumFunctionOnSet(g, {x, y})
  BY <1>2, Zenon
<1>4. SumFunctionOnSet(g, {x}) = g[x]
  BY SumOne
<1>5. SumFunctionOnSet(g, {x, y}) = g[y] + SumFunctionOnSet(g, {x})
  BY <1>1, <1>3, Zenon
<1> QED BY <1>4, <1>5

\* The sum over a set in two parts.
LEMMA SumDisjoint ==
  ASSUME NEW S, IsFiniteSet(S), NEW T, IsFiniteSet(T), S \cap T = {}, NEW g, \A x \in S \cup T : g[x] \in Int
  PROVE  SumFunctionOnSet(g, S \cup T) = SumFunctionOnSet(g, S) + SumFunctionOnSet(g, T)
<1> DEFINE Sum(V) == SumFunctionOnSet(g, V)
           C == {V \in SUBSET T : Sum(S \cup V) = Sum(S) + Sum(V)}
<1> HIDE DEF Sum
<1>1. {} \in C
  <2>1. Sum({}) = 0 /\ S \cup {} = S /\ Sum(S) \in Int
    BY SumEmpty, SumInt DEF Sum
  <2> QED BY <2>1
<1>2. ASSUME NEW V \in SUBSET T, NEW x \in T, V \in C, x \notin V PROVE V \cup {x} \in C
  <2>1. IsFiniteSet(V) /\ IsFiniteSet(S \cup V)
    BY FS_Subset, FS_Union
  <2>2. x \notin S \cup V /\ (S \cup V) \cup {x} = S \cup (V \cup {x})
    BY <1>2
  <2>3. Sum((S \cup V) \cup {x}) = g[x] + Sum(S \cup V)
    BY <2>1, <2>2, SumAdded DEF Sum
  <2>4. Sum(V \cup {x}) = g[x] + Sum(V)
    BY <2>1, <1>2, SumAdded DEF Sum
  <2>5. g[x] \in Int /\ Sum(S) \in Int /\ Sum(V) \in Int
    BY <2>1, SumInt DEF Sum
  <2>6. Sum(S \cup V) = Sum(S) + Sum(V)
    BY <1>2
  <2>7. PICK a \in Int, b \in Int, k \in Int : a = g[x] /\ b = Sum(S) /\ k = Sum(V)
    BY <2>5
  <2>8. a + (b + k) = b + (a + k)
    OBVIOUS
  <2> QED BY <2>2, <2>3, <2>4, <2>6, <2>7, <2>8
<1>3. SUBSET T \subseteq C
  <2> HIDE DEF C
  <2> QED BY <1>1, <1>2, SubsetInduction
<1> QED BY <1>3 DEF Sum

\* A sum by groups: h says to which group of K an element belongs, and G what
\* its group sums up to.
Grouped(S, g, K, h, G) ==
  /\ IsFiniteSet(S) /\ IsFiniteSet(K)
  /\ \A x \in S : g[x] \in Int /\ h[x] \in K
  /\ \A k \in K : G[k] = SumFunctionOnSet(g, {x \in S : h[x] = k})

\* The sum is that of the groups' sums.
LEMMA SumByGroups ==
  ASSUME NEW S, NEW g, NEW K, NEW h, NEW G, Grouped(S, g, K, h, G)
  PROVE  SumFunctionOnSet(g, S) = SumFunctionOnSet(G, K)
<1> USE DEF Grouped
<1> DEFINE In(L) == {x \in S : h[x] \in L}
           C == {L \in SUBSET K : SumFunctionOnSet(g, In(L)) = SumFunctionOnSet(G, L)}
<1>1. {} \in C
  <2>1. In({}) = {}
    OBVIOUS
  <2> QED BY <2>1, SumEmpty
<1>2. ASSUME NEW L \in SUBSET K, NEW k \in K, L \in C, k \notin L PROVE L \cup {k} \in C
  <2> DEFINE P == {x \in S : h[x] = k}
  <2>1. In(L \cup {k}) = In(L) \cup P /\ In(L) \cap P = {} /\ In(L) \subseteq S /\ P \subseteq S
    BY <1>2
  <2>2. IsFiniteSet(In(L)) /\ IsFiniteSet(P) /\ IsFiniteSet(L)
    BY <2>1, FS_Subset
  <2>3. G[k] = SumFunctionOnSet(g, P)
    OBVIOUS
  <2>4. \A j \in K : G[j] \in Int
    <3>1. ASSUME NEW j \in K PROVE SumFunctionOnSet(g, {x \in S : h[x] = j}) \in Int
      <4>1. IsFiniteSet({x \in S : h[x] = j})
        BY FS_Subset
      <4> QED BY <4>1, SumInt
    <3> QED BY <3>1
  <2> HIDE DEF P, In
  <2>5. SumFunctionOnSet(g, In(L) \cup P) = SumFunctionOnSet(g, In(L)) + SumFunctionOnSet(g, P)
    BY <2>1, <2>2, SumDisjoint
  <2>6. SumFunctionOnSet(G, L \cup {k}) = G[k] + SumFunctionOnSet(G, L)
    BY <2>2, <2>4, <1>2, SumAdded
  <2>7. SumFunctionOnSet(G, L) \in Int /\ G[k] \in Int
    BY <2>2, <2>4, SumInt
  <2>8. SumFunctionOnSet(g, In(L \cup {k})) = SumFunctionOnSet(g, In(L) \cup P)
    BY <2>1, Zenon
  <2>9. SumFunctionOnSet(g, In(L)) = SumFunctionOnSet(G, L)
    BY <1>2
  <2>10. SumFunctionOnSet(g, In(L \cup {k})) = SumFunctionOnSet(G, L \cup {k})
    BY <2>3, <2>5, <2>6, <2>7, <2>8, <2>9
  <2> QED BY <2>10
<1>3. SUBSET K \subseteq C
  <2> HIDE DEF C
  <2> QED BY <1>1, <1>2, SubsetInduction
<1>4. In(K) = S
  OBVIOUS
<1> QED BY <1>3, <1>4

\* A sum of sums.
LEMMA SumPlus ==
  ASSUME NEW S, IsFiniteSet(S), NEW f, NEW g, NEW h,
         \A x \in S : f[x] \in Int /\ g[x] \in Int /\ h[x] = f[x] + g[x]
  PROVE  SumFunctionOnSet(h, S) = SumFunctionOnSet(f, S) + SumFunctionOnSet(g, S)
<1> DEFINE C == {T \in SUBSET S : SumFunctionOnSet(h, T) = SumFunctionOnSet(f, T) + SumFunctionOnSet(g, T)}
<1>1. {} \in C
  BY SumEmpty
<1>2. ASSUME NEW T \in SUBSET S, NEW x \in S, T \in C, x \notin T PROVE T \cup {x} \in C
  <2>1. IsFiniteSet(T) /\ \A y \in T \cup {x} : f[y] \in Int /\ g[y] \in Int /\ h[y] \in Int
    BY FS_Subset
  <2>2. /\ SumFunctionOnSet(f, T \cup {x}) = f[x] + SumFunctionOnSet(f, T)
        /\ SumFunctionOnSet(g, T \cup {x}) = g[x] + SumFunctionOnSet(g, T)
        /\ SumFunctionOnSet(h, T \cup {x}) = h[x] + SumFunctionOnSet(h, T)
    BY <1>2, <2>1, SumAdded
  <2>3. SumFunctionOnSet(f, T) \in Int /\ SumFunctionOnSet(g, T) \in Int
    BY <2>1, SumInt
  <2>4. h[x] = f[x] + g[x] /\ f[x] \in Int /\ g[x] \in Int
    OBVIOUS
  <2> QED BY <1>2, <2>2, <2>3, <2>4
<1>3. SUBSET S \subseteq C
  <2> HIDE DEF C
  <2> QED BY <1>1, <1>2, SubsetInduction
<1> QED BY <1>3

\* A sum of amounts from 0 up.
LEMMA SumAtLeast0 ==
  ASSUME NEW S, IsFiniteSet(S), NEW g, \A x \in S : g[x] \in Int /\ g[x] >= 0
  PROVE  SumFunctionOnSet(g, S) \in Int /\ SumFunctionOnSet(g, S) >= 0
<1> DEFINE C == {T \in SUBSET S : SumFunctionOnSet(g, T) \in Int /\ SumFunctionOnSet(g, T) >= 0}
<1>1. {} \in C
  BY SumEmpty
<1>2. ASSUME NEW T \in SUBSET S, NEW x \in S, T \in C, x \notin T PROVE T \cup {x} \in C
  <2>1. IsFiniteSet(T) /\ \A y \in T \cup {x} : g[y] \in Int
    BY FS_Subset
  <2>2. SumFunctionOnSet(g, T \cup {x}) = g[x] + SumFunctionOnSet(g, T)
    BY <1>2, <2>1, SumAdded
  <2> QED BY <1>2, <2>2
<1>3. SUBSET S \subseteq C
  <2> HIDE DEF C
  <2> QED BY <1>1, <1>2, SubsetInduction
<1> QED BY <1>3

\* Only 0 is twice itself.
LEMMA TwiceItself == \A k \in Int : k = k + k => k = 0
OBVIOUS

\* What is left out adds nothing.
LEMMA SumOfRest ==
  ASSUME NEW S, IsFiniteSet(S), NEW T \in SUBSET S, NEW g, \A x \in S : g[x] \in Int,
         \A x \in S \ T : g[x] = 0
  PROVE  SumFunctionOnSet(g, S) = SumFunctionOnSet(g, T)
<1>1. IsFiniteSet(T) /\ IsFiniteSet(S \ T) /\ T \cup (S \ T) = S /\ T \cap (S \ T) = {}
  BY FS_Subset
<1>2. SumFunctionOnSet(g, T \cup (S \ T)) = SumFunctionOnSet(g, T) + SumFunctionOnSet(g, S \ T)
  BY <1>1, SumDisjoint
<1>3. SumFunctionOnSet(g, T) \in Int
  BY <1>1, SumInt
<1>4. SumFunctionOnSet(g, S \ T) = 0
  <2>1. SumFunctionOnSet(g, S \ T) = SumFunctionOnSet(g, S \ T) + SumFunctionOnSet(g, S \ T)
    BY <1>1, SumPlus
  <2>2. SumFunctionOnSet(g, S \ T) \in Int
    BY <1>1, SumInt
  <2> QED BY <2>1, <2>2, TwiceItself, Zenon
<1>5. SumFunctionOnSet(g, T \cup (S \ T)) = SumFunctionOnSet(g, S)
  BY <1>1, Zenon
<1> QED BY <1>2, <1>3, <1>4, <1>5

-----------------------------------------------------------------------------
(* What the reports say of the books.                                      *)

\* The sum of a function's values is that over its domain.
LEMMA SumOfFunction ==
  ASSUME NEW S, NEW f, DOMAIN f = S PROVE SumFunction(f) = SumFunctionOnSet(f, S)
BY Zenon DEF SumFunction

\* The trial balance of a finite set of balanced entries balances.
LEMMA TrialAdded ==
  ASSUME NEW J, IsFiniteSet(J), NEW x, x \notin J, \A e \in J \cup {x} : Balances(e.lines)
  PROVE  \A a \in Codes : /\ getTrialBalance(J)[a] \in Int /\ x.lines[a] \in Int
                          /\ getTrialBalance(J \cup {x})[a] = x.lines[a] + getTrialBalance(J)[a]
<1>1. SUFFICES ASSUME NEW a \in Codes
               PROVE  /\ getTrialBalance(J)[a] \in Int /\ x.lines[a] \in Int
                      /\ getTrialBalance(J \cup {x})[a] = x.lines[a] + getTrialBalance(J)[a]
  OBVIOUS
<1> DEFINE f == [e \in J |-> e.lines[a]]
           g == [e \in J \cup {x} |-> e.lines[a]]
<1>2. getTrialBalance(J)[a] = SumFunctionOnSet(f, J)
  BY SumOfFunction DEF getTrialBalance
<1>3. getTrialBalance(J \cup {x})[a] = SumFunctionOnSet(g, J \cup {x})
  BY SumOfFunction DEF getTrialBalance
<1>4. \A e \in J \cup {x} : e.lines[a] \in Int
  BY DEF Balances
<1>5. /\ \A e \in J \cup {x} : g[e] \in Int
      /\ \A e \in J : f[e] \in Int /\ f[e] = g[e]
      /\ g[x] = x.lines[a]
  BY <1>4
<1> HIDE DEF f, g
<1>6. SumFunctionOnSet(g, J \cup {x}) = g[x] + SumFunctionOnSet(g, J)
  BY <1>5, SumAdded
<1>7. SumFunctionOnSet(g, J) = SumFunctionOnSet(f, J)
  BY <1>5, SumSame
<1>8. SumFunctionOnSet(f, J) \in Int
  BY <1>5, SumInt
<1> QED BY <1>2, <1>3, <1>4, <1>5, <1>6, <1>7, <1>8

\* The chart has finitely many accounts.
LEMMA CodesFinite == IsFiniteSet(Codes)
<1>1. Codes = ((((({"1000"} \cup {"1010"}) \cup {"1100"}) \cup {"2000"}) \cup {"2100"}) \cup {"4000"}) \cup {"5100"}
  BY DEF Codes, TypeOf
<1>2. IsFiniteSet({"1000"})
  BY FS_Singleton
<1>3. IsFiniteSet(((((({"1000"} \cup {"1010"}) \cup {"1100"}) \cup {"2000"}) \cup {"2100"}) \cup {"4000"}) \cup {"5100"})
  BY <1>2, FS_AddElement, Zenon
<1> QED BY <1>1, <1>3, Zenon

\* So does that of all of them, by induction.
LEMMA TrialBalances ==
  ASSUME NEW J, IsFiniteSet(J), \A e \in J : Balances(e.lines)
  PROVE  /\ \A a \in Codes : getTrialBalance(J)[a] \in Int
         /\ SumFunctionOnSet(getTrialBalance(J), Codes) = 0
<1> DEFINE Good(T) == /\ \A a \in Codes : getTrialBalance(T)[a] \in Int
                      /\ SumFunctionOnSet(getTrialBalance(T), Codes) = 0
           C == {T \in SUBSET J : Good(T)}
<1>1. {} \in C
  <2>1. \A a \in Codes : getTrialBalance({})[a] = 0
    BY SumEmpty, SumOfFunction DEF getTrialBalance
  <2>2. SumFunctionOnSet(getTrialBalance({}), Codes) = SumFunctionOnSet(getTrialBalance({}), {})
    BY <2>1, CodesFinite, SumOfRest
  <2> QED BY <2>1, <2>2, SumEmpty
<1>2. ASSUME NEW T \in SUBSET J, NEW x \in J, T \in C, x \notin T PROVE T \cup {x} \in C
  <2>1. IsFiniteSet(T) /\ \A e \in T \cup {x} : Balances(e.lines)
    BY FS_Subset
  <2>2. \A a \in Codes : /\ getTrialBalance(T)[a] \in Int /\ x.lines[a] \in Int
                         /\ getTrialBalance(T \cup {x})[a] = x.lines[a] + getTrialBalance(T)[a]
    BY <1>2, <2>1, TrialAdded
  <2>3. SumFunctionOnSet(getTrialBalance(T \cup {x}), Codes)
        = SumFunctionOnSet(x.lines, Codes) + SumFunctionOnSet(getTrialBalance(T), Codes)
    BY <2>2, CodesFinite, SumPlus
  <2>4. SumFunctionOnSet(x.lines, Codes) = 0 /\ SumFunctionOnSet(getTrialBalance(T), Codes) = 0
    BY <1>2 DEF Balances
  <2>5. ASSUME NEW a \in Codes PROVE getTrialBalance(T \cup {x})[a] \in Int
    <3> DEFINE new == getTrialBalance(T \cup {x})[a]
    <3>1. getTrialBalance(T)[a] \in Int /\ x.lines[a] \in Int /\ new = x.lines[a] + getTrialBalance(T)[a]
      BY <2>2
    <3> HIDE DEF new
    <3>2. new \in Int
      BY <3>1
    <3> QED BY <3>2 DEF new
  <2>6. SumFunctionOnSet(getTrialBalance(T \cup {x}), Codes) = 0
    BY <2>3, <2>4
  <2>7. Good(T \cup {x})
    BY <2>5, <2>6
  <2> HIDE DEF Good
  <2> QED BY <2>7
<1>3. SUBSET J \subseteq C
  <2> HIDE DEF C
  <2> QED BY <1>1, <1>2, SubsetInduction
<1> QED BY <1>3

\* The balance sheet balances when the trial balance does.
LEMMA SheetBalances ==
  ASSUME NEW J, IsFiniteSet(J), \A e \in J : Balances(e.lines)
  PROVE  getBalanceSheet(J).assets = getBalanceSheet(J).liabilities + getBalanceSheet(J).equity
<1> DEFINE b == getTrialBalance(J)
           Of(t) == {a \in Codes : TypeOf[a] = t}
<1>1. \A a \in Codes : b[a] \in Int
  BY TrialBalances
<1>2. SumFunctionOnSet(b, Codes) = 0
  BY TrialBalances
<1>3. \A t : IsFiniteSet(Of(t)) /\ SumFunctionOnSet(b, Of(t)) \in Int
  BY <1>1, CodesFinite, FS_Subset, SumInt
<1>4. \A a \in Codes : TypeOf[a] \in {"ASSET", "LIABILITY", "REVENUE", "EXPENSE"}
  BY DEF Codes, TypeOf
<1> HIDE DEF b
<1>5. Codes = ((Of("ASSET") \cup Of("LIABILITY")) \cup Of("REVENUE")) \cup Of("EXPENSE")
  BY <1>4
<1>6. SumFunctionOnSet(b, Of("ASSET") \cup Of("LIABILITY"))
      = SumFunctionOnSet(b, Of("ASSET")) + SumFunctionOnSet(b, Of("LIABILITY"))
  <2>1. Of("ASSET") \cap Of("LIABILITY") = {} /\ \A a \in Of("ASSET") \cup Of("LIABILITY") : b[a] \in Int
    BY <1>1
  <2> HIDE DEF Of
  <2> QED BY <1>3, <2>1, SumDisjoint
<1>7. SumFunctionOnSet(b, (Of("ASSET") \cup Of("LIABILITY")) \cup Of("REVENUE"))
      = SumFunctionOnSet(b, Of("ASSET") \cup Of("LIABILITY")) + SumFunctionOnSet(b, Of("REVENUE"))
  <2>1. /\ (Of("ASSET") \cup Of("LIABILITY")) \cap Of("REVENUE") = {}
        /\ \A a \in (Of("ASSET") \cup Of("LIABILITY")) \cup Of("REVENUE") : b[a] \in Int
    BY <1>1
  <2> HIDE DEF Of
  <2>2. IsFiniteSet(Of("ASSET") \cup Of("LIABILITY"))
    BY <1>3, FS_Union
  <2> QED BY <1>3, <2>1, <2>2, SumDisjoint
<1>8. SumFunctionOnSet(b, Codes)
      = SumFunctionOnSet(b, (Of("ASSET") \cup Of("LIABILITY")) \cup Of("REVENUE")) + SumFunctionOnSet(b, Of("EXPENSE"))
  <2>1. /\ ((Of("ASSET") \cup Of("LIABILITY")) \cup Of("REVENUE")) \cap Of("EXPENSE") = {}
        /\ \A a \in Codes : b[a] \in Int
    BY <1>1
  <2> HIDE DEF Of
  <2>2. IsFiniteSet((Of("ASSET") \cup Of("LIABILITY")) \cup Of("REVENUE"))
    BY <1>3, FS_Union
  <2>3. SumFunctionOnSet(b, ((Of("ASSET") \cup Of("LIABILITY")) \cup Of("REVENUE")) \cup Of("EXPENSE"))
        = SumFunctionOnSet(b, (Of("ASSET") \cup Of("LIABILITY")) \cup Of("REVENUE")) + SumFunctionOnSet(b, Of("EXPENSE"))
    BY <1>3, <1>5, <2>1, <2>2, SumDisjoint
  <2> QED BY <1>5, <2>3, Zenon
<1>9. SumOf(b, "ASSET") + SumOf(b, "LIABILITY") + SumOf(b, "REVENUE") + SumOf(b, "EXPENSE") = 0
  BY <1>2, <1>3, <1>6, <1>7, <1>8 DEF SumOf
<1>10. \A t : SumOf(b, t) \in Int
  BY <1>3 DEF SumOf
<1>11. /\ getBalanceSheet(J).assets = SumOf(b, "ASSET")
       /\ getBalanceSheet(J).liabilities = 0 - SumOf(b, "LIABILITY")
       /\ getBalanceSheet(J).equity = (0 - SumOf(b, "REVENUE")) - SumOf(b, "EXPENSE")
  BY DEF getBalanceSheet, getProfitAndLoss, b
<1> QED BY <1>9, <1>10, <1>11

-----------------------------------------------------------------------------
\* What the entries of document d say of account a.
EntriesOf(d) == {e \in Documents : e.doc = d}
Said(a, d) == SumFunctionOnSet([e \in Documents |-> e.lines[a]], EntriesOf(d))

\* An account's balance, document by document.
LEMMA SaidByEach ==
  ASSUME ReportsInv, NEW a \in Codes, NEW d
  PROVE  /\ EntriesOf(d) = {} => Said(a, d) = 0
         /\ \A e : EntriesOf(d) = {e} => Said(a, d) = e.lines[a]
         /\ \A e, f : EntriesOf(d) = {e, f} /\ e # f => Said(a, d) = e.lines[a] + f.lines[a]
<1> DEFINE g == [e \in Documents |-> e.lines[a]]
<1>1. \A e \in Documents : g[e] = e.lines[a] /\ g[e] \in Int
  BY DEF ReportsInv, EntriesBalance, Balances, Documents
<1>2. EntriesOf(d) \subseteq Documents
  BY DEF EntriesOf
<1>3. Said(a, d) = SumFunctionOnSet(g, EntriesOf(d))
  BY DEF Said
<1> HIDE DEF g
<1>4. EntriesOf(d) = {} => Said(a, d) = 0
  BY <1>3, SumEmpty, Zenon
<1>5. ASSUME NEW e, EntriesOf(d) = {e} PROVE Said(a, d) = e.lines[a]
  <2>1. SumFunctionOnSet(g, {e}) = g[e] /\ g[e] = e.lines[a]
    BY <1>1, <1>2, <1>5, SumOne
  <2> QED BY <2>1, <1>3, <1>5, Zenon
<1>6. ASSUME NEW e, NEW f, EntriesOf(d) = {e, f}, e # f PROVE Said(a, d) = e.lines[a] + f.lines[a]
  <2>1. SumFunctionOnSet(g, {e, f}) = g[e] + g[f] /\ g[e] = e.lines[a] /\ g[f] = f.lines[a]
    BY <1>1, <1>2, <1>6, SumTwo
  <2>2. Said(a, d) = SumFunctionOnSet(g, {e, f})
    BY <1>3, <1>6, Zenon
  <2> QED BY <2>1, <2>2
<1> QED BY <1>4, <1>5, <1>6

\* The entries of a document are as many as the ids it points to.
LEMMA OwnIds ==
  ASSUME ReportsInv, NEW d, d # NoDoc
  PROVE  /\ \A e : e \in EntriesOf(d) <=> e \in journal /\ e.doc = d
         /\ \A e, f \in EntriesOf(d) : e.id = f.id => e = f
         /\ \A e \in EntriesOf(d) : e.id \in IdsOf(d, journal)
         /\ \A x \in IdsOf(d, journal) : \E e \in EntriesOf(d) : e.id = x
<1>1. \A e : e \in EntriesOf(d) <=> e \in journal /\ e.doc = d
  BY DEF EntriesOf, Documents
<1> QED BY <1>1 DEF IdsOf, ReportsInv, EntriesBalance

\* A document with no id, one or two has as many entries.
LEMMA NoIds == ASSUME ReportsInv, NEW d, d # NoDoc, IdsOf(d, journal) = {} PROVE EntriesOf(d) = {}
BY OwnIds

LEMMA OneId ==
  ASSUME ReportsInv, NEW d, d # NoDoc, NEW x, IdsOf(d, journal) = {x}
  PROVE  \E e \in journal : EntriesOf(d) = {e} /\ e.id = x /\ e.doc = d
<1>1. PICK e \in EntriesOf(d) : e.id = x
  BY OwnIds
<1>2. \A f \in EntriesOf(d) : f = e
  BY <1>1, OwnIds
<1> QED BY <1>1, <1>2, OwnIds

LEMMA TwoIds ==
  ASSUME ReportsInv, NEW d, d # NoDoc, NEW x \in IdsOf(d, journal), NEW y \in IdsOf(d, journal), x # y,
         \A z \in IdsOf(d, journal) : z = x \/ z = y
  PROVE  \E e, f \in journal : /\ EntriesOf(d) = {e, f} /\ e # f /\ e.id = x /\ f.id = y
                               /\ e.doc = d /\ f.doc = d
<1>1. PICK e \in EntriesOf(d) : e.id = x
  BY OwnIds
<1>2. PICK f \in EntriesOf(d) : f.id = y
  BY OwnIds
<1>3. \A g \in EntriesOf(d) : g = e \/ g = f
  BY <1>1, <1>2, OwnIds
<1>4. EntriesOf(d) = {e, f} /\ e # f
  BY <1>1, <1>2, <1>3
<1> QED BY <1>1, <1>2, <1>4, OwnIds

\* What an invoice's entry, a payment's and a bill's two add to an account.
LEMMA SaidOfInvoice ==
  ASSUME ReportsInv, tangled = {}, NEW a \in Codes, NEW i \in Invoices
  PROVE  Said(a, i) = IF i \in Issued THEN invoiceLines(i)[a] ELSE 0
<1>1. IdsOf(i, journal) = {invoices[i].entry} \ {0} /\ i # NoDoc
  BY DocumentsAssumption DEF ReportsInv, BooksInv, EntriesExplained
<1>2. CASE i \in Issued
  <2>1. IdsOf(i, journal) = {invoices[i].entry}
    <3>1. invoices[i].entry # 0
      BY <1>2 DEF ReportsInv, Amounted
    <3> QED BY <1>1, <3>1
  <2>2. PICK e \in journal : EntriesOf(i) = {e} /\ e.doc = i
    BY <1>1, <2>1, OneId
  <2>3. e.lines = invoiceLines(i)
    BY <2>2 DEF ReportsInv, EntriesSay
  <2> QED BY <1>2, <2>2, <2>3, SaidByEach
<1>3. CASE i \notin Issued
  <2>1. invoices[i].entry = 0
    <3>1. invoices[i].status \in {"none", "DRAFT", "ISSUED", "PAID"}
      BY DEF ReportsInv, Amounted
    <3>2. invoices[i].status \in {"none", "DRAFT"}
      BY <1>3, <3>1 DEF Issued
    <3> QED BY <3>2 DEF ReportsInv, BooksInv, DraftsHaveNone
  <2>2. EntriesOf(i) = {}
    BY <1>1, <2>1, NoIds
  <2> QED BY <1>3, <2>2, SaidByEach
<1> QED BY <1>2, <1>3

LEMMA SaidOfPayment ==
  ASSUME ReportsInv, NEW a \in {"1100", "2000", "2100", "5100"}, NEW p \in Payments
  PROVE  Said(a, p) = IF a = "1100" THEN 0 - payments[p].amount ELSE 0
<1>1. IdsOf(p, journal) = {payments[p].entry} \ {0} /\ p # NoDoc /\ a \in Codes
  BY DocumentsAssumption DEF ReportsInv, BooksInv, EntriesExplained, Codes, TypeOf
<1>2. CASE payments[p] = NoPayment
  <2>1. payments[p].entry = 0 /\ payments[p].amount = 0
    BY <1>2 DEF NoPayment
  <2>2. EntriesOf(p) = {}
    BY <1>1, <2>1, NoIds
  <2> QED BY <1>1, <2>1, <2>2, SaidByEach
<1>3. CASE payments[p] # NoPayment
  <2>1. payments[p].entry # 0 /\ payments[p].amount \in Nat
    BY <1>3 DEF ReportsInv, Amounted
  <2>2. IdsOf(p, journal) = {payments[p].entry}
    BY <1>1, <2>1
  <2>3. PICK e \in journal : EntriesOf(p) = {e} /\ e.doc = p
    BY <1>1, <2>2, OneId
  <2>4. PICK cash \in {"1000", "1010"} : e.lines = Double(cash, "1100", payments[p].amount)
    BY <2>3 DEF ReportsInv, EntriesSay
  <2>5. e.lines[a] = IF a = "1100" THEN 0 - payments[p].amount ELSE 0
    BY <1>1, <2>1, <2>4 DEF Double
  <2> QED BY <1>1, <2>3, <2>5, SaidByEach
<1> QED BY <1>2, <1>3

LEMMA SaidOfBill ==
  ASSUME ReportsInv, tangled = {}, NEW a \in {"1100", "2000", "2100", "5100"}, NEW b \in Bills
  PROVE  Said(a, b) = CASE a = "5100" -> bills[b].amount
                        [] a = "2000" -> (IF bills[b].status = "UNPAID" THEN 0 - bills[b].amount ELSE 0)
                        [] OTHER -> 0
<1>1. IdsOf(b, journal) = {bills[b].entry, bills[b].payment} \ {0} /\ b # NoDoc /\ a \in Codes
  BY DocumentsAssumption DEF ReportsInv, BooksInv, EntriesExplained, Codes, TypeOf
<1>2. CASE bills[b] = NoBill
  <2>1. bills[b].entry = 0 /\ bills[b].payment = 0 /\ bills[b].amount = 0 /\ bills[b].status = "none"
    BY <1>2 DEF NoBill
  <2>2. EntriesOf(b) = {}
    BY <1>1, <2>1, NoIds
  <2> QED BY <1>1, <2>1, <2>2, SaidByEach
<1>3. CASE bills[b] # NoBill
  <2>1. BillOk(bills[b])
    BY <1>3 DEF ReportsInv, Amounted
  <2>2. PICK amount \in Nat : amount = bills[b].amount
    BY <2>1 DEF BillOk
  <2>3. ASSUME NEW e \in journal, e.doc = b PROVE BillLines(b, e)
    BY <2>3 DEF ReportsInv, EntriesSay
  <2>4. CASE bills[b].status = "UNPAID"
    <3>1. IdsOf(b, journal) = {bills[b].entry}
      BY <1>1, <2>1, <2>4 DEF BillOk
    <3>2. PICK e \in journal : EntriesOf(b) = {e} /\ e.id = bills[b].entry /\ e.doc = b
      BY <1>1, <3>1, OneId
    <3>3. e.lines = Double("5100", "2000", amount)
      BY <2>2, <2>3, <3>2 DEF BillLines
    <3>4. e.lines[a] = IF a = "5100" THEN amount ELSE IF a = "2000" THEN 0 - amount ELSE 0
      BY <1>1, <2>2, <3>3 DEF Double
    <3> QED BY <1>1, <2>2, <2>4, <3>2, <3>4, SaidByEach
  <2>5. CASE bills[b].status = "PAID"
    <3>1. bills[b].entry # bills[b].payment /\ bills[b].payment # 0 /\ bills[b].entry # 0
      BY <2>1, <2>5 DEF BillOk, ReportsInv, BooksInv, OwnEntries, OwnsBoth
    <3>2. IdsOf(b, journal) = {bills[b].entry, bills[b].payment}
      BY <1>1, <3>1
    <3>3. PICK e, f \in journal :
            /\ EntriesOf(b) = {e, f} /\ e # f /\ e.id = bills[b].entry /\ f.id = bills[b].payment
            /\ e.doc = b /\ f.doc = b
      <4>1. b # NoDoc /\ bills[b].entry # bills[b].payment
        BY <1>1, <3>1
      <4>2. PICK x \in IdsOf(b, journal), y \in IdsOf(b, journal) : x = bills[b].entry /\ y = bills[b].payment
        BY <3>2
      <4>3. \A z \in IdsOf(b, journal) : z = x \/ z = y
        BY <3>2, <4>2
      <4>4. \E e, f \in journal : /\ EntriesOf(b) = {e, f} /\ e # f /\ e.id = x /\ f.id = y
                                  /\ e.doc = b /\ f.doc = b
        BY <4>1, <4>2, <4>3, TwoIds
      <4> QED BY <4>2, <4>4
    <3>4. e.lines = Double("5100", "2000", amount) /\ f.lines = Double("2000", "1000", amount)
      BY <2>2, <2>3, <3>3 DEF BillLines
    <3>5. /\ e.lines[a] = IF a = "5100" THEN amount ELSE IF a = "2000" THEN 0 - amount ELSE 0
          /\ f.lines[a] = IF a = "2000" THEN amount ELSE 0
      BY <1>1, <2>2, <3>4 DEF Double
    <3>6. Said(a, b) = e.lines[a] + f.lines[a]
      BY <1>1, <3>3, SaidByEach
    <3> QED BY <2>2, <2>5, <3>5, <3>6
  <2> QED BY <2>1, <2>4, <2>5 DEF BillOk
<1> QED BY <1>2, <1>3

\* The trial balance of the documents' entries, document by document.
LEMMA BalanceByDocument ==
  ASSUME ReportsInv, NEW a \in Codes
  PROVE  LET G == [d \in Invoices \cup Payments \cup Bills |-> Said(a, d)]
         IN  /\ \A d \in Invoices \cup Payments \cup Bills : Said(a, d) \in Int
             /\ getTrialBalance(Documents)[a]
                = SumFunctionOnSet(G, Invoices) + SumFunctionOnSet(G, Payments) + SumFunctionOnSet(G, Bills)
<1> DEFINE D == Invoices \cup Payments \cup Bills
           G == [d \in D |-> Said(a, d)]
           f == [e \in Documents |-> e.lines[a]]
           h == [e \in Documents |-> e.doc]
<1>1. IsFiniteSet(Invoices) /\ IsFiniteSet(Payments) /\ IsFiniteSet(Bills)
  BY AmountsAssumption
<1>2. IsFiniteSet(Invoices \cup Payments) /\ IsFiniteSet(D)
  BY <1>1, FS_Union
<1>3. IsFiniteSet(Documents)
  BY FS_Subset DEF ReportsInv, EntriesBalance, Documents
<1>4. \A e \in Documents : f[e] \in Int /\ h[e] = e.doc /\ h[e] \in D
  BY DEF ReportsInv, EntriesBalance, Balances, Documents
<1>5. ASSUME NEW d \in D PROVE G[d] = SumFunctionOnSet(f, {e \in Documents : h[e] = d})
  <2>1. EntriesOf(d) = {e \in Documents : h[e] = d}
    BY DEF EntriesOf
  <2>2. G[d] = SumFunctionOnSet(f, EntriesOf(d))
    BY DEF Said
  <2> HIDE DEF G, f, h
  <2> QED BY <2>1, <2>2, Zenon
<1>6. ASSUME NEW d \in D PROVE G[d] \in Int
  <2>1. IsFiniteSet(EntriesOf(d)) /\ EntriesOf(d) \subseteq Documents
    BY <1>3, FS_Subset DEF EntriesOf
  <2>2. SumFunctionOnSet(f, EntriesOf(d)) \in Int
    BY <1>4, <2>1, SumInt
  <2> QED BY <2>2 DEF Said
<1>7. getTrialBalance(Documents)[a] = SumFunctionOnSet(f, Documents)
  BY SumOfFunction DEF getTrialBalance
<1> HIDE DEF G, f, h
<1>8. SumFunctionOnSet(f, Documents) = SumFunctionOnSet(G, D)
  <2> HIDE DEF D
  <2>1. Grouped(Documents, f, D, h, G)
    BY <1>2, <1>3, <1>4, <1>5 DEF Grouped
  <2> QED BY <2>1, SumByGroups
<1>9. SumFunctionOnSet(G, D) = SumFunctionOnSet(G, Invoices \cup Payments) + SumFunctionOnSet(G, Bills)
  BY <1>1, <1>2, <1>6, SumDisjoint, DocumentsAssumption
<1>10. SumFunctionOnSet(G, Invoices \cup Payments) = SumFunctionOnSet(G, Invoices) + SumFunctionOnSet(G, Payments)
  BY <1>1, <1>2, <1>6, SumDisjoint, DocumentsAssumption
<1>11. \A d \in D : Said(a, d) \in Int
  BY <1>6 DEF G
<1> QED BY <1>7, <1>8, <1>9, <1>10, <1>11 DEF G

\* What is paid of an invoice is the sum of the payments grouped under it.
LEMMA PaidByInvoice ==
  ASSUME ReportsInv, NEW i \in Invoices
  PROVE  /\ IsFiniteSet({p \in Payments : payments[p].invoice = i})
         /\ \A p \in Payments : payments[p].amount \in Nat
         /\ Paid(i) = SumFunctionOnSet([p \in Payments |-> payments[p].amount], {p \in Payments : payments[p].invoice = i})
         /\ Paid(i) \in Nat
         /\ i \notin Issued => Paid(i) = 0
<1> DEFINE P == {p \in Payments : payments[p].invoice = i}
           g == [p \in Payments |-> payments[p].amount]
           f == [p \in P |-> payments[p].amount]
<1>1. IsFiniteSet(P) /\ P \subseteq Payments
  BY AmountsAssumption, FS_Subset
<1>2. \A p \in Payments : payments[p].amount \in Nat
  BY DEF ReportsInv, Amounted, NoPayment
<1>3. Paid(i) = SumFunctionOnSet(f, P)
  BY SumOfFunction DEF Paid
<1>4. (\A p \in P : f[p] = g[p]) /\ \A p \in Payments : g[p] \in Int /\ g[p] >= 0
  BY <1>2
<1>6. i \notin Issued => P = {}
  BY DocumentsAssumption DEF ReportsInv, Amounted, NoPayment
<1> HIDE DEF f, g, P
<1>5. SumFunctionOnSet(f, P) = SumFunctionOnSet(g, P)
  BY <1>1, <1>4, SumSame
<1>7. SumFunctionOnSet(g, P) \in Int /\ SumFunctionOnSet(g, P) >= 0
  BY <1>1, <1>4, SumAtLeast0
<1>8. i \notin Issued => SumFunctionOnSet(g, P) = 0
  BY <1>6, SumEmpty, Zenon
<1> QED BY <1>1, <1>2, <1>3, <1>5, <1>7, <1>8 DEF P, g

\* Receivables: the invoices' totals less their payments, and no PAID one is left with a due.
LEMMA ReceivablesAgree ==
  ASSUME ReportsInv, tangled = {} PROVE getTrialBalance(Documents)["1100"] = receivablesByCustomer
<1> DEFINE D == Invoices \cup Payments \cup Bills
           G == [d \in D |-> Said("1100", d)]
           amounts == [p \in Payments |-> payments[p].amount]
           minus == [p \in Payments |-> 0 - payments[p].amount]
           isPaid == [i \in Invoices |-> Paid(i)]
           owed == [i \in Invoices |-> (IF i \in Issued THEN Total(i) ELSE 0)]
           due == [i \in Invoices |-> (IF i \in Issued THEN Total(i) ELSE 0) - Paid(i)]
           unpaid == {i \in Invoices : invoices[i].status = "ISSUED"}
           of == [p \in Payments |-> payments[p].invoice]
           Paying == {p \in Payments : payments[p].invoice \in Invoices}
<1>0. "1100" \in Codes
  BY DEF Codes, TypeOf
<1>1. IsFiniteSet(Invoices) /\ IsFiniteSet(Payments) /\ IsFiniteSet(Bills)
  BY AmountsAssumption
<1>2. IsFiniteSet(unpaid) /\ IsFiniteSet(Paying)
  BY <1>1, FS_Subset
<1>3. getTrialBalance(Documents)["1100"]
      = SumFunctionOnSet(G, Invoices) + SumFunctionOnSet(G, Payments) + SumFunctionOnSet(G, Bills)
  BY <1>0, BalanceByDocument
<1>4. \A i \in Invoices : /\ Total(i) \in Nat /\ Paid(i) \in Nat /\ Paid(i) <= Total(i)
                          /\ i \notin Issued => Paid(i) = 0
                          /\ invoices[i].status = "PAID" => Paid(i) = Total(i)
  <2>1. ASSUME NEW i \in Invoices PROVE Total(i) \in Nat
    BY DEF ReportsInv, Amounted, Total
  <2> QED BY <2>1, PaidByInvoice DEF ReportsInv, NeverOverpaid
<1>5. \A p \in Payments : payments[p].amount \in Nat /\ amounts[p] \in Int /\ minus[p] \in Int
                          /\ minus[p] = 0 - amounts[p]
  <2>1. \A p \in Payments : payments[p].amount \in Nat
    BY DEF ReportsInv, Amounted, NoPayment
  <2> QED BY <2>1
<1>6. SumFunctionOnSet(G, Invoices) = SumFunctionOnSet(owed, Invoices)
  <2>1. ASSUME NEW i \in Invoices PROVE G[i] = owed[i]
    <3>1. G[i] = IF i \in Issued THEN invoiceLines(i)["1100"] ELSE 0
      BY <1>0, SaidOfInvoice
    <3>2. invoiceLines(i)["1100"] = Total(i)
      BY <1>0 DEF invoiceLines
    <3> QED BY <3>1, <3>2
  <2> HIDE DEF G, owed
  <2> QED BY <1>1, <2>1, SumSame
<1>7. SumFunctionOnSet(G, Payments) = SumFunctionOnSet(minus, Payments)
  <2>1. \A p \in Payments : G[p] = minus[p]
    BY SaidOfPayment
  <2> HIDE DEF G, minus
  <2> QED BY <1>1, <2>1, SumSame
<1>8. SumFunctionOnSet(G, Bills) = 0
  <2>1. \A b \in Bills : G[b] = 0
    BY SaidOfBill
  <2> HIDE DEF G
  <2>2. SumFunctionOnSet(G, Bills) = SumFunctionOnSet(G, {})
    BY <1>1, <2>1, SumOfRest
  <2> QED BY <2>2, SumEmpty
<1>9. SumFunctionOnSet(amounts, Payments) = SumFunctionOnSet(isPaid, Invoices)
  <2>1. \A p \in Payments \ Paying : amounts[p] = 0
    BY DEF ReportsInv, Amounted, NoPayment, Issued
  <2>2. \A p \in Paying : of[p] \in Invoices /\ amounts[p] \in Int
    BY <1>5
  <2>3. ASSUME NEW i \in Invoices PROVE isPaid[i] = SumFunctionOnSet(amounts, {p \in Paying : of[p] = i})
    <3>1. {p \in Paying : of[p] = i} = {p \in Payments : payments[p].invoice = i}
      OBVIOUS
    <3>2. isPaid[i] = SumFunctionOnSet(amounts, {p \in Payments : payments[p].invoice = i})
      BY PaidByInvoice
    <3> HIDE DEF isPaid, amounts, Paying, of
    <3> QED BY <3>1, <3>2, Zenon
  <2>4. Paying \in SUBSET Payments
    OBVIOUS
  <2> HIDE DEF isPaid, amounts, Paying, of, minus
  <2>5. SumFunctionOnSet(amounts, Payments) = SumFunctionOnSet(amounts, Paying)
    BY <1>1, <1>5, <2>1, <2>4, SumOfRest
  <2>6. SumFunctionOnSet(amounts, Paying) = SumFunctionOnSet(isPaid, Invoices)
    <3>1. Grouped(Paying, amounts, Invoices, of, isPaid)
      BY <1>1, <1>2, <2>2, <2>3 DEF Grouped
    <3> QED BY <3>1, SumByGroups
  <2> QED BY <2>5, <2>6
<1>10. SumFunctionOnSet(amounts, Payments) + SumFunctionOnSet(minus, Payments) = 0
  <2> DEFINE none == [p \in Payments |-> 0]
  <2>1. \A p \in Payments : none[p] = amounts[p] + minus[p] /\ none[p] = 0
    BY <1>5
  <2> HIDE DEF none, amounts, minus
  <2>2. SumFunctionOnSet(none, Payments) = SumFunctionOnSet(amounts, Payments) + SumFunctionOnSet(minus, Payments)
    BY <1>1, <1>5, <2>1, SumPlus
  <2>3. SumFunctionOnSet(none, Payments) = SumFunctionOnSet(none, {})
    BY <1>1, <2>1, SumOfRest
  <2> QED BY <2>2, <2>3, SumEmpty
<1>11. SumFunctionOnSet(owed, Invoices) = SumFunctionOnSet(due, Invoices) + SumFunctionOnSet(isPaid, Invoices)
  <2>1. \A i \in Invoices : due[i] \in Int /\ isPaid[i] \in Int /\ owed[i] = due[i] + isPaid[i]
    BY <1>4
  <2> HIDE DEF due, isPaid, owed
  <2> QED BY <1>1, <2>1, SumPlus
<1>12. SumFunctionOnSet(due, Invoices) = SumFunctionOnSet(due, unpaid)
  <2>1. \A i \in Invoices : due[i] \in Int
    BY <1>4
  <2>2. \A i \in Invoices \ unpaid : due[i] = 0
    BY <1>4 DEF Issued
  <2>3. unpaid \in SUBSET Invoices
    OBVIOUS
  <2> HIDE DEF due, unpaid
  <2> QED BY <1>1, <2>1, <2>2, <2>3, SumOfRest
<1>13. receivablesByCustomer = SumFunctionOnSet(due, unpaid)
  <2> DEFINE f == [i \in unpaid |-> Due(i, Paid(i))]
  <2>1. receivablesByCustomer = SumFunctionOnSet(f, unpaid)
    BY SumOfFunction DEF receivablesByCustomer
  <2>2. \A i \in unpaid : f[i] = due[i]
    BY <1>4 DEF Due, Issued
  <2> HIDE DEF f, due, unpaid
  <2> QED BY <1>2, <2>1, <2>2, SumSame
<1>14. /\ SumFunctionOnSet(isPaid, Invoices) \in Int /\ SumFunctionOnSet(minus, Payments) \in Int
       /\ SumFunctionOnSet(due, unpaid) \in Int
  <2>1. (\A i \in Invoices : isPaid[i] \in Int) /\ \A i \in unpaid : due[i] \in Int
    BY <1>4
  <2> HIDE DEF due, unpaid, isPaid, minus
  <2> QED BY <1>1, <1>2, <1>5, <2>1, SumInt
<1> HIDE DEF due, unpaid, isPaid, minus, amounts, owed, G
<1> QED BY <1>3, <1>6, <1>7, <1>8, <1>9, <1>10, <1>11, <1>12, <1>13, <1>14

\* A sum over documents of which some say nothing.
LEMMA NothingSaid ==
  ASSUME NEW S, IsFiniteSet(S), NEW g, \A x \in S : g[x] = 0 PROVE SumFunctionOnSet(g, S) = 0
<1>1. SumFunctionOnSet(g, S) = SumFunctionOnSet(g, {})
  BY SumOfRest
<1> QED BY <1>1, SumEmpty

LEMMA MinusSum ==
  ASSUME NEW S, IsFiniteSet(S), NEW f, NEW g, \A x \in S : f[x] \in Int /\ g[x] = 0 - f[x]
  PROVE  SumFunctionOnSet(g, S) = 0 - SumFunctionOnSet(f, S)
<1> DEFINE none == [x \in S |-> 0]
<1>1. \A x \in S : g[x] \in Int /\ none[x] = 0 /\ none[x] = f[x] + g[x]
  OBVIOUS
<1> HIDE DEF none
<1>2. SumFunctionOnSet(none, S) = SumFunctionOnSet(f, S) + SumFunctionOnSet(g, S)
  BY <1>1, SumPlus
<1>3. SumFunctionOnSet(none, S) = 0
  BY <1>1, NothingSaid
<1>4. SumFunctionOnSet(f, S) \in Int /\ SumFunctionOnSet(g, S) \in Int
  BY <1>1, SumInt
<1> QED BY <1>2, <1>3, <1>4

\* VAT collected, expenses and payables, each from its one kind of document.
LEMMA VatAgrees ==
  ASSUME ReportsInv, tangled = {} PROVE getTrialBalance(Documents)["2100"] = 0 - getVatReport
<1> DEFINE D == Invoices \cup Payments \cup Bills
           G == [d \in D |-> Said("2100", d)]
           vat == [i \in Issued |-> invoices[i].vat]
<1>0. "2100" \in Codes
  BY DEF Codes, TypeOf
<1>1. IsFiniteSet(Invoices) /\ IsFiniteSet(Payments) /\ IsFiniteSet(Bills)
  BY AmountsAssumption
<1>2. IsFiniteSet(Issued) /\ Issued \in SUBSET Invoices
  BY <1>1, FS_Subset DEF Issued
<1>3. /\ getTrialBalance(Documents)["2100"]
         = SumFunctionOnSet(G, Invoices) + SumFunctionOnSet(G, Payments) + SumFunctionOnSet(G, Bills)
      /\ \A d \in D : G[d] \in Int
  BY <1>0, BalanceByDocument
<1>4. \A i \in Issued : vat[i] \in Int
  BY DEF ReportsInv, Amounted, Issued
<1>5. ASSUME NEW i \in Invoices PROVE G[i] = IF i \in Issued THEN 0 - vat[i] ELSE 0
  <2>1. G[i] = IF i \in Issued THEN invoiceLines(i)["2100"] ELSE 0
    BY <1>0, SaidOfInvoice
  <2>2. invoiceLines(i)["2100"] = 0 - invoices[i].vat
    BY <1>0 DEF invoiceLines
  <2> QED BY <2>1, <2>2
<1>6. (\A p \in Payments : G[p] = 0) /\ \A b \in Bills : G[b] = 0
  BY SaidOfPayment, SaidOfBill
<1>7. getVatReport = SumFunctionOnSet(vat, Issued)
  BY SumOfFunction DEF getVatReport
<1>8. \A d \in Invoices : G[d] \in Int
  BY <1>3
<1> HIDE DEF G, vat, D
<1>9. SumFunctionOnSet(G, Payments) = 0 /\ SumFunctionOnSet(G, Bills) = 0
  BY <1>1, <1>6, NothingSaid
<1>10. SumFunctionOnSet(G, Invoices) = SumFunctionOnSet(G, Issued)
  BY <1>1, <1>2, <1>5, <1>8, SumOfRest
<1>11. \A i \in Issued : G[i] = 0 - vat[i]
  BY <1>2, <1>5
<1>12. SumFunctionOnSet(G, Issued) = 0 - SumFunctionOnSet(vat, Issued)
  BY <1>2, <1>4, <1>11, MinusSum
<1>13. SumFunctionOnSet(vat, Issued) \in Int
  BY <1>2, <1>4, SumInt
<1> QED BY <1>3, <1>7, <1>9, <1>10, <1>12, <1>13

LEMMA ExpensesAgree ==
  ASSUME ReportsInv, tangled = {}
  PROVE  getTrialBalance(Documents)["5100"] = SumFunction([x \in Bills |-> bills[x].amount])
<1> DEFINE D == Invoices \cup Payments \cup Bills
           G == [d \in D |-> Said("5100", d)]
           amounts == [x \in Bills |-> bills[x].amount]
<1>0. "5100" \in Codes
  BY DEF Codes, TypeOf
<1>1. IsFiniteSet(Invoices) /\ IsFiniteSet(Payments) /\ IsFiniteSet(Bills)
  BY AmountsAssumption
<1>3. getTrialBalance(Documents)["5100"]
      = SumFunctionOnSet(G, Invoices) + SumFunctionOnSet(G, Payments) + SumFunctionOnSet(G, Bills)
  BY <1>0, BalanceByDocument
<1>4. \A x \in Bills : amounts[x] \in Int /\ G[x] = amounts[x]
  <2>1. \A x \in Bills : bills[x].amount \in Nat
    BY DEF ReportsInv, Amounted, BillOk, NoBill
  <2>2. \A x \in Bills : G[x] = bills[x].amount
    BY SaidOfBill
  <2> QED BY <2>1, <2>2
<1>5. ASSUME NEW i \in Invoices PROVE G[i] = 0
  <2>1. G[i] = IF i \in Issued THEN invoiceLines(i)["5100"] ELSE 0
    BY <1>0, SaidOfInvoice
  <2>2. invoiceLines(i)["5100"] = 0
    BY <1>0 DEF invoiceLines
  <2> QED BY <2>1, <2>2
<1>6. \A p \in Payments : G[p] = 0
  BY SaidOfPayment
<1>7. SumFunction(amounts) = SumFunctionOnSet(amounts, Bills)
  BY SumOfFunction
<1> HIDE DEF G, amounts, D
<1>8. SumFunctionOnSet(G, Invoices) = 0 /\ SumFunctionOnSet(G, Payments) = 0
  BY <1>1, <1>5, <1>6, NothingSaid
<1>9. SumFunctionOnSet(G, Bills) = SumFunctionOnSet(amounts, Bills) /\ SumFunctionOnSet(amounts, Bills) \in Int
  BY <1>1, <1>4, SumSame, SumInt
<1> QED BY <1>3, <1>7, <1>8, <1>9 DEF amounts

LEMMA PayablesAgree ==
  ASSUME ReportsInv, tangled = {}
  PROVE  getTrialBalance(Documents)["2000"]
         = 0 - SumFunction([x \in {y \in Bills : bills[y].status = "UNPAID"} |-> bills[x].amount])
<1> DEFINE D == Invoices \cup Payments \cup Bills
           G == [d \in D |-> Said("2000", d)]
           Unpaid == {y \in Bills : bills[y].status = "UNPAID"}
           amounts == [x \in Unpaid |-> bills[x].amount]
<1>0. "2000" \in Codes
  BY DEF Codes, TypeOf
<1>1. IsFiniteSet(Invoices) /\ IsFiniteSet(Payments) /\ IsFiniteSet(Bills)
  BY AmountsAssumption
<1>2. IsFiniteSet(Unpaid) /\ Unpaid \in SUBSET Bills
  BY <1>1, FS_Subset
<1>3. /\ getTrialBalance(Documents)["2000"]
         = SumFunctionOnSet(G, Invoices) + SumFunctionOnSet(G, Payments) + SumFunctionOnSet(G, Bills)
      /\ \A d \in Bills : G[d] \in Int
  BY <1>0, BalanceByDocument
<1>4. /\ \A x \in Unpaid : amounts[x] \in Int /\ G[x] = 0 - amounts[x]
      /\ \A x \in Bills \ Unpaid : G[x] = 0
  <2>1. \A x \in Bills : bills[x].amount \in Nat
    BY DEF ReportsInv, Amounted, BillOk, NoBill
  <2>2. \A x \in Bills : G[x] = IF bills[x].status = "UNPAID" THEN 0 - bills[x].amount ELSE 0
    BY SaidOfBill
  <2> QED BY <2>1, <2>2
<1>5. ASSUME NEW i \in Invoices PROVE G[i] = 0
  <2>1. G[i] = IF i \in Issued THEN invoiceLines(i)["2000"] ELSE 0
    BY <1>0, SaidOfInvoice
  <2>2. invoiceLines(i)["2000"] = 0
    BY <1>0 DEF invoiceLines
  <2> QED BY <2>1, <2>2
<1>6. \A p \in Payments : G[p] = 0
  BY SaidOfPayment
<1>7. SumFunction(amounts) = SumFunctionOnSet(amounts, Unpaid)
  BY SumOfFunction
<1> HIDE DEF G, amounts, D, Unpaid
<1>8. SumFunctionOnSet(G, Invoices) = 0 /\ SumFunctionOnSet(G, Payments) = 0
  BY <1>1, <1>5, <1>6, NothingSaid
<1>9. SumFunctionOnSet(G, Bills) = SumFunctionOnSet(G, Unpaid)
  BY <1>1, <1>2, <1>3, <1>4, SumOfRest
<1>10. SumFunctionOnSet(G, Unpaid) = 0 - SumFunctionOnSet(amounts, Unpaid) /\ SumFunctionOnSet(amounts, Unpaid) \in Int
  BY <1>2, <1>4, MinusSum, SumInt
<1> QED BY <1>3, <1>7, <1>8, <1>9, <1>10 DEF amounts, Unpaid

\* The first half of ReportsHold.
LEMMA InvGivesReportsAgree == ReportsInv => ReportsAgree
<1> SUFFICES ASSUME ReportsInv PROVE ReportsAgree
  OBVIOUS
<1>1. getBalanceSheet(journal).assets = getBalanceSheet(journal).liabilities + getBalanceSheet(journal).equity
  BY SheetBalances DEF ReportsInv, EntriesBalance
<1> QED BY <1>1, ReceivablesAgree, VatAgrees, ExpensesAgree, PayablesAgree DEF ReportsAgree

-----------------------------------------------------------------------------
\* The statement's lines: an invoice as it is issued, and a payment.
IssueEvent(i) == [day |-> invoices[i].day, type |-> 0, time |-> 1, doc |-> i, amount |-> Total(i)]
PaymentEvent(p) ==
  [day |-> payments[p].day, type |-> 1, time |-> payments[p].time, doc |-> p, amount |-> 0 - payments[p].amount]
PaidIssued == {q \in Payments : payments[q].invoice \in Issued}

\* The statement has finitely many lines, and these.
LEMMA ImageFinite ==
  ASSUME NEW S, IsFiniteSet(S), NEW f, DOMAIN f = S, f = [x \in S |-> f[x]] PROVE IsFiniteSet({f[x] : x \in S})
<1> DEFINE T == {f[x] : x \in S}
<1>1. f \in [S -> T]
  OBVIOUS
<1>2. f \in Surjection(S, T)
  BY <1>1 DEF Surjection
<1> HIDE DEF T
<1>3. IsFiniteSet(T)
  BY <1>2, FS_Surjection
<1> QED BY <1>3 DEF T

LEMMA EventsFinite ==
  /\ IsFiniteSet(StatementEvents)
  /\ \A x \in StatementEvents : \/ \E i \in Issued : x = IssueEvent(i)
                               \/ \E p \in PaidIssued : x = PaymentEvent(p)
  /\ \A i \in Issued : IssueEvent(i) \in StatementEvents
<1> DEFINE f == [i \in Issued |-> IssueEvent(i)]
           g == [p \in PaidIssued |-> PaymentEvent(p)]
<1>1. IsFiniteSet(Issued) /\ IsFiniteSet(PaidIssued)
  BY AmountsAssumption, FS_Subset DEF Issued, PaidIssued
<1>2. StatementEvents = {IssueEvent(i) : i \in Issued} \cup {PaymentEvent(p) : p \in PaidIssued}
  BY DEF StatementEvents, IssueEvent, PaymentEvent, PaidIssued
<1>3. {IssueEvent(i) : i \in Issued} = {f[i] : i \in Issued} /\ {PaymentEvent(p) : p \in PaidIssued} = {g[p] : p \in PaidIssued}
  OBVIOUS
<1>4. DOMAIN f = Issued /\ f = [x \in Issued |-> f[x]] /\ DOMAIN g = PaidIssued /\ g = [x \in PaidIssued |-> g[x]]
  OBVIOUS
<1> HIDE DEF f, g
<1>5. IsFiniteSet({f[i] : i \in Issued}) /\ IsFiniteSet({g[p] : p \in PaidIssued})
  BY <1>1, <1>4, ImageFinite
<1>6. IsFiniteSet({f[i] : i \in Issued} \cup {g[p] : p \in PaidIssued})
  BY <1>5, FS_Union
<1>7. StatementEvents = {f[i] : i \in Issued} \cup {g[p] : p \in PaidIssued}
  BY <1>2, <1>3
<1>8. IsFiniteSet(StatementEvents)
  BY <1>6, <1>7, Zenon
<1> QED BY <1>2, <1>8

\* Some of an invoice's payments never add up to more than all of them.
LEMMA SomePayments ==
  ASSUME ReportsInv, NEW i \in Invoices, NEW Q, IsFiniteSet(Q),
         \A x \in Q : \E p \in Payments : payments[p].invoice = i /\ x = PaymentEvent(p)
  PROVE  LET amount == [x \in Q |-> x.amount]
         IN  SumFunctionOnSet(amount, Q) \in Int /\ SumFunctionOnSet(amount, Q) >= 0 - Paid(i)
<1> DEFINE P == {p \in Payments : payments[p].invoice = i}
           amount == [x \in Q |-> x.amount]
           doc == [x \in Q |-> x.doc]
           isPaid == [p \in Payments |-> payments[p].amount]
           here(p) == {x \in Q : doc[x] = p}
           sums == [p \in P |-> SumFunctionOnSet(amount, here(p))]
           rest == [p \in P |-> isPaid[p] + sums[p]]
<1>1. /\ IsFiniteSet(P) /\ Paid(i) = SumFunctionOnSet(isPaid, P)
      /\ \A p \in P : isPaid[p] \in Nat /\ isPaid[p] = payments[p].amount
  BY PaidByInvoice
<1>2. \A x \in Q : /\ amount[x] \in Int /\ doc[x] \in P /\ x = PaymentEvent(doc[x])
                   /\ amount[x] = 0 - isPaid[doc[x]]
  <2> SUFFICES ASSUME NEW x \in Q
               PROVE  amount[x] \in Int /\ doc[x] \in P /\ x = PaymentEvent(doc[x]) /\ amount[x] = 0 - isPaid[doc[x]]
    OBVIOUS
  <2>1. PICK p \in P : x = PaymentEvent(p)
    OBVIOUS
  <2>2. x.doc = p /\ x.amount = 0 - payments[p].amount
    BY <2>1 DEF PaymentEvent
  <2> QED BY <1>1, <2>1, <2>2
<1>3. \A p \in P : sums[p] = SumFunctionOnSet(amount, {x \in Q : doc[x] = p})
  OBVIOUS
<1>4. ASSUME NEW p \in P PROVE sums[p] \in Int /\ isPaid[p] + sums[p] >= 0
  <2>1. CASE here(p) = {}
    <3>1. sums[p] = SumFunctionOnSet(amount, {})
      BY <1>3, <2>1
    <3> QED BY <1>1, <3>1, SumEmpty
  <2>2. CASE here(p) # {}
    <3>1. PICK x \in here(p) : TRUE
      BY <2>2
    <3>0. \A y \in here(p) : y \in Q /\ doc[y] = p
      OBVIOUS
    <3>5. \A y \in Q : amount[y] \in Int /\ y = PaymentEvent(doc[y]) /\ amount[y] = 0 - isPaid[doc[y]]
      BY <1>2
    <3> HIDE DEF here, amount, doc, isPaid, sums
    <3>6. \A y \in here(p) : y = PaymentEvent(p) /\ amount[y] \in Int /\ amount[y] = 0 - isPaid[p]
      BY <3>0, <3>5
    <3>2. here(p) = {x} /\ amount[x] \in Int /\ amount[x] = 0 - isPaid[p]
      BY <3>1, <3>6
    <3>3. sums[p] = SumFunctionOnSet(amount, here(p))
      BY DEF sums
    <3>4. sums[p] = SumFunctionOnSet(amount, {x})
      BY <3>2, <3>3, Zenon
    <3>7. sums[p] = 0 - isPaid[p]
      BY <3>2, <3>4, SumOne
    <3> QED BY <1>1, <3>7
  <2> QED BY <2>1, <2>2
<1>5. \A p \in P : /\ isPaid[p] \in Int /\ sums[p] \in Int /\ rest[p] = isPaid[p] + sums[p]
                   /\ rest[p] \in Int /\ rest[p] >= 0
  <2>1. \A p \in P : rest[p] = isPaid[p] + sums[p]
    OBVIOUS
  <2> HIDE DEF rest, sums, isPaid, here, P
  <2> QED BY <1>1, <1>4, <2>1
<1> HIDE DEF rest, sums, isPaid, here, amount, doc, P
<1>6. Grouped(Q, amount, P, doc, sums)
  BY <1>1, <1>2, <1>3 DEF Grouped
<1>7. SumFunctionOnSet(amount, Q) = SumFunctionOnSet(sums, P)
  BY <1>6, SumByGroups
<1>8. SumFunctionOnSet(rest, P) = SumFunctionOnSet(isPaid, P) + SumFunctionOnSet(sums, P)
  BY <1>1, <1>5, SumPlus
<1>9. SumFunctionOnSet(rest, P) >= 0
  BY <1>1, <1>5, SumAtLeast0
<1>10. SumFunctionOnSet(sums, P) \in Int /\ SumFunctionOnSet(isPaid, P) \in Int
  BY <1>1, <1>5, SumInt
<1>11. SumFunctionOnSet(amount, Q) \in Int /\ SumFunctionOnSet(amount, Q) >= 0 - Paid(i)
  BY <1>1, <1>7, <1>8, <1>9, <1>10
<1> QED BY <1>11 DEF amount

\* An issue is before every payment of the invoice.
LEMMA IssueBefore ==
  ASSUME ReportsInv, tangled \cap Invoices = {}, NEW e \in StatementEvents, NEW p \in PaidIssued,
         UpTo(PaymentEvent(p), e)
  PROVE  UpTo(IssueEvent(payments[p].invoice), e)
<1>1. /\ p \in Payments /\ payments[p].invoice \in Issued /\ payments[p].invoice \in Invoices \ tangled
      /\ payments[p].invoice \in Invoices
  BY DEF PaidIssued, Issued
<1>2. /\ payments[p].day \in Int /\ invoices[payments[p].invoice].day \in Int
      /\ payments[p].day >= invoices[payments[p].invoice].day
  BY <1>1, DocumentsAssumption DEF ReportsInv, Amounted, PaidAfterIssue, NoPayment
<1>3. e.day \in Int /\ e.type \in {0, 1}
  <2>1. CASE \E i \in Issued : e = IssueEvent(i)
    BY <2>1 DEF IssueEvent, ReportsInv, Amounted, Issued
  <2>2. CASE \E q \in PaidIssued : e = PaymentEvent(q)
    BY <2>2, DocumentsAssumption DEF PaymentEvent, PaidIssued, ReportsInv, Amounted, NoPayment
  <2> QED BY <2>1, <2>2, EventsFinite
<1> DEFINE x == PaymentEvent(p)
           y == IssueEvent(payments[p].invoice)
<1>4. /\ x.day = payments[p].day /\ x.type = 1
      /\ y.day = invoices[payments[p].invoice].day /\ y.type = 0
  BY DEF PaymentEvent, IssueEvent
<1> HIDE DEF x, y
<1>5. InvoiceFirst(x, e)
  BY DEF UpTo, x
<1>6. InvoiceFirst(y, e)
  BY <1>2, <1>3, <1>4, <1>5 DEF InvoiceFirst
<1> QED BY <1>6 DEF UpTo, y

\* Amounts of an invoice are numbers.
LEMMA TotalInt == ASSUME ReportsInv, NEW i \in Invoices PROVE Total(i) \in Nat /\ Paid(i) \in Nat
<1>1. Total(i) \in Nat
  BY DEF ReportsInv, Amounted, Total
<1> QED BY <1>1, PaidByInvoice

\* Up to a line, invoice by invoice: what was billed less some of its payments.
LEMMA StatementPositive == ReportsInv => StatementStaysPositive
<1> SUFFICES ASSUME ReportsInv, tangled \cap Invoices = {}, NEW e \in StatementEvents PROVE Running(e) >= 0
  BY DEF StatementStaysPositive
<1> DEFINE E == {y \in StatementEvents : UpTo(y, e)}
           amount == [x \in E |-> x.amount]
           of == [x \in E |-> IF x.type = 0 THEN x.doc ELSE payments[x.doc].invoice]
           group(i) == {x \in E : of[x] = i}
           sums == [i \in Invoices |-> SumFunctionOnSet(amount, group(i))]
<1>1. IsFiniteSet(E)
  BY EventsFinite, FS_Subset
<1>2. Running(e) = SumFunctionOnSet(amount, E)
  BY SumOfFunction DEF Running
<1>3. ASSUME NEW x \in E
      PROVE  /\ amount[x] \in Int /\ of[x] \in Issued /\ amount[x] = x.amount
             /\ \/ x = IssueEvent(of[x])
                \/ \E p \in PaidIssued : payments[p].invoice = of[x] /\ x = PaymentEvent(p)
  <2>1. CASE \E i \in Issued : x = IssueEvent(i)
    <3>1. PICK i \in Issued : x = IssueEvent(i)
      BY <2>1
    <3>2. x.type = 0 /\ x.doc = i /\ x.amount = Total(i) /\ i \in Invoices
      BY <3>1 DEF IssueEvent, Issued
    <3>3. of[x] = i /\ amount[x] = Total(i)
      BY <3>2
    <3> QED BY <3>1, <3>2, <3>3, TotalInt
  <2>2. CASE \E p \in PaidIssued : x = PaymentEvent(p)
    <3>1. PICK p \in PaidIssued : x = PaymentEvent(p)
      BY <2>2
    <3>2. x.type = 1 /\ x.doc = p /\ x.amount = 0 - payments[p].amount /\ payments[p].amount \in Int
      BY <3>1, DocumentsAssumption DEF PaymentEvent, PaidIssued, Issued, ReportsInv, Amounted, NoPayment
    <3>3. of[x] = payments[p].invoice /\ amount[x] = 0 - payments[p].amount /\ of[x] \in Issued
      BY <3>2 DEF PaidIssued
    <3> QED BY <3>1, <3>2, <3>3
  <2> QED BY <2>1, <2>2, EventsFinite
<1>4. ASSUME NEW i \in Invoices PROVE sums[i] \in Int /\ sums[i] >= 0
  <2> DEFINE issue == {x \in group(i) : x = IssueEvent(i)}
             Q == {x \in group(i) : x # IssueEvent(i)}
             isPaid == [x \in Q |-> x.amount]
  <2>1. IsFiniteSet(Q) /\ IsFiniteSet(issue) /\ group(i) = issue \cup Q /\ issue \cap Q = {}
    BY <1>1, FS_Subset
  <2>2. \A x \in Q : \E p \in Payments : payments[p].invoice = i /\ x = PaymentEvent(p)
    BY <1>3 DEF PaidIssued
  <2>3. \A x \in issue \cup Q : amount[x] \in Int
    BY <1>3
  <2>4. \A x \in Q : amount[x] = isPaid[x]
    OBVIOUS
  <2>5. Q # {} => IssueEvent(i) \in issue /\ i \in Issued
    <3>1. SUFFICES ASSUME NEW x \in Q PROVE IssueEvent(i) \in issue /\ i \in Issued
      OBVIOUS
    <3>2. PICK p \in PaidIssued : payments[p].invoice = i /\ x = PaymentEvent(p)
      BY <1>3
    <3>3. UpTo(IssueEvent(i), e)
      BY <3>2, IssueBefore
    <3>4. i \in Issued
      BY <3>2 DEF PaidIssued
    <3>5. IssueEvent(i) \in E
      BY <3>3, <3>4, EventsFinite
    <3>6. of[IssueEvent(i)] = i
      BY <3>5 DEF IssueEvent
    <3> QED BY <3>4, <3>5, <3>6
  <2>6. \A x \in issue : x = IssueEvent(i) /\ amount[x] = Total(i)
    BY DEF IssueEvent
  <2> HIDE DEF issue, Q, isPaid, amount, group, of, E
  <2>7. SumFunctionOnSet(isPaid, Q) \in Int /\ SumFunctionOnSet(isPaid, Q) >= 0 - Paid(i)
    BY <2>1, <2>2, SomePayments DEF isPaid
  <2>8. SumFunctionOnSet(amount, issue \cup Q) = SumFunctionOnSet(amount, issue) + SumFunctionOnSet(amount, Q)
    BY <2>1, <2>3, SumDisjoint
  <2>9. SumFunctionOnSet(amount, Q) = SumFunctionOnSet(isPaid, Q)
    BY <2>1, <2>4, SumSame
  <2>10. Total(i) \in Nat /\ Paid(i) \in Nat /\ Paid(i) <= Total(i)
    BY TotalInt DEF ReportsInv, NeverOverpaid
  <2>11. sums[i] = SumFunctionOnSet(amount, group(i))
    OBVIOUS
  <2>12. sums[i] = SumFunctionOnSet(amount, issue \cup Q)
    BY <2>1, <2>11, Zenon
  <2>13. CASE issue = {}
    <3>1. Q = {}
      BY <2>5, <2>13
    <3>2. SumFunctionOnSet(amount, issue) = SumFunctionOnSet(amount, {}) /\ SumFunctionOnSet(amount, Q) = SumFunctionOnSet(amount, {})
      BY <2>13, <3>1, Zenon
    <3> QED BY <2>8, <2>12, <3>2, SumEmpty
  <2>14. CASE issue # {}
    <3>1. PICK x \in issue : TRUE
      BY <2>14
    <3>2. issue = {x} /\ amount[x] = Total(i)
      BY <2>6, <3>1
    <3>3. SumFunctionOnSet(amount, issue) = SumFunctionOnSet(amount, {x})
      BY <3>2, Zenon
    <3>4. SumFunctionOnSet(amount, issue) = Total(i)
      <4>1. amount[x] \in Int
        BY <2>10, <3>2
      <4>2. SumFunctionOnSet(amount, {x}) = amount[x]
        BY ONLY <4>1, SumOne
      <4> QED BY <3>2, <3>3, <4>2, Zenon
    <3> QED BY <2>7, <2>8, <2>9, <2>10, <2>12, <3>4
  <2> QED BY <2>13, <2>14
<1>5. \A x \in E : amount[x] \in Int /\ of[x] \in Invoices
  BY <1>3 DEF Issued
<1>6. \A i \in Invoices : sums[i] = SumFunctionOnSet(amount, {x \in E : of[x] = i})
  OBVIOUS
<1> HIDE DEF sums, group, of, amount, E
<1>7. Grouped(E, amount, Invoices, of, sums)
  BY <1>1, <1>5, <1>6, AmountsAssumption DEF Grouped
<1>8. SumFunctionOnSet(amount, E) = SumFunctionOnSet(sums, Invoices)
  BY <1>7, SumByGroups
<1>9. SumFunctionOnSet(sums, Invoices) >= 0
  BY <1>4, AmountsAssumption, SumAtLeast0
<1> QED BY <1>2, <1>8, <1>9

\* Both halves.
LEMMA InvGivesReports == ReportsInv => ReportsHold
BY InvGivesReportsAgree, StatementPositive DEF ReportsHold

\* The lines of every entry add up to 0.
LEMMA DoubleBalances ==
  ASSUME NEW d \in Codes, NEW c \in Codes, NEW n \in Int PROVE Balances(Double(d, c, n))
<1> DEFINE lines == Double(d, c, n)
<1>1. lines \in [Codes -> Int] /\ \A a \in Codes : lines[a] \in Int
  BY DEF Double
<1>2. SumFunctionOnSet(lines, Codes) = SumFunctionOnSet(lines, {d, c})
  <2>1. \A a \in Codes \ {d, c} : lines[a] = 0
    BY DEF Double
  <2> HIDE DEF lines
  <2> QED BY <1>1, <2>1, CodesFinite, SumOfRest
<1>3. CASE d = c
  <2>1. lines[d] = 0
    BY <1>3 DEF Double
  <2> HIDE DEF lines
  <2>2. {d, c} = {d}
    BY <1>3
  <2>3. SumFunctionOnSet(lines, {d, c}) = SumFunctionOnSet(lines, {d})
    BY <2>2, Zenon
  <2>4. SumFunctionOnSet(lines, {d}) = 0
    BY <1>1, <2>1, SumOne
  <2> QED BY <1>1, <1>2, <2>3, <2>4 DEF Balances, lines
<1>4. CASE d # c
  <2>1. lines[d] = n /\ lines[c] = 0 - n
    BY <1>4 DEF Double
  <2> HIDE DEF lines
  <2>2. SumFunctionOnSet(lines, {d, c}) = 0
    <3>1. SumFunctionOnSet(lines, {d, c}) = lines[d] + lines[c]
      BY <1>1, <1>4, SumTwo
    <3> QED BY <2>1, <3>1
  <2> QED BY <1>1, <1>2, <2>2 DEF Balances, lines
<1> QED BY <1>3, <1>4

LEMMA InvoiceLinesBalance ==
  ASSUME NEW i, invoices[i].subtotal \in Nat, invoices[i].vat \in Nat PROVE Balances(invoiceLines(i))
<1> DEFINE lines == invoiceLines(i)
           s == invoices[i].subtotal
           v == invoices[i].vat
<1>1. /\ {"1100", "4000", "2100"} \subseteq Codes
      /\ lines["1100"] = s + v /\ lines["4000"] = 0 - s /\ lines["2100"] = 0 - v
      /\ \A a \in Codes \ {"1100", "4000", "2100"} : lines[a] = 0
  BY DEF invoiceLines, Codes, TypeOf, Total
<1>2. lines \in [Codes -> Int]
  BY DEF invoiceLines, Total
<1>3. \A a \in Codes : lines[a] \in Int
  BY <1>2
<1> HIDE DEF lines, s, v
<1>4. SumFunctionOnSet(lines, Codes) = SumFunctionOnSet(lines, {"1100", "4000", "2100"})
  BY <1>1, <1>3, CodesFinite, SumOfRest
<1>5. SumFunctionOnSet(lines, {"4000", "2100"} \cup {"1100"}) = lines["1100"] + SumFunctionOnSet(lines, {"4000", "2100"})
  <2>1. IsFiniteSet({"4000", "2100"})
    BY <1>1, CodesFinite, FS_Subset
  <2>2. \A a \in {"4000", "2100"} \cup {"1100"} : lines[a] \in Int
    BY <1>1, <1>3
  <2> QED BY <2>1, <2>2, SumAdded
<1>6. SumFunctionOnSet(lines, {"4000", "2100"}) = lines["4000"] + lines["2100"]
  BY <1>1, <1>3, SumTwo
<1>7. {"1100", "4000", "2100"} = {"4000", "2100"} \cup {"1100"}
  OBVIOUS
<1>8. SumFunctionOnSet(lines, {"1100", "4000", "2100"}) = SumFunctionOnSet(lines, {"4000", "2100"} \cup {"1100"})
  BY <1>7, Zenon
<1>9. s \in Nat /\ v \in Nat
  BY DEF s, v
<1>10. SumFunctionOnSet(lines, Codes) = 0
  BY <1>1, <1>4, <1>5, <1>6, <1>8, <1>9
<1> QED BY <1>2, <1>10 DEF Balances, lines

\* New entries that balance, of ids never given, keep the journal balanced.
LEMMA StillBalances ==
  ASSUME ReportsInv, NEW dropped, NEW new, IsFiniteSet(new), journal' = Keep(dropped) \cup new,
         \A e, f \in new : e.id = f.id => e = f,
         \A e \in new : /\ e.id \in Int /\ e.id > lastId /\ Balances(e.lines)
                        /\ e.doc \in Invoices \cup Payments \cup Bills \cup {NoDoc}
  PROVE  EntriesBalance'
<1>1. IsFiniteSet(journal) /\ \A e \in journal : e.id \in 1..lastId
  BY DEF ReportsInv, BooksInv, Shape, EntriesBalance
<1>2. Keep(dropped) \subseteq journal
  BY DEF Keep
<1>3. IsFiniteSet(journal')
  BY <1>1, <1>2, FS_Subset, FS_Union
<1>4. lastId \in Nat
  BY DEF ReportsInv, BooksInv, Shape
<1>5. \A e, f \in journal' : e.id = f.id => e = f
  BY <1>1, <1>2, <1>4 DEF ReportsInv, EntriesBalance
<1>6. \A e \in journal' : Balances(e.lines) /\ e.doc \in Invoices \cup Payments \cup Bills \cup {NoDoc}
  BY <1>2 DEF ReportsInv, EntriesBalance
<1> QED BY <1>3, <1>5, <1>6 DEF EntriesBalance

\* An invoice's entry and its total depend on its two amounts.
LEMMA LinesSame ==
  ASSUME NEW i, invoices'[i].subtotal = invoices[i].subtotal, invoices'[i].vat = invoices[i].vat
  PROVE  invoiceLines(i)' = invoiceLines(i) /\ Total(i)' = Total(i)
BY DEF invoiceLines, Total

\* What EntriesSay says of one entry.
Says(e) ==
  /\ e.doc \in Invoices \ tangled => e.lines = invoiceLines(e.doc)
  /\ e.doc \in Payments => \E cash \in {"1000", "1010"} : e.lines = Double(cash, "1100", payments[e.doc].amount)
  /\ e.doc \in Bills \ tangled => BillLines(e.doc, e)

\* Only document d, if any, is written.
OnlyWrites(d) ==
  /\ tangled \subseteq tangled'
  /\ \A i \in Invoices \ {d} : invoices'[i].subtotal = invoices[i].subtotal /\ invoices'[i].vat = invoices[i].vat
  /\ \A p \in Payments \ {d} : payments'[p] = payments[p]
  /\ \A b \in Bills \ {d} : bills'[b] = bills[b]

\* The entries of other documents say what they said.
LEMMA StillSays ==
  ASSUME ReportsInv, NEW d, OnlyWrites(d), \A e \in journal' \ journal : e.doc = d,
         \A e \in journal' : e.doc = d => Says(e)'
  PROVE  EntriesSay'
<1>1. ASSUME NEW e \in journal', e.doc # d PROVE Says(e)'
  <2>1. e \in journal /\ Says(e)
    BY <1>1 DEF ReportsInv, EntriesSay, Says
  <2>2. e.doc \in Invoices => invoiceLines(e.doc)' = invoiceLines(e.doc)
    BY <1>1, LinesSame DEF OnlyWrites
  <2>3. e.doc \in Payments => payments'[e.doc] = payments[e.doc]
    BY <1>1 DEF OnlyWrites
  <2>4. e.doc \in Bills => (BillLines(e.doc, e)' <=> BillLines(e.doc, e))
    BY <1>1 DEF OnlyWrites, BillLines
  <2>5. tangled \subseteq tangled'
    BY DEF OnlyWrites
  <2> QED BY <2>1, <2>2, <2>3, <2>4, <2>5 DEF Says
<1>2. \A e \in journal' : Says(e)'
  BY <1>1
<1> QED BY <1>2 DEF EntriesSay, Says

\* The same payments pay the same.
LEMMA PaidSame == ASSUME NEW i, UNCHANGED payments PROVE Paid(i)' = Paid(i)
BY DEF Paid

\* The conjuncts of ReportsInv besides BooksInv.
Reported == Amounted /\ EntriesBalance /\ EntriesSay /\ NeverOverpaid /\ PaidAfterIssue

\* The amounts of an invoice.
LEMMA InvoiceOk ==
  ASSUME ReportsInv, NEW i \in Invoices
  PROVE  /\ invoices[i].subtotal \in Nat /\ invoices[i].vat \in Nat /\ invoices[i].day \in Int
         /\ Balances(invoiceLines(i)) /\ Total(i) \in Nat
BY InvoiceLinesBalance DEF ReportsInv, Amounted, Total

\* An invoice issued from a draft had no payment and no entry.
LEMMA IssueReports == ASSUME ReportsInv, NEW r \in Requests, IssueInvoice(r) PROVE Reported'
<1> DEFINE i == job[r].doc
           e1 == Entry(lastId + 1, i, today, invoiceLines(i))
<1>1. i \in Invoices /\ lastId \in Nat /\ today \in Int
  BY DEF ReportsInv, BooksInv, JobsHaveDocuments, Shape, IssueInvoice, At, Amounted
<1>2. /\ journal' = Keep({}) \cup {e1}
      /\ DOMAIN invoices' = Invoices /\ \A j \in Invoices \ {i} : invoices'[j] = invoices[j]
      /\ tangled \subseteq tangled' /\ (invoices[i].status # "DRAFT" => i \in tangled')
      /\ UNCHANGED <<payments, bills, today>>
  BY DEF IssueInvoice, Keep, ReportsInv, BooksInv, Shape
<1>3. /\ invoices'[i].status = "ISSUED" /\ invoices'[i].day = today /\ invoices'[i].entry = lastId + 1
      /\ invoices'[i].subtotal = invoices[i].subtotal /\ invoices'[i].vat = invoices[i].vat
  BY <1>1 DEF IssueInvoice, ReportsInv, BooksInv, Shape, NoInvoice
<1>4. e1.id = lastId + 1 /\ e1.doc = i /\ e1.lines = invoiceLines(i)
  BY DEF Entry
<1>5. \A q \in Requests : job'[q] = job[q] \/ job'[q] = Idle
  BY DEF IssueInvoice, End, ReportsInv, BooksInv, Shape
<1> HIDE DEF e1, i
<1>6. Amounted'
  <2>1. Issued \subseteq Issued'
    BY <1>1, <1>2, <1>3 DEF Issued
  <2>2. \A j \in Invoices :
          /\ invoices'[j].status \in {"none", "DRAFT", "ISSUED", "PAID"}
          /\ invoices'[j].subtotal \in Nat /\ invoices'[j].vat \in Nat /\ invoices'[j].day \in Int
          /\ j \in Issued' => invoices'[j].entry # 0
    BY <1>1, <1>2, <1>3 DEF Issued, ReportsInv, Amounted
  <2>3. \A q \in Requests : job'[q].at = "update" => job'[q].amount \in Nat /\ BillOk(job'[q].read)
    BY <1>5 DEF Idle, ReportsInv, Amounted
  <2> QED BY <1>1, <1>2, <2>1, <2>2, <2>3 DEF ReportsInv, Amounted
<1>7. EntriesBalance'
  <2>1. Balances(invoiceLines(i))
    BY <1>1, InvoiceOk
  <2>2. \A e \in {e1} : /\ e.id \in Int /\ e.id > lastId /\ Balances(e.lines)
                        /\ e.doc \in Invoices \cup Payments \cup Bills \cup {NoDoc}
    BY <1>1, <1>4, <2>1
  <2>3. IsFiniteSet({e1})
    BY FS_Singleton
  <2> QED BY <1>2, <2>2, <2>3, StillBalances
<1>8. EntriesSay'
  <2>1. OnlyWrites(i)
    BY <1>1, <1>2 DEF OnlyWrites
  <2>2. ASSUME NEW e \in journal', e.doc = i PROVE Says(e)'
    <3>1. i \notin Payments /\ i \notin Bills
      BY <1>1, DocumentsAssumption
    <3>2. CASE e = e1
      BY <1>1, <1>3, <1>4, <3>1, <3>2, LinesSame DEF Says
    <3>3. CASE e # e1 /\ i \notin tangled'
      <4>1. e \in journal /\ i \notin tangled /\ invoices[i].status = "DRAFT"
        BY <1>2, <3>3 DEF Keep
      <4>2. invoices[i].entry = 0 /\ IdsOf(i, journal) = {invoices[i].entry} \ {0}
        BY <1>1, <4>1 DEF ReportsInv, BooksInv, DraftsHaveNone, EntriesExplained
      <4>3. e.id \in IdsOf(i, journal)
        BY <2>2, <4>1 DEF IdsOf
      <4> QED BY <4>2, <4>3
    <3>4. CASE i \in tangled'
      BY <2>2, <3>1, <3>4 DEF Says
    <3> QED BY <3>2, <3>3, <3>4
  <2>3. \A e \in journal' \ journal : e.doc = i
    BY <1>2, <1>4 DEF Keep
  <2> QED BY <2>1, <2>2, <2>3, StillSays
<1>9. NeverOverpaid'
  <2>1. ASSUME NEW j \in Invoices PROVE Paid(j)' = Paid(j) /\ Total(j)' = Total(j)
    BY <1>1, <1>2, <1>3, PaidSame, LinesSame
  <2> QED BY <2>1, <1>1, <1>2, <1>3 DEF ReportsInv, NeverOverpaid
<1>10. PaidAfterIssue'
  <2>1. ASSUME NEW p \in Payments, payments[p].invoice \in Invoices \ tangled'
        PROVE  payments[p].day >= invoices'[payments[p].invoice].day
    <3>1. payments[p].invoice \in Issued
      BY <2>1, DocumentsAssumption DEF ReportsInv, Amounted, NoPayment
    <3>2. payments[p].invoice # i
      BY <1>2, <2>1, <3>1 DEF Issued
    <3> QED BY <1>2, <2>1, <3>2 DEF ReportsInv, PaidAfterIssue
  <2> QED BY <1>2, <2>1 DEF PaidAfterIssue
<1> QED BY <1>6, <1>7, <1>8, <1>9, <1>10 DEF Reported

\* When the documents and the journal stay, only what requests have read counts.
LEMMA OnlyRead ==
  ASSUME ReportsInv, UNCHANGED <<invoices, payments, bills, journal, tangled>>, today' \in Int,
         \A r \in Requests : job'[r].at = "update" => job'[r].amount \in Nat /\ BillOk(job'[r].read)
  PROVE  Reported'
<1>1. Amounted'
  BY DEF ReportsInv, Amounted, Issued
<1>2. EntriesBalance'
  BY DEF ReportsInv, EntriesBalance
<1>3. EntriesSay'
  <2>1. OnlyWrites(NoDoc)
    BY DEF OnlyWrites
  <2>2. \A e \in journal' : e.doc = NoDoc => Says(e)'
    BY DocumentsAssumption DEF Says
  <2>3. \A e \in journal' \ journal : e.doc = NoDoc
    OBVIOUS
  <2> QED BY <2>1, <2>2, <2>3, StillSays
<1>4. NeverOverpaid'
  <2>1. \A i \in Invoices : Paid(i)' = Paid(i) /\ Total(i)' = Total(i)
    BY PaidSame, LinesSame
  <2> QED BY <2>1 DEF ReportsInv, NeverOverpaid
<1>5. PaidAfterIssue'
  BY DEF ReportsInv, PaidAfterIssue
<1> QED BY <1>1, <1>2, <1>3, <1>4, <1>5 DEF Reported

\* A manual entry is balanced and of no document.
LEMMA EntryReports ==
  ASSUME ReportsInv, NEW d \in Manual, NEW c \in Manual, NEW x \in Amounts, NEW y \in Amounts,
         CreateJournalEntry(d, c, x, y)
  PROVE  Reported'
<1> DEFINE ls == [a \in Codes |-> (IF a = d THEN x ELSE 0) - (IF a = c THEN y ELSE 0)]
           e1 == Entry(lastId + 1, NoDoc, today, ls)
<1>1. lastId \in Nat /\ x = y /\ x \in Nat /\ d \in Codes /\ c \in Codes
  BY AmountsAssumption DEF ReportsInv, BooksInv, Shape, CreateJournalEntry, Balanced, Equal, Codes, TypeOf
<1>2. journal' = Keep({}) \cup {e1} /\ UNCHANGED <<invoices, payments, bills, today, job, tangled>>
  BY DEF CreateJournalEntry, Keep
<1>3. ls = Double(d, c, x)
  BY <1>1 DEF Double
<1>4. e1.id = lastId + 1 /\ e1.doc = NoDoc /\ e1.lines = ls
  BY DEF Entry
<1> HIDE DEF ls, e1
<1>5. Balances(ls)
  <2>1. Balances(Double(d, c, x))
    BY <1>1, DoubleBalances
  <2> QED BY <1>3, <2>1, Zenon
<1>6. EntriesBalance'
  <2>1. \A e \in {e1} : /\ e.id \in Int /\ e.id > lastId /\ Balances(e.lines)
                        /\ e.doc \in Invoices \cup Payments \cup Bills \cup {NoDoc}
    BY <1>1, <1>4, <1>5
  <2>2. IsFiniteSet({e1})
    BY FS_Singleton
  <2> QED BY <1>2, <2>1, <2>2, StillBalances
<1>7. EntriesSay'
  <2>1. OnlyWrites(NoDoc)
    BY <1>2 DEF OnlyWrites
  <2>2. \A e \in journal' : e.doc = NoDoc => Says(e)'
    BY DocumentsAssumption DEF Says
  <2>3. \A e \in journal' \ journal : e.doc = NoDoc
    BY <1>2, <1>4 DEF Keep
  <2> QED BY <2>1, <2>2, <2>3, StillSays
<1>8. NeverOverpaid'
  <2>1. \A i \in Invoices : Paid(i)' = Paid(i) /\ Total(i)' = Total(i)
    BY <1>2, PaidSame, LinesSame
  <2> QED BY <1>2, <2>1 DEF ReportsInv, NeverOverpaid
<1>9. Amounted' /\ PaidAfterIssue'
  BY <1>2 DEF ReportsInv, Amounted, Issued, PaidAfterIssue
<1> QED BY <1>6, <1>7, <1>8, <1>9 DEF Reported

\* A draft takes the place of no invoice.
LEMMA CreateReports == ASSUME ReportsInv, NEW r \in Requests, CreateInvoice(r) PROVE Reported'
<1>1. \A q \in Requests : job'[q] = job[q] \/ job'[q] = Idle
  BY DEF CreateInvoice, End, ReportsInv, BooksInv, Shape
<1>2. \A q \in Requests : job'[q].at = "update" => job'[q].amount \in Nat /\ BillOk(job'[q].read)
  BY <1>1 DEF Idle, ReportsInv, Amounted
<1>3. UNCHANGED <<payments, bills, journal, tangled, today>> /\ today \in Int
  BY DEF CreateInvoice, ReportsInv, Amounted
<1>4. CASE UNCHANGED invoices
  BY <1>2, <1>3, <1>4, OnlyRead
<1>5. CASE ~UNCHANGED invoices
  <2>1. PICK i \in Invoices, s \in Subtotals :
          /\ invoices[i] = NoInvoice
          /\ invoices' = [invoices EXCEPT ![i] = [NoInvoice EXCEPT
                            !.status = "DRAFT", !.number = job[r].number, !.subtotal = s, !.vat = Vat(s)]]
    BY <1>5 DEF CreateInvoice
  <2>2. s \in Nat /\ Vat(s) \in Nat
    <3>1. s \in Nat
      BY AmountsAssumption
    <3> QED BY <3>1 DEF Vat
  <2>3. /\ \A j \in Invoices \ {i} : invoices'[j] = invoices[j]
        /\ invoices'[i].status = "DRAFT" /\ invoices'[i].subtotal = s /\ invoices'[i].vat = Vat(s)
        /\ invoices'[i].day = 0
    BY <2>1 DEF ReportsInv, BooksInv, Shape, NoInvoice
  <2>4. invoices[i].status = "none" /\ invoices[i].entry = 0 /\ invoices[i].subtotal = 0 /\ invoices[i].vat = 0
    BY <2>1 DEF NoInvoice
  <2>5. Issued' = Issued
    BY <2>3, <2>4 DEF Issued
  <2>6. Amounted'
    BY <1>2, <1>3, <2>2, <2>3, <2>4, <2>5 DEF ReportsInv, Amounted, Issued
  <2>7. EntriesBalance'
    BY <1>3 DEF ReportsInv, EntriesBalance
  <2>8. EntriesSay'
    <3>1. OnlyWrites(i)
      BY <1>3, <2>3 DEF OnlyWrites
    <3>2. ASSUME NEW e \in journal', e.doc = i PROVE Says(e)'
      <4>1. i \notin Payments /\ i \notin Bills
        BY DocumentsAssumption
      <4>2. CASE i \notin tangled
        <5>1. IdsOf(i, journal) = {invoices[i].entry} \ {0}
          BY <4>2 DEF ReportsInv, BooksInv, EntriesExplained
        <5>2. e.id \in IdsOf(i, journal)
          BY <1>3, <3>2 DEF IdsOf
        <5> QED BY <2>4, <5>1, <5>2
      <4>3. CASE i \in tangled
        BY <1>3, <3>2, <4>1, <4>3 DEF Says
      <4> QED BY <4>2, <4>3
    <3>3. \A e \in journal' \ journal : e.doc = i
      BY <1>3
    <3> QED BY <3>1, <3>2, <3>3, StillSays
  <2>9. NeverOverpaid'
    <3>1. \A j \in Invoices : Paid(j)' = Paid(j)
      BY <1>3, PaidSame
    <3>2. \A j \in Invoices \ {i} : Total(j)' = Total(j)
      BY <2>3, LinesSame
    <3>3. Total(i)' \in Nat /\ Total(i) = 0
      BY <2>2, <2>3, <2>4 DEF Total
    <3>4. Paid(i) <= 0 /\ Paid(i) \in Int
      BY <3>3, TotalInt DEF ReportsInv, NeverOverpaid
    <3> QED BY <2>3, <3>1, <3>2, <3>3, <3>4 DEF ReportsInv, NeverOverpaid
  <2>10. PaidAfterIssue'
    <3>1. ASSUME NEW p \in Payments, payments[p].invoice \in Invoices \ tangled
          PROVE  payments[p].day >= invoices'[payments[p].invoice].day
      <4>1. payments[p].invoice \in Issued
        BY <3>1, DocumentsAssumption DEF ReportsInv, Amounted, NoPayment
      <4>2. payments[p].invoice # i
        BY <2>4, <4>1 DEF Issued
      <4> QED BY <2>3, <3>1, <4>2 DEF ReportsInv, PaidAfterIssue
    <3> QED BY <1>3, <3>1 DEF PaidAfterIssue
  <2> QED BY <2>6, <2>7, <2>8, <2>9, <2>10 DEF Reported
<1> QED BY <1>4, <1>5

\* The payments of an invoice, of any table of payments.
PaymentsTo(i, all) == {q \in Payments : all[q].invoice = i}
AmountsOf(all) == [p \in Payments |-> all[p].amount]

\* What they add up to.
LEMMA PaidSum ==
  ASSUME NEW i, NEW all
  PROVE  /\ IsFiniteSet(PaymentsTo(i, all))
         /\ SumFunction([p \in {q \in Payments : all[q].invoice = i} |-> all[p].amount])
            = SumFunctionOnSet(AmountsOf(all), PaymentsTo(i, all))
<1> DEFINE P == PaymentsTo(i, all)
           f == [p \in {q \in Payments : all[q].invoice = i} |-> all[p].amount]
           g == AmountsOf(all)
<1>1. IsFiniteSet(P)
  BY AmountsAssumption, FS_Subset DEF PaymentsTo
<1>2. DOMAIN f = P /\ \A p \in P : f[p] = g[p]
  BY DEF PaymentsTo, AmountsOf
<1> HIDE DEF P, f, g
<1>3. SumFunction(f) = SumFunctionOnSet(f, P)
  BY <1>2, SumOfFunction
<1>4. SumFunctionOnSet(f, P) = SumFunctionOnSet(g, P)
  BY <1>1, <1>2, SumSame
<1> QED BY <1>1, <1>3, <1>4 DEF P, f, g

\* What a payment written or deleted changes in what is paid of an invoice.
LEMMA PaidChanges ==
  ASSUME ReportsInv, NEW p \in Payments, \A q \in Payments \ {p} : payments'[q] = payments[q],
         NEW i \in Invoices, payments'[p].amount \in Int
  PROVE  /\ payments[p].invoice # i /\ payments'[p].invoice # i => Paid(i)' = Paid(i)
         /\ payments[p].invoice # i /\ payments'[p].invoice = i => Paid(i)' = Paid(i) + payments'[p].amount
         /\ payments[p].invoice = i /\ payments'[p].invoice # i => Paid(i)' = Paid(i) - payments[p].amount
<1> DEFINE R == {q \in Payments \ {p} : payments[q].invoice = i}
           f == AmountsOf(payments)
           g == AmountsOf(payments')
           P == PaymentsTo(i, payments)
           Q == PaymentsTo(i, payments')
<1>1. Paid(i) = SumFunctionOnSet(f, P)
  BY PaidSum DEF Paid
<1>2. Paid(i)' = SumFunctionOnSet(g, Q)
  BY PaidSum DEF Paid
<1>3. IsFiniteSet(R) /\ p \notin R
  BY AmountsAssumption, FS_Subset
<1>4. /\ f[p] = payments[p].amount /\ g[p] = payments'[p].amount
      /\ \A q \in Payments : f[q] \in Int
      /\ \A q \in R : f[q] = g[q]
  BY DEF AmountsOf, ReportsInv, Amounted, NoPayment
<1>5. /\ P = IF payments[p].invoice = i THEN R \cup {p} ELSE R
      /\ Q = IF payments'[p].invoice = i THEN R \cup {p} ELSE R
      /\ R \subseteq Payments
  BY DEF PaymentsTo
<1> HIDE DEF R, f, g, P, Q
<1>6. SumFunctionOnSet(f, R) = SumFunctionOnSet(g, R) /\ SumFunctionOnSet(f, R) \in Int
  BY <1>3, <1>4, <1>5, SumSame, SumInt
<1>7. /\ SumFunctionOnSet(f, R \cup {p}) = f[p] + SumFunctionOnSet(f, R)
      /\ SumFunctionOnSet(g, R \cup {p}) = g[p] + SumFunctionOnSet(g, R)
  BY <1>3, <1>4, <1>5, SumAdded
<1>8. /\ payments[p].invoice # i => Paid(i) = SumFunctionOnSet(f, R)
      /\ payments[p].invoice = i => Paid(i) = SumFunctionOnSet(f, R \cup {p})
  BY <1>1, <1>5
<1>9. /\ payments'[p].invoice # i => Paid(i)' = SumFunctionOnSet(g, R)
      /\ payments'[p].invoice = i => Paid(i)' = SumFunctionOnSet(g, R \cup {p})
  BY <1>2, <1>5
<1> QED BY <1>4, <1>6, <1>7, <1>8, <1>9

\* Only statuses of issued invoices change: they stay issued.
StatusesChange ==
  /\ DOMAIN invoices' = Invoices /\ Issued' = Issued
  /\ \A i \in Invoices :
       /\ invoices'[i].subtotal = invoices[i].subtotal /\ invoices'[i].vat = invoices[i].vat
       /\ invoices'[i].day = invoices[i].day /\ invoices'[i].entry = invoices[i].entry
       /\ invoices'[i].status \in {"none", "DRAFT", "ISSUED", "PAID"}

\* The status after a payment leaves the rest of the invoice.
LEMMA StatusReports ==
  ASSUME ReportsInv, NEW i \in Issued, NEW isPaid,
         invoices' = [invoices EXCEPT ![i].status = StatusOf(i, isPaid)]
  PROVE  /\ StatusesChange
         /\ \A j \in Invoices \ {i} : invoices'[j] = invoices[j]
         /\ invoices'[i].status = StatusOf(i, isPaid)
<1>1. StatusOf(i, isPaid) \in {"ISSUED", "PAID"}
  BY DEF StatusOf
<1>2. i \in Invoices /\ DOMAIN invoices = Invoices /\ DOMAIN invoices[i] = DOMAIN NoInvoice
  BY DEF Issued, ReportsInv, BooksInv, Shape
<1>3. /\ DOMAIN invoices' = Invoices /\ \A j \in Invoices \ {i} : invoices'[j] = invoices[j]
      /\ invoices'[i] = [invoices[i] EXCEPT !.status = StatusOf(i, isPaid)]
  BY <1>2
<1>4. /\ invoices'[i].subtotal = invoices[i].subtotal /\ invoices'[i].vat = invoices[i].vat
      /\ invoices'[i].day = invoices[i].day /\ invoices'[i].entry = invoices[i].entry
      /\ invoices'[i].status = StatusOf(i, isPaid)
  BY <1>2, <1>3 DEF NoInvoice
<1>5. Issued' = Issued
  BY <1>1, <1>2, <1>3, <1>4 DEF Issued
<1>6. \A j \in Invoices : invoices[j].status \in {"none", "DRAFT", "ISSUED", "PAID"}
  BY DEF ReportsInv, Amounted
<1> QED BY <1>1, <1>3, <1>4, <1>5, <1>6 DEF StatusesChange

\* A payment written or deleted, with the status of its invoice.
LEMMA PaymentReports ==
  ASSUME ReportsInv, StatusesChange, NEW p \in Payments, DOMAIN payments' = Payments,
         UNCHANGED <<bills, today, job, tangled>>,
         \A q \in Payments \ {p} : payments'[q] = payments[q],
         \/ payments'[p] = NoPayment
         \/ /\ payments'[p].invoice \in Issued /\ payments'[p].amount \in Nat \ {0}
            /\ payments'[p].day \in Int /\ payments'[p].entry # 0
            /\ payments'[p].day >= invoices[payments'[p].invoice].day,
         \A e \in journal' \ journal : e.doc = p,
         \A e \in journal' : e.doc = p => Says(e)',
         EntriesBalance', NeverOverpaid'
  PROVE  Reported'
<1>1. Amounted'
  BY DEF ReportsInv, Amounted, StatusesChange
<1>2. EntriesSay'
  <2>1. OnlyWrites(p)
    BY DEF OnlyWrites, StatusesChange
  <2> QED BY <2>1, StillSays
<1>3. PaidAfterIssue'
  <2>1. ASSUME NEW q \in Payments, payments'[q].invoice \in Invoices \ tangled
        PROVE  payments'[q].day >= invoices'[payments'[q].invoice].day
    <3>1. payments'[q].day >= invoices[payments'[q].invoice].day
      BY <2>1, DocumentsAssumption DEF ReportsInv, PaidAfterIssue, NoPayment
    <3> QED BY <2>1, <3>1 DEF StatusesChange
  <2> QED BY <2>1 DEF PaidAfterIssue
<1> QED BY <1>1, <1>2, <1>3 DEF Reported

\* What a payment, or one deleted for n < 0, does to invoice i and its sums.
PaidMore(i, n) ==
  /\ StatusesChange /\ invoices'[i].status = StatusOf(i, Paid(i) + n)
  /\ Paid(i)' = Paid(i) + n
  /\ \A j \in Invoices \ {i} : invoices'[j] = invoices[j] /\ Paid(j)' = Paid(j)

\* A payment within what is due, or one taken back, leaves at most all of it paid.
LEMMA PaidInBounds ==
  ASSUME ReportsInv, NEW i \in Invoices, NEW n \in Int, -Paid(i) <= n, n <= Total(i) - Paid(i), PaidMore(i, n)
  PROVE  NeverOverpaid'
<1>1. Total(i) \in Nat /\ Paid(i) \in Nat
  BY TotalInt
<1>2. \A j \in Invoices : Total(j)' = Total(j)
  BY LinesSame DEF PaidMore, StatusesChange
<1>3. invoices'[i].status = "PAID" => Due(i, Paid(i) + n) = 0
  BY DEF PaidMore, StatusOf
<1>4. Paid(i)' <= Total(i)' /\ (invoices'[i].status = "PAID" => Paid(i)' = Total(i)')
  BY <1>1, <1>2, <1>3 DEF Due, PaidMore
<1>5. ASSUME NEW j \in Invoices \ {i}
      PROVE  Paid(j)' <= Total(j)' /\ (invoices'[j].status = "PAID" => Paid(j)' = Total(j)')
  BY <1>2 DEF PaidMore, ReportsInv, NeverOverpaid
<1> QED BY <1>4, <1>5 DEF NeverOverpaid

\* A payment is at most what is due, and settles the invoice when it is all of it.
LEMMA PayReports ==
  ASSUME ReportsInv, NEW i \in Invoices, NEW amount \in Amounts \cup {0}, NEW method \in {"CASH", "BANK"},
         NEW day \in Int, NEW time, AddInvoicePayment(i, amount, method, day, time)
  PROVE  Reported' /\ \E n \in 1..(Total(i) - Paid(i)) : i \in Issued /\ PaidMore(i, n)
<1> DEFINE due == Due(i, Paid(i))
           isPaid == IF amount = 0 THEN due ELSE amount
           cash == cashAccountFor(method)
<1>1. Total(i) \in Nat /\ Paid(i) \in Nat /\ lastId \in Nat
  BY TotalInt DEF ReportsInv, BooksInv, Shape
<1>2. due \in Nat /\ isPaid \in Nat \ {0} /\ isPaid <= due /\ due = Total(i) - Paid(i)
  <2>1. due > 0 /\ isPaid <= due
    BY DEF AddInvoicePayment
  <2>2. due \in Nat /\ due = Total(i) - Paid(i)
    BY <1>1, <2>1 DEF Due
  <2>3. amount \in Nat
    BY AmountsAssumption
  <2> QED BY <2>1, <2>2, <2>3
<1>3. i \in Issued /\ day >= invoices[i].day
  BY DEF AddInvoicePayment, DayAllowed, NotBeforeIssue
<1>4. PICK p \in Payments :
        /\ payments[p] = NoPayment
        /\ payments' = [payments EXCEPT ![p] = [invoice |-> i, amount |-> isPaid, day |-> day, time |-> time,
                                                entry |-> lastId + 1]]
        /\ journal' = journal \cup {Entry(lastId + 1, p, day, Double(cash, "1100", isPaid))}
  BY DEF AddInvoicePayment
<1>5. /\ invoices' = [invoices EXCEPT ![i].status = StatusOf(i, Paid(i) + isPaid)]
      /\ UNCHANGED <<bills, today, job, tangled>>
  BY DEF AddInvoicePayment
<1> DEFINE e1 == Entry(lastId + 1, p, day, Double(cash, "1100", isPaid))
<1>6. /\ DOMAIN payments' = Payments /\ \A q \in Payments \ {p} : payments'[q] = payments[q]
      /\ payments'[p].invoice = i /\ payments'[p].amount = isPaid /\ payments'[p].day = day
      /\ payments'[p].entry = lastId + 1 /\ payments[p].invoice = NoDoc /\ payments[p].entry = 0
  BY <1>4 DEF ReportsInv, BooksInv, Shape, NoPayment
<1>7. e1.id = lastId + 1 /\ e1.doc = p /\ e1.lines = Double(cash, "1100", isPaid)
  BY DEF Entry
<1>8. journal' = Keep({}) \cup {e1}
  BY <1>4 DEF Keep
<1>9. cash \in {"1000", "1010"} /\ cash \in Codes /\ "1100" \in Codes
  BY DEF cashAccountFor, Codes, TypeOf
<1> HIDE DEF due, isPaid, cash, e1
<1>10. EntriesBalance'
  <2>1. Balances(Double(cash, "1100", isPaid))
    BY <1>2, <1>9, DoubleBalances
  <2>2. \A e \in {e1} : /\ e.id \in Int /\ e.id > lastId /\ Balances(e.lines)
                        /\ e.doc \in Invoices \cup Payments \cup Bills \cup {NoDoc}
    BY <1>1, <1>7, <2>1
  <2>3. IsFiniteSet({e1})
    BY FS_Singleton
  <2> QED BY <1>8, <2>2, <2>3, StillBalances
<1>11. /\ StatusesChange /\ \A j \in Invoices \ {i} : invoices'[j] = invoices[j]
       /\ invoices'[i].status = StatusOf(i, Paid(i) + isPaid)
  BY <1>3, <1>5, StatusReports
<1>16. PaidMore(i, isPaid)
  <2>1. Paid(i)' = Paid(i) + isPaid
    BY <1>2, <1>6, DocumentsAssumption, PaidChanges
  <2>2. \A j \in Invoices \ {i} : Paid(j)' = Paid(j)
    BY <1>2, <1>6, DocumentsAssumption, PaidChanges
  <2> QED BY <1>11, <2>1, <2>2 DEF PaidMore
<1>12. NeverOverpaid'
  <2>1. -Paid(i) <= isPaid /\ isPaid <= Total(i) - Paid(i) /\ isPaid \in Int
    BY <1>1, <1>2
  <2> QED BY <1>16, <2>1, PaidInBounds
<1>13. ASSUME NEW e \in journal', e.doc = p PROVE Says(e)'
  <2>1. p \notin Invoices /\ p \notin Bills
    BY DocumentsAssumption
  <2>2. IdsOf(p, journal) = {}
    BY <1>6 DEF ReportsInv, BooksInv, EntriesExplained
  <2>3. e \notin journal
    BY <1>13, <2>2 DEF IdsOf
  <2>4. e = e1
    BY <1>8, <2>3 DEF Keep
  <2> QED BY <1>6, <1>7, <1>9, <2>1, <2>4 DEF Says
<1>14. \A e \in journal' \ journal : e.doc = p
  BY <1>7, <1>8 DEF Keep
<1>15. lastId + 1 # 0
  BY <1>1
<1>17. \E n \in 1..(Total(i) - Paid(i)) : i \in Issued /\ PaidMore(i, n)
  <2>1. isPaid \in 1..(Total(i) - Paid(i))
    BY <1>1, <1>2
  <2> QED BY <1>3, <1>16, <2>1
<1>18. Reported'
  BY <1>2, <1>3, <1>5, <1>6, <1>10, <1>11, <1>12, <1>13, <1>14, <1>15, PaymentReports
<1> QED BY <1>17, <1>18

\* Deleting a payment takes its one entry with it.
LEMMA UnpayReports ==
  ASSUME ReportsInv, NEW p \in Payments, DeleteInvoicePayment(p)
  PROVE  Reported' /\ \E i \in Issued, n \in Nat \ {0} : n <= Paid(i) /\ PaidMore(i, 0 - n)
<1> DEFINE amount == payments[p].amount
<1>0. PICK i \in Issued : i = payments[p].invoice
  BY DEF DeleteInvoicePayment, ReportsInv, Amounted, NoPayment
<1>1. i \in Issued /\ i \in Invoices /\ amount \in Nat \ {0}
  BY <1>0 DEF DeleteInvoicePayment, ReportsInv, Amounted, NoPayment, Issued
<1>2. /\ journal' = Keep({payments[p].entry}) \cup {}
      /\ UNCHANGED <<bills, today, job, tangled>>
      /\ DOMAIN payments' = Payments /\ \A q \in Payments \ {p} : payments'[q] = payments[q]
      /\ payments'[p] = NoPayment
  BY DEF DeleteInvoicePayment, deleteEntry, ReportsInv, BooksInv, Shape
<1>3. /\ StatusesChange /\ \A j \in Invoices \ {i} : invoices'[j] = invoices[j]
      /\ invoices'[i].status = StatusOf(i, Paid(i) - amount)
  BY <1>0, <1>1, StatusReports DEF DeleteInvoicePayment
<1>4. NoPayment.invoice = NoDoc /\ NoPayment.amount = 0
  BY DEF NoPayment
<1>5. Total(i) \in Nat /\ Paid(i) \in Nat /\ Paid(i) <= Total(i)
  BY <1>1, TotalInt DEF ReportsInv, NeverOverpaid
<1>6. /\ Paid(i)' = Paid(i) - amount
      /\ \A j \in Invoices \ {i} : Paid(j)' = Paid(j)
  <2>1. /\ payments'[p].amount \in Int /\ payments'[p].invoice = NoDoc /\ NoDoc \notin Invoices
    BY <1>2, <1>4, DocumentsAssumption
  <2>2. ASSUME NEW j \in Invoices
        PROVE  /\ payments[p].invoice # j /\ payments'[p].invoice # j => Paid(j)' = Paid(j)
               /\ payments[p].invoice = j /\ payments'[p].invoice # j => Paid(j)' = Paid(j) - payments[p].amount
    BY <1>2, <2>1, PaidChanges
  <2>3. \A j \in Invoices \ {i} : Paid(j)' = Paid(j)
    BY <1>0, <2>1, <2>2
  <2>4. Paid(i)' = Paid(i) - amount
    BY <1>0, <1>1, <2>1, <2>2
  <2> QED BY <2>3, <2>4
<1> HIDE DEF amount
<1>11. Paid(i) - amount = Paid(i) + (0 - amount) /\ 0 - amount \in Int
  BY <1>1, <1>5
<1>12. PaidMore(i, 0 - amount)
  BY <1>3, <1>6, <1>11 DEF PaidMore
<1>13. amount <= Paid(i)
  <2> DEFINE P == {q \in Payments : payments[q].invoice = i}
             g == [q \in Payments |-> payments[q].amount]
  <2>1. /\ IsFiniteSet(P) /\ Paid(i) = SumFunctionOnSet(g, P)
        /\ \A q \in Payments : g[q] \in Nat
    BY <1>1, PaidByInvoice
  <2>2. p \in P /\ g[p] = amount /\ P \subseteq Payments
    BY <1>0 DEF amount
  <2> HIDE DEF P, g
  <2>3. \A q \in P : g[q] \in Int /\ g[q] >= 0
    BY <2>1, <2>2
  <2>4. SumFunctionOnSet(g, P) = g[p] + SumFunctionOnSet(g, P \ {p})
    BY <2>1, <2>2, <2>3, SumElement
  <2>5. IsFiniteSet(P \ {p}) /\ \A q \in P \ {p} : g[q] \in Int /\ g[q] >= 0
    BY <2>1, <2>3, FS_Subset
  <2>6. SumFunctionOnSet(g, P \ {p}) \in Int /\ SumFunctionOnSet(g, P \ {p}) >= 0
    BY <2>5, SumAtLeast0
  <2> QED BY <1>1, <2>1, <2>2, <2>4, <2>6
<1>7. NeverOverpaid'
  <2>1. -Paid(i) <= 0 - amount /\ 0 - amount <= Total(i) - Paid(i)
    BY <1>1, <1>5, <1>13
  <2> QED BY <1>1, <1>11, <1>12, <2>1, PaidInBounds
<1>8. EntriesBalance'
  BY <1>2, FS_EmptySet, StillBalances
<1>9. ASSUME NEW e \in journal', e.doc = p PROVE FALSE
  <2>1. e \in journal /\ e.id # payments[p].entry
    BY <1>2 DEF Keep
  <2>2. e.id \in IdsOf(p, journal)
    BY <1>9, <2>1 DEF IdsOf
  <2> QED BY <2>1, <2>2 DEF ReportsInv, BooksInv, EntriesExplained
<1>10. \A e \in journal' \ journal : e.doc = p
  BY <1>2 DEF Keep
<1>14. Reported'
  BY <1>2, <1>3, <1>7, <1>8, <1>9, <1>10, PaymentReports
<1> QED BY <1>1, <1>12, <1>13, <1>14

\* A bill and its entries written or deleted.
LEMMA BillReports ==
  ASSUME ReportsInv, NEW b \in Bills, DOMAIN bills' = Bills, UNCHANGED <<invoices, payments, today>>,
         \A c \in Bills \ {b} : bills'[c] = bills[c],
         bills'[b] = NoBill \/ BillOk(bills'[b]),
         \A q \in Requests : job'[q] = job[q] \/ job'[q] = Idle,
         tangled \subseteq tangled',
         \A e \in journal' \ journal : e.doc = b,
         \A e \in journal' : e.doc = b => Says(e)',
         EntriesBalance'
  PROVE  Reported'
<1>1. Amounted'
  <2>1. \A c \in Bills : bills'[c] = NoBill \/ BillOk(bills'[c])
    BY DEF ReportsInv, Amounted
  <2>2. \A q \in Requests : job'[q].at = "update" => job'[q].amount \in Nat /\ BillOk(job'[q].read)
    BY DEF Idle, ReportsInv, Amounted
  <2> QED BY <2>1, <2>2 DEF ReportsInv, Amounted, Issued
<1>2. EntriesSay'
  <2>1. OnlyWrites(b)
    BY DEF OnlyWrites
  <2> QED BY <2>1, StillSays
<1>3. NeverOverpaid'
  <2>1. \A i \in Invoices : Paid(i)' = Paid(i) /\ Total(i)' = Total(i)
    BY PaidSame, LinesSame
  <2> QED BY <2>1 DEF ReportsInv, NeverOverpaid
<1>4. PaidAfterIssue'
  BY DEF ReportsInv, PaidAfterIssue
<1> QED BY <1>1, <1>2, <1>3, <1>4 DEF Reported

\* The two entries of a bill balance.
LEMMA BillEntries ==
  ASSUME NEW id, NEW b, NEW amount \in Int, NEW day
  PROVE  /\ LET e == postBillEntry(id, b, amount, day)
            IN  e.id = id /\ e.doc = b /\ e.lines = Double("5100", "2000", amount) /\ Balances(e.lines)
         /\ LET e == postPaymentEntry(id, b, amount, day)
            IN  e.id = id /\ e.doc = b /\ e.lines = Double("2000", "1000", amount) /\ Balances(e.lines)
<1>1. "5100" \in Codes /\ "2000" \in Codes /\ "1000" \in Codes
  BY DEF Codes, TypeOf
<1>2. Balances(Double("5100", "2000", amount)) /\ Balances(Double("2000", "1000", amount))
  BY <1>1, DoubleBalances
<1> QED BY <1>2 DEF postBillEntry, postPaymentEntry, Entry

\* A new bill has no entry but its own.
LEMMA NewBillReports ==
  ASSUME ReportsInv, NEW b \in Bills, NEW amount \in Amounts, NEW day, NEW isPaid \in BOOLEAN,
         CreateBill(b, amount, day, isPaid)
  PROVE  Reported'
<1> DEFINE e1 == postBillEntry(lastId + 1, b, amount, day)
           e2 == postPaymentEntry(lastId + 2, b, amount, day)
           settled == IF isPaid THEN {e2} ELSE {}
           new == {e1} \cup settled
<1>1. lastId \in Nat /\ amount \in Nat
  BY AmountsAssumption DEF ReportsInv, BooksInv, Shape
<1>2. /\ journal' = Keep({}) \cup new
      /\ DOMAIN bills' = Bills /\ \A c \in Bills \ {b} : bills'[c] = bills[c]
      /\ bills[b] = NoBill
      /\ UNCHANGED <<invoices, payments, today, job, tangled>>
  BY DEF CreateBill, Keep, ReportsInv, BooksInv, Shape
<1>3. /\ bills'[b].status = (IF isPaid THEN "PAID" ELSE "UNPAID") /\ bills'[b].amount = amount
      /\ bills'[b].entry = lastId + 1 /\ bills'[b].payment = (IF isPaid THEN lastId + 2 ELSE 0)
  BY DEF CreateBill, ReportsInv, BooksInv, Shape
<1>4. /\ e1.id = lastId + 1 /\ e1.doc = b /\ e1.lines = Double("5100", "2000", amount) /\ Balances(e1.lines)
      /\ e2.id = lastId + 2 /\ e2.doc = b /\ e2.lines = Double("2000", "1000", amount) /\ Balances(e2.lines)
  BY <1>1, BillEntries
<1> HIDE DEF e1, e2
<1>5. EntriesBalance'
  <2>1. IsFiniteSet(new)
    BY FS_Singleton, FS_EmptySet, FS_Union
  <2>2. \A e, f \in new : e.id = f.id => e = f
    BY <1>1, <1>4
  <2>3. \A e \in new : /\ e.id \in Int /\ e.id > lastId /\ Balances(e.lines)
                       /\ e.doc \in Invoices \cup Payments \cup Bills \cup {NoDoc}
    BY <1>1, <1>4
  <2> QED BY <1>2, <2>1, <2>2, <2>3, StillBalances
<1>6. BillOk(bills'[b])
  BY <1>1, <1>3 DEF BillOk
<1>7. ASSUME NEW e \in journal', e.doc = b PROVE Says(e)'
  <2>1. b \notin Invoices /\ b \notin Payments
    BY DocumentsAssumption
  <2>2. CASE e \in new
    <3>1. BillLines(b, e)'
      BY <1>1, <1>3, <1>4, <2>2 DEF BillLines
    <3> QED BY <1>7, <2>1, <3>1 DEF Says
  <2>3. CASE e \notin new /\ b \notin tangled
    <3>1. e.id \in IdsOf(b, journal)
      BY <1>2, <1>7, <2>3 DEF IdsOf, Keep
    <3> QED BY <1>2, <2>3, <3>1 DEF ReportsInv, BooksInv, EntriesExplained, NoBill
  <2>4. CASE b \in tangled
    BY <1>2, <1>7, <2>1, <2>4 DEF Says
  <2> QED BY <2>2, <2>3, <2>4
<1>8. \A e \in journal' \ journal : e.doc = b
  BY <1>2, <1>4 DEF Keep
<1> QED BY <1>2, <1>5, <1>6, <1>7, <1>8, BillReports

\* An ended request has read nothing.
LEMMA EndedJobs ==
  ASSUME ReportsInv, NEW r \in Requests, End(r) PROVE \A q \in Requests : job'[q] = job[q] \/ job'[q] = Idle
BY DEF End, ReportsInv, BooksInv, Shape

\* A bill that changed meanwhile is tangled; one that did not takes its entries with it.
LEMMA GoneReports ==
  ASSUME ReportsInv, NEW r \in Requests, DeleteBill(r), bills[job[r].doc] # NoBill PROVE Reported'
<1> DEFINE b == job[r].doc
           dropped == {job[r].read.entry, job[r].read.payment}
<1>1. b \in Bills
  BY DEF ReportsInv, BooksInv, JobsHaveDocuments, DeleteBill, At
<1>2. /\ journal' = Keep(dropped) \cup {} /\ DOMAIN bills' = Bills /\ bills'[b] = NoBill
      /\ \A c \in Bills \ {b} : bills'[c] = bills[c]
      /\ UNCHANGED <<invoices, payments, today>>
      /\ tangled \subseteq tangled' /\ (bills[b] # job[r].read => b \in tangled')
  BY <1>1 DEF DeleteBill, deleteEntry, Tangle, ReportsInv, BooksInv, Shape
<1>3. \A q \in Requests : job'[q] = job[q] \/ job'[q] = Idle
  BY EndedJobs DEF DeleteBill
<1>4. EntriesBalance'
  BY <1>2, FS_EmptySet, StillBalances
<1>5. ASSUME NEW e \in journal', e.doc = b PROVE Says(e)'
  <2>1. b \notin Invoices /\ b \notin Payments
    BY <1>1, DocumentsAssumption
  <2>2. CASE b \in tangled'
    BY <1>5, <2>1, <2>2 DEF Says
  <2>3. CASE b \notin tangled'
    <3>1. bills[b] = job[r].read /\ b \notin tangled
      BY <1>2, <2>3
    <3>2. e \in journal /\ e.id \notin dropped
      BY <1>2 DEF Keep
    <3>3. e.id \in IdsOf(b, journal)
      BY <1>5, <3>2 DEF IdsOf
    <3> QED BY <1>1, <3>1, <3>2, <3>3 DEF ReportsInv, BooksInv, EntriesExplained
  <2> QED BY <2>2, <2>3
<1>6. \A e \in journal' \ journal : e.doc = b
  BY <1>2 DEF Keep
<1> HIDE DEF b, dropped
<1> QED BY <1>1, <1>2, <1>3, <1>4, <1>5, <1>6, BillReports

\* An entry that is kept says what the bill still says.
LEMMA BillChangeReports ==
  ASSUME ReportsInv, NEW r \in Requests, NEW renamed, NEW on, UpdateBill(r, renamed, on), bills[job[r].doc] # NoBill
  PROVE  Reported'
<1> DEFINE b == job[r].doc
           old == job[r].read
           amount == job[r].amount
           isPaid == job[r].paid
           paidDay == IF ~isPaid THEN 0 ELSE IF on # 0 THEN on ELSE IF old.paid # 0 THEN old.paid ELSE today
           changed == renamed \/ amount # old.amount \/ job[r].day # old.day
           settle  == ~isPaid \/ changed \/ old.payment = 0 \/ (old.paid # 0 /\ paidDay # old.paid)
           billId  == IF changed THEN lastId + 1 ELSE old.entry
           payId   == IF ~settle THEN old.payment ELSE IF ~isPaid THEN 0 ELSE lastId + (IF changed THEN 2 ELSE 1)
           dropped == (IF changed THEN {old.entry} ELSE {}) \cup (IF settle THEN {old.payment} ELSE {})
           e1      == postBillEntry(billId, b, amount, job[r].day)
           e2      == postPaymentEntry(payId, b, amount, paidDay)
           new     == (IF changed THEN {e1} ELSE {}) \cup (IF settle /\ isPaid THEN {e2} ELSE {})
<1>1. /\ journal' = Keep(dropped) \cup new
      /\ bills' = [bills EXCEPT ![b] = [status |-> IF isPaid THEN "PAID" ELSE "UNPAID", amount |-> amount,
                     day |-> job[r].day, paid |-> paidDay, entry |-> billId, payment |-> payId]]
      /\ tangled' = IF bills[b] # old THEN tangled \cup {b} ELSE tangled
      /\ End(r) /\ UNCHANGED <<invoices, payments, today>>
  BY DEF UpdateBill, Tangle, deleteEntry
<1>2. /\ changed => settle
      /\ ~settle => isPaid /\ old.payment # 0
      /\ ~changed => amount = old.amount
  OBVIOUS
<1>3. /\ b \in Bills /\ lastId \in Nat /\ amount \in Nat /\ BillOk(old)
      /\ old.entry \in 0..lastId /\ old.payment \in 0..lastId
  BY DEF ReportsInv, BooksInv, Shape, ReadEntries, JobsHaveDocuments, UpdateBill, At, Amounted, OwnsBoth, Owns
<1>4. /\ DOMAIN bills' = Bills /\ \A c \in Bills \ {b} : bills'[c] = bills[c]
      /\ bills'[b].status = (IF isPaid THEN "PAID" ELSE "UNPAID") /\ bills'[b].amount = amount
      /\ bills'[b].entry = billId /\ bills'[b].payment = payId
  BY <1>1, <1>3 DEF ReportsInv, BooksInv, Shape
<1>5. /\ e1.id = billId /\ e1.doc = b /\ e1.lines = Double("5100", "2000", amount) /\ Balances(e1.lines)
      /\ e2.id = payId /\ e2.doc = b /\ e2.lines = Double("2000", "1000", amount) /\ Balances(e2.lines)
  <2>1. amount \in Int
    BY <1>3
  <2> HIDE DEF billId, payId, paidDay, amount, b
  <2>2. e1.id = billId /\ e1.doc = b /\ e1.lines = Double("5100", "2000", amount) /\ Balances(e1.lines)
    BY ONLY <2>1, BillEntries
  <2>3. e2.id = payId /\ e2.doc = b /\ e2.lines = Double("2000", "1000", amount) /\ Balances(e2.lines)
    BY ONLY <2>1, BillEntries
  <2> QED BY <2>2, <2>3
<1>6. \A q \in Requests : job'[q] = job[q] \/ job'[q] = Idle
  BY <1>1, EndedJobs
<1> HIDE DEF e1, e2, changed, settle, paidDay
\* An id is new exactly when its entry is.
<1>7. /\ changed => billId = lastId + 1
      /\ ~changed => billId = old.entry
      /\ settle /\ isPaid => payId \in {lastId + 1, lastId + 2} /\ payId # billId
      /\ settle /\ ~isPaid => payId = 0
      /\ ~settle => payId = old.payment /\ isPaid
      /\ changed /\ settle /\ isPaid => payId = lastId + 2
  BY <1>2, <1>3
<1>8. /\ \A e \in new : (e = e1 /\ changed) \/ (e = e2 /\ settle /\ isPaid)
      /\ IsFiniteSet(new)
  <2>1. IsFiniteSet({e1}) /\ IsFiniteSet({e2}) /\ IsFiniteSet({})
    BY FS_Singleton, FS_EmptySet
  <2>2. new \subseteq {e1} \cup {e2}
    OBVIOUS
  <2>3. IsFiniteSet({e1} \cup {e2})
    BY <2>1, FS_Union
  <2>4. IsFiniteSet(new)
    BY <2>2, <2>3, FS_Subset
  <2> QED BY <2>4
<1> HIDE DEF billId, payId, dropped, new
<1>9. EntriesBalance'
  <2>1. \A e, f \in new : e.id = f.id => e = f
    BY <1>5, <1>7, <1>8
  <2>2. \A e \in new : /\ e.id \in Int /\ e.id > lastId /\ Balances(e.lines)
                       /\ e.doc \in Invoices \cup Payments \cup Bills \cup {NoDoc}
    BY <1>3, <1>5, <1>7, <1>8
  <2> QED BY <1>1, <1>8, <2>1, <2>2, StillBalances
<1>10. BillOk(bills'[b])
  <2>1. billId # 0 /\ (payId # 0 <=> isPaid)
    BY <1>2, <1>3, <1>7 DEF BillOk
  <2> QED BY <1>3, <1>4, <2>1 DEF BillOk
<1>11. ASSUME NEW e \in journal', e.doc = b PROVE Says(e)'
  <2>1. b \notin Invoices /\ b \notin Payments
    BY <1>3, DocumentsAssumption
  <2>2. CASE b \in tangled'
    BY <1>11, <2>1, <2>2 DEF Says
  <2>3. CASE b \notin tangled'
    <3>1. bills[b] = old /\ b \notin tangled
      BY <1>1, <2>3
    <3>2. /\ e.id = billId => e.lines = Double("5100", "2000", amount)
          /\ e.id = payId => e.lines = Double("2000", "1000", amount)
      <4>1. CASE e \in new
        BY <1>3, <1>5, <1>7, <1>8, <4>1
      <4>2. CASE e \notin new
        <5>1. e \in journal /\ e.id \in 1..lastId
          BY <1>1, <4>2 DEF Keep, ReportsInv, BooksInv, Shape
        <5>2. BillLines(b, e)
          BY <1>3, <1>11, <3>1, <5>1 DEF ReportsInv, EntriesSay
        <5>3. /\ e.id = old.entry => e.lines = Double("5100", "2000", old.amount)
              /\ e.id = old.payment => e.lines = Double("2000", "1000", old.amount)
          BY <3>1, <5>2 DEF BillLines
        <5>4. e.id = billId => ~changed /\ billId = old.entry
          BY <1>3, <1>7, <5>1
        <5>5. e.id = payId => ~settle /\ ~changed /\ payId = old.payment
          BY <1>2, <1>3, <1>7, <5>1
        <5> QED BY <1>2, <5>3, <5>4, <5>5
      <4> QED BY <4>1, <4>2
    <3>3. BillLines(e.doc, e)'
      BY <1>4, <1>11, <3>2 DEF BillLines
    <3> QED BY <1>11, <2>1, <3>3 DEF Says
  <2> QED BY <2>2, <2>3
<1>12. \A e \in journal' \ journal : e.doc = b
  BY <1>1, <1>5, <1>8 DEF Keep
<1>13. tangled \subseteq tangled'
  BY <1>1
<1> HIDE DEF b
<1> QED BY <1>1, <1>3, <1>4, <1>6, <1>9, <1>10, <1>11, <1>12, <1>13, BillReports

\* Empty books.
LEMMA NothingPaid == Init => \A i \in Invoices : Paid(i) = 0
<1> SUFFICES ASSUME Init, NEW i \in Invoices PROVE Paid(i) = 0
  OBVIOUS
<1>1. PaymentsTo(i, payments) = {}
  BY DocumentsAssumption DEF Init, PaymentsTo, NoPayment
<1>2. Paid(i) = SumFunctionOnSet(AmountsOf(payments), PaymentsTo(i, payments))
  BY PaidSum DEF Paid
<1>3. Paid(i) = SumFunctionOnSet(AmountsOf(payments), {})
  BY <1>1, <1>2
<1> QED BY <1>3, SumEmpty

\* The invariant holds of them.
LEMMA InitReports == Init => Reported
<1> SUFFICES ASSUME Init PROVE Reported
  OBVIOUS
<1>1. Amounted
  BY DEF Init, Amounted, NoInvoice, Idle, Issued
<1>2. EntriesBalance /\ EntriesSay
  BY FS_EmptySet DEF Init, EntriesBalance, EntriesSay
<1>3. NeverOverpaid
  <2>1. \A i \in Invoices : Paid(i) = 0 /\ Total(i) = 0
    BY NothingPaid DEF Init, Total, NoInvoice
  <2> QED BY <2>1 DEF NeverOverpaid
<1>4. PaidAfterIssue
  BY DocumentsAssumption DEF Init, PaidAfterIssue, NoPayment
<1> QED BY <1>1, <1>2, <1>3, <1>4 DEF Reported

\* A request that has read a bill.
LEMMA ReadReports ==
  ASSUME ReportsInv, NEW r \in Requests, NEW j, Start(r, j),
         UNCHANGED <<invoices, payments, bills, journal, tangled, today>>,
         j.at = "update" => j.amount \in Nat /\ BillOk(j.read)
  PROVE  Reported'
<1>1. \A q \in Requests : job'[q] = job[q] \/ job'[q] = j
  BY DEF Start, ReportsInv, BooksInv, Shape
<1>2. \A q \in Requests : job'[q].at = "update" => job'[q].amount \in Nat /\ BillOk(job'[q].read)
  BY <1>1 DEF ReportsInv, Amounted
<1> QED BY <1>2, OnlyRead DEF ReportsInv, Amounted

\* Every step.
LEMMA NextReports == ASSUME ReportsInv, [Next]_vars PROVE Reported'
<1>1. ASSUME NEW r \in Requests,
             \/ NextInvoiceNumber(r)
             \/ \E i \in Invoices : ReadDraft(r, i)
             \/ \E b \in Bills : ReadBill(r, b, [Idle EXCEPT !.at = "delete"])
      PROVE  Reported'
  <2>1. CASE NextInvoiceNumber(r)
    BY <2>1, ReadReports DEF NextInvoiceNumber, Idle
  <2>2. ASSUME NEW i \in Invoices, ReadDraft(r, i) PROVE Reported'
    BY <2>2, ReadReports DEF ReadDraft, Idle
  <2>3. ASSUME NEW b \in Bills, ReadBill(r, b, [Idle EXCEPT !.at = "delete"]) PROVE Reported'
    BY <2>3, ReadReports DEF ReadBill, Idle
  <2> QED BY <1>1, <2>1, <2>2, <2>3
<1>2. ASSUME NEW r \in Requests, NEW b \in Bills, NEW amount \in Amounts, NEW isPaid \in BOOLEAN, NEW day,
             ReadBill(r, b, [Idle EXCEPT !.at = "update", !.amount = amount, !.paid = isPaid, !.day = day])
      PROVE  Reported'
  <2> DEFINE j == [[Idle EXCEPT !.at = "update", !.amount = amount, !.paid = isPaid, !.day = day]
                    EXCEPT !.doc = b, !.read = bills[b]]
  <2>1. Start(r, j) /\ UNCHANGED <<invoices, payments, bills, journal, tangled, today>> /\ BillOk(bills[b])
    BY <1>2 DEF ReadBill, ReportsInv, Amounted
  <2>2. j.amount = amount /\ j.read = bills[b] /\ amount \in Nat
    BY AmountsAssumption DEF Idle
  <2> HIDE DEF j
  <2> QED BY <2>1, <2>2, ReadReports
<1>3. ASSUME NEW r \in Requests, End(r), UNCHANGED <<invoices, payments, bills, journal, tangled, today>>
      PROVE  Reported'
  <2>1. \A q \in Requests : job'[q] = job[q] \/ job'[q] = Idle
    BY <1>3, EndedJobs
  <2>2. \A q \in Requests : job'[q].at = "update" => job'[q].amount \in Nat /\ BillOk(job'[q].read)
    BY <2>1 DEF Idle, ReportsInv, Amounted
  <2> QED BY <1>3, <2>2, OnlyRead DEF ReportsInv, Amounted
<1>4. ASSUME NEW r \in Requests, DeleteBill(r) PROVE Reported'
  <2>1. CASE bills[job[r].doc] = NoBill
    BY <1>3, <1>4, <2>1 DEF DeleteBill
  <2> QED BY <1>4, <2>1, GoneReports
<1>5. ASSUME NEW r \in Requests, NEW renamed \in BOOLEAN, NEW on \in {0, today}, UpdateBill(r, renamed, on)
      PROVE  Reported'
  <2>1. CASE bills[job[r].doc] = NoBill
    BY <1>3, <1>5, <2>1 DEF UpdateBill
  <2> QED BY <1>5, <2>1, BillChangeReports
<1>6. ASSUME NEW i \in Invoices, NEW amount \in Amounts \cup {0}, NEW method \in {"CASH", "BANK"},
             NEW day \in 1..today, NEW time \in {0, 1}, AddInvoicePayment(i, amount, method, day, time)
      PROVE  Reported'
  BY <1>6, PayReports DEF ReportsInv, Amounted
<1>7. ASSUME UNCHANGED <<invoices, payments, bills, journal, tangled, job>>, today' \in Int PROVE Reported'
  BY <1>7, OnlyRead DEF ReportsInv, Amounted
<1>8. CASE SetVatNumber \/ SeedDefaults \/ Tomorrow \/ \E a \in Manual : CreateAccount(a)
  <2>1. today \in Int
    BY DEF ReportsInv, Amounted
  <2>2. today' \in Int
    <3>1. today' = today \/ today' = today + 1
      BY <1>8 DEF SetVatNumber, SeedDefaults, Tomorrow, CreateAccount
    <3> QED BY <2>1, <3>1
  <2>3. UNCHANGED <<invoices, payments, bills, journal, tangled, job>>
    BY <1>8 DEF SetVatNumber, SeedDefaults, Tomorrow, CreateAccount
  <2> QED BY <1>7, <2>2, <2>3
<1>9. CASE UNCHANGED vars
  BY <1>7, <1>9 DEF vars, ReportsInv, Amounted
<1> QED BY <1>1, <1>2, <1>4, <1>5, <1>6, <1>8, <1>9, IssueReports, CreateReports, UnpayReports, NewBillReports,
           EntryReports DEF Next

-----------------------------------------------------------------------------
\* A function that changed at one place.
LEMMA OnlyThere ==
  ASSUME NEW S, NEW f, NEW g, NEW i \in S, f = [x \in S |-> f[x]], g = [x \in S |-> g[x]],
         \A x \in S \ {i} : g[x] = f[x]
  PROVE  Owing!Only(i, f, g)
<1>1. [f EXCEPT ![i] = g[i]] = [x \in S |-> g[x]]
  OBVIOUS
<1> QED BY <1>1 DEF Owing!Only

\* What the promise speaks of stays.
LEMMA OwingSame ==
  ASSUME ReportsInv, UNCHANGED payments, Issued' = Issued,
         \A i \in Invoices : i \in Issued => Total(i)' = Total(i),
         settledNow' = settledNow
  PROVE  UNCHANGED Owing!vars
<1>1. billedNow' = billedNow
  BY DEF billedNow
<1>2. receivedNow' = receivedNow
  <2>1. \A i \in Invoices : Paid(i)' = Paid(i)
    BY PaidSame
  <2> QED BY <2>1 DEF receivedNow
<1> QED BY <1>1, <1>2 DEF Owing!vars

\* An invoice is billed by its first issue, and only opened again by another.
LEMMA OwingIssue == ASSUME ReportsInv, NEW r \in Requests, IssueInvoice(r) PROVE Owing!Next \/ UNCHANGED Owing!vars
<1>1. PICK i \in Invoices : i = job[r].doc
  BY DEF ReportsInv, BooksInv, JobsHaveDocuments, IssueInvoice, At
<1>2. /\ DOMAIN invoices' = Invoices /\ \A j \in Invoices \ {i} : invoices'[j] = invoices[j]
      /\ invoices'[i].status = "ISSUED"
      /\ invoices'[i].subtotal = invoices[i].subtotal /\ invoices'[i].vat = invoices[i].vat
      /\ UNCHANGED payments
  BY <1>1 DEF IssueInvoice, ReportsInv, BooksInv, Shape, NoInvoice
<1>3. \A j \in Invoices : Total(j)' = Total(j) /\ Total(j) \in Nat /\ Paid(j)' = Paid(j)
  BY <1>2, LinesSame, PaidSame, TotalInt
<1>4. Issued' = Issued \cup {i} /\ settledNow' = settledNow \ {i}
  BY <1>2 DEF Issued, settledNow
<1>5. receivedNow' = receivedNow
  BY <1>3 DEF receivedNow
<1>6. CASE i \in Issued /\ i \notin settledNow
  <2>1. Issued' = Issued /\ settledNow' = settledNow
    BY <1>4, <1>6
  <2> QED BY <1>2, <1>3, <2>1, OwingSame
<1>7. CASE i \in Issued /\ i \in settledNow
  <2>1. billedNow' = billedNow
    BY <1>3, <1>4, <1>7 DEF billedNow
  <2>2. Owing!Reopen(i)
    BY <1>4, <1>5, <1>7, <2>1 DEF Owing!Reopen
  <2> QED BY <2>2 DEF Owing!Next
<1>8. CASE i \notin Issued
  <2>1. billedNow[i] = Owing!NotBilled /\ billedNow'[i] \in Nat
    BY <1>3, <1>4, <1>8 DEF billedNow, Owing!NotBilled
  <2>2. \A j \in Invoices \ {i} : billedNow'[j] = billedNow[j]
    BY <1>3, <1>4 DEF billedNow
  <2>3. billedNow = [j \in Invoices |-> billedNow[j]] /\ billedNow' = [j \in Invoices |-> billedNow'[j]]
    BY DEF billedNow
  <2>4. Owing!Only(i, billedNow, billedNow')
    BY <2>2, <2>3, OnlyThere
  <2>5. settledNow' = settledNow
    BY <1>4, <1>8 DEF settledNow, Issued
  <2>6. Owing!Bill(i)
    BY <1>5, <2>1, <2>4, <2>5 DEF Owing!Bill
  <2> QED BY <2>6 DEF Owing!Next
<1> QED BY <1>6, <1>7, <1>8

\* A payment more or less, in the promise's terms.
LEMMA OwingPaid ==
  ASSUME ReportsInv, NEW i \in Issued, NEW n \in Int, -Paid(i) <= n, n <= Total(i) - Paid(i), PaidMore(i, n)
  PROVE  /\ UNCHANGED billedNow /\ Owing!Only(i, receivedNow, receivedNow')
         /\ receivedNow[i] = Paid(i) /\ receivedNow'[i] = Paid(i) + n /\ billedNow[i] = Total(i)
         /\ settledNow' = IF Paid(i) + n = Total(i) THEN settledNow \cup {i} ELSE settledNow \ {i}
<1>1. i \in Invoices /\ Total(i) \in Nat /\ Paid(i) \in Nat
  BY TotalInt DEF Issued
<1>2. \A j \in Invoices : Total(j)' = Total(j)
  BY LinesSame DEF PaidMore, StatusesChange
<1>3. UNCHANGED billedNow /\ billedNow[i] = Total(i)
  BY <1>1, <1>2 DEF billedNow, PaidMore, StatusesChange
<1>4. receivedNow[i] = Paid(i) /\ receivedNow'[i] = Paid(i) + n
  BY <1>1 DEF receivedNow, PaidMore
<1>5. \A j \in Invoices \ {i} : receivedNow'[j] = receivedNow[j]
  BY DEF receivedNow, PaidMore
<1>6. receivedNow = [j \in Invoices |-> receivedNow[j]] /\ receivedNow' = [j \in Invoices |-> receivedNow'[j]]
  BY DEF receivedNow
<1>7. Owing!Only(i, receivedNow, receivedNow')
  BY <1>1, <1>5, <1>6, OnlyThere
<1>8. invoices'[i].status = "PAID" <=> Paid(i) + n = Total(i)
  <2>1. Due(i, Paid(i) + n) = 0 <=> Paid(i) + n = Total(i)
    BY <1>1 DEF Due
  <2> QED BY <2>1 DEF PaidMore, StatusOf
<1>9. settledNow' = IF Paid(i) + n = Total(i) THEN settledNow \cup {i} ELSE settledNow \ {i}
  BY <1>1, <1>8 DEF settledNow, PaidMore
<1> QED BY <1>3, <1>4, <1>7, <1>9

\* Every step keeps the promise.
LEMMA OwingStep == ASSUME ReportsInv, [Next]_vars PROVE Owing!Next \/ UNCHANGED Owing!vars
<1>1. ASSUME UNCHANGED <<invoices, payments>> PROVE UNCHANGED Owing!vars
  <2>1. \A i \in Invoices : Total(i)' = Total(i)
    BY <1>1, LinesSame
  <2>2. Issued' = Issued /\ settledNow' = settledNow
    BY <1>1 DEF Issued, settledNow
  <2> QED BY <1>1, <2>1, <2>2, OwingSame
<1>2. ASSUME NEW r \in Requests, CreateInvoice(r) PROVE UNCHANGED Owing!vars
  <2>1. CASE UNCHANGED invoices
    BY <1>1, <1>2, <2>1 DEF CreateInvoice
  <2>2. CASE ~UNCHANGED invoices
    <3>1. PICK i \in Invoices, s \in Subtotals :
            /\ invoices[i] = NoInvoice
            /\ invoices' = [invoices EXCEPT ![i] = [NoInvoice EXCEPT
                              !.status = "DRAFT", !.number = job[r].number, !.subtotal = s, !.vat = Vat(s)]]
      BY <1>2, <2>2 DEF CreateInvoice
    <3>2. /\ \A j \in Invoices \ {i} : invoices'[j] = invoices[j]
          /\ invoices'[i].status = "DRAFT" /\ invoices[i].status = "none"
      BY <3>1 DEF ReportsInv, BooksInv, Shape, NoInvoice
    <3>3. Issued' = Issued /\ settledNow' = settledNow /\ i \notin Issued
      BY <3>2 DEF Issued, settledNow
    <3>4. \A j \in Invoices : j \in Issued => Total(j)' = Total(j)
      BY <3>2, <3>3, LinesSame
    <3> QED BY <1>2, <3>3, <3>4, OwingSame DEF CreateInvoice
  <2> QED BY <2>1, <2>2
<1>3. ASSUME NEW i \in Invoices, NEW amount \in Amounts \cup {0}, NEW method \in {"CASH", "BANK"},
             NEW day \in 1..today, NEW time \in {0, 1}, AddInvoicePayment(i, amount, method, day, time)
      PROVE  Owing!Next
  <2>1. day \in Int
    BY DEF ReportsInv, Amounted
  <2>2. PICK n \in 1..(Total(i) - Paid(i)) : i \in Issued /\ PaidMore(i, n)
    BY <1>3, <2>1, PayReports
  <2>3. Total(i) \in Nat /\ Paid(i) \in Nat
    BY TotalInt
  <2>4. n \in Int /\ -Paid(i) <= n /\ n <= Total(i) - Paid(i) /\ n > 0
    BY <2>2, <2>3
  <2>5. /\ UNCHANGED billedNow /\ Owing!Only(i, receivedNow, receivedNow')
        /\ receivedNow[i] = Paid(i) /\ receivedNow'[i] = Paid(i) + n /\ billedNow[i] = Total(i)
        /\ settledNow' = IF Paid(i) + n = Total(i) THEN settledNow \cup {i} ELSE settledNow \ {i}
    BY <2>2, <2>4, OwingPaid
  <2>6. Owing!Collect(i)
    BY <2>3, <2>4, <2>5 DEF Owing!Collect, Owing!NotBilled
  <2> QED BY <2>6 DEF Owing!Next
<1>4. ASSUME NEW p \in Payments, DeleteInvoicePayment(p) PROVE Owing!Next
  <2>1. PICK i \in Issued, n \in Nat \ {0} : n <= Paid(i) /\ PaidMore(i, 0 - n)
    BY <1>4, UnpayReports
  <2>2. i \in Invoices /\ Total(i) \in Nat /\ Paid(i) \in Nat /\ Paid(i) <= Total(i)
    BY TotalInt DEF Issued, ReportsInv, NeverOverpaid
  <2>3. 0 - n \in Int /\ -Paid(i) <= 0 - n /\ 0 - n <= Total(i) - Paid(i) /\ Paid(i) + (0 - n) # Total(i)
    BY <2>1, <2>2
  <2>4. /\ UNCHANGED billedNow /\ Owing!Only(i, receivedNow, receivedNow')
        /\ receivedNow[i] = Paid(i) /\ receivedNow'[i] = Paid(i) + (0 - n)
        /\ settledNow' = settledNow \ {i}
    BY <2>1, <2>3, OwingPaid
  <2>5. Owing!GiveBack(i)
    BY <2>1, <2>2, <2>4 DEF Owing!GiveBack
  <2> QED BY <2>2, <2>5 DEF Owing!Next
<1>5. CASE UNCHANGED vars
  BY <1>1, <1>5 DEF vars
<1>6. ASSUME NEW r \in Requests,
             \/ NextInvoiceNumber(r) \/ DeleteBill(r) \/ \E i \in Invoices : ReadDraft(r, i)
             \/ \E renamed \in BOOLEAN, on \in {0, today} : UpdateBill(r, renamed, on)
             \/ \E b \in Bills : \E change : ReadBill(r, b, change)
      PROVE  UNCHANGED Owing!vars
  <2>1. UNCHANGED <<invoices, payments>>
    BY <1>6 DEF NextInvoiceNumber, DeleteBill, ReadDraft, UpdateBill, ReadBill
  <2> QED BY <1>1, <2>1
<1>7. CASE \/ \E b \in Bills, amount \in Amounts, isPaid \in BOOLEAN, day \in 1..today : CreateBill(b, amount, day, isPaid)
           \/ \E d, c \in Manual, x, y \in Amounts : CreateJournalEntry(d, c, x, y)
           \/ \E a \in Manual : CreateAccount(a)
           \/ SetVatNumber \/ SeedDefaults \/ Tomorrow
  <2>1. UNCHANGED <<invoices, payments>>
    BY <1>7 DEF CreateBill, CreateJournalEntry, CreateAccount, SetVatNumber, SeedDefaults, Tomorrow
  <2> QED BY <1>1, <2>1
<1> QED BY <1>2, <1>3, <1>4, <1>5, <1>6, <1>7, OwingIssue DEF Next

\* Nothing is billed at first.
LEMMA OwingInit == Init => Owing!Init
<1> SUFFICES ASSUME Init PROVE Owing!Init
  OBVIOUS
<1>1. \A i \in Invoices : Paid(i) = 0
  BY NothingPaid
<1>2. Issued = {} /\ settledNow = {}
  BY DEF Init, Issued, settledNow, NoInvoice
<1> QED BY <1>1, <1>2 DEF Owing!Init, Owing!NotBilled, billedNow, receivedNow

\* The amounts of the documents are what they should be, the lines of an entry
\* balance and are its document's, no invoice is paid beyond its total and
\* none before its issue (issueInvoice, addInvoicePayment, postBillEntry):
\* the inductive invariant behind the reports.
THEOREM ReportsInvHolds == Spec => []ReportsInv
<1>1. Init => ReportsInv
  BY InitBooks, InitReports DEF ReportsInv, Reported
<1>2. ReportsInv /\ [Next]_vars => ReportsInv'
  <2> SUFFICES ASSUME ReportsInv, [Next]_vars PROVE ReportsInv'
    OBVIOUS
  <2>1. BooksInv'
    BY NextBooks DEF ReportsInv
  <2>2. Reported'
    BY NextReports
  <2> QED BY <2>1, <2>2 DEF ReportsInv, Reported
<1> QED BY <1>1, <1>2, PTL DEF Spec

\* The balance sheet balances, receivables, VAT, expenses and payables are
\* what the documents say as long as no two requests wrote over each other,
\* and no customer's statement shows more paid than was billed by then
\* (getTrialBalance, getBalanceSheet, getVatReport, the receivables and the
\* statement, against issueInvoice, the payments' and the bills' handlers).
THEOREM ReportsHoldAlways == Spec => []ReportsHold
BY InvGivesReports, ReportsInvHolds, PTL

\* Every step of the books is one of Receivables or changes nothing in it:
\* issueInvoice bills an invoice once, addInvoicePayment collects no more than
\* is owed, deleteInvoicePayment gives back what was collected, and nothing
\* else touches what a customer owes.
THEOREM KeepsReceivablesHolds == Spec => KeepsReceivables
<1>1. Init => Owing!Init
  BY OwingInit
<1>2. ReportsInv /\ [Next]_vars => [Owing!Next]_Owing!vars
  BY OwingStep
<1> QED BY <1>1, <1>2, ReportsInvHolds, PTL DEF Spec, KeepsReceivables, Owing!Spec
-----------------------------------------------------------------------------
(* Loyalty cards.                                                          *)
\* Gifts, and the uses of a tool, are counted as sets are.
LEMMA CardsCount == \A S : Cards!Cardinality(S) = Cardinality(S)
BY DEF Cards!Cardinality, Cardinality
LEMMA StudioCount == \A S : AI!Cardinality(S) = Cardinality(S)
BY DEF AI!Cardinality, Cardinality

GiftMarks == {"AVAILABLE", "REDEEMED"}
LogEntry == [stamps : Nat, adjusted : Int, earned : Nat, redeemed : Nat]
CardCopy  == [made : BOOLEAN, balance : Nat, gifts : Nat]

-----------------------------------------------------------------------------
\* Gifts are counted one by one.
LEMMA CardsWaiting ==
  ASSUME NEW list \in Seq(GiftMarks)
  PROVE  /\ Cards!Waiting(list) \subseteq 1..Len(list) /\ IsFiniteSet(Cards!Waiting(list)) /\ Cardinality(Cards!Waiting(list)) \in Nat
         /\ Len(list) \in Nat
<1>1. Cards!Waiting(list) \subseteq 1..Len(list) /\ Len(list) \in Nat
  BY DEF Cards!Waiting
<1>2. IsFiniteSet(1..Len(list))
  BY <1>1, FS_Interval
<1>3. QED BY <1>1, <1>2, FS_Subset, FS_CardinalityType

\* Some gifts more wait at the end of the list.
LEMMA CardsEarned ==
  ASSUME NEW list \in Seq(GiftMarks), NEW n \in Nat
  PROVE  LET new == list \o [k \in 1..n |-> "AVAILABLE"] IN
         new \in Seq(GiftMarks) /\ Cardinality(Cards!Waiting(new)) = Cardinality(Cards!Waiting(list)) + n
<1> DEFINE tail == [k \in 1..n |-> "AVAILABLE"]
           new  == list \o tail
<1>1. tail \in Seq(GiftMarks) /\ Len(tail) = n /\ \A k \in 1..n : tail[k] = "AVAILABLE"
  BY DEF GiftMarks
<1> HIDE DEF tail
<1>2. new \in Seq(GiftMarks) /\ Len(new) = Len(list) + n
  BY <1>1
<1>3. \A k \in 1..Len(list) : new[k] = list[k]
  BY <1>1
<1>4. \A k \in (Len(list) + 1)..(Len(list) + n) : new[k] = "AVAILABLE"
  <2>1. TAKE k \in (Len(list) + 1)..(Len(list) + n)
  <2>2. k - Len(list) \in 1..n
    BY CardsWaiting
  <2>3. new[k] = tail[k - Len(list)]
    BY <1>1, CardsWaiting
  <2>4. QED BY <1>1, <2>2, <2>3
<1> HIDE DEF new
<1>5. Cards!Waiting(new) = Cards!Waiting(list) \cup ((Len(list) + 1)..(Len(list) + n))
  <2>1. DOMAIN new = 1..(Len(list) + n) /\ DOMAIN list = 1..Len(list) /\ Len(list) \in Nat
    BY <1>2, CardsWaiting
  <2>2. QED BY <1>3, <1>4, <2>1 DEF Cards!Waiting
<1>6. /\ IsFiniteSet((Len(list) + 1)..(Len(list) + n)) /\ Cardinality((Len(list) + 1)..(Len(list) + n)) = n
      /\ Cards!Waiting(list) \cap ((Len(list) + 1)..(Len(list) + n)) = {}
  <2>1. Len(list) + 1 \in Int /\ Len(list) + n \in Int /\ Len(list) \in Nat /\ Cards!Waiting(list) \subseteq 1..Len(list)
    BY CardsWaiting
  <2>2. Cardinality((Len(list) + 1)..(Len(list) + n)) = IF Len(list) + 1 > Len(list) + n THEN 0 ELSE (Len(list) + n) - (Len(list) + 1) + 1
    BY <2>1, FS_Interval
  <2>3. Cardinality((Len(list) + 1)..(Len(list) + n)) = n
    BY <2>1, <2>2
  <2>4. QED BY <2>1, <2>3, FS_Interval
<1>7. Cardinality(Cards!Waiting(new)) = Cardinality(Cards!Waiting(list)) + n
  <2>1. Cardinality({}) = 0
    BY FS_EmptySet
  <2>2. PICK A, B : A = Cards!Waiting(list) /\ B = (Len(list) + 1)..(Len(list) + n)
    OBVIOUS
  <2>3. IsFiniteSet(A) /\ IsFiniteSet(B) /\ A \cap B = {} /\ Cards!Waiting(new) = A \cup B /\ Cardinality(A) \in Nat /\ Cardinality(B) = n
    BY <1>5, <1>6, <2>2, CardsWaiting
  <2>4. Cardinality(A \cup B) = Cardinality(A) + Cardinality(B) - Cardinality(A \cap B)
    BY <2>3, FS_Union
  <2>5. Cardinality(A \cap B) = 0
    BY <2>1, <2>3, Zenon
  <2>6. Cardinality(Cards!Waiting(new)) = Cardinality(A \cup B)
    BY <2>3, Zenon
  <2>7. QED BY <2>2, <2>3, <2>4, <2>5, <2>6
<1>8. QED BY <1>2, <1>7 DEF new, tail

\* Of some numbers one is the least.
LEMMA CardsLeast == ASSUME NEW T, T \subseteq Nat, T # {} PROVE \E x \in T : \A y \in T : x <= y
<1> DEFINE less == OpToRel(<, Nat)
<1>1. IsWellFoundedOn(less, Nat)
  BY NatLessThanWellFounded
<1>2. \A x, y \in Nat : y < x => <<y, x>> \in less
  BY DEF OpToRel
<1> HIDE DEF less
<1>3. \E x \in T : \A y \in T : ~(<<y, x>> \in less)
  BY <1>1, WFMin
<1>4. \E x \in T : \A y \in T : ~(y < x)
  BY <1>2, <1>3
<1>5. QED BY <1>4

\* The oldest gift is one that waits, and once handed over it does not.
LEMMA CardsOldest ==
  ASSUME NEW m, member[m].rewards \in Seq(GiftMarks), Cards!Gifts(m) > 0
  PROVE  Cards!Oldest(m) \in Cards!Waiting(member[m].rewards)
<1>1. PICK list \in Seq(GiftMarks) : list = member[m].rewards
  OBVIOUS
<1>2. Cards!Waiting(list) \subseteq Nat
  BY CardsWaiting
<1>3. Cards!Waiting(list) # {}
  <2>1. Cardinality(Cards!Waiting(list)) > 0 /\ Cardinality({}) = 0
    BY <1>1, FS_EmptySet, CardsCount DEF Cards!Gifts
  <2>2. SUFFICES ASSUME Cards!Waiting(list) = {} PROVE FALSE
    OBVIOUS
  <2>3. Cardinality(Cards!Waiting(list)) = 0
    BY <2>1, <2>2, Zenon
  <2>4. QED BY <2>1, <2>3
<1>4. \E k \in Cards!Waiting(list) : \A j \in Cards!Waiting(list) : k <= j
  BY <1>2, <1>3, CardsLeast
<1>5. QED BY <1>1, <1>4 DEF Cards!Oldest
LEMMA CardsRedeemed ==
  ASSUME NEW list \in Seq(GiftMarks), NEW k \in Cards!Waiting(list)
  PROVE  LET new == [list EXCEPT ![k] = "REDEEMED"] IN
         new \in Seq(GiftMarks) /\ Cardinality(Cards!Waiting(new)) = Cardinality(Cards!Waiting(list)) - 1
<1> DEFINE new == [list EXCEPT ![k] = "REDEEMED"]
<1>1. k \in 1..Len(list) /\ "REDEEMED" \in GiftMarks
  BY CardsWaiting DEF GiftMarks
<1>2. new \in Seq(GiftMarks)
  BY <1>1, ExceptSeq
<1>3. Cards!Waiting(new) = Cards!Waiting(list) \ {k}
  BY <1>1 DEF Cards!Waiting
<1>4. Cardinality(Cards!Waiting(list) \ {k}) = Cardinality(Cards!Waiting(list)) - 1
  BY CardsWaiting, FS_RemoveElement
<1>5. QED BY <1>2, <1>3, <1>4

\* Stamps and gifts are worth what was stamped.
LEMMA CardsStamped ==
  ASSUME NEW b \in Nat, NEW t \in Nat \ {0}
  PROVE  LET c == Cards!computeStamp(b, t) IN
         c.balance \in Nat /\ c.rewards \in Nat /\ c.rewards * t \in Nat /\ c.balance + c.rewards * t = b + 1
<1>1. PICK a \in Nat : a = b + 1
  OBVIOUS
<1>2. PICK q \in Int, x \in Int : q = a \div t /\ x = a % t
  OBVIOUS
<1>3. a = t * q + x /\ x >= 0 /\ x < t
  BY <1>2
<1>4. q >= 0
  <2>1. SUFFICES ASSUME q <= -1 PROVE FALSE
    BY <1>2
  <2>2. t * q <= t * (-1)
    BY <2>1
  <2>3. QED BY <1>3, <2>2
<1>5. q * t \in Nat /\ q * t = t * q
  BY <1>4
<1>6. Cards!computeStamp(b, t).balance = x /\ Cards!computeStamp(b, t).rewards = q
  BY <1>1, <1>2 DEF Cards!computeStamp
<1>7. QED BY <1>1, <1>3, <1>4, <1>5, <1>6

-----------------------------------------------------------------------------
\* A changed member is a member, a changed request a request, and the others
\* are as they were.
LEMMA CardsMember ==
  ASSUME Cards!TypeOK, NEW m \in Members, NEW k \in Cards!Member, member' = [member EXCEPT ![m] = k]
  PROVE  member' \in [Members -> Cards!Member] /\ member'[m] = k /\ \A n \in Members \ {m} : member'[n] = member[n]
BY DEF Cards!TypeOK
LEMMA CardsJob ==
  ASSUME Cards!TypeOK, \A r \in Calls : Cards!JobInv(counter[r]), NEW r \in Calls, NEW j \in Cards!Job, Cards!JobInv(j), counter' = [counter EXCEPT ![r] = j]
  PROVE  counter' \in [Calls -> Cards!Job] /\ \A q \in Calls : Cards!JobInv(counter'[q])
<1>1. counter' \in [Calls -> Cards!Job] /\ counter'[r] = j /\ \A q \in Calls \ {r} : counter'[q] = counter[q]
  BY DEF Cards!TypeOK
<1>2. QED BY <1>1
LEMMA CardsIdle == Cards!Idle \in Cards!Job /\ Cards!JobInv(Cards!Idle) /\ Cards!Idle.at = "idle"
BY DEF Cards!Idle, Cards!Job, Cards!JobInv
LEMMA CardsEnd ==
  ASSUME Cards!TypeOK, \A r \in Calls : Cards!JobInv(counter[r]), NEW r \in Calls, Cards!End(r)
  PROVE  counter' \in [Calls -> Cards!Job] /\ (\A q \in Calls : Cards!JobInv(counter'[q])) /\ changes' = changes
BY CardsIdle, CardsJob DEF Cards!End

-----------------------------------------------------------------------------
\* While nobody's balance and gifts move, the log and the cards stay right.
LEMMA CardsStill ==
  ASSUME Cards!WalletInv, UNCHANGED <<log, spent, card, syncs, overtaken, doubtful>>,
         \A m \in Members : member'[m].balance = member[m].balance /\ member'[m].rewards = member[m].rewards,
         Cards!TypeOK', \A r \in Calls : Cards!JobInv(counter'[r])
  PROVE  Cards!WalletInv'
<1>1. \A m \in Members : Cards!Gifts(m)' = Cards!Gifts(m) /\ Cards!Syncing(m)' = Cards!Syncing(m)
  BY DEF Cards!Gifts, Cards!Syncing
<1>2. Cards!LogExplainsCard'
  BY <1>1 DEF Cards!WalletInv, Cards!LogExplainsCard
<1>3. Cards!CardShowsMember'
  BY <1>1 DEF Cards!WalletInv, Cards!CardShowsMember
<1>4. ASSUME NEW m \in Members \ doubtful' PROVE Cards!SyncInv(m)'
  <2>1. Cards!SyncInv(m)
    BY <1>4 DEF Cards!WalletInv
  <2>2. ASSUME NEW s \in Cards!Syncing(m), Cards!UpToDate(s) PROVE Cards!UpToDate(s)'
    BY <1>1, <2>2 DEF Cards!UpToDate, Cards!Syncing
  <2>3. QED BY <1>1, <2>1, <2>2 DEF Cards!SyncInv
<1>5. QED BY <1>2, <1>3, <1>4 DEF Cards!WalletInv

\* What is put in the background after a change of one member.
LEMMA CardsQueued ==
  ASSUME Cards!TypeOK, NEW m \in Members, Cards!queuePassSync(m)
  PROVE  /\ \E s : /\ syncs' = syncs \cup {s} /\ s \in Cards!Sync(s.id) /\ s.m = m /\ s.at = "read"
         /\ doubtful' = IF Cards!Syncing(m) = {} THEN doubtful \ {m} ELSE doubtful \cup {m}
<1>1. PICK id : id = Cards!FreeId
  OBVIOUS
<1>2. PICK s : s = [id |-> id, m |-> m, at |-> "read", balance |-> 0, gifts |-> 0]
  OBVIOUS
<1>3. s \in Cards!Sync(s.id) /\ s.m = m /\ s.at = "read"
  BY <1>2 DEF Cards!Sync
<1>4. QED BY <1>1, <1>2, <1>3 DEF Cards!queuePassSync
LEMMA CardsFollow ==
  ASSUME Cards!WalletInv, NEW m \in Members, Cards!queuePassSync(m), card' = card, \A n \in Members \ {m} : member'[n] = member[n]
  PROVE  /\ Cards!CardShowsMember' /\ (\A n \in Members \ doubtful' : Cards!SyncInv(n)')
         /\ (\A s \in syncs' : s \in Cards!Sync(s.id)) /\ doubtful' \subseteq Members
<1>1. Cards!TypeOK /\ Cards!CardShowsMember /\ \A n \in Members \ doubtful : Cards!SyncInv(n)
  BY DEF Cards!WalletInv
<1>2. PICK s : /\ syncs' = syncs \cup {s} /\ s \in Cards!Sync(s.id) /\ s.m = m /\ s.at = "read"
               /\ doubtful' = IF Cards!Syncing(m) = {} THEN doubtful \ {m} ELSE doubtful \cup {m}
  BY <1>1, CardsQueued
<1>3. /\ \A n \in Members \ {m} : Cards!Gifts(n)' = Cards!Gifts(n) /\ Cards!Syncing(n)' = Cards!Syncing(n)
      /\ Cards!Syncing(m)' = Cards!Syncing(m) \cup {s} /\ \A n \in Members \ {m} : n \in doubtful' <=> n \in doubtful
  BY <1>2 DEF Cards!Gifts, Cards!Syncing
<1>4. Cards!CardShowsMember'
  BY <1>1, <1>3 DEF Cards!CardShowsMember
<1>5. ASSUME NEW n \in Members \ doubtful' PROVE Cards!SyncInv(n)'
  <2>1. CASE n # m
    <3>1. Cards!SyncInv(n)
      BY <1>1, <1>3, <2>1
    <3>2. ASSUME NEW u \in Cards!Syncing(n), Cards!UpToDate(u) PROVE Cards!UpToDate(u)'
      BY <1>3, <2>1, <3>2 DEF Cards!UpToDate, Cards!Syncing
    <3>3. QED BY <1>3, <2>1, <3>1, <3>2 DEF Cards!SyncInv
  <2>2. CASE n = m
    <3>1. Cards!Syncing(m)' = {s}
      BY <1>2, <1>3, <2>2
    <3>2. Cards!UpToDate(s)'
      BY <1>2 DEF Cards!UpToDate
    <3>3. QED BY <2>2, <3>1, <3>2 DEF Cards!SyncInv
  <2>3. QED BY <2>1, <2>2
<1>6. QED BY <1>1, <1>2, <1>4, <1>5 DEF Cards!TypeOK

\* Every log is right that was, apart from the member's it is about.
LEMMA CardsLogged ==
  ASSUME Cards!WalletInv, NEW m \in Members,
         \A n \in Members \ {m} : member'[n] = member[n] /\ log'[n] = log[n] /\ spent'[n] = spent[n] /\ (n \in overtaken => n \in overtaken'),
         m \notin overtaken' =>
           /\ member'[m].balance + spent'[m] = log'[m].stamps + log'[m].adjusted
           /\ log'[m].earned - log'[m].redeemed = Cards!Gifts(m)'
  PROVE  Cards!LogExplainsCard'
<1>1. \A n \in Members \ {m} : Cards!Gifts(n)' = Cards!Gifts(n)
  BY DEF Cards!Gifts
<1>2. QED BY <1>1 DEF Cards!WalletInv, Cards!LogExplainsCard

-----------------------------------------------------------------------------
\* Requests that only read, and the settings.
LEMMA CardsReads ==
  ASSUME Cards!WalletInv, NEW r \in Calls, NEW m \in Members,
         \/ Cards!ScanToStamp(r, m)
         \/ \E d \in Deltas : Cards!ReadToAdjust(r, m, d)
         \/ \E phone \in Cards!Phones : Cards!CheckJoin(r, phone)
  PROVE  Cards!WalletInv'
<1>1. Cards!TypeOK /\ \A q \in Calls : Cards!JobInv(counter[q])
  BY DEF Cards!WalletInv
<1>2. UNCHANGED <<settings, member, log, spent, card, syncs, overtaken, doubtful>> /\ changes' = changes + 1
  BY DEF Cards!ScanToStamp, Cards!ReadToAdjust, Cards!CheckJoin, Cards!Start
<1>3. member[m].balance \in Nat /\ settings.stampCount \in Targets
  BY <1>1 DEF Cards!TypeOK, Cards!Member
<1>4. PICK j \in Cards!Job : Cards!JobInv(j) /\ counter' = [counter EXCEPT ![r] = j]
  <2>1. CASE Cards!ScanToStamp(r, m)
    <3>1. PICK j \in Cards!Job : j = [Cards!Idle EXCEPT !.at = "stamp", !.m = m, !.target = settings.stampCount, !.balance = member[m].balance] /\ Cards!JobInv(j)
      <4>1. PICK b \in Nat, t \in Targets : b = member[m].balance /\ t = settings.stampCount
        BY <1>3
      <4>2. LET j == [Cards!Idle EXCEPT !.at = "stamp", !.m = m, !.target = t, !.balance = b] IN j \in Cards!Job /\ Cards!JobInv(j)
        <5>1. PICK idle \in Cards!Job : idle = Cards!Idle
          BY CardsIdle
        <5>2. PICK j \in Cards!Job : j = [idle EXCEPT !.at = "stamp", !.m = m, !.target = t, !.balance = b]
          BY TargetsAssumption DEF Cards!Job
        <5>3. j.at = "stamp" /\ j.m = m /\ j.target = t
          BY <5>2 DEF Cards!Job
        <5>4. QED BY <5>1, <5>2, <5>3 DEF Cards!JobInv
      <4>3. QED BY <4>1, <4>2
    <3>2. QED BY <2>1, <3>1 DEF Cards!ScanToStamp, Cards!Start
  <2>2. CASE \E d \in Deltas : Cards!ReadToAdjust(r, m, d)
    <3>1. PICK d \in Deltas : Cards!ReadToAdjust(r, m, d)
      BY <2>2
    <3>2. PICK j \in Cards!Job : j = [Cards!Idle EXCEPT !.at = "adjust", !.m = m, !.delta = d, !.balance = member[m].balance] /\ Cards!JobInv(j)
      <4>1. PICK b \in Nat : b = member[m].balance
        BY <1>3
      <4>2. LET j == [Cards!Idle EXCEPT !.at = "adjust", !.m = m, !.delta = d, !.balance = b] IN j \in Cards!Job /\ Cards!JobInv(j)
        <5>1. PICK idle \in Cards!Job : idle = Cards!Idle
          BY CardsIdle
        <5>2. PICK j \in Cards!Job : j = [idle EXCEPT !.at = "adjust", !.m = m, !.delta = d, !.balance = b]
          BY DEF Cards!Job
        <5>3. j.at = "adjust" /\ j.m = m
          BY <5>2 DEF Cards!Job
        <5>4. QED BY <5>1, <5>2, <5>3 DEF Cards!JobInv
      <4>3. QED BY <4>1, <4>2
    <3>3. QED BY <3>1, <3>2 DEF Cards!ReadToAdjust, Cards!Start
  <2>3. CASE \E phone \in Cards!Phones : Cards!CheckJoin(r, phone)
    <3>1. PICK phone \in Cards!Phones : Cards!CheckJoin(r, phone)
      BY <2>3
    <3>2. PICK j \in Cards!Job : j = [Cards!Idle EXCEPT !.at = "join", !.phone = phone] /\ Cards!JobInv(j)
      <4>1. PICK idle \in Cards!Job : idle = Cards!Idle
        BY CardsIdle
      <4>2. PICK j \in Cards!Job : j = [idle EXCEPT !.at = "join", !.phone = phone]
        BY DEF Cards!Job
      <4>3. j.at = "join" /\ j.phone = phone
        BY <4>2 DEF Cards!Job
      <4>4. QED BY <4>1, <4>2, <4>3 DEF Cards!JobInv
    <3>3. QED BY <3>1, <3>2 DEF Cards!CheckJoin, Cards!Start
  <2>4. QED BY <2>1, <2>2, <2>3
<1>5. counter' \in [Calls -> Cards!Job] /\ \A q \in Calls : Cards!JobInv(counter'[q])
  BY <1>1, <1>4, CardsJob
<1>6. Cards!TypeOK'
  BY <1>1, <1>2, <1>5 DEF Cards!TypeOK
<1>7. QED BY <1>2, <1>5, <1>6, CardsStill
LEMMA CardsSettings ==
  ASSUME Cards!WalletInv, NEW engine \in {"stamp", "points"}, NEW target \in Targets, Cards!updateWalletSettings(engine, target)
  PROVE  Cards!WalletInv'
<1>1. settings' \in [engine : {"stamp", "points"}, stampCount : Targets] /\ changes' = changes + 1
  BY DEF Cards!updateWalletSettings
<1>2. UNCHANGED <<member, log, spent, card, syncs, counter, overtaken, doubtful>>
  BY DEF Cards!updateWalletSettings
<1>3. Cards!TypeOK' /\ \A q \in Calls : Cards!JobInv(counter'[q])
  BY <1>1, <1>2 DEF Cards!TypeOK, Cards!WalletInv
<1>4. QED BY <1>2, <1>3, CardsStill

\* A member joins by himself or is entered by the staff.
LEMMA CardsNew ==
  ASSUME Cards!TypeOK, NEW m \in Members, NEW phone \in Cards!Phones, Cards!NewMember(m, phone)
  PROVE  /\ member' \in [Members -> Cards!Member]
         /\ \A n \in Members : member'[n].balance = member[n].balance /\ member'[n].rewards = member[n].rewards
<1>1. PICK k \in Cards!Member : k = member[m]
  BY DEF Cards!TypeOK
<1>2. PICK n \in Cards!Member : n = [k EXCEPT !.phone = phone] /\ n.balance = k.balance /\ n.rewards = k.rewards
  <2>1. PICK n \in Cards!Member : n = [k EXCEPT !.phone = phone]
    BY DEF Cards!Member
  <2>2. n.balance = k.balance /\ n.rewards = k.rewards
    BY <2>1 DEF Cards!Member
  <2>3. QED BY <2>1, <2>2
<1>3. member' = [member EXCEPT ![m] = n]
  BY <1>1, <1>2 DEF Cards!NewMember
<1>4. QED BY <1>1, <1>2, <1>3, CardsMember
LEMMA CardsJoins ==
  ASSUME Cards!WalletInv, (\E r \in Calls : Cards!Join(r)) \/ (\E m \in Members, phone \in Cards!Phones : Cards!CreateCustomer(m, phone))
  PROVE  Cards!WalletInv'
<1>1. Cards!TypeOK /\ \A q \in Calls : Cards!JobInv(counter[q])
  BY DEF Cards!WalletInv
<1>2. ASSUME NEW m \in Members, NEW phone \in Cards!Phones, Cards!CreateCustomer(m, phone) PROVE Cards!WalletInv'
  <2>1. UNCHANGED <<settings, log, spent, card, syncs, counter, overtaken, doubtful>> /\ changes' = changes + 1 /\ Cards!NewMember(m, phone)
    BY <1>2 DEF Cards!CreateCustomer
  <2>2. /\ member' \in [Members -> Cards!Member]
        /\ \A n \in Members : member'[n].balance = member[n].balance /\ member'[n].rewards = member[n].rewards
    BY <1>1, <2>1, CardsNew
  <2>3. Cards!TypeOK' /\ \A q \in Calls : Cards!JobInv(counter'[q])
    BY <1>1, <2>1, <2>2 DEF Cards!TypeOK
  <2>4. QED BY <2>1, <2>2, <2>3, CardsStill
<1>3. ASSUME NEW r \in Calls, Cards!Join(r) PROVE Cards!WalletInv'
  <2>1. UNCHANGED <<settings, log, spent, card, syncs, overtaken, doubtful>> /\ Cards!At(r, "join")
    BY <1>3 DEF Cards!Join
  <2>2. counter[r].phone \in Cards!Phones
    BY <1>1, <2>1 DEF Cards!JobInv, Cards!At
  <2>3. CASE Cards!Taken(counter[r].phone)
    <3>1. Cards!End(r) /\ UNCHANGED member
      BY <1>3, <2>3 DEF Cards!Join
    <3>2. counter' \in [Calls -> Cards!Job] /\ (\A q \in Calls : Cards!JobInv(counter'[q])) /\ changes' = changes
      BY <1>1, <3>1, CardsEnd
    <3>3. Cards!TypeOK'
      BY <1>1, <2>1, <3>1, <3>2 DEF Cards!TypeOK
    <3>4. QED BY <2>1, <3>1, <3>2, <3>3, CardsStill
  <2>4. CASE ~Cards!Taken(counter[r].phone)
    <3>1. PICK m \in Members : /\ Cards!NewMember(m, counter[r].phone)
                               /\ counter' = [counter EXCEPT ![r] = [Cards!Idle EXCEPT !.at = "link", !.m = m]] /\ UNCHANGED changes
      BY <1>3, <2>4 DEF Cards!Join
    <3>2. /\ member' \in [Members -> Cards!Member]
          /\ \A n \in Members : member'[n].balance = member[n].balance /\ member'[n].rewards = member[n].rewards
      BY <1>1, <2>2, <3>1, CardsNew
    <3>3. PICK j \in Cards!Job : j = [Cards!Idle EXCEPT !.at = "link", !.m = m] /\ Cards!JobInv(j)
      <4>1. PICK idle \in Cards!Job : idle = Cards!Idle
        BY CardsIdle
      <4>2. PICK j \in Cards!Job : j = [idle EXCEPT !.at = "link", !.m = m]
        BY DEF Cards!Job
      <4>3. j.at = "link" /\ j.m = m
        BY <4>2 DEF Cards!Job
      <4>4. QED BY <4>1, <4>2, <4>3 DEF Cards!JobInv
    <3>4. counter' \in [Calls -> Cards!Job] /\ \A q \in Calls : Cards!JobInv(counter'[q])
      BY <1>1, <3>1, <3>3, CardsJob
    <3>5. Cards!TypeOK'
      BY <1>1, <2>1, <3>1, <3>2, <3>4 DEF Cards!TypeOK
    <3>6. QED BY <2>1, <3>2, <3>4, <3>5, CardsStill
  <2>5. QED BY <2>3, <2>4
<1>4. QED BY <1>2, <1>3

\* A card is made of the row as it was created: it is right if the row and the
\* updates stand still, and doubtful otherwise.
LEMMA CardsMade ==
  ASSUME Cards!WalletInv, NEW r \in Calls, Cards!createGooglePassLink(r)
  PROVE  Cards!WalletInv'
<1>1. Cards!TypeOK /\ Cards!CardShowsMember /\ (\A q \in Calls : Cards!JobInv(counter[q])) /\ \A n \in Members \ doubtful : Cards!SyncInv(n)
  BY DEF Cards!WalletInv
<1>2. PICK m : m = counter[r].m
  OBVIOUS
<1>3. Cards!End(r) /\ UNCHANGED <<settings, member, log, spent, syncs, overtaken>> /\ Cards!At(r, "link")
  BY DEF Cards!createGooglePassLink
<1>4. m \in Members
  BY <1>1, <1>2, <1>3 DEF Cards!JobInv, Cards!At
<1>5. counter' \in [Calls -> Cards!Job] /\ (\A q \in Calls : Cards!JobInv(counter'[q])) /\ changes' = changes
  BY <1>1, <1>3, CardsEnd
<1>6. \A n \in Members : Cards!Gifts(n)' = Cards!Gifts(n) /\ Cards!Syncing(n)' = Cards!Syncing(n) /\ Cards!Gifts(n) \in Nat
  <2>1. \A n \in Members : Cards!Gifts(n) \in Nat
    BY <1>1, CardsWaiting, CardsCount DEF Cards!Gifts, Cards!TypeOK, Cards!Member, GiftMarks
  <2>2. QED BY <1>3, <2>1 DEF Cards!Gifts, Cards!Syncing
<1>7. CASE UNCHANGED <<card, doubtful>>
  <2>1. Cards!TypeOK'
    BY <1>1, <1>3, <1>5, <1>7 DEF Cards!TypeOK
  <2>2. QED BY <1>3, <1>5, <1>7, <2>1, CardsStill
<1>8. CASE /\ card' = [card EXCEPT ![m] = [made |-> TRUE, balance |-> 0, gifts |-> Cards!Gifts(m)]]
           /\ doubtful' = IF member[m].balance = 0 /\ Cards!Syncing(m) = {} THEN doubtful ELSE doubtful \cup {m}
  <2>1. PICK c \in CardCopy : c = [made |-> TRUE, balance |-> 0, gifts |-> Cards!Gifts(m)] /\ c.balance = 0 /\ c.gifts = Cards!Gifts(m)
    <3>1. PICK c : c = [made |-> TRUE, balance |-> 0, gifts |-> Cards!Gifts(m)]
      OBVIOUS
    <3>2. c \in CardCopy /\ c.balance = 0 /\ c.gifts = Cards!Gifts(m)
      BY <1>4, <1>6, <3>1 DEF CardCopy
    <3>3. QED BY <3>1, <3>2
  <2>2. card' \in [Members -> CardCopy] /\ card'[m] = c /\ \A n \in Members \ {m} : card'[n] = card[n]
    BY <1>1, <1>4, <1>8, <2>1 DEF Cards!TypeOK, CardCopy
  <2>3. Cards!TypeOK'
    <3>1. doubtful' \subseteq Members
      BY <1>1, <1>4, <1>8 DEF Cards!TypeOK
    <3>2. QED BY <1>1, <1>3, <1>5, <2>2, <3>1 DEF Cards!TypeOK, CardCopy
  <2>4. \A n \in Members : n \in doubtful => n \in doubtful'
    BY <1>8
  <2>5. Cards!CardShowsMember'
    <3>1. ASSUME NEW n \in Members, card'[n].made, Cards!Syncing(n)' = {}, n \notin doubtful'
          PROVE  card'[n].balance = member'[n].balance /\ card'[n].gifts = Cards!Gifts(n)'
      <4>1. CASE n = m
        BY <1>3, <1>6, <1>8, <2>1, <2>2, <3>1, <4>1
      <4>2. CASE n # m
        BY <1>1, <1>3, <1>6, <2>2, <2>4, <3>1, <4>2 DEF Cards!CardShowsMember
      <4>3. QED BY <4>1, <4>2
    <3>2. QED BY <3>1 DEF Cards!CardShowsMember
  <2>6. ASSUME NEW n \in Members \ doubtful' PROVE Cards!SyncInv(n)'
    <3>1. Cards!SyncInv(n)
      BY <1>1, <2>4
    <3>2. ASSUME NEW u \in Cards!Syncing(n), Cards!UpToDate(u) PROVE Cards!UpToDate(u)'
      BY <1>3, <1>6, <3>2 DEF Cards!UpToDate, Cards!Syncing
    <3>3. QED BY <1>6, <3>1, <3>2 DEF Cards!SyncInv
  <2>7. Cards!LogExplainsCard'
    BY <1>3, <1>6 DEF Cards!WalletInv, Cards!LogExplainsCard
  <2>8. QED BY <1>5, <2>3, <2>5, <2>6, <2>7 DEF Cards!WalletInv
<1>9. QED BY <1>2, <1>7, <1>8 DEF Cards!createGooglePassLink

-----------------------------------------------------------------------------
\* A stamp, and the gifts it completes.
LEMMA CardsStamp ==
  ASSUME Cards!WalletInv, NEW r \in Calls, Cards!addStampByCode(r)
  PROVE  Cards!WalletInv'
<1>1. Cards!TypeOK /\ Cards!LogExplainsCard /\ \A q \in Calls : Cards!JobInv(counter[q])
  BY DEF Cards!WalletInv
<1>2. PICK m, t : m = counter[r].m /\ t = counter[r].target
  OBVIOUS
<1>3. Cards!At(r, "stamp") /\ Cards!End(r) /\ Cards!queuePassSync(m) /\ UNCHANGED <<settings, card, overtaken>>
  BY <1>2 DEF Cards!addStampByCode
<1>4. m \in Members /\ t \in Nat \ {0}
  BY <1>1, <1>2, <1>3, TargetsAssumption DEF Cards!JobInv, Cards!At
<1>5. PICK k \in Cards!Member, b \in Nat, list \in Seq(GiftMarks) : k = member[m] /\ b = k.balance /\ list = k.rewards
  BY <1>1, <1>4 DEF Cards!TypeOK, Cards!Member, GiftMarks
<1>6. PICK bal \in Nat, n \in Nat : bal = Cards!computeStamp(b, t).balance /\ n = Cards!computeStamp(b, t).rewards /\ n * t \in Nat /\ bal + n * t = b + 1
  BY <1>4, CardsStamped
<1>7. PICK new \in Seq(GiftMarks) : new = list \o [x \in 1..n |-> "AVAILABLE"] /\ Cardinality(Cards!Waiting(new)) = Cardinality(Cards!Waiting(list)) + n
  BY CardsEarned
<1>8. /\ member' = [member EXCEPT ![m].balance = bal, ![m].rewards = new]
      /\ log' = [log EXCEPT ![m].stamps = @ + 1, ![m].earned = @ + n]
      /\ spent' = [spent EXCEPT ![m] = @ + n * t]
  <2>1. Cards!BalanceToStamp(r) = b
    BY <1>2, <1>5 DEF Cards!BalanceToStamp, Cards!Locked
  <2>2. member[m].rewards = list
    BY <1>5
  <2>3. member' = [member EXCEPT ![m].balance = bal, ![m].rewards = @ \o [x \in 1..n |-> "AVAILABLE"]]
    BY <1>2, <1>6, <2>1 DEF Cards!addStampByCode
  <2>4. QED BY <1>2, <1>4, <1>5, <1>6, <1>7, <2>1, <2>2, <2>3 DEF Cards!addStampByCode, Cards!TypeOK
<1>9. PICK k2 \in Cards!Member : member' = [member EXCEPT ![m] = k2] /\ k2.balance = bal /\ k2.rewards = new
  <2>1. PICK k2 \in Cards!Member : k2 = [k EXCEPT !.balance = bal, !.rewards = new]
    BY DEF Cards!Member, GiftMarks
  <2>2. k2.balance = bal /\ k2.rewards = new
    BY <2>1 DEF Cards!Member
  <2>3. member' = [member EXCEPT ![m] = k2]
    BY <1>1, <1>4, <1>5, <1>8, <2>1 DEF Cards!TypeOK
  <2>4. QED BY <2>2, <2>3
<1>10. member' \in [Members -> Cards!Member] /\ member'[m] = k2 /\ \A x \in Members \ {m} : member'[x] = member[x]
  BY <1>1, <1>4, <1>9, CardsMember
<1>11. /\ log' \in [Members -> LogEntry] /\ log[m] \in LogEntry /\ \A x \in Members \ {m} : log'[x] = log[x]
       /\ log'[m].stamps = log[m].stamps + 1 /\ log'[m].earned = log[m].earned + n
       /\ log'[m].adjusted = log[m].adjusted /\ log'[m].redeemed = log[m].redeemed
  <2>1. PICK e \in LogEntry : e = log[m]
    BY <1>1, <1>4 DEF Cards!TypeOK, LogEntry
  <2>2. e.stamps + 1 \in Nat /\ e.earned + n \in Nat
    BY DEF LogEntry
  <2>3. PICK e2 \in LogEntry : e2 = [e EXCEPT !.stamps = e.stamps + 1, !.earned = e.earned + n]
    BY <2>2 DEF LogEntry
  <2>4. e2.stamps = e.stamps + 1 /\ e2.earned = e.earned + n /\ e2.adjusted = e.adjusted /\ e2.redeemed = e.redeemed
    BY <2>3 DEF LogEntry
  <2>5. log' = [log EXCEPT ![m] = e2]
    BY <1>1, <1>4, <1>8, <2>1, <2>3 DEF Cards!TypeOK
  <2>6. log' \in [Members -> LogEntry] /\ log'[m] = e2 /\ \A x \in Members \ {m} : log'[x] = log[x]
    BY <1>1, <1>4, <2>5 DEF Cards!TypeOK, LogEntry
  <2>7. QED BY <2>1, <2>4, <2>6
<1>12. spent' \in [Members -> Nat] /\ spent'[m] = spent[m] + n * t /\ spent[m] \in Nat /\ \A x \in Members \ {m} : spent'[x] = spent[x]
  <2>1. PICK w \in Nat : w = n * t
    BY <1>6
  <2>2. spent' = [spent EXCEPT ![m] = @ + w]
    BY <1>8, <2>1
  <2>3. spent' \in [Members -> Nat] /\ spent'[m] = spent[m] + w /\ spent[m] \in Nat /\ \A x \in Members \ {m} : spent'[x] = spent[x]
    BY <1>1, <1>4, <2>2 DEF Cards!TypeOK
  <2>4. QED BY <2>1, <2>3
<1>13. counter' \in [Calls -> Cards!Job] /\ (\A q \in Calls : Cards!JobInv(counter'[q])) /\ changes' = changes
  BY <1>1, <1>3, CardsEnd
<1>14. /\ Cards!CardShowsMember' /\ (\A x \in Members \ doubtful' : Cards!SyncInv(x)')
       /\ (\A s \in syncs' : s \in Cards!Sync(s.id)) /\ doubtful' \subseteq Members
  BY <1>3, <1>4, <1>10, CardsFollow
<1>15. Cards!TypeOK'
  BY <1>1, <1>3, <1>10, <1>11, <1>12, <1>13, <1>14 DEF Cards!TypeOK, LogEntry
<1>16. Cards!LogExplainsCard'
  <2>1. m \notin overtaken => /\ b + spent[m] = log[m].stamps + log[m].adjusted
                              /\ log[m].earned - log[m].redeemed = Cardinality(Cards!Waiting(list))
    BY <1>1, <1>4, <1>5, CardsCount DEF Cards!LogExplainsCard, Cards!Gifts
  <2>2. Cards!Gifts(m)' = Cardinality(Cards!Waiting(list)) + n /\ Cardinality(Cards!Waiting(list)) \in Nat
    BY <1>7, <1>9, <1>10, CardsWaiting, CardsCount DEF Cards!Gifts
  <2>3. PICK w \in Nat : w = n * t
    BY <1>6
  <2>4. member'[m].balance + spent'[m] = (b + spent[m]) + 1
    <3>1. bal + w = b + 1
      BY <1>6, <2>3
    <3>2. member'[m].balance = bal /\ spent'[m] = spent[m] + w /\ spent[m] \in Nat
      BY <1>9, <1>10, <1>12, <2>3
    <3>3. PICK z \in Nat : z = spent[m]
      BY <3>2
    <3>4. bal + (z + w) = (b + z) + 1
      BY <3>1
    <3>5. QED BY <3>2, <3>3, <3>4
  <2>5. m \notin overtaken => /\ member'[m].balance + spent'[m] = log'[m].stamps + log'[m].adjusted
                              /\ log'[m].earned - log'[m].redeemed = Cards!Gifts(m)'
    <3>1. PICK e, f \in LogEntry : e = log[m] /\ f = log'[m]
      BY <1>4, <1>11
    <3>2. PICK g \in Nat : g = Cardinality(Cards!Waiting(list))
      BY <2>2
    <3>3. e.earned \in Nat /\ e.redeemed \in Nat /\ f.earned = e.earned + n /\ f.redeemed = e.redeemed
      BY <1>11, <3>1 DEF LogEntry
    <3>4. e.earned - e.redeemed = g => f.earned - f.redeemed = g + n
      BY <3>3, SMTT(30)
    <3>5. PICK x \in Int : x = b + spent[m]
      BY <1>12
    <3>6. x = e.stamps + e.adjusted => x + 1 = f.stamps + f.adjusted
      <4>1. e.stamps \in Nat /\ e.adjusted \in Int /\ f.stamps = e.stamps + 1 /\ f.adjusted = e.adjusted
        BY <1>11, <3>1 DEF LogEntry
      <4>2. QED BY <4>1
    <3>7. QED BY <2>1, <2>2, <2>4, <3>1, <3>2, <3>4, <3>5, <3>6
  <2>6. QED BY <1>3, <1>4, <1>10, <1>11, <1>12, <2>5, CardsLogged
<1>17. QED BY <1>13, <1>14, <1>15, <1>16 DEF Cards!WalletInv

\* The oldest gift is handed over.
LEMMA CardsRedeem ==
  ASSUME Cards!WalletInv, NEW m \in Members, Cards!redeemRewardByCode(m)
  PROVE  Cards!WalletInv'
<1>1. Cards!TypeOK /\ Cards!LogExplainsCard /\ \A q \in Calls : Cards!JobInv(counter[q])
  BY DEF Cards!WalletInv
<1>2. /\ Cards!Gifts(m) > 0 /\ changes' = changes + 1 /\ Cards!queuePassSync(m)
      /\ member' = [member EXCEPT ![m].rewards[Cards!Oldest(m)] = "REDEEMED"]
      /\ log' = [log EXCEPT ![m].redeemed = @ + 1]
      /\ UNCHANGED <<settings, spent, card, counter, overtaken>>
  BY DEF Cards!redeemRewardByCode, Cards!SyncAfterRedeem
<1>3. PICK k \in Cards!Member, list \in Seq(GiftMarks) : k = member[m] /\ list = k.rewards
  BY <1>1 DEF Cards!TypeOK, Cards!Member, GiftMarks
<1>4. PICK g \in Cards!Waiting(list) : g = Cards!Oldest(m)
  BY <1>2, <1>3, CardsOldest
<1>5. PICK new \in Seq(GiftMarks) : new = [list EXCEPT ![g] = "REDEEMED"] /\ Cardinality(Cards!Waiting(new)) = Cardinality(Cards!Waiting(list)) - 1
  BY CardsRedeemed
<1>6. PICK k2 \in Cards!Member : member' = [member EXCEPT ![m] = k2] /\ k2.balance = k.balance /\ k2.rewards = new
  <2>1. PICK k2 \in Cards!Member : k2 = [k EXCEPT !.rewards = new]
    BY DEF Cards!Member, GiftMarks
  <2>2. k2.balance = k.balance /\ k2.rewards = new
    BY <2>1 DEF Cards!Member
  <2>3. member' = [member EXCEPT ![m] = k2]
    BY <1>1, <1>2, <1>3, <1>4, <1>5, <2>1 DEF Cards!TypeOK
  <2>4. QED BY <2>2, <2>3
<1>7. member' \in [Members -> Cards!Member] /\ member'[m] = k2 /\ \A x \in Members \ {m} : member'[x] = member[x]
  BY <1>1, <1>6, CardsMember
<1>8. /\ log' \in [Members -> LogEntry] /\ log[m] \in LogEntry /\ \A x \in Members \ {m} : log'[x] = log[x]
      /\ log'[m].stamps = log[m].stamps /\ log'[m].earned = log[m].earned
      /\ log'[m].adjusted = log[m].adjusted /\ log'[m].redeemed = log[m].redeemed + 1
  <2>1. PICK e \in LogEntry : e = log[m]
    BY <1>1 DEF Cards!TypeOK, LogEntry
  <2>2. PICK e2 \in LogEntry : e2 = [e EXCEPT !.redeemed = e.redeemed + 1]
    <3>1. PICK n \in Nat : n = e.redeemed + 1
      BY DEF LogEntry
    <3>2. [e EXCEPT !.redeemed = n] \in LogEntry
      BY DEF LogEntry
    <3>3. QED BY <3>1, <3>2
  <2>3. e2.stamps = e.stamps /\ e2.earned = e.earned /\ e2.adjusted = e.adjusted /\ e2.redeemed = e.redeemed + 1
    BY <2>2 DEF LogEntry
  <2>4. log' = [log EXCEPT ![m] = e2]
    BY <1>1, <1>2, <2>1, <2>2 DEF Cards!TypeOK
  <2>5. log' \in [Members -> LogEntry] /\ log'[m] = e2 /\ \A x \in Members \ {m} : log'[x] = log[x]
    BY <1>1, <2>4 DEF Cards!TypeOK, LogEntry
  <2>6. QED BY <2>1, <2>3, <2>5
<1>9. /\ Cards!CardShowsMember' /\ (\A x \in Members \ doubtful' : Cards!SyncInv(x)')
      /\ (\A s \in syncs' : s \in Cards!Sync(s.id)) /\ doubtful' \subseteq Members
  BY <1>2, <1>7, CardsFollow
<1>10. Cards!TypeOK'
  <2>1. UNCHANGED <<settings, spent, card, counter, overtaken>> /\ changes' \in Nat
    BY <1>1, <1>2 DEF Cards!TypeOK
  <2>2. QED BY <1>1, <1>7, <1>8, <1>9, <2>1 DEF Cards!TypeOK, LogEntry
<1>11. Cards!LogExplainsCard'
  <2>1. m \notin overtaken => /\ k.balance + spent[m] = log[m].stamps + log[m].adjusted
                              /\ log[m].earned - log[m].redeemed = Cardinality(Cards!Waiting(list))
    BY <1>1, <1>3, CardsCount DEF Cards!LogExplainsCard, Cards!Gifts
  <2>2. Cards!Gifts(m)' = Cardinality(Cards!Waiting(list)) - 1 /\ Cardinality(Cards!Waiting(list)) \in Nat
    BY <1>5, <1>6, <1>7, CardsWaiting, CardsCount DEF Cards!Gifts
  <2>3. PICK e, f \in LogEntry : e = log[m] /\ f = log'[m]
    BY <1>7, <1>8
  <2>4. PICK w \in Nat : w = Cardinality(Cards!Waiting(list))
    BY <2>2
  <2>5. e.earned - e.redeemed = w => f.earned - f.redeemed = w - 1
    <3>1. e.earned \in Nat /\ e.redeemed \in Nat /\ f.earned = e.earned /\ f.redeemed = e.redeemed + 1
      BY <1>8, <2>3 DEF LogEntry
    <3>2. QED BY <3>1
  <2>6. member'[m].balance = k.balance /\ spent'[m] = spent[m] /\ f.stamps = e.stamps /\ f.adjusted = e.adjusted
    BY <1>2, <1>6, <1>7, <1>8, <2>3
  <2>7. m \notin overtaken => /\ member'[m].balance + spent'[m] = log'[m].stamps + log'[m].adjusted
                              /\ log'[m].earned - log'[m].redeemed = Cards!Gifts(m)'
    BY <2>1, <2>2, <2>3, <2>4, <2>5, <2>6
  <2>8. QED BY <1>2, <1>7, <1>8, <2>7, CardsLogged
<1>12. QED BY <1>1, <1>2, <1>9, <1>10, <1>11 DEF Cards!WalletInv

\* An adjustment by hand: the log takes the difference to the balance that
\* was read, which is the member's unless something moved it.
LEMMA CardsAdjust ==
  ASSUME Cards!WalletInv, NEW r \in Calls, Cards!adjustCustomerBalance(r)
  PROVE  Cards!WalletInv'
<1>1. Cards!TypeOK /\ Cards!LogExplainsCard /\ \A q \in Calls : Cards!JobInv(counter[q])
  BY DEF Cards!WalletInv
<1>2. PICK m, next, old : m = counter[r].m /\ next = Cards!NextBalance(counter[r].balance, counter[r].delta) /\ old = counter[r].balance
  OBVIOUS
<1>3. /\ Cards!At(r, "adjust") /\ Cards!End(r) /\ Cards!queuePassSync(m) /\ UNCHANGED <<settings, spent, card>>
      /\ member' = [member EXCEPT ![m].balance = next]
      /\ log' = [log EXCEPT ![m].adjusted = @ + next - old]
      /\ overtaken' = IF member[m].balance # old THEN overtaken \cup {m} ELSE overtaken
  BY <1>2 DEF Cards!adjustCustomerBalance
<1>4. m \in Members /\ next \in Nat /\ old \in Nat
  <2>1. m \in Members
    BY <1>1, <1>2, <1>3 DEF Cards!JobInv, Cards!At
  <2>2. PICK j \in Cards!Job : j = counter[r]
    BY <1>1 DEF Cards!TypeOK
  <2>3. j.balance \in Nat /\ j.delta \in Int
    <3>1. j.balance \in Nat /\ j.delta \in Deltas \cup {0}
      BY DEF Cards!Job
    <3>2. Deltas \cup {0} \subseteq Int
      BY TargetsAssumption
    <3>3. QED BY <3>1, <3>2
  <2>4. QED BY <1>2, <2>1, <2>2, <2>3 DEF Cards!NextBalance
<1>5. PICK k \in Cards!Member, list \in Seq(GiftMarks) : k = member[m] /\ list = k.rewards /\ k.balance \in Nat
  BY <1>1, <1>4 DEF Cards!TypeOK, Cards!Member, GiftMarks
<1>6. PICK k2 \in Cards!Member : member' = [member EXCEPT ![m] = k2] /\ k2.balance = next /\ k2.rewards = list
  <2>1. PICK k2 \in Cards!Member : k2 = [k EXCEPT !.balance = next]
    BY <1>4 DEF Cards!Member
  <2>2. k2.balance = next /\ k2.rewards = list
    BY <1>5, <2>1 DEF Cards!Member
  <2>3. member' = [member EXCEPT ![m] = k2]
    BY <1>1, <1>3, <1>4, <1>5, <2>1 DEF Cards!TypeOK
  <2>4. QED BY <2>2, <2>3
<1>7. member' \in [Members -> Cards!Member] /\ member'[m] = k2 /\ \A x \in Members \ {m} : member'[x] = member[x]
  BY <1>1, <1>4, <1>6, CardsMember
<1>8. /\ log' \in [Members -> LogEntry] /\ log[m] \in LogEntry /\ \A x \in Members \ {m} : log'[x] = log[x]
      /\ log'[m].stamps = log[m].stamps /\ log'[m].earned = log[m].earned
      /\ log'[m].adjusted = log[m].adjusted + next - old /\ log'[m].redeemed = log[m].redeemed
  <2>1. PICK e \in LogEntry : e = log[m]
    BY <1>1, <1>4 DEF Cards!TypeOK, LogEntry
  <2>2. PICK a \in Int : a = e.adjusted + next - old
    BY <1>4 DEF LogEntry
  <2>3. PICK e2 \in LogEntry : e2 = [e EXCEPT !.adjusted = a]
    BY DEF LogEntry
  <2>4. e2.stamps = e.stamps /\ e2.earned = e.earned /\ e2.adjusted = a /\ e2.redeemed = e.redeemed
    BY <2>3 DEF LogEntry
  <2>5. log' = [log EXCEPT ![m] = e2]
    BY <1>1, <1>3, <1>4, <2>1, <2>2, <2>3 DEF Cards!TypeOK
  <2>6. log' \in [Members -> LogEntry] /\ log'[m] = e2 /\ \A x \in Members \ {m} : log'[x] = log[x]
    BY <1>1, <1>4, <2>5 DEF Cards!TypeOK, LogEntry
  <2>7. QED BY <2>1, <2>2, <2>4, <2>6
<1>9. counter' \in [Calls -> Cards!Job] /\ (\A q \in Calls : Cards!JobInv(counter'[q])) /\ changes' = changes
  BY <1>1, <1>3, CardsEnd
<1>10. /\ Cards!CardShowsMember' /\ (\A x \in Members \ doubtful' : Cards!SyncInv(x)')
       /\ (\A s \in syncs' : s \in Cards!Sync(s.id)) /\ doubtful' \subseteq Members
  BY <1>3, <1>4, <1>7, CardsFollow
<1>11. overtaken' \subseteq Members /\ \A x \in Members : x \in overtaken => x \in overtaken'
  BY <1>1, <1>3, <1>4 DEF Cards!TypeOK
<1>12. Cards!TypeOK'
  BY <1>1, <1>3, <1>7, <1>8, <1>9, <1>10, <1>11 DEF Cards!TypeOK, LogEntry
<1>13. Cards!LogExplainsCard'
  <2>1. m \notin overtaken => /\ k.balance + spent[m] = log[m].stamps + log[m].adjusted
                              /\ log[m].earned - log[m].redeemed = Cardinality(Cards!Waiting(list))
    BY <1>1, <1>4, <1>5, CardsCount DEF Cards!LogExplainsCard, Cards!Gifts
  <2>2. Cards!Gifts(m)' = Cardinality(Cards!Waiting(list)) /\ spent'[m] = spent[m] /\ spent[m] \in Nat
    BY <1>1, <1>3, <1>4, <1>6, <1>7, CardsCount DEF Cards!Gifts, Cards!TypeOK
  <2>3. m \notin overtaken' => m \notin overtaken /\ k.balance = old
    BY <1>3, <1>5, <1>11, <1>4
  <2>4. m \notin overtaken' => /\ member'[m].balance + spent'[m] = log'[m].stamps + log'[m].adjusted
                               /\ log'[m].earned - log'[m].redeemed = Cards!Gifts(m)'
    <3>1. PICK e, f \in LogEntry : e = log[m] /\ f = log'[m]
      BY <1>4, <1>8
    <3>2. PICK z \in Nat : z = spent[m]
      BY <2>2
    <3>3. /\ e.stamps \in Nat /\ e.adjusted \in Int /\ f.stamps = e.stamps /\ f.adjusted = e.adjusted + next - old
          /\ f.earned = e.earned /\ f.redeemed = e.redeemed
      BY <1>8, <3>1 DEF LogEntry
    <3>4. old + z = e.stamps + e.adjusted => next + z = f.stamps + f.adjusted
      BY <1>4, <3>3
    <3>5. member'[m].balance = next
      BY <1>6, <1>7
    <3>6. QED BY <2>1, <2>2, <2>3, <3>1, <3>2, <3>3, <3>4, <3>5
  <2>5. \A x \in Members \ {m} : spent'[x] = spent[x]
    BY <1>3
  <2>6. QED BY <1>4, <1>7, <1>8, <1>11, <2>4, <2>5, CardsLogged
<1>14. QED BY <1>9, <1>10, <1>12, <1>13 DEF Cards!WalletInv

-----------------------------------------------------------------------------
\* One step of an update in the background, which touches no member.
LEMMA CardsAside ==
  ASSUME Cards!WalletInv, UNCHANGED <<settings, member, log, spent, counter, changes, overtaken>>,
         card' \in [Members -> CardCopy], doubtful' \subseteq Members, \A s \in syncs' : s \in Cards!Sync(s.id),
         Cards!CardShowsMember', \A m \in Members \ doubtful' : Cards!SyncInv(m)'
  PROVE  Cards!WalletInv'
<1>1. \A m \in Members : Cards!Gifts(m)' = Cards!Gifts(m)
  BY DEF Cards!Gifts
<1>2. Cards!LogExplainsCard'
  BY <1>1 DEF Cards!WalletInv, Cards!LogExplainsCard
<1>3. Cards!TypeOK'
  BY DEF Cards!WalletInv, Cards!TypeOK, CardCopy
<1>4. QED BY <1>2, <1>3 DEF Cards!WalletInv
\* An update that reads on: it was alone with its member, or is doubtful.
LEMMA CardsGoesOn ==
  ASSUME Cards!WalletInv, NEW s \in syncs, NEW u \in Cards!Sync(s.id), u.m = s.m, Cards!UpToDate(s) => Cards!UpToDate(u)', syncs' = (syncs \ {s}) \cup {u},
         UNCHANGED <<settings, member, log, spent, card, counter, changes, overtaken, doubtful>>
  PROVE  Cards!WalletInv'
<1>1. Cards!TypeOK /\ Cards!CardShowsMember /\ \A m \in Members \ doubtful : Cards!SyncInv(m)
  BY DEF Cards!WalletInv
<1>2. u.id = s.id /\ u.m \in Members
  BY DEF Cards!Sync
<1>3. \A x \in syncs' : x \in Cards!Sync(x.id)
  BY <1>1, <1>2 DEF Cards!TypeOK
<1>4. \A m \in Members : Cards!Gifts(m)' = Cards!Gifts(m)
  BY DEF Cards!Gifts
<1>5. /\ \A m \in Members \ {s.m} : Cards!Syncing(m)' = Cards!Syncing(m)
      /\ s \in Cards!Syncing(s.m) /\ Cards!Syncing(s.m)' = (Cards!Syncing(s.m) \ {s}) \cup {u}
  BY DEF Cards!Syncing
<1>6. Cards!CardShowsMember'
  BY <1>1, <1>4, <1>5 DEF Cards!CardShowsMember
<1>7. ASSUME NEW m \in Members \ doubtful' PROVE Cards!SyncInv(m)'
  <2>1. Cards!SyncInv(m)
    BY <1>1, <1>7
  <2>2. ASSUME NEW x \in Cards!Syncing(m), Cards!UpToDate(x) PROVE Cards!UpToDate(x)'
    BY <1>4, <2>2 DEF Cards!UpToDate, Cards!Syncing
  <2>3. CASE m # s.m
    BY <1>5, <2>1, <2>2, <2>3 DEF Cards!SyncInv
  <2>4. CASE m = s.m
    <3>1. Cards!Syncing(m)' = {u} /\ Cards!UpToDate(s)
      BY <1>5, <2>1, <2>4 DEF Cards!SyncInv
    <3>2. QED BY <3>1 DEF Cards!SyncInv
  <2>5. QED BY <2>3, <2>4
<1>8. card' \in [Members -> CardCopy] /\ doubtful' \subseteq Members
  BY <1>1 DEF Cards!TypeOK, CardCopy
<1>9. QED BY <1>3, <1>6, <1>7, <1>8, CardsAside
LEMMA CardsReadOn ==
  ASSUME Cards!WalletInv, NEW s \in syncs, Cards!ReadBalance(s) \/ Cards!CountGifts(s)
  PROVE  Cards!WalletInv'
<1>1. Cards!TypeOK /\ s \in Cards!Sync(s.id)
  BY DEF Cards!WalletInv, Cards!TypeOK
<1>2. s.m \in Members /\ UNCHANGED <<settings, member, log, spent, card, counter, changes, overtaken, doubtful>>
  BY <1>1 DEF Cards!ReadBalance, Cards!CountGifts, Cards!Sync
<1>3. member[s.m].balance \in Nat /\ Cards!Gifts(s.m) \in Nat /\ Cards!Gifts(s.m)' = Cards!Gifts(s.m)
  <2>1. PICK k \in Cards!Member : k = member[s.m]
    BY <1>1, <1>2 DEF Cards!TypeOK
  <2>2. k.balance \in Nat /\ k.rewards \in Seq(GiftMarks)
    BY DEF Cards!Member, GiftMarks
  <2>3. QED BY <1>2, <2>1, <2>2, CardsWaiting, CardsCount DEF Cards!Gifts
<1>4. CASE Cards!ReadBalance(s)
  <2>1. PICK b \in Nat : b = member[s.m].balance
    BY <1>3
  <2>2. PICK u \in Cards!Sync(s.id) : u = [s EXCEPT !.at = "count", !.balance = b]
    BY <1>1 DEF Cards!Sync
  <2>3. u.at = "count" /\ u.balance = b /\ u.m = s.m
    BY <1>1, <2>2 DEF Cards!Sync
  <2>4. Cards!UpToDate(u)'
    BY <1>2, <2>1, <2>3 DEF Cards!UpToDate
  <2>5. syncs' = (syncs \ {s}) \cup {u}
    BY <1>4, <2>1, <2>2 DEF Cards!ReadBalance
  <2>6. QED BY <1>2, <2>3, <2>4, <2>5, CardsGoesOn
<1>5. CASE Cards!CountGifts(s)
  <2>1. PICK g \in Nat : g = Cards!Gifts(s.m)
    BY <1>3
  <2>2. PICK u \in Cards!Sync(s.id) : u = [s EXCEPT !.at = "send", !.gifts = g]
    BY <1>1 DEF Cards!Sync
  <2>3. u.at = "send" /\ u.balance = s.balance /\ u.gifts = g /\ u.m = s.m
    BY <1>1, <2>2 DEF Cards!Sync
  <2>4. s.at = "count"
    BY <1>5 DEF Cards!CountGifts
  <2>5. Cards!UpToDate(s) => Cards!UpToDate(u)'
    BY <1>2, <1>3, <2>1, <2>3, <2>4 DEF Cards!UpToDate
  <2>6. syncs' = (syncs \ {s}) \cup {u}
    BY <1>5, <2>1, <2>2 DEF Cards!CountGifts
  <2>7. QED BY <1>2, <2>3, <2>5, <2>6, CardsGoesOn
<1>6. QED BY <1>4, <1>5

\* An update that ends leaves fewer, each as it was.
LEMMA CardsLeaves ==
  ASSUME NEW m \in Members, Cards!SyncInv(m), Cards!Syncing(m)' \subseteq Cards!Syncing(m), UNCHANGED member
  PROVE  Cards!SyncInv(m)'
<1>1. Cards!Gifts(m)' = Cards!Gifts(m)
  BY DEF Cards!Gifts
<1>2. ASSUME NEW x \in Cards!Syncing(m), Cards!UpToDate(x) PROVE Cards!UpToDate(x)'
  BY <1>1, <1>2 DEF Cards!UpToDate, Cards!Syncing
<1>3. QED BY <1>2 DEF Cards!SyncInv
LEMMA CardsFails ==
  ASSUME Cards!WalletInv, NEW s \in syncs, Cards!SyncFails(s)
  PROVE  Cards!WalletInv'
<1>1. Cards!TypeOK /\ Cards!CardShowsMember /\ (\A m \in Members \ doubtful : Cards!SyncInv(m)) /\ s \in Cards!Sync(s.id)
  BY DEF Cards!WalletInv, Cards!TypeOK
<1>2. /\ s.m \in Members /\ syncs' = syncs \ {s} /\ doubtful' = doubtful \cup {s.m}
      /\ UNCHANGED <<settings, member, log, spent, card, counter, changes, overtaken>>
  BY <1>1 DEF Cards!SyncFails, Cards!Sync
<1>3. \A m \in Members : Cards!Gifts(m)' = Cards!Gifts(m) /\ Cards!Syncing(m)' \subseteq Cards!Syncing(m)
  BY <1>2 DEF Cards!Gifts, Cards!Syncing
<1>4. \A m \in Members \ {s.m} : Cards!Syncing(m)' = Cards!Syncing(m)
  BY <1>2 DEF Cards!Syncing
<1>5. Cards!CardShowsMember'
  BY <1>1, <1>2, <1>3, <1>4 DEF Cards!CardShowsMember
<1>6. \A m \in Members \ doubtful' : Cards!SyncInv(m)'
  BY <1>1, <1>2, <1>3, CardsLeaves
<1>7. card' \in [Members -> CardCopy] /\ doubtful' \subseteq Members /\ \A x \in syncs' : x \in Cards!Sync(x.id)
  BY <1>1, <1>2 DEF Cards!TypeOK, CardCopy
<1>8. QED BY <1>2, <1>5, <1>6, <1>7, CardsAside
\* The card is sent: alone with its member, it shows what is so.
LEMMA CardsSent ==
  ASSUME Cards!WalletInv, NEW s \in syncs, Cards!SendCard(s)
  PROVE  Cards!WalletInv'
<1>1. Cards!TypeOK /\ Cards!CardShowsMember /\ (\A m \in Members \ doubtful : Cards!SyncInv(m)) /\ s \in Cards!Sync(s.id)
  BY DEF Cards!WalletInv, Cards!TypeOK
<1>2. /\ s.m \in Members /\ s.balance \in Nat /\ s.gifts \in Nat
      /\ s.at = "send" /\ syncs' = syncs \ {s} /\ Cards!patchLoyaltyObjectState(s)
      /\ UNCHANGED <<settings, member, log, spent, counter, changes, overtaken, doubtful>>
  BY <1>1 DEF Cards!SendCard, Cards!Sync
<1>3. \A m \in Members : Cards!Gifts(m)' = Cards!Gifts(m) /\ Cards!Syncing(m)' \subseteq Cards!Syncing(m)
  BY <1>2 DEF Cards!Gifts, Cards!Syncing
<1>4. (\A m \in Members \ {s.m} : Cards!Syncing(m)' = Cards!Syncing(m)) /\ s \in Cards!Syncing(s.m)
  BY <1>2 DEF Cards!Syncing
<1>5. s.m \notin doubtful => s.balance = member[s.m].balance /\ s.gifts = Cards!Gifts(s.m)
  BY <1>1, <1>2, <1>4 DEF Cards!SyncInv, Cards!UpToDate
<1>6. /\ card' \in [Members -> CardCopy] /\ \A m \in Members \ {s.m} : card'[m] = card[m]
      /\ card'[s.m].made => card'[s.m].balance = s.balance /\ card'[s.m].gifts = s.gifts
  <2>1. CASE ~card[s.m].made
    BY <1>1, <1>2, <2>1 DEF Cards!patchLoyaltyObjectState, Cards!TypeOK, CardCopy
  <2>2. CASE card[s.m].made
    <3>1. PICK c \in CardCopy : c = [made |-> TRUE, balance |-> s.balance, gifts |-> s.gifts] /\ c.balance = s.balance /\ c.gifts = s.gifts
      <4>1. PICK c : c = [made |-> TRUE, balance |-> s.balance, gifts |-> s.gifts]
        OBVIOUS
      <4>2. c \in CardCopy /\ c.balance = s.balance /\ c.gifts = s.gifts
        BY <1>2, <4>1 DEF CardCopy
      <4>3. QED BY <4>1, <4>2
    <3>2. card' = [card EXCEPT ![s.m] = c]
      BY <1>2, <2>2, <3>1 DEF Cards!patchLoyaltyObjectState, Cards!upsertLoyaltyObject
    <3>3. QED BY <1>1, <1>2, <3>1, <3>2 DEF Cards!TypeOK, CardCopy
  <2>3. QED BY <2>1, <2>2
<1>7. Cards!CardShowsMember'
  <2>1. ASSUME NEW m \in Members, card'[m].made, Cards!Syncing(m)' = {}, m \notin doubtful'
        PROVE  card'[m].balance = member'[m].balance /\ card'[m].gifts = Cards!Gifts(m)'
    <3>1. CASE m = s.m
      BY <1>2, <1>3, <1>5, <1>6, <2>1, <3>1
    <3>2. CASE m # s.m
      BY <1>1, <1>2, <1>3, <1>4, <1>6, <2>1, <3>2 DEF Cards!CardShowsMember
    <3>3. QED BY <3>1, <3>2
  <2>2. QED BY <2>1 DEF Cards!CardShowsMember
<1>8. \A m \in Members \ doubtful' : Cards!SyncInv(m)'
  BY <1>1, <1>2, <1>3, CardsLeaves
<1>9. doubtful' \subseteq Members /\ \A x \in syncs' : x \in Cards!Sync(x.id)
  BY <1>1, <1>2 DEF Cards!TypeOK
<1>10. QED BY <1>2, <1>6, <1>7, <1>8, <1>9, CardsAside

-----------------------------------------------------------------------------
\* Every step keeps it, and it holds at first.
LEMMA CardsStep == Cards!WalletInv /\ [Cards!Next]_cards => Cards!WalletInv'
<1>1. SUFFICES ASSUME Cards!WalletInv, [Cards!Next]_cards PROVE Cards!WalletInv'
  OBVIOUS
<1>2. CASE UNCHANGED cards
  <2>1. UNCHANGED <<settings, member, log, spent, card, syncs, counter, changes, overtaken, doubtful>>
    BY <1>2 DEF cards
  <2>2. Cards!TypeOK' /\ \A r \in Calls : Cards!JobInv(counter'[r])
    BY <1>1, <2>1 DEF Cards!WalletInv, Cards!TypeOK
  <2>3. QED BY <1>1, <2>1, <2>2, CardsStill
<1>3. ASSUME NEW r \in Calls, Cards!Join(r) \/ Cards!createGooglePassLink(r) \/ Cards!addStampByCode(r) \/ Cards!adjustCustomerBalance(r) PROVE Cards!WalletInv'
  BY <1>1, <1>3, CardsJoins, CardsMade, CardsStamp, CardsAdjust
<1>4. ASSUME NEW r \in Calls, NEW m \in Members, Cards!ScanToStamp(r, m) \/ (\E d \in Deltas : Cards!ReadToAdjust(r, m, d)) PROVE Cards!WalletInv'
  BY <1>1, <1>4, CardsReads
<1>5. ASSUME NEW r \in Calls, NEW phone \in Cards!Phones, Cards!CheckJoin(r, phone) PROVE Cards!WalletInv'
  <2>1. counter[r] = Cards!Idle /\ counter' = [counter EXCEPT ![r] = [Cards!Idle EXCEPT !.at = "join", !.phone = phone]] /\ changes' = changes + 1
    BY <1>5 DEF Cards!CheckJoin, Cards!Start
  <2>2. UNCHANGED <<settings, member, log, spent, card, syncs, overtaken, doubtful>>
    BY <1>5 DEF Cards!CheckJoin
  <2>3. PICK j \in Cards!Job : j = [Cards!Idle EXCEPT !.at = "join", !.phone = phone] /\ Cards!JobInv(j)
    <3>1. PICK idle \in Cards!Job : idle = Cards!Idle
      BY CardsIdle
    <3>2. PICK j \in Cards!Job : j = [idle EXCEPT !.at = "join", !.phone = phone]
      BY DEF Cards!Job
    <3>3. j.at = "join" /\ j.phone = phone
      BY <3>2 DEF Cards!Job
    <3>4. QED BY <3>1, <3>2, <3>3 DEF Cards!JobInv
  <2>4. counter' \in [Calls -> Cards!Job] /\ \A q \in Calls : Cards!JobInv(counter'[q])
    BY <1>1, <2>1, <2>3, CardsJob DEF Cards!WalletInv
  <2>5. Cards!TypeOK'
    BY <1>1, <2>1, <2>2, <2>4 DEF Cards!WalletInv, Cards!TypeOK
  <2>6. QED BY <1>1, <2>2, <2>4, <2>5, CardsStill
<1>6. ASSUME NEW m \in Members, NEW phone \in Cards!Phones, Cards!CreateCustomer(m, phone) PROVE Cards!WalletInv'
  BY <1>1, <1>6, CardsJoins
<1>7. ASSUME NEW m \in Members, Cards!redeemRewardByCode(m) PROVE Cards!WalletInv'
  BY <1>1, <1>7, CardsRedeem
<1>8. ASSUME NEW e \in {"stamp", "points"}, NEW t \in Targets, Cards!updateWalletSettings(e, t) PROVE Cards!WalletInv'
  BY <1>1, <1>8, CardsSettings
<1>9. ASSUME NEW s \in syncs, Cards!ReadBalance(s) \/ Cards!CountGifts(s) \/ Cards!SendCard(s) \/ Cards!SyncFails(s) PROVE Cards!WalletInv'
  BY <1>1, <1>9, CardsReadOn, CardsSent, CardsFails
<1>10. QED BY <1>1, <1>2, <1>3, <1>4, <1>5, <1>6, <1>7, <1>8, <1>9 DEF Cards!Next
LEMMA CardsStart == Cards!Init => Cards!WalletInv
<1>1. SUFFICES ASSUME Cards!Init PROVE Cards!WalletInv
  OBVIOUS
<1>2. /\ settings = Cards!DefaultSettings
      /\ member = [m \in Members |-> Cards!Nobody] /\ log = [m \in Members |-> Cards!NoEvents]
      /\ spent = [m \in Members |-> 0] /\ card = [m \in Members |-> Cards!NoCard] /\ syncs = {}
      /\ counter = [r \in Calls |-> Cards!Idle] /\ changes = 0
      /\ overtaken = {} /\ doubtful = {}
  BY <1>1 DEF Cards!Init
<1>3. Cards!Nobody \in Cards!Member /\ Cards!Nobody.balance = 0 /\ Cards!Nobody.rewards = <<>>
  BY DEF Cards!Nobody, Cards!Member
<1>4. Cards!NoEvents \in LogEntry /\ Cards!NoEvents.stamps = 0 /\ Cards!NoEvents.adjusted = 0 /\ Cards!NoEvents.earned = 0 /\ Cards!NoEvents.redeemed = 0
  BY DEF Cards!NoEvents, LogEntry
<1>5. Cards!NoCard \in CardCopy /\ ~Cards!NoCard.made
  BY DEF Cards!NoCard, CardCopy
<1>6. Cards!TypeOK
  <2>1. settings \in [engine : {"stamp", "points"}, stampCount : Targets]
    BY <1>2, TargetsAssumption DEF Cards!DefaultSettings
  <2>2. QED BY <1>2, <1>3, <1>4, <1>5, <2>1, CardsIdle DEF Cards!TypeOK, LogEntry, CardCopy
<1>7. \A m \in Members : Cards!Gifts(m) = 0
  <2>1. Cards!Waiting(<<>>) = {}
    BY DEF Cards!Waiting
  <2>2. Cardinality({}) = 0
    BY FS_EmptySet
  <2>3. Cardinality(Cards!Waiting(<<>>)) = 0
    BY <2>1, <2>2, Zenon
  <2>4. \A m \in Members : member[m].rewards = <<>>
    BY <1>2, <1>3
  <2>5. QED BY <2>3, <2>4, CardsCount DEF Cards!Gifts
<1>8. Cards!LogExplainsCard
  BY <1>2, <1>3, <1>4, <1>7 DEF Cards!LogExplainsCard
<1>9. Cards!CardShowsMember
  BY <1>2, <1>5 DEF Cards!CardShowsMember
<1>10. \A r \in Calls : Cards!JobInv(counter[r])
  BY <1>2, CardsIdle
<1>11. \A m \in Members \ doubtful : Cards!SyncInv(m)
  BY <1>2 DEF Cards!SyncInv, Cards!Syncing
<1>12. QED BY <1>6, <1>8, <1>9, <1>10, <1>11 DEF Cards!WalletInv

-----------------------------------------------------------------------------
(* The menu and its orders.                                                *)
MenuItem   == [category : Categories \cup {None}, price : Nat]
OrderRow  == [item : Items \cup {None}, total : Nat, status : Menu!Statuses, method : Menu!Types \cup {None},
           invoice : Orders \cup {None}, payment : Settled \cup {None}]
DeskPlaces == {"idle", "create"} \cup Menu!Serving

\* A changed request is a request, and the others are as they were.
LEMMA MenuJob ==
  ASSUME Menu!TypeOK, NEW r \in Calls, NEW j \in Menu!Job, desk' = [desk EXCEPT ![r] = j]
  PROVE  desk' \in [Calls -> Menu!Job] /\ desk'[r] = j /\ \A q \in Calls \ {r} : desk'[q] = desk[q]
BY DEF Menu!TypeOK
LEMMA MenuEnd ==
  ASSUME Menu!TypeOK, NEW r \in Calls, Menu!End(r)
  PROVE  /\ desk' \in [Calls -> Menu!Job] /\ desk'[r] = Menu!Idle /\ Menu!Idle.at = "idle" /\ Menu!Idle.o = None
         /\ \A q \in Calls \ {r} : desk'[q] = desk[q]
<1>1. Menu!Idle \in Menu!Job /\ Menu!Idle.at = "idle" /\ Menu!Idle.o = None
  BY DEF Menu!Idle, Menu!Job
<1>2. QED BY <1>1, MenuJob DEF Menu!End
LEMMA MenuGo ==
  ASSUME Menu!TypeOK, NEW r \in Calls, NEW place \in DeskPlaces, Menu!Go(r, place)
  PROVE  /\ desk' \in [Calls -> Menu!Job] /\ desk'[r].at = place /\ desk'[r].o = desk[r].o /\ desk'[r].payment = desk[r].payment
         /\ \A q \in Calls \ {r} : desk'[q] = desk[q]
<1>1. PICK k \in Menu!Job : k = desk[r]
  BY DEF Menu!TypeOK
<1>2. PICK j \in Menu!Job : j = [k EXCEPT !.at = place]
  BY DEF Menu!Job, DeskPlaces
<1>3. j.at = place /\ j.o = k.o /\ j.payment = k.payment
  BY <1>2 DEF Menu!Job
<1>4. desk' = [desk EXCEPT ![r] = j]
  BY <1>1, <1>2 DEF Menu!Go, Menu!TypeOK
<1>5. QED BY <1>1, <1>3, <1>4, MenuJob

\* A request that starts: for an item, with a method or without; for an order
\* and a payment; for an order.
LEMMA MenuIdle == Menu!Idle \in Menu!Job /\ Menu!Idle.at = "idle" /\ Menu!Idle.o = None
BY DEF Menu!Idle, Menu!Job
LEMMA MenuStartsItem ==
  ASSUME NEW i \in Items, NEW n \in Nat
  PROVE  \E j \in Menu!Job : j = [Menu!Idle EXCEPT !.at = "create", !.item = i, !.total = n] /\ j.at = "create" /\ j.item = i
<1>1. PICK idle \in Menu!Job : idle = Menu!Idle
  BY MenuIdle
<1>2. PICK j \in Menu!Job : j = [idle EXCEPT !.at = "create", !.item = i, !.total = n]
  BY DEF Menu!Job
<1>3. j.at = "create" /\ j.item = i
  BY <1>2 DEF Menu!Job
<1>4. QED BY <1>1, <1>2, <1>3
LEMMA MenuStartsPaid ==
  ASSUME NEW i \in Items, NEW n \in Nat, NEW t \in Menu!Types
  PROVE  \E j \in Menu!Job : j = [Menu!Idle EXCEPT !.at = "create", !.item = i, !.total = n, !.method = t] /\ j.at = "create" /\ j.item = i
<1>1. PICK idle \in Menu!Job : idle = Menu!Idle
  BY MenuIdle
<1>2. PICK j \in Menu!Job : j = [idle EXCEPT !.at = "create", !.item = i, !.total = n, !.method = t]
  BY DEF Menu!Job
<1>3. j.at = "create" /\ j.item = i
  BY <1>2 DEF Menu!Job
<1>4. QED BY <1>1, <1>2, <1>3
LEMMA MenuStartsAsk ==
  ASSUME NEW o \in Orders, NEW p \in Settled
  PROVE  \E j \in Menu!Job : j = [Menu!Idle EXCEPT !.at = "ask", !.o = o, !.payment = p] /\ j.at = "ask" /\ j.o = o /\ j.payment = p
<1>1. PICK idle \in Menu!Job : idle = Menu!Idle
  BY MenuIdle
<1>2. PICK j \in Menu!Job : j = [idle EXCEPT !.at = "ask", !.o = o, !.payment = p]
  BY DEF Menu!Job, Menu!Serving
<1>3. j.at = "ask" /\ j.o = o /\ j.payment = p
  BY <1>2 DEF Menu!Job
<1>4. QED BY <1>1, <1>2, <1>3
LEMMA MenuStartsMark ==
  ASSUME NEW o \in Orders
  PROVE  \E j \in Menu!Job : j = [Menu!Idle EXCEPT !.at = "mark", !.o = o] /\ j.at = "mark" /\ j.o = o
<1>1. PICK idle \in Menu!Job : idle = Menu!Idle
  BY MenuIdle
<1>2. PICK j \in Menu!Job : j = [idle EXCEPT !.at = "mark", !.o = o]
  BY DEF Menu!Job, Menu!Serving
<1>3. j.at = "mark" /\ j.o = o
  BY <1>2 DEF Menu!Job
<1>4. QED BY <1>1, <1>2, <1>3

\* A changed order is an order, and the others are as they were.
LEMMA MenuOrder ==
  ASSUME Menu!TypeOK, NEW o \in Orders, NEW k \in OrderRow, order' = [order EXCEPT ![o] = k]
  PROVE  order' \in [Orders -> OrderRow] /\ order'[o] = k /\ \A u \in Orders \ {o} : order'[u] = order[u]
BY DEF Menu!TypeOK, OrderRow

-----------------------------------------------------------------------------
\* What is promised of an order nothing happens to.
LEMMA MenuOtherOrder ==
  ASSUME NEW u \in Orders, Menu!OrderInv(u), order'[u] = order[u], told'[u] = told[u], Menu!Tellers(u)' = Menu!Tellers(u),
         u \in twice => u \in twice', u \in cut => u \in cut'
  PROVE  Menu!OrderInv(u)'
BY DEF Menu!OrderInv, Menu!Placed, Menu!Due

\* What a request knows, while another one moves.
LEMMA MenuOtherRequest ==
  ASSUME Menu!TypeOK, NEW r \in Calls, NEW q \in Calls \ {r}, Menu!RequestInv(q), \A x \in Calls \ {r} : desk'[x] = desk[x],
         \A o \in Menu!Placed : o \in Menu!Placed' /\ (Menu!Due(o) => Menu!Due(o)'),
         \A o \in Menu!Placed : order[o].status \in {"AWAITING_PAYMENT", "PAID"} => order'[o].status \in {"AWAITING_PAYMENT", "PAID"},
         Menu!At(q, "invoice") => order'[desk[q].o].method = order[desk[q].o].method /\ order'[desk[q].o].payment = order[desk[q].o].payment,
         desk[q].at \in {"ask", "confirm"} /\ Menu!At(r, "invoice")' => desk'[r].o # desk[q].o,
         Menu!At(q, "confirm") =>
           /\ paid'[desk[q].payment] = paid[desk[q].payment] /\ order'[desk[q].o].invoice = order[desk[q].o].invoice
           /\ desk[q].payment \in reused => desk[q].payment \in reused'
           /\ desk[q].payment \notin reused' =>
                /\ Menu!UsedElsewhere(desk[q].o, desk[q].payment)' => Menu!UsedElsewhere(desk[q].o, desk[q].payment)
                /\ Menu!At(r, "confirm")' => desk'[r].payment # desk[q].payment
  PROVE  Menu!RequestInv(q)'
<1>1. desk'[q] = desk[q]
  OBVIOUS
<1>2. PICK o, p : o = desk[q].o /\ p = desk[q].payment
  OBVIOUS
<1>3. Menu!At(q, "create")' => desk'[q].item \in Items
  BY <1>1 DEF Menu!RequestInv, Menu!At
<1>4. desk'[q].at \in Menu!Serving => o \in Menu!Placed'
  BY <1>1, <1>2 DEF Menu!RequestInv
<1>5. Menu!At(q, "tell")' => Menu!Due(o)'
  BY <1>1, <1>2 DEF Menu!RequestInv, Menu!At, Menu!Serving
<1>6. Menu!At(q, "invoice")' => order'[o].method = "MYFATOORAH" /\ order'[o].payment = None
  BY <1>1, <1>2 DEF Menu!RequestInv, Menu!At
<1>7. desk'[q].at \in {"ask", "confirm", "mark"} => order'[o].status \in {"AWAITING_PAYMENT", "PAID"}
  BY <1>1, <1>2 DEF Menu!RequestInv, Menu!At, Menu!Serving
<1>8. desk'[q].at \in {"ask", "confirm"} => p \in Settled /\ \A x \in Calls : Menu!At(x, "invoice")' => desk'[x].o # o
  BY <1>1, <1>2 DEF Menu!RequestInv, Menu!At
<1>9. Menu!At(q, "confirm")' =>
       /\ paid'[p] # None /\ ~Menu!Mismatch(p, order[o].invoice)'
       /\ p \notin reused' => ~Menu!UsedElsewhere(o, p)' /\ \A x \in Calls \ {q} : Menu!At(x, "confirm")' => desk'[x].payment # p
  <2>1. SUFFICES ASSUME Menu!At(q, "confirm")
                 PROVE  /\ paid'[p] # None /\ ~Menu!Mismatch(p, order[o].invoice)'
                        /\ p \notin reused' => ~Menu!UsedElsewhere(o, p)' /\ \A x \in Calls \ {q} : Menu!At(x, "confirm")' => desk'[x].payment # p
    BY <1>1 DEF Menu!At
  <2>2. /\ paid[p] # None /\ ~Menu!Mismatch(p, order[o].invoice)
        /\ p \notin reused => ~Menu!UsedElsewhere(o, p) /\ \A x \in Calls \ {q} : Menu!At(x, "confirm") => desk[x].payment # p
    BY <1>2, <2>1 DEF Menu!RequestInv
  <2>3. paid'[p] # None /\ ~Menu!Mismatch(p, order[o].invoice)'
    BY <1>2, <2>1, <2>2 DEF Menu!Mismatch
  <2>4. ASSUME p \notin reused' PROVE ~Menu!UsedElsewhere(o, p)' /\ \A x \in Calls \ {q} : Menu!At(x, "confirm")' => desk'[x].payment # p
    <3>1. ~Menu!UsedElsewhere(o, p) /\ \A x \in Calls \ {q} : Menu!At(x, "confirm") => desk[x].payment # p
      BY <1>2, <2>1, <2>2, <2>4
    <3>2. ~Menu!UsedElsewhere(o, p)'
      BY <1>2, <2>1, <2>4, <3>1 DEF Menu!UsedElsewhere
    <3>3. ASSUME NEW x \in Calls \ {q}, Menu!At(x, "confirm")' PROVE desk'[x].payment # p
      <4>1. CASE x = r
        BY <1>2, <2>1, <2>4, <3>3, <4>1
      <4>2. CASE x # r
        BY <3>1, <3>3, <4>2 DEF Menu!At
      <4>3. QED BY <4>1, <4>2
    <3>4. QED BY <3>2, <3>3
  <2>5. QED BY <2>3, <2>4
<1>10. desk'[q].o = o /\ desk'[q].payment = p
  BY <1>1, <1>2
<1>11. QED BY <1>3, <1>4, <1>5, <1>6, <1>7, <1>8, <1>9, <1>10 DEF Menu!RequestInv

\* A request moves and no order changes: only what it knows is new.
LEMMA MenuQuiet ==
  ASSUME Menu!CatalogInv, Menu!TypeOK', NEW r \in Calls, UNCHANGED <<order, told, paid, twice>>,
         reused \subseteq reused', cut \subseteq cut', \A q \in Calls \ {r} : desk'[q] = desk[q],
         ~Menu!At(r, "invoice")',
         \A q \in Calls \ {r} : Menu!At(q, "confirm") /\ Menu!At(r, "confirm")' /\ desk'[r].payment \notin reused' => desk[q].payment # desk'[r].payment,
         ~Menu!At(r, "tell")', Menu!At(r, "tell") => desk[r].o \in cut',
         Menu!RequestInv(r)'
  PROVE  Menu!CatalogInv'
<1>1. Menu!TypeOK /\ Menu!PaymentConfirmsOneOrder /\ (\A o \in Orders : Menu!OrderInv(o)) /\ \A q \in Calls : Menu!RequestInv(q)
  BY DEF Menu!CatalogInv
<1>2. Menu!Placed' = Menu!Placed /\ \A o \in Orders : Menu!Due(o)' <=> Menu!Due(o)
  BY DEF Menu!Placed, Menu!Due
<1>3. Menu!PaymentConfirmsOneOrder'
  BY <1>1, <1>2 DEF Menu!PaymentConfirmsOneOrder, Menu!OwnPayment, Menu!UsedElsewhere
<1>4. ASSUME NEW q \in Calls \ {r} PROVE Menu!RequestInv(q)'
  <2>1. Menu!RequestInv(q)
    BY <1>1
  <2>2. \A o \in Menu!Placed : o \in Menu!Placed' /\ (Menu!Due(o) => Menu!Due(o)')
    BY <1>2 DEF Menu!Placed
  <2>3. Menu!UsedElsewhere(desk[q].o, desk[q].payment)' => Menu!UsedElsewhere(desk[q].o, desk[q].payment)
    BY DEF Menu!UsedElsewhere
  <2>4. QED BY <1>1, <2>1, <2>2, <2>3, MenuOtherRequest DEF Menu!At
<1>5. ASSUME NEW o \in Orders PROVE Menu!OrderInv(o)'
  <2>1. CASE ~Menu!At(r, "tell") \/ desk[r].o # o
    <3>1. Menu!Tellers(o)' = Menu!Tellers(o)
      BY <2>1 DEF Menu!Tellers, Menu!At
    <3>2. QED BY <1>1, <3>1, MenuOtherOrder
  <2>2. CASE Menu!At(r, "tell") /\ desk[r].o = o
    <3>1. Menu!Tellers(o)' = Menu!Tellers(o) \ {r}
      BY <2>2 DEF Menu!Tellers, Menu!At
    <3>2. Menu!OrderInv(o) /\ o \in cut' /\ r \in Menu!Tellers(o)
      BY <1>1, <2>2 DEF Menu!Tellers
    <3>3. QED BY <1>2, <3>1, <3>2 DEF Menu!OrderInv, Menu!Placed
  <2>3. QED BY <2>1, <2>2
<1>6. QED BY <1>3, <1>4, <1>5 DEF Menu!CatalogInv

-----------------------------------------------------------------------------
\* The menu and the settings change, and the orders do not.
LEMMA MenuStill ==
  ASSUME Menu!CatalogInv, UNCHANGED <<order, told, paid, desk, twice, reused, cut>>, Menu!TypeOK'
  PROVE  Menu!CatalogInv'
<1>1. \A o : Menu!OrderInv(o) => Menu!OrderInv(o)'
  BY DEF Menu!OrderInv, Menu!Placed, Menu!Due, Menu!Tellers, Menu!At
<1>2. \A r : Menu!RequestInv(r) => Menu!RequestInv(r)'
  BY DEF Menu!RequestInv, Menu!Placed, Menu!Due, Menu!At, Menu!Mismatch, Menu!UsedElsewhere
<1>3. Menu!PaymentConfirmsOneOrder => Menu!PaymentConfirmsOneOrder'
  BY DEF Menu!PaymentConfirmsOneOrder, Menu!OwnPayment, Menu!Placed, Menu!UsedElsewhere
<1>4. QED BY <1>1, <1>2, <1>3 DEF Menu!CatalogInv

LEMMA MenuChanges ==
  ASSUME Menu!CatalogInv,
         \/ \E c \in Categories : Menu!CreateCategory(c) \/ Menu!DeleteCategory(c) \/ Menu!removeDemoMenu(c)
         \/ \E i \in Items, c \in Categories : Menu!addDemoMenu(c, i) \/ (\E price \in 0..1 : Menu!SetItem(i, c, price))
         \/ \E i \in Items : Menu!DeleteItem(i)
         \/ Menu!PaymentRequired \/ Menu!SaveKey \/ (\E list \in Menu!Lists : Menu!PutMethods(list))
  PROVE  Menu!CatalogInv'
<1>1. Menu!TypeOK /\ menu \in [Items -> MenuItem]
  BY DEF Menu!CatalogInv, Menu!TypeOK, MenuItem
<1>2. Menu!NoItem \in MenuItem /\ Menu!NoCategory \in [live : BOOLEAN, demo : BOOLEAN]
  BY DEF Menu!NoItem, MenuItem, Menu!NoCategory
<1>3. ASSUME NEW c \in Categories, NEW n \in Nat PROVE [category |-> c, price |-> n] \in MenuItem
  BY DEF MenuItem
<1>4. ASSUME NEW c \in Categories, Menu!DropCategory(c)
      PROVE  menu' \in [Items -> MenuItem] /\ category' \in [Categories -> [live : BOOLEAN, demo : BOOLEAN]]
  BY <1>1, <1>2, <1>4 DEF Menu!DropCategory, Menu!TypeOK
<1>5. ASSUME NEW c \in Categories, Menu!CreateCategory(c) \/ Menu!DeleteCategory(c) \/ Menu!removeDemoMenu(c) PROVE Menu!CatalogInv'
  <2>1. CASE Menu!CreateCategory(c)
    <3>1. category' \in [Categories -> [live : BOOLEAN, demo : BOOLEAN]]
      BY <1>1, <2>1 DEF Menu!CreateCategory, Menu!TypeOK
    <3>2. Menu!TypeOK'
      BY <1>1, <2>1, <3>1 DEF Menu!CreateCategory, Menu!TypeOK, Menu!Spend
    <3>3. QED BY <2>1, <3>2, MenuStill DEF Menu!CreateCategory
  <2>2. CASE Menu!DeleteCategory(c) \/ Menu!removeDemoMenu(c)
    <3>1. Menu!DropCategory(c) /\ Menu!Spend /\ UNCHANGED <<required, pay, order, told, paid, desk, twice, reused, cut>>
      BY <2>2 DEF Menu!DeleteCategory, Menu!removeDemoMenu
    <3>2. Menu!TypeOK'
      BY <1>1, <1>4, <3>1 DEF Menu!TypeOK, Menu!Spend, MenuItem
    <3>3. QED BY <3>1, <3>2, MenuStill
  <2>3. QED BY <1>5, <2>1, <2>2
<1>6. ASSUME NEW i \in Items, NEW c \in Categories, Menu!addDemoMenu(c, i) \/ (\E price \in 0..1 : Menu!SetItem(i, c, price)) PROVE Menu!CatalogInv'
  <2>1. PICK n \in Nat : menu' = [menu EXCEPT ![i] = [category |-> c, price |-> n]]
    BY <1>6 DEF Menu!addDemoMenu, Menu!SetItem
  <2>2. menu' \in [Items -> MenuItem]
    BY <1>1, <1>3, <2>1
  <2>3. category' \in [Categories -> [live : BOOLEAN, demo : BOOLEAN]]
    <3>1. category' = category \/ category' = [category EXCEPT ![c] = [live |-> TRUE, demo |-> TRUE]]
      BY <1>6 DEF Menu!addDemoMenu, Menu!SetItem
    <3>2. [live |-> TRUE, demo |-> TRUE] \in [live : BOOLEAN, demo : BOOLEAN] /\ category \in [Categories -> [live : BOOLEAN, demo : BOOLEAN]]
      BY <1>1 DEF Menu!TypeOK
    <3>3. QED BY <3>1, <3>2
  <2>4. UNCHANGED <<required, pay, order, told, paid, desk, twice, reused, cut>> /\ clicks' = clicks + 1
    BY <1>6 DEF Menu!addDemoMenu, Menu!SetItem, Menu!Spend
  <2>5. Menu!TypeOK'
    BY <1>1, <2>2, <2>3, <2>4 DEF Menu!TypeOK, MenuItem
  <2>6. QED BY <2>4, <2>5, MenuStill
<1>7. ASSUME NEW i \in Items, Menu!DeleteItem(i) PROVE Menu!CatalogInv'
  <2>1. menu' \in [Items -> MenuItem]
    BY <1>1, <1>2, <1>7 DEF Menu!DeleteItem
  <2>2. Menu!TypeOK'
    BY <1>1, <1>7, <2>1 DEF Menu!DeleteItem, Menu!TypeOK, Menu!Spend, MenuItem
  <2>3. QED BY <1>7, <2>2, MenuStill DEF Menu!DeleteItem
<1>8. CASE Menu!PaymentRequired
  <2>1. Menu!TypeOK'
    BY <1>1, <1>8 DEF Menu!PaymentRequired, Menu!TypeOK, Menu!Spend
  <2>2. QED BY <1>8, <2>1, MenuStill DEF Menu!PaymentRequired
<1>9. CASE Menu!SaveKey \/ (\E list \in Menu!Lists : Menu!PutMethods(list))
  <2>1. pay' \in [key : BOOLEAN, methods : SUBSET Menu!Types, old : BOOLEAN]
    <3>1. CASE Menu!SaveKey
      BY <1>1, <3>1 DEF Menu!SaveKey, Menu!TypeOK
    <3>2. CASE \E list \in Menu!Lists : Menu!PutMethods(list)
      <4>1. PICK list \in SUBSET Menu!Types : pay' = [pay EXCEPT !.methods = list, !.old = FALSE]
        BY <3>2 DEF Menu!PutMethods, Menu!Lists, Menu!Types
      <4>2. QED BY <1>1, <4>1 DEF Menu!TypeOK
    <3>3. QED BY <1>9, <3>1, <3>2
  <2>2. UNCHANGED <<menu, category, required, order, told, paid, desk, twice, reused, cut>> /\ clicks' = clicks + 1
    BY <1>9 DEF Menu!SaveKey, Menu!PutMethods, Menu!Spend
  <2>3. Menu!TypeOK'
    BY <1>1, <2>1, <2>2 DEF Menu!TypeOK
  <2>4. QED BY <2>2, <2>3, MenuStill
<1>10. QED BY <1>5, <1>6, <1>7, <1>8, <1>9

-----------------------------------------------------------------------------
\* A request reads what it will work on: a customer's item, an order to
\* confirm, an order to mark.
LEMMA MenuReads ==
  ASSUME Menu!CatalogInv, NEW r \in Calls,
         \/ \E i \in Items : Menu!ReadMenu(r, i)
         \/ \E p \in Settled, o \in Orders : Menu!ReadOrder(r, o, p)
         \/ \E o \in Orders : Menu!ReadToMark(r, o)
  PROVE  Menu!CatalogInv'
<1>1. Menu!TypeOK
  BY DEF Menu!CatalogInv
<1>2. /\ UNCHANGED <<menu, category, required, pay, order, told, paid, twice, reused, cut>>
      /\ desk[r] = Menu!Idle /\ clicks' = clicks + 1
  BY DEF Menu!ReadMenu, Menu!ReadOrder, Menu!ReadToMark, Menu!Spend
<1>3. PICK j \in Menu!Job :
        /\ desk' = [desk EXCEPT ![r] = j] /\ j.at \in {"create", "ask", "mark"} /\ (j.at = "create" => j.item \in Items)
        /\ j.at # "create" => j.o \in Orders /\ j.o \in Menu!Placed /\ order[j.o].status = "AWAITING_PAYMENT"
        /\ j.at = "ask" => j.payment \in Settled /\ \A q \in Calls : Menu!At(q, "invoice") => desk[q].o # j.o
  <2>1. ASSUME NEW i \in Items, Menu!ReadMenu(r, i)
        PROVE  \E j \in Menu!Job : desk' = [desk EXCEPT ![r] = j] /\ j.at = "create" /\ j.item \in Items
    <3>1. menu[i].price \in Nat /\ Menu!resolvePaymentMethods \subseteq Menu!Types
      BY <1>1 DEF Menu!TypeOK, Menu!resolvePaymentMethods, Menu!Types
    <3>2. PICK n \in Nat : n = menu[i].price
      BY <3>1
    <3>3. CASE desk' = [desk EXCEPT ![r] = [Menu!Idle EXCEPT !.at = "create", !.item = i, !.total = n]]
      <4>1. PICK j \in Menu!Job : j = [Menu!Idle EXCEPT !.at = "create", !.item = i, !.total = n] /\ j.at = "create" /\ j.item = i
        BY MenuStartsItem
      <4>2. desk' = [desk EXCEPT ![r] = j]
        BY <3>3, <4>1
      <4>3. QED BY <4>1, <4>2
    <3>4. CASE \E type \in Menu!resolvePaymentMethods :
                 desk' = [desk EXCEPT ![r] = [Menu!Idle EXCEPT !.at = "create", !.item = i, !.total = n, !.method = type]]
      <4>1. PICK type \in Menu!Types : desk' = [desk EXCEPT ![r] = [Menu!Idle EXCEPT !.at = "create", !.item = i, !.total = n, !.method = type]]
        BY <3>1, <3>4
      <4>2. PICK j \in Menu!Job : j = [Menu!Idle EXCEPT !.at = "create", !.item = i, !.total = n, !.method = type] /\ j.at = "create" /\ j.item = i
        BY MenuStartsPaid
      <4>3. desk' = [desk EXCEPT ![r] = j]
        BY <4>1, <4>2
      <4>4. QED BY <4>2, <4>3
    <3>5. QED BY <2>1, <3>2, <3>3, <3>4 DEF Menu!ReadMenu
  <2>2. ASSUME NEW p \in Settled, NEW o \in Orders, Menu!ReadOrder(r, o, p)
        PROVE  \E j \in Menu!Job : /\ desk' = [desk EXCEPT ![r] = j] /\ j.at = "ask" /\ j.o = o /\ j.payment = p
                                   /\ o \in Menu!Placed /\ order[o].status = "AWAITING_PAYMENT" /\ \A q \in Calls : Menu!At(q, "invoice") => desk[q].o # o
    <3>1. PICK j \in Menu!Job : j = [Menu!Idle EXCEPT !.at = "ask", !.o = o, !.payment = p] /\ j.at = "ask" /\ j.o = o /\ j.payment = p
      BY MenuStartsAsk
    <3>2. desk' = [desk EXCEPT ![r] = j]
      BY <2>2, <3>1 DEF Menu!ReadOrder
    <3>3. o \in Menu!Placed /\ order[o].status = "AWAITING_PAYMENT" /\ \A q \in Calls : Menu!At(q, "invoice") => desk[q].o # o
      BY <2>2 DEF Menu!ReadOrder
    <3>4. QED BY <3>1, <3>2, <3>3
  <2>3. ASSUME NEW o \in Orders, Menu!ReadToMark(r, o)
        PROVE  \E j \in Menu!Job : /\ desk' = [desk EXCEPT ![r] = j] /\ j.at = "mark" /\ j.o = o
                                   /\ o \in Menu!Placed /\ order[o].status = "AWAITING_PAYMENT"
    BY <2>3, MenuStartsMark DEF Menu!ReadToMark, Menu!Placed
  <2>4. QED BY <2>1, <2>2, <2>3
<1>4. desk' \in [Calls -> Menu!Job] /\ desk'[r] = j /\ \A q \in Calls \ {r} : desk'[q] = desk[q]
  BY <1>1, <1>3, MenuJob
<1>5. Menu!TypeOK'
  BY <1>1, <1>2, <1>4 DEF Menu!TypeOK
<1>6. ~Menu!At(r, "invoice")' /\ ~Menu!At(r, "tell")' /\ ~Menu!At(r, "confirm")' /\ ~Menu!At(r, "tell")
  BY <1>2, <1>3, <1>4 DEF Menu!At, Menu!Idle
<1>7. Menu!RequestInv(r)'
  <2>1. Menu!At(r, "create")' => desk'[r].item \in Items
    BY <1>3, <1>4 DEF Menu!At
  <2>2. desk'[r].at \in Menu!Serving => desk'[r].o \in Menu!Placed' /\ order'[desk'[r].o].status = "AWAITING_PAYMENT"
    BY <1>2, <1>3, <1>4 DEF Menu!Serving, Menu!Placed
  <2>3. Menu!At(r, "ask")' => desk'[r].payment \in Settled /\ \A q \in Calls : Menu!At(q, "invoice")' => desk'[q].o # desk'[r].o
    BY <1>3, <1>4, <1>6 DEF Menu!At
  <2>4. QED BY <1>6, <2>1, <2>2, <2>3 DEF Menu!RequestInv, Menu!At, Menu!Serving
<1>8. QED BY <1>2, <1>4, <1>5, <1>6, <1>7, MenuQuiet

\* A request stops, wherever it is.
LEMMA MenuStops ==
  ASSUME Menu!CatalogInv, NEW r \in Calls, Menu!Stop(r)
  PROVE  Menu!CatalogInv'
<1>1. Menu!TypeOK /\ Menu!RequestInv(r)
  BY DEF Menu!CatalogInv
<1>2. /\ Menu!End(r) /\ UNCHANGED <<menu, category, required, pay, order, told, paid, twice, reused>> /\ clicks' = clicks + 1
      /\ cut' = IF Menu!At(r, "tell") THEN cut \cup {desk[r].o} ELSE cut
  BY DEF Menu!Stop, Menu!Spend
<1>3. desk' \in [Calls -> Menu!Job] /\ desk'[r].at = "idle" /\ \A q \in Calls \ {r} : desk'[q] = desk[q]
  BY <1>1, <1>2, MenuEnd
<1>4. cut' \subseteq Orders
  BY <1>1, <1>2 DEF Menu!RequestInv, Menu!At, Menu!Serving, Menu!Placed, Menu!TypeOK
<1>5. Menu!TypeOK'
  BY <1>1, <1>2, <1>3, <1>4 DEF Menu!TypeOK
<1>6. Menu!RequestInv(r)' /\ ~Menu!At(r, "invoice")' /\ ~Menu!At(r, "tell")' /\ ~Menu!At(r, "confirm")'
  BY <1>3 DEF Menu!RequestInv, Menu!At, Menu!Serving
<1>7. QED BY <1>2, <1>3, <1>5, <1>6, MenuQuiet

\* MyFatoorah is asked, and the payment found free.
LEMMA MenuAsks ==
  ASSUME Menu!CatalogInv, NEW r \in Calls, Menu!AskPaid(r)
  PROVE  Menu!CatalogInv'
<1>1. Menu!TypeOK /\ Menu!RequestInv(r)
  BY DEF Menu!CatalogInv
<1>2. PICK o, p : o = desk[r].o /\ p = desk[r].payment
  OBVIOUS
<1>3. /\ Menu!At(r, "ask") /\ UNCHANGED <<menu, category, required, pay, order, told, paid, clicks, twice, cut>>
      /\ reused' = IF \E q \in Calls \ {r} : Menu!At(q, "confirm") /\ desk[q].payment = p THEN reused \cup {p} ELSE reused
      /\ IF paid[p] = None \/ Menu!Mismatch(p, order[o].invoice) \/ Menu!UsedElsewhere(o, p) THEN Menu!End(r) ELSE Menu!Go(r, "confirm")
  BY <1>2 DEF Menu!AskPaid, Menu!Reused
<1>4. o \in Menu!Placed /\ p \in Settled /\ order[o].status \in {"AWAITING_PAYMENT", "PAID"} /\ (\A q \in Calls : Menu!At(q, "invoice") => desk[q].o # o)
  BY <1>1, <1>2, <1>3 DEF Menu!RequestInv, Menu!At, Menu!Serving
<1>5. reused \subseteq reused' /\ reused' \subseteq Settled
  BY <1>1, <1>3, <1>4 DEF Menu!TypeOK
<1>6. CASE Menu!End(r)
  <2>1. desk' \in [Calls -> Menu!Job] /\ desk'[r].at = "idle" /\ \A q \in Calls \ {r} : desk'[q] = desk[q]
    BY <1>1, <1>6, MenuEnd
  <2>2. Menu!TypeOK'
    BY <1>1, <1>3, <1>5, <2>1 DEF Menu!TypeOK
  <2>3. Menu!RequestInv(r)' /\ ~Menu!At(r, "invoice")' /\ ~Menu!At(r, "tell")' /\ ~Menu!At(r, "confirm")' /\ ~Menu!At(r, "tell")
    BY <1>3, <2>1 DEF Menu!RequestInv, Menu!At, Menu!Serving
  <2>4. QED BY <1>3, <1>5, <2>1, <2>2, <2>3, MenuQuiet
<1>7. CASE Menu!Go(r, "confirm") /\ paid[p] # None /\ ~Menu!Mismatch(p, order[o].invoice) /\ ~Menu!UsedElsewhere(o, p)
  <2>1. /\ desk' \in [Calls -> Menu!Job] /\ desk'[r].at = "confirm" /\ desk'[r].o = o /\ desk'[r].payment = p
        /\ \A q \in Calls \ {r} : desk'[q] = desk[q]
    BY <1>1, <1>2, <1>7, MenuGo DEF DeskPlaces, Menu!Serving
  <2>2. Menu!TypeOK'
    BY <1>1, <1>3, <1>5, <2>1 DEF Menu!TypeOK
  <2>3. ~Menu!At(r, "invoice")' /\ ~Menu!At(r, "tell")' /\ ~Menu!At(r, "tell")
    BY <1>3, <2>1 DEF Menu!At
  <2>4. \A q \in Calls \ {r} : Menu!At(q, "confirm") /\ p \notin reused' => desk[q].payment # p
    BY <1>3
  <2>5. Menu!RequestInv(r)'
    <3>1. o \in Menu!Placed' /\ order'[o].status \in {"AWAITING_PAYMENT", "PAID"} /\ paid'[p] # None /\ ~Menu!Mismatch(p, order[o].invoice)'
      BY <1>3, <1>4, <1>7 DEF Menu!Placed, Menu!Mismatch
    <3>2. ~Menu!UsedElsewhere(o, p)'
      BY <1>3, <1>7 DEF Menu!UsedElsewhere
    <3>3. p \notin reused' => \A q \in Calls \ {r} : Menu!At(q, "confirm")' => desk'[q].payment # p
      BY <2>1, <2>4 DEF Menu!At
    <3>4. \A q \in Calls : Menu!At(q, "invoice")' => desk'[q].o # o
      BY <1>4, <2>1, <2>3 DEF Menu!At
    <3>5. QED BY <1>4, <2>1, <3>1, <3>2, <3>3, <3>4 DEF Menu!RequestInv, Menu!At
  <2>6. QED BY <1>3, <1>5, <2>1, <2>2, <2>3, <2>4, <2>5, MenuQuiet
<1>8. QED BY <1>3, <1>6, <1>7

\* The customer pays, which no request had seen.
LEMMA MenuPays ==
  ASSUME Menu!CatalogInv, NEW p \in Settled, NEW o \in Orders, Menu!PayInvoice(p, o)
  PROVE  Menu!CatalogInv'
<1>1. Menu!TypeOK /\ Menu!PaymentConfirmsOneOrder /\ (\A u \in Orders : Menu!OrderInv(u)) /\ \A q \in Calls : Menu!RequestInv(q)
  BY DEF Menu!CatalogInv
<1>2. /\ paid[p] = None /\ paid' = [paid EXCEPT ![p] = o] /\ clicks' = clicks + 1
      /\ UNCHANGED <<menu, category, required, pay, order, told, desk, twice, reused, cut>>
  BY DEF Menu!PayInvoice, Menu!Spend
<1>3. Menu!TypeOK' /\ \A q \in Settled : paid[q] # None => paid'[q] = paid[q]
  BY <1>1, <1>2 DEF Menu!TypeOK
<1>4. \A u \in Orders : Menu!OrderInv(u)'
  <2>1. \A u : Menu!OrderInv(u) => Menu!OrderInv(u)'
    BY <1>2 DEF Menu!OrderInv, Menu!Placed, Menu!Due, Menu!Tellers, Menu!At
  <2>2. QED BY <1>1, <2>1
<1>5. ASSUME NEW q \in Calls PROVE Menu!RequestInv(q)'
  <2>1. Menu!RequestInv(q)
    BY <1>1
  <2>2. Menu!At(q, "confirm") => paid'[desk[q].payment] = paid[desk[q].payment] /\ desk[q].payment \in Settled
    BY <1>3, <2>1 DEF Menu!RequestInv, Menu!At
  <2>3. QED BY <1>2, <2>1, <2>2 DEF Menu!RequestInv, Menu!Placed, Menu!Due, Menu!At, Menu!Mismatch, Menu!UsedElsewhere
<1>6. Menu!PaymentConfirmsOneOrder'
  <2>1. ASSUME NEW u \in Menu!Placed, order[u].payment # None, order[u].invoice # None
        PROVE  paid'[order[u].payment] = u
    <3>1. paid[order[u].payment] = u /\ u \in Orders /\ order[u].payment \in Settled /\ u # None
      BY <1>1, <2>1, NoneAssumption DEF Menu!PaymentConfirmsOneOrder, Menu!OwnPayment, Menu!Placed, Menu!TypeOK
    <3>2. QED BY <1>3, <3>1
  <2>2. QED BY <1>1, <1>2, <2>1 DEF Menu!PaymentConfirmsOneOrder, Menu!OwnPayment, Menu!Placed, Menu!UsedElsewhere
<1>7. QED BY <1>3, <1>4, <1>5, <1>6 DEF Menu!CatalogInv

-----------------------------------------------------------------------------
\* The kitchen is told.
LEMMA MenuTells ==
  ASSUME Menu!CatalogInv, NEW r \in Calls, Menu!notifyNewOrder(r)
  PROVE  Menu!CatalogInv'
<1>1. Menu!TypeOK /\ Menu!PaymentConfirmsOneOrder /\ (\A u \in Orders : Menu!OrderInv(u)) /\ \A q \in Calls : Menu!RequestInv(q)
  BY DEF Menu!CatalogInv
<1>2. PICK o : o = desk[r].o
  OBVIOUS
<1>3. /\ Menu!At(r, "tell") /\ Menu!End(r) /\ told' = [told EXCEPT ![o] = @ + 1]
      /\ UNCHANGED <<menu, category, required, pay, order, paid, clicks, twice, reused, cut>>
  BY <1>2 DEF Menu!notifyNewOrder
<1>4. o \in Menu!Placed /\ o \in Orders /\ Menu!Due(o)
  BY <1>1, <1>2, <1>3 DEF Menu!RequestInv, Menu!At, Menu!Serving, Menu!Placed
<1>5. desk' \in [Calls -> Menu!Job] /\ desk'[r].at = "idle" /\ \A q \in Calls \ {r} : desk'[q] = desk[q]
  BY <1>1, <1>3, MenuEnd
<1>6. told' \in [Orders -> Nat] /\ told'[o] = told[o] + 1 /\ told[o] \in Nat /\ \A u \in Orders \ {o} : told'[u] = told[u]
  BY <1>1, <1>3, <1>4 DEF Menu!TypeOK
<1>7. Menu!TypeOK'
  BY <1>1, <1>3, <1>5, <1>6 DEF Menu!TypeOK
<1>8. Menu!PaymentConfirmsOneOrder'
  BY <1>1, <1>3 DEF Menu!PaymentConfirmsOneOrder, Menu!OwnPayment, Menu!Placed, Menu!UsedElsewhere
<1>9. ASSUME NEW q \in Calls PROVE Menu!RequestInv(q)'
  <2>1. CASE q = r
    BY <1>5, <2>1 DEF Menu!RequestInv, Menu!At, Menu!Serving
  <2>2. CASE q # r
    <3>1. ~Menu!At(r, "invoice")' /\ ~Menu!At(r, "confirm")'
      BY <1>5 DEF Menu!At
    <3>2. \A u \in Menu!Placed : u \in Menu!Placed' /\ (Menu!Due(u) => Menu!Due(u)')
      BY <1>3 DEF Menu!Placed, Menu!Due
    <3>3. Menu!UsedElsewhere(desk[q].o, desk[q].payment)' => Menu!UsedElsewhere(desk[q].o, desk[q].payment)
      BY <1>3, <1>5, <2>2 DEF Menu!UsedElsewhere
    <3>4. Menu!RequestInv(q)
      BY <1>1
    <3>5. QED BY <1>1, <1>3, <1>5, <2>2, <3>1, <3>2, <3>3, <3>4, MenuOtherRequest
  <2>3. QED BY <2>1, <2>2
<1>10. ASSUME NEW u \in Orders PROVE Menu!OrderInv(u)'
  <2>1. CASE u # o
    <3>1. Menu!Tellers(u)' = Menu!Tellers(u)
      BY <1>2, <1>3, <1>5, <2>1 DEF Menu!Tellers, Menu!At
    <3>2. QED BY <1>1, <1>3, <1>6, <2>1, <3>1, MenuOtherOrder
  <2>2. CASE u = o
    <3>1. Menu!Tellers(o)' = Menu!Tellers(o) \ {r} /\ r \in Menu!Tellers(o)
      BY <1>2, <1>3, <1>5 DEF Menu!Tellers, Menu!At
    <3>2. Menu!Due(o)' /\ o \in Menu!Placed' /\ order'[o] = order[o]
      BY <1>3, <1>4 DEF Menu!Due, Menu!Placed
    <3>3. o \notin twice' /\ (order'[o].payment # None => order'[o].invoice # None) => told'[o] <= 1 /\ Menu!Tellers(o)' = {}
      BY <1>1, <1>3, <1>4, <1>6, <3>1 DEF Menu!OrderInv
    <3>4. order'[o].invoice # None => order'[o].invoice = o /\ order'[o].method = "MYFATOORAH"
      BY <1>1, <1>4, <3>2 DEF Menu!OrderInv
    <3>5. told'[o] >= 1
      BY <1>6
    <3>6. QED BY <2>2, <3>2, <3>3, <3>4, <3>5 DEF Menu!OrderInv
  <2>3. QED BY <2>1, <2>2
<1>11. QED BY <1>7, <1>8, <1>9, <1>10 DEF Menu!CatalogInv

-----------------------------------------------------------------------------
\* An order is made, for the kitchen at once or once it is paid.
LEMMA MenuCreates ==
  ASSUME Menu!CatalogInv, NEW r \in Calls, Menu!CreateOrder(r)
  PROVE  Menu!CatalogInv'
<1> USE NoneAssumption
<1>1. Menu!TypeOK /\ Menu!PaymentConfirmsOneOrder /\ (\A u \in Orders : Menu!OrderInv(u)) /\ \A q \in Calls : Menu!RequestInv(q)
  BY DEF Menu!CatalogInv
<1>2. Menu!At(r, "create") /\ UNCHANGED <<menu, category, required, pay, told, paid, clicks, twice, reused, cut>>
  BY DEF Menu!CreateOrder
<1>3. CASE Menu!End(r) /\ UNCHANGED order
  <2>1. desk' \in [Calls -> Menu!Job] /\ desk'[r].at = "idle" /\ \A q \in Calls \ {r} : desk'[q] = desk[q]
    BY <1>1, <1>3, MenuEnd
  <2>2. Menu!TypeOK'
    BY <1>1, <1>2, <1>3, <2>1 DEF Menu!TypeOK
  <2>3. Menu!RequestInv(r)' /\ ~Menu!At(r, "invoice")' /\ ~Menu!At(r, "tell")' /\ ~Menu!At(r, "confirm")' /\ ~Menu!At(r, "tell")
    BY <1>2, <2>1 DEF Menu!RequestInv, Menu!At, Menu!Serving
  <2>4. QED BY <1>2, <1>3, <2>1, <2>2, <2>3, MenuQuiet
<1>4. ASSUME NEW o \in Orders \ Menu!Placed, NEW method, method = desk[r].method,
             order' = [order EXCEPT ![o] = [Menu!NoOrder EXCEPT !.item = desk[r].item, !.total = desk[r].total, !.method = method,
                         !.status = IF method = None THEN "NOT_REQUIRED" ELSE "AWAITING_PAYMENT"]],
             desk' = [desk EXCEPT ![r].o = o, ![r].at = IF method = None \/ Menu!confirmsOnOrder(method) THEN "tell"
                                 ELSE IF method = "MYFATOORAH" THEN "invoice" ELSE "done"]
      PROVE  Menu!CatalogInv'
  <2>1. PICK j \in Menu!Job : j = desk[r]
    BY <1>1 DEF Menu!TypeOK
  <2>2. PICK status \in {"NOT_REQUIRED", "AWAITING_PAYMENT"}, place \in {"tell", "invoice", "done"} :
          /\ status = IF method = None THEN "NOT_REQUIRED" ELSE "AWAITING_PAYMENT"
          /\ place = IF method = None \/ Menu!confirmsOnOrder(method) THEN "tell" ELSE IF method = "MYFATOORAH" THEN "invoice" ELSE "done"
    OBVIOUS
  <2>3. PICK k \in OrderRow : k = [Menu!NoOrder EXCEPT !.item = j.item, !.total = j.total, !.method = method, !.status = status]
    <3>1. PICK none \in OrderRow : none = Menu!NoOrder
      BY DEF Menu!NoOrder, OrderRow, Menu!Statuses
    <3>2. j.item \in Items \cup {None} /\ j.total \in Nat /\ method \in Menu!Types \cup {None} /\ status \in Menu!Statuses
      BY <1>4, <2>1, <2>2 DEF Menu!Job, Menu!Statuses
    <3>3. [none EXCEPT !.item = j.item, !.total = j.total, !.method = method, !.status = status] \in OrderRow
      BY <3>2 DEF OrderRow
    <3>4. QED BY <3>1, <3>3
  <2>4. k.method = method /\ k.status = status /\ k.invoice = None /\ k.payment = None
    BY <2>3 DEF Menu!NoOrder
  <2>5. order' = [order EXCEPT ![o] = k]
    BY <1>4, <2>1, <2>2, <2>3
  <2>6. order' \in [Orders -> OrderRow] /\ order'[o] = k /\ \A u \in Orders \ {o} : order'[u] = order[u]
    BY <1>1, <2>5, MenuOrder
  <2>7. PICK i \in Menu!Job : i = [j EXCEPT !.o = o, !.at = place] /\ i.o = o /\ i.at = place
    <3>1. PICK i \in Menu!Job : i = [j EXCEPT !.o = o, !.at = place]
      BY DEF Menu!Job, Menu!Serving
    <3>2. i.o = o /\ i.at = place
      BY <3>1 DEF Menu!Job
    <3>3. QED BY <3>1, <3>2
  <2>8. desk' = [desk EXCEPT ![r] = i]
    BY <1>1, <1>4, <2>1, <2>2, <2>7 DEF Menu!TypeOK
  <2>9. desk' \in [Calls -> Menu!Job] /\ desk'[r] = i /\ \A q \in Calls \ {r} : desk'[q] = desk[q]
    BY <1>1, <2>8, MenuJob
  <2>10. Menu!TypeOK'
    BY <1>1, <1>2, <2>6, <2>9 DEF Menu!TypeOK, OrderRow
  <2>11. /\ order[o].payment = None /\ told[o] = 0 /\ order[o].status = "none"
         /\ \A q \in Calls : desk[q].at \in Menu!Serving => desk[q].o # o
    <3>1. order[o] = Menu!NoOrder /\ told[o] = 0
      BY <1>1 DEF Menu!OrderInv
    <3>2. QED BY <1>1, <3>1 DEF Menu!NoOrder, Menu!RequestInv
  <2>12. Menu!Placed' = Menu!Placed \cup {o} /\ \A u \in Menu!Placed : u # o /\ order'[u] = order[u] /\ (Menu!Due(u)' <=> Menu!Due(u))
    BY <1>4, <2>2, <2>4, <2>6, <2>11 DEF Menu!Placed, Menu!Due
  <2>13. \A u \in Orders, p \in Settled : Menu!UsedElsewhere(u, p)' <=> Menu!UsedElsewhere(u, p)
    BY <2>4, <2>6, <2>11 DEF Menu!UsedElsewhere
  <2>14. Menu!PaymentConfirmsOneOrder'
    <3>1. ASSUME NEW u \in Menu!Placed PROVE Menu!OwnPayment(u)'
      <4>1. order[u].payment \in Settled \cup {None} /\ u \in Orders /\ Menu!OwnPayment(u) /\ order'[u] = order[u]
        BY <1>1, <2>12 DEF Menu!TypeOK, Menu!Placed, Menu!PaymentConfirmsOneOrder
      <4>2. PICK p : p = order[u].payment
        OBVIOUS
      <4>3. p # None => (Menu!UsedElsewhere(u, p)' <=> Menu!UsedElsewhere(u, p))
        BY <2>13, <4>1, <4>2
      <4>4. QED BY <1>2, <4>1, <4>2, <4>3 DEF Menu!OwnPayment, Menu!UsedElsewhere
    <3>2. Menu!OwnPayment(o)'
      BY <2>4, <2>6 DEF Menu!OwnPayment
    <3>3. QED BY <2>12, <3>1, <3>2 DEF Menu!PaymentConfirmsOneOrder
  <2>15. Menu!Due(o)' <=> place = "tell"
    BY <2>2, <2>4, <2>6 DEF Menu!Due, Menu!confirmsOnOrder
  <2>16. ASSUME NEW q \in Calls PROVE Menu!RequestInv(q)'
    <3>1. CASE q = r
      <4>1. place = "invoice" => k.method = "MYFATOORAH"
        BY <2>2, <2>4
      <4>2. desk'[q] = i /\ i.o = o /\ i.at = place /\ place \in {"tell", "invoice", "done"}
        BY <2>2, <2>7, <2>9, <3>1
      <4>3. o \in Menu!Placed' /\ order'[o].method = k.method /\ order'[o].payment = None
        BY <2>4, <2>6, <2>12
      <4>4. /\ Menu!At(q, "create")' => FALSE
            /\ Menu!At(q, "tell")' => Menu!Due(o)'
            /\ Menu!At(q, "invoice")' => order'[o].method = "MYFATOORAH" /\ order'[o].payment = None
            /\ Menu!At(q, "confirm")' => FALSE
            /\ desk'[q].at \notin {"ask", "confirm", "mark"}
        BY <2>15, <4>1, <4>2, <4>3 DEF Menu!At
      <4>5. QED BY <4>2, <4>3, <4>4 DEF Menu!RequestInv
    <3>2. CASE q # r
      <4>1. Menu!RequestInv(q) /\ ~Menu!At(r, "confirm")'
        BY <1>1, <2>2, <2>7, <2>9 DEF Menu!At
      <4>2. desk[q].at \in Menu!Serving => desk[q].o \in Menu!Placed /\ desk[q].o # o
        BY <2>11, <4>1 DEF Menu!RequestInv
      <4>3. Menu!At(q, "confirm") => (Menu!UsedElsewhere(desk[q].o, desk[q].payment)' => Menu!UsedElsewhere(desk[q].o, desk[q].payment))
        <5>1. Menu!At(q, "confirm") => desk[q].payment \in Settled /\ desk[q].o \in Orders
          BY <4>1, <4>2 DEF Menu!RequestInv, Menu!At, Menu!Serving, Menu!Placed
        <5>2. desk'[q] = desk[q]
          BY <2>9, <3>2
        <5>3. QED BY <2>13, <5>1, <5>2 DEF Menu!UsedElsewhere
      <4>4. \A u \in Menu!Placed : u \in Menu!Placed' /\ (Menu!Due(u) => Menu!Due(u)')
        BY <2>12
      <4>5. \A u \in Menu!Placed : order'[u] = order[u]
        BY <2>12
      <4>6. Menu!At(q, "invoice") => order'[desk[q].o] = order[desk[q].o]
        BY <4>2, <4>5 DEF Menu!At, Menu!Serving
      <4>7. Menu!At(q, "confirm") => order'[desk[q].o] = order[desk[q].o]
        BY <4>2, <4>5 DEF Menu!At, Menu!Serving
      <4>8. desk[q].at \in {"ask", "confirm"} => desk'[r].o # desk[q].o
        BY <2>7, <2>9, <4>2 DEF Menu!Serving
      <4>9. QED BY <1>1, <1>2, <2>9, <3>2, <4>1, <4>3, <4>4, <4>5, <4>6, <4>7, <4>8, MenuOtherRequest
    <3>3. QED BY <3>1, <3>2
  <2>17. ASSUME NEW u \in Orders PROVE Menu!OrderInv(u)'
    <3>1. CASE u # o
      <4>1. Menu!Tellers(u)' = Menu!Tellers(u)
        BY <1>2, <2>2, <2>7, <2>9, <3>1 DEF Menu!Tellers, Menu!At
      <4>2. QED BY <1>1, <1>2, <2>6, <3>1, <4>1, MenuOtherOrder
    <3>2. CASE u = o
      <4>1. Menu!Tellers(o)' = IF place = "tell" THEN {r} ELSE {}
        BY <2>7, <2>9, <2>11 DEF Menu!Tellers, Menu!At, Menu!Serving
      <4>2. told'[o] = 0
        BY <1>2, <2>11
      <4>3. QED BY <2>4, <2>6, <2>12, <2>15, <3>2, <4>1, <4>2 DEF Menu!OrderInv
    <3>3. QED BY <3>1, <3>2
  <2>18. QED BY <2>10, <2>14, <2>16, <2>17 DEF Menu!CatalogInv
<1>5. QED
  <2>1. CASE ~Menu!Live(desk[r].item)
    BY <1>3, <2>1 DEF Menu!CreateOrder
  <2>2. CASE Menu!Live(desk[r].item)
    BY <1>4, <2>2 DEF Menu!CreateOrder
  <2>3. QED BY <2>1, <2>2

\* MyFatoorah gives the order an invoice, or does not.
LEMMA MenuInvoices ==
  ASSUME Menu!CatalogInv, NEW r \in Calls, Menu!startTenantPayment(r)
  PROVE  Menu!CatalogInv'
<1> USE NoneAssumption
<1>1. Menu!TypeOK /\ Menu!PaymentConfirmsOneOrder /\ (\A u \in Orders : Menu!OrderInv(u)) /\ \A q \in Calls : Menu!RequestInv(q)
  BY DEF Menu!CatalogInv
<1>2. /\ Menu!End(r) /\ UNCHANGED <<menu, category, required, pay, told, paid, clicks, twice, reused, cut>>
      /\ Menu!At(r, "done") \/ Menu!At(r, "invoice")
  BY DEF Menu!startTenantPayment
<1>3. desk' \in [Calls -> Menu!Job] /\ desk'[r].at = "idle" /\ \A q \in Calls \ {r} : desk'[q] = desk[q]
  BY <1>1, <1>2, MenuEnd
<1>4. Menu!RequestInv(r)' /\ ~Menu!At(r, "invoice")' /\ ~Menu!At(r, "tell")' /\ ~Menu!At(r, "confirm")' /\ ~Menu!At(r, "tell")
  BY <1>2, <1>3 DEF Menu!RequestInv, Menu!At, Menu!Serving
<1>5. CASE UNCHANGED order
  <2>1. Menu!TypeOK'
    BY <1>1, <1>2, <1>3, <1>5 DEF Menu!TypeOK
  <2>2. QED BY <1>2, <1>3, <1>4, <1>5, <2>1, MenuQuiet
<1>6. ASSUME NEW o, o = desk[r].o, Menu!At(r, "invoice"), order' = [order EXCEPT ![o].invoice = o]
      PROVE  Menu!CatalogInv'
  <2>1. o \in Menu!Placed /\ o \in Orders /\ order[o].method = "MYFATOORAH" /\ order[o].payment = None
    BY <1>1, <1>6 DEF Menu!RequestInv, Menu!At, Menu!Serving, Menu!Placed
  <2>2. PICK k \in OrderRow : /\ k = [order[o] EXCEPT !.invoice = o] /\ k.invoice = o /\ k.payment = order[o].payment
                           /\ k.method = order[o].method /\ k.status = order[o].status
    <3>1. PICK old \in OrderRow : old = order[o]
      BY <1>1, <2>1 DEF Menu!TypeOK, OrderRow
    <3>2. PICK k \in OrderRow : k = [old EXCEPT !.invoice = o]
      BY <2>1 DEF OrderRow
    <3>3. k.invoice = o /\ k.payment = old.payment /\ k.method = old.method /\ k.status = old.status
      BY <3>2 DEF OrderRow
    <3>4. QED BY <3>1, <3>2, <3>3
  <2>3. order' \in [Orders -> OrderRow] /\ order'[o] = k /\ \A u \in Orders \ {o} : order'[u] = order[u]
    <3>1. order' = [order EXCEPT ![o] = k]
      BY <1>6, <2>2
    <3>2. QED BY <1>1, <2>1, <3>1, MenuOrder
  <2>4. Menu!TypeOK'
    BY <1>1, <1>2, <1>3, <2>3 DEF Menu!TypeOK, OrderRow
  <2>5. /\ Menu!Placed' = Menu!Placed /\ \A u \in Orders : Menu!Due(u)' <=> Menu!Due(u)
        /\ \A u \in Orders : order'[u].payment = order[u].payment /\ order'[u].status = order[u].status /\ order'[u].method = order[u].method
    <3>1. \A u \in Orders : order'[u].payment = order[u].payment /\ order'[u].status = order[u].status /\ order'[u].method = order[u].method
      BY <2>2, <2>3
    <3>2. QED BY <3>1 DEF Menu!Placed, Menu!Due
  <2>6. \A q \in Calls \ {r} : Menu!UsedElsewhere(desk[q].o, desk[q].payment)' => Menu!UsedElsewhere(desk[q].o, desk[q].payment)
    BY <1>3, <2>5 DEF Menu!UsedElsewhere
  <2>7. Menu!PaymentConfirmsOneOrder'
    <3>1. ASSUME NEW u \in Menu!Placed PROVE Menu!OwnPayment(u)'
      <4>1. CASE u = o
        BY <2>1, <2>5, <4>1 DEF Menu!OwnPayment
      <4>2. CASE u # o
        <5>1. u \in Orders /\ order'[u] = order[u] /\ Menu!OwnPayment(u)
          BY <1>1, <2>3, <4>2 DEF Menu!Placed, Menu!PaymentConfirmsOneOrder
        <5>2. QED BY <1>2, <2>5, <5>1 DEF Menu!OwnPayment, Menu!UsedElsewhere
      <4>3. QED BY <4>1, <4>2
    <3>2. QED BY <2>5, <3>1 DEF Menu!PaymentConfirmsOneOrder
  <2>8. ASSUME NEW q \in Calls PROVE Menu!RequestInv(q)'
    <3>1. CASE q = r
      BY <1>4, <3>1
    <3>2. CASE q # r
      <4>1. Menu!RequestInv(q)
        BY <1>1
      <4>2. Menu!At(q, "confirm") => desk[q].o # o /\ desk[q].o \in Orders
        BY <1>6, <4>1 DEF Menu!RequestInv, Menu!At, Menu!Serving, Menu!Placed
      <4>3. Menu!At(q, "invoice") => desk[q].o \in Orders
        BY <4>1 DEF Menu!RequestInv, Menu!At, Menu!Serving, Menu!Placed
      <4>4. \A u \in Menu!Placed : u \in Menu!Placed' /\ (Menu!Due(u) => Menu!Due(u)') /\ order'[u].status = order[u].status
        BY <2>5 DEF Menu!Placed
      <4>5. QED BY <1>1, <1>2, <1>3, <1>4, <2>3, <2>5, <2>6, <3>2, <4>1, <4>2, <4>3, <4>4, MenuOtherRequest
    <3>3. QED BY <3>1, <3>2
  <2>9. ASSUME NEW u \in Orders PROVE Menu!OrderInv(u)'
    <3>1. Menu!Tellers(u)' = Menu!Tellers(u)
      BY <1>2, <1>3 DEF Menu!Tellers, Menu!At
    <3>2. CASE u # o
      BY <1>1, <1>2, <2>3, <3>1, <3>2, MenuOtherOrder
    <3>3. CASE u = o
      <4>1. Menu!OrderInv(o)
        BY <1>1, <2>1
      <4>2. o \in Menu!Placed' /\ (Menu!Due(o)' <=> Menu!Due(o)) /\ order'[o].invoice = o /\ order'[o].method = "MYFATOORAH"
        BY <2>1, <2>2, <2>3, <2>5
      <4>3. QED BY <1>2, <2>1, <2>5, <3>1, <3>3, <4>1, <4>2 DEF Menu!OrderInv
    <3>4. QED BY <3>2, <3>3
  <2>10. QED BY <2>4, <2>7, <2>8, <2>9 DEF Menu!CatalogInv
<1>7. QED BY <1>5, <1>6 DEF Menu!startTenantPayment

-----------------------------------------------------------------------------
\* An order that is paid is due, and keeps its method and invoice.
LEMMA MenuPaidFields ==
  ASSUME Menu!TypeOK, NEW o \in Orders, NEW p \in Settled \cup {None},
         order' = [order EXCEPT ![o].status = "PAID", ![o].payment = p] \/ (order' = [order EXCEPT ![o].status = "PAID"] /\ p = order[o].payment)
  PROVE  /\ order' \in [Orders -> OrderRow] /\ order'[o].status = "PAID" /\ order'[o].payment = p
         /\ order'[o].method = order[o].method /\ order'[o].invoice = order[o].invoice
         /\ \A u \in Orders \ {o} : order'[u] = order[u]
<1>1. PICK old \in OrderRow : old = order[o]
  BY DEF Menu!TypeOK, OrderRow
<1>2. PICK k \in OrderRow : /\ order' = [order EXCEPT ![o] = k] /\ k.status = "PAID" /\ k.payment = p
                         /\ k.method = old.method /\ k.invoice = old.invoice
  <2>1. CASE order' = [order EXCEPT ![o].status = "PAID", ![o].payment = p]
    <3>1. PICK k \in OrderRow : k = [old EXCEPT !.status = "PAID", !.payment = p]
      BY DEF OrderRow, Menu!Statuses
    <3>2. k.status = "PAID" /\ k.payment = p /\ k.method = old.method /\ k.invoice = old.invoice
      BY <3>1 DEF OrderRow
    <3>3. order' = [order EXCEPT ![o] = k]
      BY <1>1, <2>1, <3>1 DEF Menu!TypeOK
    <3>4. QED BY <3>2, <3>3
  <2>2. CASE order' = [order EXCEPT ![o].status = "PAID"] /\ p = order[o].payment
    <3>1. PICK k \in OrderRow : k = [old EXCEPT !.status = "PAID"]
      BY DEF OrderRow, Menu!Statuses
    <3>2. k.status = "PAID" /\ k.payment = p /\ k.method = old.method /\ k.invoice = old.invoice
      BY <1>1, <2>2, <3>1 DEF OrderRow
    <3>3. order' = [order EXCEPT ![o] = k]
      BY <1>1, <2>2, <3>1 DEF Menu!TypeOK
    <3>4. QED BY <3>2, <3>3
  <2>3. QED BY <2>1, <2>2
<1>3. QED BY <1>1, <1>2, MenuOrder

\* The payment found free is the order's, and the kitchen will hear.
LEMMA MenuConfirms ==
  ASSUME Menu!CatalogInv, NEW r \in Calls, Menu!ConfirmOrderPaymentIfPaid(r)
  PROVE  Menu!CatalogInv'
<1> USE NoneAssumption
<1>1. Menu!TypeOK /\ Menu!PaymentConfirmsOneOrder /\ (\A u \in Orders : Menu!OrderInv(u)) /\ \A q \in Calls : Menu!RequestInv(q)
  BY DEF Menu!CatalogInv
<1>2. PICK o, p : o = desk[r].o /\ p = desk[r].payment
  OBVIOUS
<1>3. /\ Menu!At(r, "confirm") /\ Menu!Go(r, "tell") /\ order' = [order EXCEPT ![o].status = "PAID", ![o].payment = p]
      /\ twice' = IF order[o].status = "PAID" THEN twice \cup {o} ELSE twice
      /\ UNCHANGED <<menu, category, required, pay, told, paid, clicks, reused, cut>>
  BY <1>2 DEF Menu!ConfirmOrderPaymentIfPaid
<1>4. /\ o \in Menu!Placed /\ o \in Orders /\ p \in Settled /\ order[o].status \in {"AWAITING_PAYMENT", "PAID"}
      /\ (\A q \in Calls : Menu!At(q, "invoice") => desk[q].o # o) /\ paid[p] # None /\ ~Menu!Mismatch(p, order[o].invoice)
      /\ p \notin reused => ~Menu!UsedElsewhere(o, p) /\ \A q \in Calls \ {r} : Menu!At(q, "confirm") => desk[q].payment # p
  BY <1>1, <1>2, <1>3 DEF Menu!RequestInv, Menu!At, Menu!Serving, Menu!Placed
<1>5. /\ desk' \in [Calls -> Menu!Job] /\ desk'[r].at = "tell" /\ desk'[r].o = o /\ desk'[r].payment = p
      /\ \A q \in Calls \ {r} : desk'[q] = desk[q]
  BY <1>1, <1>2, <1>3, MenuGo DEF DeskPlaces, Menu!Serving
<1>6. /\ order' \in [Orders -> OrderRow] /\ order'[o].status = "PAID" /\ order'[o].payment = p
      /\ order'[o].method = order[o].method /\ order'[o].invoice = order[o].invoice
      /\ \A u \in Orders \ {o} : order'[u] = order[u]
  BY <1>1, <1>3, <1>4, MenuPaidFields
<1>7. Menu!TypeOK'
  <2>1. twice' \subseteq Orders
    BY <1>1, <1>3, <1>4 DEF Menu!TypeOK
  <2>2. QED BY <1>1, <1>3, <1>5, <1>6, <2>1 DEF Menu!TypeOK, OrderRow
<1>8. Menu!Placed' = Menu!Placed /\ Menu!Due(o)' /\ \A u \in Menu!Placed : Menu!Due(u) => Menu!Due(u)'
  BY <1>4, <1>6 DEF Menu!Placed, Menu!Due
<1>9. ASSUME NEW u \in Orders, NEW x, Menu!UsedElsewhere(u, x)', ~Menu!UsedElsewhere(u, x) PROVE x = p /\ u # o
  <2>1. PICK v \in Orders \ {u} : order'[v].payment = x
    BY <1>9 DEF Menu!UsedElsewhere
  <2>2. v = o
    BY <1>6, <1>9, <2>1 DEF Menu!UsedElsewhere
  <2>3. QED BY <1>6, <2>1, <2>2
<1>10. Menu!PaymentConfirmsOneOrder'
  <2>1. Menu!OwnPayment(o)'
    <3>1. order'[o].invoice # None => paid'[p] = o
      BY <1>1, <1>3, <1>4, <1>6 DEF Menu!Mismatch, Menu!OrderInv
    <3>2. p \notin reused' => ~Menu!UsedElsewhere(o, p)'
      BY <1>3, <1>4, <1>9
    <3>3. QED BY <1>6, <3>1, <3>2 DEF Menu!OwnPayment, Menu!UsedElsewhere
  <2>2. ASSUME NEW u \in Menu!Placed \ {o} PROVE Menu!OwnPayment(u)'
    <3>1. u \in Orders /\ order'[u] = order[u] /\ Menu!OwnPayment(u)
      BY <1>1, <1>6 DEF Menu!Placed, Menu!PaymentConfirmsOneOrder
    <3>2. PICK x : x = order[u].payment
      OBVIOUS
    <3>3. x \notin reused /\ x # None => ~Menu!UsedElsewhere(u, x)'
      <4>1. SUFFICES ASSUME x \notin reused, x # None, Menu!UsedElsewhere(u, x)' PROVE FALSE
        OBVIOUS
      <4>2. ~Menu!UsedElsewhere(u, x)
        BY <3>1, <3>2, <4>1 DEF Menu!OwnPayment
      <4>3. x = p
        BY <1>9, <3>1, <4>1, <4>2
      <4>4. Menu!UsedElsewhere(o, p)
        BY <3>1, <3>2, <4>3 DEF Menu!UsedElsewhere
      <4>5. QED BY <1>4, <4>1, <4>3, <4>4
    <3>4. order'[u].payment = x /\ order'[u].invoice = order[u].invoice /\ paid' = paid /\ reused' = reused
      BY <1>3, <3>1, <3>2
    <3>5. x # None /\ order'[u].invoice # None => paid'[x] = u
      BY <3>1, <3>2, <3>4 DEF Menu!OwnPayment
    <3>6. x # None /\ x \notin reused' => \A v \in Orders \ {u} : order'[v].payment # x
      BY <3>3, <3>4 DEF Menu!UsedElsewhere
    <3>7. QED BY <3>4, <3>5, <3>6 DEF Menu!OwnPayment, Menu!UsedElsewhere
  <2>3. QED BY <1>8, <2>1, <2>2 DEF Menu!PaymentConfirmsOneOrder
<1>11. ASSUME NEW q \in Calls PROVE Menu!RequestInv(q)'
  <2>1. CASE q = r
    BY <1>4, <1>5, <1>6, <1>8, <2>1 DEF Menu!RequestInv, Menu!At, Menu!Serving
  <2>2. CASE q # r
    <3>1. Menu!RequestInv(q) /\ ~Menu!At(r, "invoice")' /\ ~Menu!At(r, "confirm")'
      BY <1>1, <1>5 DEF Menu!At
    <3>2. desk[q].at \in Menu!Serving => desk[q].o \in Menu!Placed /\ desk[q].o \in Orders
      BY <3>1 DEF Menu!RequestInv, Menu!Placed
    <3>3. Menu!At(q, "invoice") => order'[desk[q].o] = order[desk[q].o]
      BY <1>4, <1>6, <3>2 DEF Menu!At, Menu!Serving
    <3>4. \A u \in Menu!Placed : u \in Orders /\ (order[u].status \in {"AWAITING_PAYMENT", "PAID"} => order'[u].status \in {"AWAITING_PAYMENT", "PAID"})
      BY <1>6 DEF Menu!Placed
    <3>5. Menu!At(q, "confirm") => order'[desk[q].o].invoice = order[desk[q].o].invoice
      BY <1>6, <3>2 DEF Menu!At, Menu!Serving
    <3>6. ASSUME Menu!At(q, "confirm"), desk[q].payment \notin reused', Menu!UsedElsewhere(desk[q].o, desk[q].payment)'
          PROVE  Menu!UsedElsewhere(desk[q].o, desk[q].payment)
      <4>1. PICK u, x : u = desk[q].o /\ x = desk[q].payment /\ desk'[q] = desk[q] /\ u \in Orders
        BY <1>5, <2>2, <3>2, <3>6 DEF Menu!At, Menu!Serving
      <4>2. Menu!UsedElsewhere(u, x)'
        BY <3>6, <4>1 DEF Menu!UsedElsewhere
      <4>3. x # p
        BY <1>3, <1>4, <2>2, <3>6, <4>1
      <4>4. QED BY <1>9, <4>1, <4>2, <4>3
    <3>7. QED BY <1>1, <1>3, <1>5, <1>8, <2>2, <3>1, <3>2, <3>3, <3>4, <3>5, <3>6, MenuOtherRequest
  <2>3. QED BY <2>1, <2>2
<1>12. ASSUME NEW u \in Orders PROVE Menu!OrderInv(u)'
  <2>1. CASE u # o
    <3>1. Menu!Tellers(u)' = Menu!Tellers(u)
      BY <1>2, <1>3, <1>5, <2>1 DEF Menu!Tellers, Menu!At
    <3>2. u \in twice => u \in twice'
      BY <1>3
    <3>3. QED BY <1>1, <1>3, <1>6, <2>1, <3>1, <3>2, MenuOtherOrder
  <2>2. CASE u = o
    <3>1. Menu!OrderInv(o)
      BY <1>1, <1>4
    <3>2. Menu!Tellers(o)' = Menu!Tellers(o) \cup {r}
      BY <1>5 DEF Menu!Tellers, Menu!At
    <3>3. ASSUME o \notin twice', order'[o].payment # None => order'[o].invoice # None
          PROVE  told'[o] <= 1 /\ \A q \in Menu!Tellers(o)' : told'[o] = 0 /\ Menu!Tellers(o)' = {q}
      <4>1. order[o].status = "AWAITING_PAYMENT" /\ order[o].method = "MYFATOORAH"
        BY <1>3, <1>4, <1>6, <3>1, <3>3 DEF Menu!OrderInv
      <4>2. ~Menu!Due(o)
        BY <4>1 DEF Menu!Due, Menu!confirmsOnOrder
      <4>3. Menu!Tellers(o) = {}
        BY <1>1, <4>2 DEF Menu!Tellers, Menu!RequestInv
      <4>4. QED BY <1>3, <3>1, <3>2, <4>2, <4>3 DEF Menu!OrderInv
    <3>4. order'[o].invoice # None => order'[o].invoice = o /\ order'[o].method = "MYFATOORAH"
      BY <1>6, <3>1 DEF Menu!OrderInv
    <3>5. Menu!Tellers(o)' # {} /\ o \in Menu!Placed'
      BY <1>4, <1>8, <3>2
    <3>6. QED BY <1>8, <2>2, <3>3, <3>4, <3>5 DEF Menu!OrderInv
  <2>3. QED BY <2>1, <2>2
<1>13. QED BY <1>7, <1>10, <1>11, <1>12 DEF Menu!CatalogInv

\* The merchant has the money, and the kitchen hears if it had not.
LEMMA MenuMarks ==
  ASSUME Menu!CatalogInv, NEW r \in Calls, Menu!markOrderPaidManually(r)
  PROVE  Menu!CatalogInv'
<1> USE NoneAssumption
<1>1. Menu!TypeOK /\ Menu!PaymentConfirmsOneOrder /\ (\A u \in Orders : Menu!OrderInv(u)) /\ \A q \in Calls : Menu!RequestInv(q)
  BY DEF Menu!CatalogInv
<1>2. PICK o : o = desk[r].o
  OBVIOUS
<1>3. /\ Menu!At(r, "mark") /\ order' = [order EXCEPT ![o].status = "PAID"]
      /\ twice' = IF order[o].status = "PAID" THEN twice \cup {o} ELSE twice
      /\ UNCHANGED <<menu, category, required, pay, told, paid, clicks, reused, cut>>
      /\ IF ~Menu!confirmsOnOrder(order[o].method) THEN Menu!Go(r, "tell") ELSE Menu!End(r)
  BY <1>2 DEF Menu!markOrderPaidManually, Menu!TellsWhenPaid, Menu!Tells
<1>4. o \in Menu!Placed /\ o \in Orders /\ order[o].status \in {"AWAITING_PAYMENT", "PAID"}
  BY <1>1, <1>2, <1>3 DEF Menu!RequestInv, Menu!At, Menu!Serving, Menu!Placed
<1>5. /\ desk' \in [Calls -> Menu!Job] /\ \A q \in Calls \ {r} : desk'[q] = desk[q]
      /\ IF Menu!confirmsOnOrder(order[o].method) THEN desk'[r].at = "idle" ELSE desk'[r].at = "tell" /\ desk'[r].o = o
  <2>1. CASE Menu!confirmsOnOrder(order[o].method)
    BY <1>1, <1>3, <2>1, MenuEnd
  <2>2. CASE ~Menu!confirmsOnOrder(order[o].method)
    BY <1>1, <1>2, <1>3, <2>2, MenuGo DEF DeskPlaces, Menu!Serving
  <2>3. QED BY <2>1, <2>2
<1>6. /\ order' \in [Orders -> OrderRow] /\ order'[o].status = "PAID" /\ order'[o].payment = order[o].payment
      /\ order'[o].method = order[o].method /\ order'[o].invoice = order[o].invoice
      /\ \A u \in Orders \ {o} : order'[u] = order[u]
  <2>1. order[o].payment \in Settled \cup {None}
    BY <1>1, <1>4 DEF Menu!TypeOK
  <2>2. QED BY <1>1, <1>3, <1>4, <2>1, MenuPaidFields
<1>7. Menu!TypeOK'
  <2>1. twice' \subseteq Orders
    BY <1>1, <1>3, <1>4 DEF Menu!TypeOK
  <2>2. QED BY <1>1, <1>3, <1>5, <1>6, <2>1 DEF Menu!TypeOK, OrderRow
<1>8. Menu!Placed' = Menu!Placed /\ Menu!Due(o)' /\ \A u \in Menu!Placed : Menu!Due(u) => Menu!Due(u)'
  BY <1>4, <1>6 DEF Menu!Placed, Menu!Due
<1>9. \A u \in Orders : order'[u].payment = order[u].payment /\ order'[u].invoice = order[u].invoice /\ order'[u].method = order[u].method
  BY <1>6
<1>10. Menu!PaymentConfirmsOneOrder'
  BY <1>1, <1>3, <1>8, <1>9 DEF Menu!PaymentConfirmsOneOrder, Menu!OwnPayment, Menu!Placed, Menu!UsedElsewhere
<1>11. ASSUME NEW q \in Calls PROVE Menu!RequestInv(q)'
  <2>1. CASE q = r
    BY <1>4, <1>5, <1>6, <1>8, <2>1 DEF Menu!RequestInv, Menu!At, Menu!Serving
  <2>2. CASE q # r
    <3>1. Menu!RequestInv(q) /\ ~Menu!At(r, "invoice")' /\ ~Menu!At(r, "confirm")' /\ desk'[q] = desk[q]
      BY <1>1, <1>5, <2>2 DEF Menu!At
    <3>2. desk[q].at \in Menu!Serving => desk[q].o \in Menu!Placed /\ desk[q].o \in Orders
      BY <3>1 DEF Menu!RequestInv, Menu!Placed
    <3>3. \A u \in Menu!Placed : u \in Orders /\ (order[u].status \in {"AWAITING_PAYMENT", "PAID"} => order'[u].status \in {"AWAITING_PAYMENT", "PAID"})
      BY <1>6 DEF Menu!Placed
    <3>4. Menu!UsedElsewhere(desk[q].o, desk[q].payment)' => Menu!UsedElsewhere(desk[q].o, desk[q].payment)
      BY <1>9, <3>1 DEF Menu!UsedElsewhere
    <3>5. /\ Menu!At(q, "invoice") => order'[desk[q].o].method = order[desk[q].o].method /\ order'[desk[q].o].payment = order[desk[q].o].payment
          /\ Menu!At(q, "confirm") => order'[desk[q].o].invoice = order[desk[q].o].invoice
      BY <1>9, <3>2 DEF Menu!At, Menu!Serving
    <3>6. QED BY <1>1, <1>3, <1>5, <1>8, <2>2, <3>1, <3>3, <3>4, <3>5, MenuOtherRequest
  <2>3. QED BY <2>1, <2>2
<1>12. ASSUME NEW u \in Orders PROVE Menu!OrderInv(u)'
  <2>1. CASE u # o
    <3>1. Menu!Tellers(u)' = Menu!Tellers(u)
      BY <1>2, <1>3, <1>5, <2>1 DEF Menu!Tellers, Menu!At
    <3>2. u \in twice => u \in twice'
      BY <1>3
    <3>3. QED BY <1>1, <1>3, <1>6, <2>1, <3>1, <3>2, MenuOtherOrder
  <2>2. CASE u = o
    <3>1. Menu!OrderInv(o)
      BY <1>1, <1>4
    <3>2. order'[o].invoice # None => order'[o].invoice = o /\ order'[o].method = "MYFATOORAH"
      BY <1>6, <3>1 DEF Menu!OrderInv
    <3>3. CASE Menu!confirmsOnOrder(order[o].method)
      <4>1. Menu!Tellers(o)' = Menu!Tellers(o) /\ Menu!Due(o)
        BY <1>3, <1>5, <3>3 DEF Menu!Tellers, Menu!At, Menu!Due
      <4>2. o \notin twice' => o \notin twice
        BY <1>3
      <4>3. QED BY <1>3, <1>4, <1>6, <1>8, <2>2, <3>1, <3>2, <4>1, <4>2 DEF Menu!OrderInv
    <3>4. CASE ~Menu!confirmsOnOrder(order[o].method)
      <4>1. Menu!Tellers(o)' = Menu!Tellers(o) \cup {r}
        BY <1>5, <3>4 DEF Menu!Tellers, Menu!At
      <4>2. ASSUME o \notin twice'
            PROVE  told'[o] <= 1 /\ \A q \in Menu!Tellers(o)' : told'[o] = 0 /\ Menu!Tellers(o)' = {q}
        <5>1. ~Menu!Due(o)
          BY <1>3, <1>4, <3>4, <4>2 DEF Menu!Due
        <5>2. Menu!Tellers(o) = {} /\ told[o] = 0
          BY <1>1, <3>1, <5>1 DEF Menu!Tellers, Menu!RequestInv, Menu!OrderInv
        <5>3. QED BY <1>3, <4>1, <5>2
      <4>3. Menu!Tellers(o)' # {} /\ o \in Menu!Placed'
        BY <1>4, <1>8, <4>1
      <4>4. QED BY <1>8, <2>2, <3>2, <4>2, <4>3 DEF Menu!OrderInv
    <3>5. QED BY <3>3, <3>4
  <2>3. QED BY <2>1, <2>2
<1>13. QED BY <1>7, <1>10, <1>11, <1>12 DEF Menu!CatalogInv

LEMMA MenuKeeps == Menu!CatalogInv /\ [Menu!Next]_orders => Menu!CatalogInv'
<1> SUFFICES ASSUME Menu!CatalogInv, [Menu!Next]_orders PROVE Menu!CatalogInv'
  OBVIOUS
<1>1. ASSUME NEW r \in Calls, Menu!CreateOrder(r) \/ Menu!startTenantPayment(r) \/ Menu!notifyNewOrder(r) \/ Menu!Stop(r) PROVE Menu!CatalogInv'
  BY <1>1, MenuCreates, MenuInvoices, MenuTells, MenuStops
<1>2. ASSUME NEW r \in Calls, Menu!AskPaid(r) \/ Menu!ConfirmOrderPaymentIfPaid(r) \/ Menu!markOrderPaidManually(r) PROVE Menu!CatalogInv'
  BY <1>2, MenuAsks, MenuConfirms, MenuMarks
<1>3. ASSUME NEW r \in Calls,
             (\E i \in Items : Menu!ReadMenu(r, i)) \/ (\E p \in Settled, o \in Orders : Menu!ReadOrder(r, o, p)) \/ (\E o \in Orders : Menu!ReadToMark(r, o))
      PROVE  Menu!CatalogInv'
  BY <1>3, MenuReads
<1>4. ASSUME NEW p \in Settled, NEW o \in Orders, Menu!PayInvoice(p, o) PROVE Menu!CatalogInv'
  BY <1>4, MenuPays
<1>5. ASSUME \/ \E c \in Categories : Menu!CreateCategory(c) \/ Menu!DeleteCategory(c) \/ Menu!removeDemoMenu(c)
             \/ \E i \in Items, c \in Categories : Menu!addDemoMenu(c, i) \/ (\E price \in 0..1 : Menu!SetItem(i, c, price))
             \/ \E i \in Items : Menu!DeleteItem(i)
             \/ Menu!PaymentRequired \/ Menu!SaveKey \/ (\E list \in Menu!Lists : Menu!PutMethods(list))
      PROVE  Menu!CatalogInv'
  BY <1>5, MenuChanges
<1>6. ASSUME UNCHANGED orders PROVE Menu!CatalogInv'
  <2>1. Menu!TypeOK'
    BY <1>6 DEF orders, Menu!CatalogInv, Menu!TypeOK
  <2>2. QED BY <1>6, <2>1, MenuStill DEF orders
<1>7. QED BY <1>1, <1>2, <1>3, <1>4, <1>5, <1>6 DEF Menu!Next

LEMMA MenuStart == Menu!Init => Menu!CatalogInv
<1> SUFFICES ASSUME Menu!Init PROVE Menu!CatalogInv
  OBVIOUS
<1>1. Menu!TypeOK
  <2>1. order \in [Orders -> OrderRow] /\ menu \in [Items -> MenuItem]
    BY DEF Menu!Init, Menu!NoOrder, OrderRow, Menu!Statuses, Menu!NoItem, MenuItem
  <2>2. desk \in [Calls -> Menu!Job]
    BY MenuIdle DEF Menu!Init
  <2>3. QED BY <2>1, <2>2 DEF Menu!Init, Menu!TypeOK, OrderRow, MenuItem, Menu!NoCategory, Menu!Types
<1>2. Menu!Placed = {} /\ Menu!PaymentConfirmsOneOrder
  BY DEF Menu!Init, Menu!Placed, Menu!NoOrder, Menu!PaymentConfirmsOneOrder
<1>3. ASSUME NEW r \in Calls PROVE Menu!RequestInv(r)
  BY DEF Menu!Init, Menu!RequestInv, Menu!At, Menu!Idle, Menu!Serving
<1>4. ASSUME NEW o \in Orders PROVE Menu!OrderInv(o)
  <2>1. Menu!Tellers(o) = {}
    BY DEF Menu!Init, Menu!Tellers, Menu!At, Menu!Idle
  <2>2. QED BY <1>2, <2>1 DEF Menu!Init, Menu!OrderInv, Menu!NoOrder
<1>5. QED BY <1>1, <1>2, <1>3, <1>4 DEF Menu!CatalogInv

\* What is kept about the orders and the requests is what is promised.
LEMMA MenuHears == Menu!CatalogInv => Menu!KitchenHearsOnce
<1> SUFFICES ASSUME Menu!CatalogInv, NEW o \in Menu!Placed
             PROVE  /\ (order[o].status = "AWAITING_PAYMENT" /\ ~Menu!confirmsOnOrder(order[o].method)) => told[o] = 0
                    /\ (o \notin twice /\ (order[o].payment # None => order[o].invoice # None)) => told[o] <= 1
                    /\ (o \notin cut /\ (order[o].status # "AWAITING_PAYMENT" \/ Menu!confirmsOnOrder(order[o].method))
                          /\ \A r \in Calls : desk[r].o # o) => told[o] >= 1
  BY DEF Menu!KitchenHearsOnce
<1>1. Menu!OrderInv(o) /\ o \in Orders
  BY DEF Menu!CatalogInv, Menu!Placed
<1>2. (\A r \in Calls : desk[r].o # o) => Menu!Tellers(o) = {}
  BY DEF Menu!Tellers
<1>3. QED BY <1>1, <1>2 DEF Menu!OrderInv, Menu!Due

-----------------------------------------------------------------------------
(* Links to the company's servers.                                         *)
\* A delivery moves on with its link, its event and its try.
LEMMA HooksMoves ==
  ASSUME NEW d \in Hooks!Try, NEW at \in {"post", "count", "off", "next"}, NEW ok \in BOOLEAN, NEW again \in BOOLEAN
  PROVE  /\ [d EXCEPT !.at = at] \in Hooks!Try
         /\ [d EXCEPT !.at = at, !.ok = ok, !.again = again] \in Hooks!Try
         /\ d.attempt < Retries => [d EXCEPT !.at = at, !.attempt = @ + 1, !.ok = ok, !.again = again] \in Hooks!Try
<1>1. [d EXCEPT !.at = at] \in Hooks!Try
  BY DEF Hooks!Try
<1>2. [d EXCEPT !.at = at, !.ok = ok, !.again = again] \in Hooks!Try
  BY DEF Hooks!Try
<1>3. ASSUME d.attempt < Retries PROVE [d EXCEPT !.at = at, !.attempt = @ + 1, !.ok = ok, !.again = again] \in Hooks!Try
  <2>1. d.attempt \in 0..Retries
    BY DEF Hooks!Try
  <2>2. d.attempt + 1 \in 0..Retries
    BY <1>3, <2>1, RetriesAssumption
  <2>3. QED BY <2>2 DEF Hooks!Try
<1>4. QED BY <1>1, <1>2, <1>3

\* What the changes of a link make of it.
LEMMA HooksFresh ==
  /\ Hooks!NoLink \in Hooks!Link /\ ~Hooks!NoLink.live
  /\ [Hooks!NoLink EXCEPT !.live = TRUE, !.on = TRUE] \in Hooks!Link
  /\ [Hooks!NoLink EXCEPT !.live = TRUE, !.on = TRUE].fails = 0
<1>1. Hooks!NoLink \in Hooks!Link /\ ~Hooks!NoLink.live /\ Hooks!NoLink.fails = 0
  BY DEF Hooks!NoLink, Hooks!Link
<1>2. [Hooks!NoLink EXCEPT !.live = TRUE, !.on = TRUE] \in Hooks!Link
  BY <1>1 DEF Hooks!Link
<1>3. QED BY <1>1, <1>2 DEF Hooks!Link
LEMMA HooksAfresh ==
  ASSUME NEW l \in Hooks!Link
  PROVE  /\ \A b \in BOOLEAN : /\ [l EXCEPT !.on = b] \in Hooks!Link /\ ([l EXCEPT !.on = b].on <=> b)
                               /\ [l EXCEPT !.on = b].fails = l.fails
         /\ [l EXCEPT !.on = TRUE, !.fails = 0] \in Hooks!Link /\ [l EXCEPT !.on = TRUE, !.fails = 0].fails = 0
         /\ \A n \in Nat : [l EXCEPT !.fails = n] \in Hooks!Link /\ [l EXCEPT !.fails = n].fails = n
                             /\ ([l EXCEPT !.fails = n].on <=> l.on) /\ ([l EXCEPT !.fails = n].live <=> l.live)
         /\ [l EXCEPT !.secret = 1 - @] \in Hooks!Link /\ [l EXCEPT !.secret = 1 - @].fails = l.fails
         /\ ([l EXCEPT !.secret = 1 - @].on <=> l.on) /\ ([l EXCEPT !.secret = 1 - @].live <=> l.live)
<1>1. ASSUME NEW b \in BOOLEAN
      PROVE  [l EXCEPT !.on = b] \in Hooks!Link /\ ([l EXCEPT !.on = b].on <=> b) /\ [l EXCEPT !.on = b].fails = l.fails
  <2>1. PICK k \in Hooks!Link : k = [l EXCEPT !.on = b]
    BY DEF Hooks!Link
  <2>2. (k.on <=> b) /\ k.fails = l.fails
    BY <2>1 DEF Hooks!Link
  <2>3. QED BY <2>1, <2>2
<1>2. [l EXCEPT !.on = TRUE, !.fails = 0] \in Hooks!Link /\ [l EXCEPT !.on = TRUE, !.fails = 0].fails = 0
  <2>1. PICK k \in Hooks!Link : k = [l EXCEPT !.on = TRUE, !.fails = 0]
    BY DEF Hooks!Link
  <2>2. k.fails = 0
    BY <2>1 DEF Hooks!Link
  <2>3. QED BY <2>1, <2>2
<1>3. ASSUME NEW n \in Nat
      PROVE  /\ [l EXCEPT !.fails = n] \in Hooks!Link /\ [l EXCEPT !.fails = n].fails = n
             /\ ([l EXCEPT !.fails = n].on <=> l.on) /\ ([l EXCEPT !.fails = n].live <=> l.live)
  <2>1. PICK k \in Hooks!Link : k = [l EXCEPT !.fails = n]
    BY DEF Hooks!Link
  <2>2. k.fails = n /\ (k.on <=> l.on) /\ (k.live <=> l.live)
    BY <2>1 DEF Hooks!Link
  <2>3. QED BY <2>1, <2>2
<1>4. /\ [l EXCEPT !.secret = 1 - @] \in Hooks!Link /\ [l EXCEPT !.secret = 1 - @].fails = l.fails
      /\ ([l EXCEPT !.secret = 1 - @].on <=> l.on) /\ ([l EXCEPT !.secret = 1 - @].live <=> l.live)
  <2>1. PICK n \in {0, 1} : n = 1 - l.secret
    BY DEF Hooks!Link
  <2>2. PICK k \in Hooks!Link : k = [l EXCEPT !.secret = n]
    BY DEF Hooks!Link
  <2>3. k.fails = l.fails /\ (k.on <=> l.on) /\ (k.live <=> l.live)
    BY <2>2 DEF Hooks!Link
  <2>4. k = [l EXCEPT !.secret = 1 - @]
    BY <2>1, <2>2
  <2>5. QED BY <2>2, <2>3, <2>4
<1>5. QED BY <1>1, <1>2, <1>3, <1>4

\* A changed link is a link, and the others are as they were.
LEMMA HooksChange ==
  ASSUME Hooks!TypeOK, NEW w \in Links, NEW new \in Hooks!Link, link' = [link EXCEPT ![w] = new]
  PROVE  link' \in [Links -> Hooks!Link] /\ link'[w] = new /\ \A v \in Links \ {w} : link'[v] = link[v]
BY DEF Hooks!TypeOK

\* Switched on, its failures are forgotten; switched off, it is off; counted,
\* it has as many; with another secret, it is as it was.
LEMMA HooksSwitchedOn ==
  ASSUME Hooks!TypeOK, NEW w \in Links, link' = Hooks!SwitchedOn(w)
  PROVE  link' \in [Links -> Hooks!Link] /\ link'[w].fails = 0 /\ \A v \in Links \ {w} : link'[v] = link[v]
<1>1. PICK l \in Hooks!Link : l = link[w]
  BY DEF Hooks!TypeOK
<1>2. link' = [link EXCEPT ![w] = [l EXCEPT !.on = TRUE, !.fails = 0]]
  BY <1>1 DEF Hooks!SwitchedOn, Hooks!Afresh, Hooks!TypeOK
<1>3. [l EXCEPT !.on = TRUE, !.fails = 0] \in Hooks!Link /\ [l EXCEPT !.on = TRUE, !.fails = 0].fails = 0
  BY HooksAfresh
<1>4. QED BY <1>2, <1>3, HooksChange
LEMMA HooksSwitchedOff ==
  ASSUME Hooks!TypeOK, NEW w \in Links, link' = [link EXCEPT ![w].on = FALSE]
  PROVE  link' \in [Links -> Hooks!Link] /\ ~link'[w].on /\ \A v \in Links \ {w} : link'[v] = link[v]
<1>1. PICK l \in Hooks!Link : l = link[w]
  BY DEF Hooks!TypeOK
<1>2. link' = [link EXCEPT ![w] = [l EXCEPT !.on = FALSE]]
  BY <1>1 DEF Hooks!TypeOK
<1>3. [l EXCEPT !.on = FALSE] \in Hooks!Link /\ ~[l EXCEPT !.on = FALSE].on
  BY HooksAfresh
<1>4. QED BY <1>2, <1>3, HooksChange
LEMMA HooksCounted ==
  ASSUME Hooks!TypeOK, NEW w \in Links, NEW n \in Nat, link' = [link EXCEPT ![w].fails = n]
  PROVE  /\ link' \in [Links -> Hooks!Link] /\ link'[w].fails = n /\ \A v \in Links \ {w} : link'[v] = link[v]
         /\ (link'[w].on <=> link[w].on) /\ (link'[w].live <=> link[w].live)
<1>1. PICK l \in Hooks!Link : l = link[w]
  BY DEF Hooks!TypeOK
<1>2. link' = [link EXCEPT ![w] = [l EXCEPT !.fails = n]]
  BY <1>1 DEF Hooks!TypeOK
<1>3. PICK new \in Hooks!Link : new = [l EXCEPT !.fails = n] /\ new.fails = n /\ (new.on <=> l.on) /\ (new.live <=> l.live)
  BY HooksAfresh
<1>4. QED BY <1>1, <1>2, <1>3, HooksChange
LEMMA HooksRotated ==
  ASSUME Hooks!TypeOK, NEW w \in Links, link' = [link EXCEPT ![w].secret = 1 - @]
  PROVE  /\ link' \in [Links -> Hooks!Link] /\ link'[w].fails = link[w].fails /\ \A v \in Links \ {w} : link'[v] = link[v]
         /\ (link'[w].on <=> link[w].on) /\ (link'[w].live <=> link[w].live)
<1>1. PICK l \in Hooks!Link : l = link[w]
  BY DEF Hooks!TypeOK
<1>2. link' = [link EXCEPT ![w] = [l EXCEPT !.secret = 1 - @]]
  BY <1>1 DEF Hooks!TypeOK
<1>3. PICK new \in Hooks!Link : /\ new = [l EXCEPT !.secret = 1 - @] /\ new.fails = l.fails
                                /\ (new.on <=> l.on) /\ (new.live <=> l.live)
  BY HooksAfresh
<1>4. QED BY <1>1, <1>2, <1>3, HooksChange
LEMMA HooksDeleted ==
  ASSUME Hooks!TypeOK, NEW w \in Links, link' = [link EXCEPT ![w] = Hooks!NoLink]
  PROVE  link' \in [Links -> Hooks!Link] /\ ~link'[w].live /\ \A v \in Links \ {w} : link'[v] = link[v]
<1>1. PICK new \in Hooks!Link : new = Hooks!NoLink /\ ~new.live
  BY HooksFresh
<1>2. QED BY <1>1, HooksChange

\* What a new delivery is, of an event or of a test.
LEMMA HooksDelivery ==
  ASSUME Hooks!TypeOK, NEW w \in Links, NEW e \in Happenings
  PROVE  /\ \E d \in Hooks!Try : d = Hooks!Delivery(w, e) /\ d.w = w /\ d.e = e /\ d.at = "post" /\ d.attempt = 0
         /\ \E c \in Hooks!Try : /\ c = [Hooks!Delivery(w, e) EXCEPT !.attempt = Retries]
                                 /\ c.w = w /\ c.e = e /\ c.at = "post" /\ c.attempt = Retries
<1>1. PICK s \in {0, 1} : s = link[w].secret
  BY DEF Hooks!TypeOK, Hooks!Link
<1>2. 0 \in 0..Retries /\ Retries \in 0..Retries
  BY RetriesAssumption
<1> DEFINE r == [w |-> w, e |-> e, secret |-> s, attempt |-> 0, at |-> "post", ok |-> FALSE, again |-> FALSE]
<1>3. r \in Hooks!Try
  BY <1>2 DEF Hooks!Try
<1>4. r.w = w /\ r.e = e /\ r.at = "post" /\ r.attempt = 0
  OBVIOUS
<1>5. Hooks!Delivery(w, e) = r
  BY <1>1 DEF Hooks!Delivery
<1> HIDE DEF r
<1>6. PICK c \in Hooks!Try : c = [r EXCEPT !.attempt = Retries]
  BY <1>2, <1>3 DEF Hooks!Try
<1>7. c.w = w /\ c.e = e /\ c.at = "post" /\ c.attempt = Retries
  BY <1>3, <1>4, <1>6 DEF Hooks!Try
<1>8. QED BY <1>3, <1>4, <1>5, <1>6, <1>7

\* Every action keeps the variables in their types.
LEMMA HooksTypes == ASSUME Hooks!TypeOK, [Hooks!Next]_hooks PROVE Hooks!TypeOK'
<1>0. \A w \in Links, e \in Happenings : Hooks!Delivery(w, e) \in Hooks!Try /\ [Hooks!Delivery(w, e) EXCEPT !.attempt = Retries] \in Hooks!Try
  BY HooksDelivery
<1> USE RetriesAssumption DEF Hooks!TypeOK
<1>1. ASSUME NEW r \in Calls, Hooks!CountKeys(r) \/ Hooks!CountLinks(r) PROVE Hooks!TypeOK'
  <2>1. CASE Hooks!CountKeys(r)
    BY <2>1 DEF Hooks!CountKeys, Hooks!Count, Hooks!Spend
  <2>2. CASE Hooks!CountLinks(r)
    BY <2>2 DEF Hooks!CountLinks, Hooks!Count, Hooks!Spend
  <2>3. QED BY <1>1, <2>1, <2>2
<1>2. ASSUME NEW r \in Calls, Hooks!createKey(r) PROVE Hooks!TypeOK'
  BY <1>2 DEF Hooks!createKey, Hooks!Made
<1>3. ASSUME NEW r \in Calls, Hooks!createWebhook(r) PROVE Hooks!TypeOK'
  <2>1. link' \in [Links -> Hooks!Link]
    BY <1>3, HooksFresh, HooksChange DEF Hooks!createWebhook
  <2>2. QED BY <1>3, <2>1 DEF Hooks!createWebhook, Hooks!Made
<1>4. ASSUME NEW k \in Keys, Hooks!revokeKey(k) PROVE Hooks!TypeOK'
  BY <1>4 DEF Hooks!revokeKey, Hooks!Spend
<1>5. ASSUME NEW k \in Keys, Hooks!requireApiKey(k) PROVE Hooks!TypeOK'
  <2>1. minute[k] \in Nat /\ minute[k] + 1 \in Nat
    OBVIOUS
  <2>2. minute' \in [Keys -> Nat]
    BY <1>5, <2>1 DEF Hooks!requireApiKey
  <2>3. QED BY <1>5, <2>2 DEF Hooks!requireApiKey, Hooks!Spend
<1>6. ASSUME NEW w \in Links, Hooks!updateWebhook(w) PROVE Hooks!TypeOK'
  <2>1. link' \in [Links -> Hooks!Link]
    BY <1>6, HooksSwitchedOn, HooksSwitchedOff DEF Hooks!updateWebhook
  <2>2. QED BY <1>6, <2>1 DEF Hooks!updateWebhook, Hooks!Spend
<1>7. ASSUME NEW w \in Links, Hooks!rotateSecret(w) \/ Hooks!deleteWebhook(w) PROVE Hooks!TypeOK'
  <2>1. link' \in [Links -> Hooks!Link]
    BY <1>7, HooksRotated, HooksDeleted DEF Hooks!rotateSecret, Hooks!deleteWebhook
  <2>2. QED BY <1>7, <2>1 DEF Hooks!rotateSecret, Hooks!deleteWebhook, Hooks!Spend
<1>8. ASSUME NEW w \in Links, NEW e \in Happenings, Hooks!testWebhook(w, e) PROVE Hooks!TypeOK'
  <2>1. [Hooks!Delivery(w, e) EXCEPT !.attempt = Retries] \in Hooks!Try
    BY <1>0
  <2>2. tries' \subseteq Hooks!Try /\ sent' \subseteq Happenings /\ tested' \subseteq sent'
    BY <1>8, <2>1 DEF Hooks!testWebhook
  <2>3. /\ UNCHANGED <<key, minute, link, answers, lost, form>> /\ steps' \in Nat
    BY <1>8 DEF Hooks!testWebhook, Hooks!Spend
  <2>4. QED BY <2>2, <2>3
<1>9. ASSUME NEW e \in Happenings, Hooks!dispatch(e) PROVE Hooks!TypeOK'
  <2>1. \A w \in Links : Hooks!Delivery(w, e) \in Hooks!Try
    BY <1>0
  <2>2. QED BY <1>9, <2>1 DEF Hooks!dispatch, Hooks!Spend, Hooks!subscribers, Hooks!Live
<1>10. ASSUME NEW d \in tries, Hooks!post(d) PROVE Hooks!TypeOK'
  <2>1. PICK answer \in {"ok", "refused", "failed"} :
          /\ Hooks!Become(d, {[d EXCEPT !.at = "count", !.ok = (answer = "ok"), !.again = (answer = "failed")]})
          /\ answers' = [answers EXCEPT ![d.w][d.e] = Append(@, answer)]
    BY <1>10 DEF Hooks!post
  <2>2. d \in Hooks!Try /\ d.w \in Links /\ d.e \in Happenings
    BY DEF Hooks!Try
  <2>3. answers' \in [Links -> [Happenings -> Seq({"ok", "refused", "failed"})]]
    BY <2>1, <2>2
  <2>4. tries' \subseteq Hooks!Try
    BY <2>1, <2>2, HooksMoves DEF Hooks!Become
  <2>5. QED BY <1>10, <2>3, <2>4 DEF Hooks!post
<1>11. ASSUME NEW d \in tries, Hooks!CountAnswer(d) \/ Hooks!SwitchOff(d) PROVE Hooks!TypeOK'
  <2>1. d \in Hooks!Try /\ d.w \in Links
    BY DEF Hooks!Try
  <2>2. tries' \subseteq Hooks!Try
    <3>1. PICK at \in {"off", "next"} : tries' = (tries \ {d}) \cup {[d EXCEPT !.at = at]}
      BY <1>11 DEF Hooks!CountAnswer, Hooks!SwitchOff, Hooks!Become
    <3>2. [d EXCEPT !.at = at] \in Hooks!Try
      BY <2>1, HooksMoves
    <3>3. QED BY <3>1, <3>2
  <2>3. link' \in [Links -> Hooks!Link]
    <3>1. link[d.w].fails + 1 \in Nat /\ 0 \in Nat
      BY <2>1 DEF Hooks!Link
    <3>2. CASE Hooks!CountAnswer(d) /\ d.w \in Hooks!Live
      <4>1. PICK n \in Nat : link' = [link EXCEPT ![d.w].fails = n]
        BY <3>1, <3>2, <2>1 DEF Hooks!CountAnswer
      <4>2. QED BY <2>1, <4>1, HooksCounted
    <3>3. CASE Hooks!SwitchOff(d)
      <4>1. link' = [link EXCEPT ![d.w].on = FALSE]
        BY <3>3 DEF Hooks!SwitchOff
      <4>2. QED BY <2>1, <4>1, HooksSwitchedOff
    <3>4. QED BY <1>11, <3>2, <3>3 DEF Hooks!CountAnswer
  <2>4. QED BY <1>11, <2>2, <2>3 DEF Hooks!CountAnswer, Hooks!SwitchOff
<1>12. ASSUME NEW d \in tries, Hooks!deliverWithRetry(d) PROVE Hooks!TypeOK'
  <2>1. d \in Hooks!Try
    OBVIOUS
  <2>2. tries' \subseteq Hooks!Try
    <3>1. CASE ~Hooks!TriesAgain(d)
      BY <1>12, <3>1 DEF Hooks!deliverWithRetry, Hooks!Become
    <3>2. CASE Hooks!TriesAgain(d)
      <4>1. PICK c \in Hooks!Try : c = [d EXCEPT !.at = "post", !.attempt = @ + 1, !.ok = FALSE, !.again = FALSE]
        BY <2>1, <3>2, HooksMoves DEF Hooks!TriesAgain, Hooks!MoreTries
      <4>2. QED BY <1>12, <3>2, <4>1 DEF Hooks!deliverWithRetry, Hooks!Become
    <3>3. QED BY <3>1, <3>2
  <2>3. QED BY <1>12, <2>2 DEF Hooks!deliverWithRetry
<1>13. ASSUME Hooks!Restart PROVE Hooks!TypeOK'
  BY <1>13 DEF Hooks!Restart, Hooks!Spend, Hooks!Try
<1>14. ASSUME UNCHANGED hooks PROVE Hooks!TypeOK'
  BY <1>14 DEF hooks
<1>15. QED
  BY <1>1, <1>2, <1>3, <1>4, <1>5, <1>6, <1>7, <1>8, <1>9, <1>10, <1>11, <1>12, <1>13, <1>14 DEF Hooks!Next

-----------------------------------------------------------------------------
\* A link that is on is healthy, or its failures are being counted, or a
\* restart lost the count.
LEMMA HooksHealthy == ASSUME Hooks!TypeOK, Hooks!OnMeansHealthy, [Hooks!Next]_hooks PROVE Hooks!OnMeansHealthy'
<1> USE RetriesAssumption DEF Hooks!TypeOK, Hooks!OnMeansHealthy, Hooks!Live, Hooks!Counting
<1>1. CASE UNCHANGED <<link, tries, lost>>
  BY <1>1
<1>2. ASSUME NEW r \in Calls, Hooks!createWebhook(r) PROVE Hooks!OnMeansHealthy'
  <2>1. PICK w \in Links : link' = [link EXCEPT ![w] = [Hooks!NoLink EXCEPT !.live = TRUE, !.on = TRUE]]
    BY <1>2 DEF Hooks!createWebhook
  <2>2. link'[w].fails = 0 /\ \A v \in Links \ {w} : link'[v] = link[v]
    BY <2>1, HooksFresh, HooksChange
  <2>3. tries' = tries /\ lost' = lost /\ 0 < DisableAfter
    BY <1>2 DEF Hooks!createWebhook
  <2>4. QED BY <2>2, <2>3
<1>3. ASSUME NEW w \in Links, Hooks!updateWebhook(w) PROVE Hooks!OnMeansHealthy'
  <2>1. CASE link' = Hooks!SwitchedOn(w)
    <3>1. link'[w].fails = 0 /\ \A v \in Links \ {w} : link'[v] = link[v]
      BY <2>1, HooksSwitchedOn
    <3>2. tries' = tries /\ lost' = lost /\ 0 < DisableAfter
      BY <1>3 DEF Hooks!updateWebhook
    <3>3. QED BY <3>1, <3>2
  <2>2. CASE link' = [link EXCEPT ![w].on = FALSE]
    <3>1. ~link'[w].on /\ \A v \in Links \ {w} : link'[v] = link[v]
      BY <2>2, HooksSwitchedOff
    <3>2. tries' = tries /\ lost' = lost
      BY <1>3 DEF Hooks!updateWebhook
    <3>3. QED BY <3>1, <3>2
  <2>3. QED BY <1>3, <2>1, <2>2 DEF Hooks!updateWebhook
<1>4. ASSUME NEW w \in Links, Hooks!rotateSecret(w) \/ Hooks!deleteWebhook(w) PROVE Hooks!OnMeansHealthy'
  <2>1. lost' = lost /\ tries' = tries
    BY <1>4 DEF Hooks!rotateSecret, Hooks!deleteWebhook
  <2>2. CASE Hooks!rotateSecret(w)
    <3>1. /\ link'[w].fails = link[w].fails /\ \A v \in Links \ {w} : link'[v] = link[v]
          /\ (link'[w].on <=> link[w].on) /\ (link'[w].live <=> link[w].live)
      BY <2>2, HooksRotated DEF Hooks!rotateSecret
    <3>2. QED BY <2>1, <3>1
  <2>3. CASE Hooks!deleteWebhook(w)
    <3>1. ~link'[w].live /\ \A v \in Links \ {w} : link'[v] = link[v]
      BY <2>3, HooksDeleted DEF Hooks!deleteWebhook
    <3>2. QED BY <2>1, <3>1
  <2>4. QED BY <1>4, <2>2, <2>3
<1>5. ASSUME NEW w \in Links, NEW e \in Happenings, Hooks!testWebhook(w, e) PROVE Hooks!OnMeansHealthy'
  BY <1>5 DEF Hooks!testWebhook
<1>6. ASSUME NEW e \in Happenings, Hooks!dispatch(e) PROVE Hooks!OnMeansHealthy'
  BY <1>6 DEF Hooks!dispatch
<1>7. ASSUME NEW d \in tries, Hooks!post(d) PROVE Hooks!OnMeansHealthy'
  <2>1. link' = link /\ lost' = lost /\ \A c \in tries : c.at = "off" => c \in tries'
    BY <1>7 DEF Hooks!post, Hooks!Become
  <2>2. QED BY <2>1
<1>8. ASSUME NEW d \in tries, Hooks!CountAnswer(d) PROVE Hooks!OnMeansHealthy'
  <2>1. d.w \in Links /\ d \in Hooks!Try /\ d.at = "count"
    BY <1>8 DEF Hooks!Try, Hooks!CountAnswer
  <2>2. \A c \in tries : c.at = "off" => c \in tries'
    BY <1>8 DEF Hooks!CountAnswer, Hooks!Become
  <2>3. CASE d.w \notin Hooks!Live
    BY <1>8, <2>2, <2>3 DEF Hooks!CountAnswer
  <2>4. CASE d.w \in Hooks!Live /\ d.ok
    <3>1. link'[d.w].fails = 0 /\ \A v \in Links \ {d.w} : link'[v] = link[v]
      <4>1. link' = [link EXCEPT ![d.w].fails = 0]
        BY <1>8, <2>1, <2>4 DEF Hooks!CountAnswer
      <4>2. QED BY <2>1, <4>1, HooksCounted
    <3>2. lost' = lost /\ 0 < DisableAfter
      BY <1>8 DEF Hooks!CountAnswer
    <3>3. QED BY <2>2, <2>4, <3>1, <3>2
  <2>5. CASE d.w \in Hooks!Live /\ ~d.ok /\ link[d.w].fails + 1 < DisableAfter
    <3>1. link' = [link EXCEPT ![d.w].fails = link[d.w].fails + 1] /\ link[d.w].fails + 1 \in Nat
      BY <1>8, <2>1, <2>5 DEF Hooks!CountAnswer, Hooks!Link
    <3>2. link'[d.w].fails < DisableAfter /\ \A v \in Links \ {d.w} : link'[v] = link[v]
      BY <2>1, <2>5, <3>1, HooksCounted
    <3>3. lost' = lost
      BY <1>8 DEF Hooks!CountAnswer
    <3>4. QED BY <2>2, <2>5, <3>2, <3>3
  <2>6. CASE d.w \in Hooks!Live /\ ~d.ok /\ link[d.w].fails + 1 >= DisableAfter
    <3>1. [d EXCEPT !.at = "off"] \in Hooks!Counting(d.w)'
      BY <1>8, <2>1, <2>6 DEF Hooks!CountAnswer, Hooks!Become, Hooks!Try
    <3>2. \A v \in Links \ {d.w} : link'[v] = link[v]
      BY <1>8, <2>1 DEF Hooks!CountAnswer
    <3>3. lost' = lost /\ Hooks!Counting(d.w)' # {}
      BY <1>8, <3>1 DEF Hooks!CountAnswer
    <3>4. ASSUME NEW v \in Links, link'[v].live, link'[v].on, Hooks!Counting(v)' = {},
                 \A e \in Happenings : <<v, e>> \notin lost'
          PROVE  link'[v].fails < DisableAfter
      <4>1. link'[v] = link[v]
        BY <3>2, <3>3, <3>4
      <4>2. Hooks!Counting(v) = {}
        BY <2>2, <3>4
      <4>3. QED BY <3>3, <3>4, <4>1, <4>2
    <3>5. QED BY <3>4
  <2>7. QED
    <3>1. link[d.w].fails \in Nat
      BY <2>1 DEF Hooks!Link
    <3>2. link[d.w].fails + 1 < DisableAfter \/ link[d.w].fails + 1 >= DisableAfter
      BY <3>1
    <3>3. d.ok \in BOOLEAN
      BY <2>1 DEF Hooks!Try
    <3>4. QED BY <2>3, <2>4, <2>5, <2>6, <3>2, <3>3
<1>9. ASSUME NEW d \in tries, Hooks!SwitchOff(d) PROVE Hooks!OnMeansHealthy'
  <2>1. d.w \in Links
    BY DEF Hooks!Try
  <2>2. \A c \in tries \ {d} : c \in tries'
    BY <1>9 DEF Hooks!SwitchOff, Hooks!Become
  <2>3. ~link'[d.w].on /\ \A v \in Links \ {d.w} : link'[v] = link[v]
    BY <1>9, <2>1 DEF Hooks!SwitchOff, Hooks!Link
  <2>4. QED BY <1>9, <2>1, <2>2, <2>3 DEF Hooks!SwitchOff
<1>10. ASSUME NEW d \in tries, Hooks!deliverWithRetry(d) PROVE Hooks!OnMeansHealthy'
  <2>1. link' = link /\ lost' = lost /\ \A c \in tries : c.at = "off" => c \in tries'
    BY <1>10 DEF Hooks!deliverWithRetry, Hooks!Become
  <2>2. QED BY <2>1
<1>11. ASSUME Hooks!Restart PROVE Hooks!OnMeansHealthy'
  <2>1. \A d \in tries : d.e \in Happenings /\ <<d.w, d.e>> \in lost'
    BY <1>11 DEF Hooks!Restart, Hooks!Try
  <2>2. link' = link /\ lost \subseteq lost'
    BY <1>11 DEF Hooks!Restart
  <2>3. QED BY <2>1, <2>2
<1>12. ASSUME NEW r \in Calls, Hooks!CountKeys(r) \/ Hooks!CountLinks(r) \/ Hooks!createKey(r) PROVE Hooks!OnMeansHealthy'
  BY <1>1, <1>12 DEF Hooks!CountKeys, Hooks!CountLinks, Hooks!createKey
<1>13. ASSUME NEW k \in Keys, Hooks!revokeKey(k) \/ Hooks!requireApiKey(k) PROVE Hooks!OnMeansHealthy'
  BY <1>1, <1>13 DEF Hooks!revokeKey, Hooks!requireApiKey
<1>14. ASSUME UNCHANGED hooks PROVE Hooks!OnMeansHealthy'
  BY <1>1, <1>14 DEF hooks
<1>15. QED
  BY <1>2, <1>3, <1>4, <1>5, <1>6, <1>7, <1>8, <1>9, <1>10, <1>11, <1>12, <1>13, <1>14 DEF Hooks!Next

-----------------------------------------------------------------------------
\* An event goes to a link in one delivery: while it is under way, what the
\* delivery knows is what the link answered.
LEMMA HooksBefore == ASSUME Hooks!TypeOK, NEW d \in tries PROVE Hooks!Before(d) \in 0..Retries /\ (d.e \notin tested => Hooks!Before(d) = d.attempt)
BY RetriesAssumption DEF Hooks!TypeOK, Hooks!Try, Hooks!Before

\* A step of one delivery that keeps to what is known of it.
LEMMA HooksOneMoves ==
  ASSUME Hooks!TypeOK, Hooks!TriesInv, Hooks!OneOutcome, NEW d \in tries, NEW c \in Hooks!Try, c.w = d.w, c.e = d.e,
         tries' = (tries \ {d}) \cup {c}, UNCHANGED <<sent, tested, lost>>, Hooks!TryInv(c)', Hooks!Before(c)' \in 0..Retries,
         \A w \in Links, e \in Happenings : w # d.w \/ e # d.e => answers'[w][e] = answers[w][e],
         c.at = "post" => Len(answers'[d.w][d.e]) <= Retries + 1 /\ \A k \in 1..(Len(answers'[d.w][d.e]) - 1) : answers'[d.w][d.e][k] = "failed"
  PROVE  Hooks!TriesInv' /\ Hooks!OneOutcome'
<1> USE RetriesAssumption
<1>1. d \in Hooks!Try /\ tries \subseteq Hooks!Try
  BY DEF Hooks!TypeOK
<1>2. d.w \in Links /\ d.e \in Happenings /\ d.e \in sent
  BY <1>1, Hooks!TryInv(d) DEF Hooks!Try, Hooks!TriesInv, Hooks!TryInv
<1>3. \A b \in tries \ {d} : b.w # d.w \/ b.e # d.e
  BY DEF Hooks!TriesInv
<1>4. Hooks!TriesInv'
  <2>1. \A b \in tries \ {d} : Hooks!TryInv(b)'
    <3>1. TAKE b \in tries \ {d}
    <3>2. answers'[b.w][b.e] = answers[b.w][b.e]
      BY <1>1, <1>3 DEF Hooks!Try
    <3>3. Hooks!TryInv(b) /\ Hooks!Before(b)' = Hooks!Before(b)
      BY DEF Hooks!TriesInv, Hooks!Before
    <3>4. QED BY <3>2, <3>3 DEF Hooks!TryInv
  <2>2. \A b, a \in tries' : b.w = a.w /\ b.e = a.e => b = a
    BY <1>3 DEF Hooks!TriesInv
  <2>3. \A w \in Links, e \in Happenings \ sent' : answers'[w][e] = <<>>
    BY <1>2 DEF Hooks!TriesInv
  <2>4. QED BY <2>1, <2>2, <2>3 DEF Hooks!TriesInv
<1>5. Hooks!OneOutcome'
  <2>1. ASSUME NEW w \in Links, NEW e \in Happenings, w # d.w \/ e # d.e
        PROVE  LET a == answers'[w][e]  n == Len(a) IN
               /\ n <= Retries + 1 /\ \A k \in 1..(n - 1) : a[k] = "failed"
               /\ (n > 0 /\ e \notin tested' /\ <<w, e>> \notin lost' /\ \A b \in tries' : b.w # w \/ b.e # e)
                     => a[n] # "failed" \/ n = Retries + 1
    <3>1. (\A b \in tries' : b.w # w \/ b.e # e) => \A b \in tries : b.w # w \/ b.e # e
      BY <2>1
    <3>2. answers'[w][e] = answers[w][e]
      BY <2>1
    <3>3. QED BY <3>1, <3>2 DEF Hooks!OneOutcome
  <2>2. LET a == answers'[d.w][d.e]  n == Len(a) IN
        /\ n <= Retries + 1 /\ \A k \in 1..(n - 1) : a[k] = "failed"
        /\ ~ \A b \in tries' : b.w # d.w \/ b.e # d.e
    <3>1. ~ \A b \in tries' : b.w # d.w \/ b.e # d.e
      OBVIOUS
    <3>2. CASE c.at = "post"
      BY <3>1, <3>2
    <3>3. CASE c.at # "post"
      BY <3>1, <3>3 DEF Hooks!TryInv
    <3>4. QED BY <3>2, <3>3
  <2>3. QED BY <2>1, <2>2 DEF Hooks!OneOutcome
<1>6. QED BY <1>4, <1>5

\* What the fields of a delivery are after its steps.
LEMMA HooksFields ==
  ASSUME NEW d \in Hooks!Try, NEW at \in {"post", "count", "off", "next"}, NEW ok \in BOOLEAN, NEW again \in BOOLEAN
  PROVE  /\ LET c == [d EXCEPT !.at = at] IN
            c.w = d.w /\ c.e = d.e /\ c.attempt = d.attempt /\ c.at = at /\ (c.ok <=> d.ok) /\ (c.again <=> d.again)
         /\ LET c == [d EXCEPT !.at = at, !.ok = ok, !.again = again] IN
            c.w = d.w /\ c.e = d.e /\ c.attempt = d.attempt /\ c.at = at /\ (c.ok <=> ok) /\ (c.again <=> again)
         /\ LET c == [d EXCEPT !.at = at, !.attempt = @ + 1, !.ok = ok, !.again = again] IN
            c.w = d.w /\ c.e = d.e /\ c.attempt = d.attempt + 1 /\ c.at = at
<1>1. LET c == [d EXCEPT !.at = at] IN
      c.w = d.w /\ c.e = d.e /\ c.attempt = d.attempt /\ c.at = at /\ (c.ok <=> d.ok) /\ (c.again <=> d.again)
  BY DEF Hooks!Try
<1>2. LET c == [d EXCEPT !.at = at, !.ok = ok, !.again = again] IN
      c.w = d.w /\ c.e = d.e /\ c.attempt = d.attempt /\ c.at = at /\ (c.ok <=> ok) /\ (c.again <=> again)
  BY DEF Hooks!Try
<1>3. LET c == [d EXCEPT !.at = at, !.attempt = @ + 1, !.ok = ok, !.again = again] IN
      c.w = d.w /\ c.e = d.e /\ c.attempt = d.attempt + 1 /\ c.at = at
  BY DEF Hooks!Try
<1>4. QED BY <1>1, <1>2, <1>3

\* Every action keeps to what the deliveries know, and an event is over for
\* a link in one of the ways there are.
LEMMA HooksOutcomes == ASSUME Hooks!TypeOK, Hooks!TypeOK', Hooks!TriesInv, Hooks!OneOutcome, [Hooks!Next]_hooks PROVE Hooks!TriesInv' /\ Hooks!OneOutcome'
<1> USE RetriesAssumption
<1>1. CASE UNCHANGED <<tries, answers, sent, tested, lost>>
  <2>1. \A d : Hooks!TryInv(d) => Hooks!TryInv(d)'
    BY <1>1 DEF Hooks!TryInv, Hooks!Before
  <2>2. QED BY <1>1, <2>1 DEF Hooks!TriesInv, Hooks!OneOutcome
<1>2. ASSUME NEW e \in Happenings, Hooks!dispatch(e) PROVE Hooks!TriesInv' /\ Hooks!OneOutcome'
  <2>1. /\ e \notin sent /\ sent' = sent \cup {e} /\ UNCHANGED <<answers, tested, lost>>
        /\ tries' = tries \cup {Hooks!Delivery(w, e) : w \in Hooks!subscribers}
    BY <1>2 DEF Hooks!dispatch
  <2>2. \A d \in tries : d.e # e
    BY <2>1 DEF Hooks!TriesInv, Hooks!TryInv
  <2>3. ASSUME NEW d \in tries, Hooks!TryInv(d) PROVE Hooks!TryInv(d)'
    BY <2>1, <2>3 DEF Hooks!TryInv, Hooks!Before
  <2>4. ASSUME NEW w \in Hooks!subscribers, NEW d, d = Hooks!Delivery(w, e) PROVE Hooks!TryInv(d)'
    <3>1. w \in Links /\ answers[w][e] = <<>> /\ e \notin tested
      BY <2>1 DEF Hooks!subscribers, Hooks!Live, Hooks!TriesInv, Hooks!TypeOK
    <3>2. d.w = w /\ d.e = e /\ d.at = "post" /\ d.attempt = 0
      BY <2>4, <3>1, HooksDelivery
    <3>3. Hooks!Before(d)' = 0
      BY <2>1, <3>1, <3>2 DEF Hooks!Before
    <3>4. answers'[d.w][d.e] = <<>> /\ d.e \in sent' /\ d.e \notin tested'
      BY <2>1, <3>1, <3>2
    <3>5. QED BY <3>2, <3>3, <3>4 DEF Hooks!TryInv
  <2>5. \A w \in Hooks!subscribers : Hooks!Delivery(w, e).w = w /\ Hooks!Delivery(w, e).e = e
    BY HooksDelivery DEF Hooks!subscribers, Hooks!Live
  <2>6. Hooks!TriesInv'
    <3>1. \A d, c \in tries' : d.w = c.w /\ d.e = c.e => d = c
      <4>1. \A d, c \in tries : d.w = c.w /\ d.e = c.e => d = c
        BY DEF Hooks!TriesInv
      <4>2. \A d \in tries' \ tries : \E w \in Hooks!subscribers : d = Hooks!Delivery(w, e) /\ d.w = w /\ d.e = e
        BY <2>1, <2>5
      <4>3. QED BY <2>2, <4>1, <4>2
    <3>2. \A d \in tries' : Hooks!TryInv(d)'
      BY <2>1, <2>3, <2>4 DEF Hooks!TriesInv
    <3>3. \A w \in Links, f \in Happenings \ sent' : answers'[w][f] = <<>>
      BY <2>1 DEF Hooks!TriesInv
    <3>4. QED BY <3>1, <3>2, <3>3 DEF Hooks!TriesInv
  <2>7. QED BY <2>1, <2>6 DEF Hooks!OneOutcome
<1>3. ASSUME NEW w \in Links, NEW e \in Happenings, Hooks!testWebhook(w, e) PROVE Hooks!TriesInv' /\ Hooks!OneOutcome'
  <2>1. PICK c : /\ c = [Hooks!Delivery(w, e) EXCEPT !.attempt = Retries]
                 /\ c.w = w /\ c.e = e /\ c.at = "post" /\ c.attempt = Retries
    BY HooksDelivery
  <2>2. /\ e \notin sent /\ sent' = sent \cup {e} /\ tested' = tested \cup {e} /\ UNCHANGED <<answers, lost>>
        /\ tries' = tries \cup {c}
    BY <1>3, <2>1 DEF Hooks!testWebhook
  <2>3. \A d \in tries : d.e # e
    BY <2>2 DEF Hooks!TriesInv, Hooks!TryInv
  <2>4. ASSUME NEW d \in tries, Hooks!TryInv(d) PROVE Hooks!TryInv(d)'
    BY <2>2, <2>3, <2>4 DEF Hooks!TryInv, Hooks!Before
  <2>5. Hooks!TryInv(c)'
    <3>1. answers[w][e] = <<>> /\ Hooks!Before(c)' = 0
      BY <2>1, <2>2 DEF Hooks!TriesInv, Hooks!Before
    <3>2. QED BY <2>1, <2>2, <3>1 DEF Hooks!TryInv
  <2>6. Hooks!TriesInv'
    <3>1. \A d, f \in tries' : d.w = f.w /\ d.e = f.e => d = f
      <4>1. \A d, f \in tries : d.w = f.w /\ d.e = f.e => d = f
        BY DEF Hooks!TriesInv
      <4>2. \A d \in tries : d.e # c.e
        BY <2>1, <2>3
      <4>3. QED BY ONLY <2>2, <4>1, <4>2
    <3>2. \A d \in tries' : Hooks!TryInv(d)'
      BY <2>2, <2>4, <2>5 DEF Hooks!TriesInv
    <3>3. \A v \in Links, f \in Happenings \ sent' : answers'[v][f] = <<>>
      BY <2>2 DEF Hooks!TriesInv
    <3>4. QED BY <3>1, <3>2, <3>3 DEF Hooks!TriesInv
  <2>7. QED BY <2>2, <2>6 DEF Hooks!OneOutcome
<1>4. ASSUME NEW d \in tries, Hooks!post(d) PROVE Hooks!TriesInv' /\ Hooks!OneOutcome'
  <2>1. PICK answer \in {"ok", "refused", "failed"} :
          /\ Hooks!Become(d, {[d EXCEPT !.at = "count", !.ok = (answer = "ok"), !.again = (answer = "failed")]})
          /\ answers' = [answers EXCEPT ![d.w][d.e] = Append(@, answer)]
    BY <1>4 DEF Hooks!post
  <2>2. d \in Hooks!Try /\ d.w \in Links /\ d.e \in Happenings /\ answers[d.w][d.e] \in Seq({"ok", "refused", "failed"})
    BY DEF Hooks!Try, Hooks!TypeOK
  <2>3. PICK c \in Hooks!Try : /\ c = [d EXCEPT !.at = "count", !.ok = (answer = "ok"), !.again = (answer = "failed")]
                               /\ c.w = d.w /\ c.e = d.e /\ c.attempt = d.attempt /\ c.at = "count"
                               /\ (c.ok <=> answer = "ok") /\ (c.again <=> answer = "failed")
    <3>1. (answer = "ok") \in BOOLEAN /\ (answer = "failed") \in BOOLEAN /\ "count" \in {"post", "count", "off", "next"}
      OBVIOUS
    <3>2. [d EXCEPT !.at = "count", !.ok = (answer = "ok"), !.again = (answer = "failed")] \in Hooks!Try
      BY <2>2, <3>1, HooksMoves
    <3>3. LET c == [d EXCEPT !.at = "count", !.ok = (answer = "ok"), !.again = (answer = "failed")] IN
          /\ c.w = d.w /\ c.e = d.e /\ c.attempt = d.attempt /\ c.at = "count"
          /\ (c.ok <=> (answer = "ok")) /\ (c.again <=> (answer = "failed"))
      <4>1. PICK yes \in BOOLEAN, late \in BOOLEAN : yes = (answer = "ok") /\ late = (answer = "failed")
        OBVIOUS
      <4>2. LET c == [d EXCEPT !.at = "count", !.ok = yes, !.again = late] IN
            /\ c.w = d.w /\ c.e = d.e /\ c.attempt = d.attempt /\ c.at = "count"
            /\ (c.ok <=> yes) /\ (c.again <=> late)
        BY <2>2, HooksFields
      <4>3. QED BY <4>1, <4>2
    <3>4. QED BY <3>2, <3>3
  <2>4. d.at = "post" /\ tries' = (tries \ {d}) \cup {c} /\ UNCHANGED <<sent, tested, lost>>
    BY <1>4, <2>1, <2>3 DEF Hooks!post, Hooks!Become
  <2>5. PICK a \in Seq({"ok", "refused", "failed"}) : a = answers[d.w][d.e]
    BY <2>2
  <2>6. /\ answers'[d.w][d.e] = Append(a, answer)
        /\ \A w \in Links, e \in Happenings : w # d.w \/ e # d.e => answers'[w][e] = answers[w][e]
    BY <2>1, <2>2, <2>5 DEF Hooks!TypeOK
  <2>7. Hooks!TryInv(d) /\ Hooks!Before(c)' = Hooks!Before(d) /\ Hooks!Before(d) \in 0..Retries
    BY <2>3, <2>4, HooksBefore DEF Hooks!Before, Hooks!TriesInv
  <2>8. Hooks!TryInv(c)'
    <3>1. Len(a) = Hooks!Before(d) /\ (\A k \in 1..Hooks!Before(d) : a[k] = "failed") /\ Hooks!Last(c) = answer
      BY <2>3, <2>4, <2>5, <2>7 DEF Hooks!TryInv, Hooks!Last
    <3>2. /\ Len(Append(a, answer)) = Hooks!Before(d) + 1 /\ Append(a, answer)[Hooks!Before(d) + 1] = answer
          /\ \A k \in 1..Hooks!Before(d) : Append(a, answer)[k] = "failed"
      BY <2>7, <3>1
    <3>3. d.e \in sent /\ (d.e \in tested => d.attempt = Retries)
      BY <2>7 DEF Hooks!TryInv
    <3>4. QED BY <2>3, <2>4, <2>6, <2>7, <3>1, <3>2, <3>3 DEF Hooks!TryInv, Hooks!Last
  <2>9. QED BY <2>3, <2>4, <2>6, <2>7, <2>8, HooksOneMoves
<1>5. ASSUME NEW d \in tries, Hooks!CountAnswer(d) \/ Hooks!SwitchOff(d) PROVE Hooks!TriesInv' /\ Hooks!OneOutcome'
  <2>1. d \in Hooks!Try /\ d.at # "post" /\ UNCHANGED <<answers, sent, tested, lost>>
    BY <1>5 DEF Hooks!CountAnswer, Hooks!SwitchOff, Hooks!TypeOK
  <2>2. PICK at \in {"off", "next"} : tries' = (tries \ {d}) \cup {[d EXCEPT !.at = at]}
    BY <1>5 DEF Hooks!CountAnswer, Hooks!SwitchOff, Hooks!Become
  <2>3. PICK c \in Hooks!Try : /\ c = [d EXCEPT !.at = at] /\ c.w = d.w /\ c.e = d.e /\ c.attempt = d.attempt /\ c.at = at
                               /\ (c.ok <=> d.ok) /\ (c.again <=> d.again)
    <3>1. at \in {"post", "count", "off", "next"}
      OBVIOUS
    <3>2. [d EXCEPT !.at = at] \in Hooks!Try
      BY <2>1, <3>1, HooksMoves
    <3>3. LET c == [d EXCEPT !.at = at] IN
          c.w = d.w /\ c.e = d.e /\ c.attempt = d.attempt /\ c.at = at /\ (c.ok <=> d.ok) /\ (c.again <=> d.again)
      BY <2>1, <3>1, HooksFields
    <3>4. QED BY <3>2, <3>3
  <2>4. Hooks!TryInv(d) /\ Hooks!Before(c)' = Hooks!Before(d) /\ Hooks!Before(d) \in 0..Retries /\ Hooks!Last(c) = Hooks!Last(d)
    BY <2>1, <2>3, HooksBefore DEF Hooks!Before, Hooks!TriesInv, Hooks!Last
  <2>5. Hooks!TryInv(c)'
    BY <2>1, <2>3, <2>4 DEF Hooks!TryInv, Hooks!Last
  <2>6. QED BY <2>1, <2>2, <2>3, <2>4, <2>5, HooksOneMoves
<1>6. ASSUME NEW d \in tries, Hooks!deliverWithRetry(d) PROVE Hooks!TriesInv' /\ Hooks!OneOutcome'
  <2>1. d \in Hooks!Try /\ d.at = "next" /\ UNCHANGED <<answers, sent, tested, lost>> /\ d.w \in Links /\ d.e \in Happenings
    BY <1>6 DEF Hooks!deliverWithRetry, Hooks!TypeOK, Hooks!Try
  <2>2. PICK a \in Seq({"ok", "refused", "failed"}) : a = answers[d.w][d.e]
    BY <2>1 DEF Hooks!TypeOK
  <2>3. /\ Hooks!Before(d) \in 0..Retries /\ (d.e \notin tested => Hooks!Before(d) = d.attempt) /\ d.attempt \in 0..Retries
        /\ d.e \in sent /\ (d.e \in tested => d.attempt = Retries)
        /\ Len(a) = Hooks!Before(d) + 1 /\ (\A k \in 1..Hooks!Before(d) : a[k] = "failed") /\ a[Len(a)] = Hooks!Last(d)
    BY <2>1, <2>2, HooksBefore DEF Hooks!TriesInv, Hooks!TryInv, Hooks!Try
  <2>4. CASE Hooks!TriesAgain(d)
    <3>1. d.again /\ d.attempt < Retries /\ d.e \notin tested
      BY <2>3, <2>4 DEF Hooks!TriesAgain, Hooks!MoreTries
    <3>2. PICK c \in Hooks!Try : /\ c = [d EXCEPT !.at = "post", !.attempt = @ + 1, !.ok = FALSE, !.again = FALSE]
                                 /\ c.w = d.w /\ c.e = d.e /\ c.attempt = d.attempt + 1 /\ c.at = "post"
      <4>1. [d EXCEPT !.at = "post", !.attempt = @ + 1, !.ok = FALSE, !.again = FALSE] \in Hooks!Try
        BY <2>1, <3>1, HooksMoves
      <4>2. LET c == [d EXCEPT !.at = "post", !.attempt = @ + 1, !.ok = FALSE, !.again = FALSE] IN
            c.w = d.w /\ c.e = d.e /\ c.attempt = d.attempt + 1 /\ c.at = "post"
        BY <2>1, HooksFields
      <4>3. QED BY <4>1, <4>2
    <3>3. tries' = (tries \ {d}) \cup {c}
      BY <1>6, <2>4, <3>2 DEF Hooks!deliverWithRetry, Hooks!Become
    <3>4. Hooks!Before(c)' = d.attempt + 1 /\ d.attempt + 1 \in 0..Retries /\ Hooks!Before(d) = d.attempt
      BY <2>1, <2>3, <3>1, <3>2 DEF Hooks!Before
    <3>5. \A k \in 1..(d.attempt + 1) : a[k] = "failed"
      BY <2>3, <3>1, <3>4 DEF Hooks!Last
    <3>6. Hooks!TryInv(c)'
      BY <2>1, <2>2, <2>3, <3>1, <3>2, <3>4, <3>5 DEF Hooks!TryInv
    <3>7. Len(a) <= Retries + 1 /\ \A k \in 1..(Len(a) - 1) : a[k] = "failed"
      BY <2>3
    <3>8. QED BY <2>1, <2>2, <3>2, <3>3, <3>4, <3>6, <3>7, HooksOneMoves
  <2>5. CASE ~Hooks!TriesAgain(d)
    <3>1. tries' = tries \ {d}
      BY <1>6, <2>5 DEF Hooks!deliverWithRetry, Hooks!Become
    <3>2. \A b : Hooks!TryInv(b) => Hooks!TryInv(b)'
      BY <2>1 DEF Hooks!TryInv, Hooks!Before
    <3>3. Hooks!TriesInv'
      BY <2>1, <3>1, <3>2 DEF Hooks!TriesInv
    <3>4. d.e \notin tested => a[Len(a)] # "failed" \/ Len(a) = Retries + 1
      BY <2>3, <2>5 DEF Hooks!TriesAgain, Hooks!MoreTries, Hooks!Last
    <3>5. ASSUME NEW w \in Links, NEW e \in Happenings, w # d.w \/ e # d.e, \A b \in tries' : b.w # w \/ b.e # e
          PROVE  \A b \in tries : b.w # w \/ b.e # e
      BY <3>1, <3>5
    <3>6. QED BY <2>1, <2>2, <3>3, <3>4, <3>5 DEF Hooks!OneOutcome
  <2>6. QED BY <2>4, <2>5
<1>7. ASSUME Hooks!Restart PROVE Hooks!TriesInv' /\ Hooks!OneOutcome'
  <2>1. tries' = {} /\ UNCHANGED <<answers, sent, tested>> /\ lost' = lost \cup {<<d.w, d.e>> : d \in tries}
    BY <1>7 DEF Hooks!Restart
  <2>2. Hooks!TriesInv'
    BY <2>1 DEF Hooks!TriesInv
  <2>3. ASSUME NEW w \in Links, NEW e \in Happenings, <<w, e>> \notin lost'
        PROVE  <<w, e>> \notin lost /\ \A d \in tries : d.w # w \/ d.e # e
    BY <2>1, <2>3
  <2>4. QED BY <2>1, <2>2, <2>3 DEF Hooks!OneOutcome
<1>8. ASSUME NEW r \in Calls, Hooks!CountKeys(r) \/ Hooks!createKey(r) \/ Hooks!CountLinks(r) \/ Hooks!createWebhook(r)
      PROVE  Hooks!TriesInv' /\ Hooks!OneOutcome'
  BY <1>1, <1>8 DEF Hooks!CountKeys, Hooks!createKey, Hooks!CountLinks, Hooks!createWebhook
<1>9. ASSUME NEW k \in Keys, Hooks!revokeKey(k) \/ Hooks!requireApiKey(k) PROVE Hooks!TriesInv' /\ Hooks!OneOutcome'
  BY <1>1, <1>9 DEF Hooks!revokeKey, Hooks!requireApiKey
<1>10. ASSUME NEW w \in Links, Hooks!updateWebhook(w) \/ Hooks!rotateSecret(w) \/ Hooks!deleteWebhook(w) PROVE Hooks!TriesInv' /\ Hooks!OneOutcome'
  BY <1>1, <1>10 DEF Hooks!updateWebhook, Hooks!rotateSecret, Hooks!deleteWebhook
<1>11. ASSUME UNCHANGED hooks PROVE Hooks!TriesInv' /\ Hooks!OneOutcome'
  BY <1>1, <1>11 DEF hooks
<1>12. QED
  BY <1>2, <1>3, <1>4, <1>5, <1>6, <1>7, <1>8, <1>9, <1>10, <1>11 DEF Hooks!Next

LEMMA HooksStep == Hooks!HooksInv /\ [Hooks!Next]_hooks => Hooks!HooksInv'
<1> SUFFICES ASSUME Hooks!HooksInv, [Hooks!Next]_hooks PROVE Hooks!HooksInv'
  OBVIOUS
<1>1. Hooks!TypeOK'
  BY HooksTypes DEF Hooks!HooksInv
<1>2. Hooks!OnMeansHealthy'
  BY HooksHealthy DEF Hooks!HooksInv
<1>3. Hooks!TriesInv' /\ Hooks!OneOutcome'
  BY <1>1, HooksOutcomes DEF Hooks!HooksInv
<1>4. QED BY <1>1, <1>2, <1>3 DEF Hooks!HooksInv

LEMMA HooksStart == Hooks!Init => Hooks!HooksInv
<1> SUFFICES ASSUME Hooks!Init PROVE Hooks!HooksInv
  OBVIOUS
<1>1. Hooks!TypeOK
  BY HooksFresh DEF Hooks!Init, Hooks!TypeOK
<1>2. Hooks!OnMeansHealthy
  BY HooksFresh DEF Hooks!Init, Hooks!OnMeansHealthy, Hooks!Live
<1>3. Hooks!OneOutcome
  BY RetriesAssumption DEF Hooks!Init, Hooks!OneOutcome
<1>4. Hooks!TriesInv
  BY DEF Hooks!Init, Hooks!TriesInv
<1>5. QED BY <1>1, <1>2, <1>3, <1>4 DEF Hooks!HooksInv

-----------------------------------------------------------------------------
(* The AI studio.                                                          *)
ToolPlaces == {"debit"} \cup AI!Working \cup AI!Ended

\* A request's entries are its own, and of their kind.
LEMMA StudioEntries ==
  ASSUME NEW r \in Briefs
  PROVE  /\ \A q \in Briefs \ {r} : AI!Spent(q) # AI!Spent(r) /\ AI!Refund(q) # AI!Refund(r)
         /\ \A q \in Briefs : /\ AI!Spent(q) # AI!Refund(r) /\ AI!Spent(q) # AI!Noted(r) /\ AI!Refund(q) # AI!Spent(r) /\ AI!Refund(q) # AI!Noted(r)
         /\ {AI!Spent(r), AI!Refund(r), AI!Noted(r)} \subseteq [kind : {"spend", "refund", "noted"}, of : Briefs]
BY DEF AI!Spent, AI!Refund, AI!Noted

\* A request that moves keeps its tool, and the others stay.
LEMMA StudioGoto ==
  ASSUME AI!TypeOK, NEW r \in Briefs, NEW place \in ToolPlaces, AI!Goto(r, place)
  PROVE  /\ tool' \in [Briefs -> [at : ToolPlaces, tool : AI!Tools, tried : Nat]]
         /\ tool'[r].at = place /\ tool'[r].tool = tool[r].tool /\ \A q \in Briefs \ {r} : tool'[q] = tool[q]
BY DEF AI!TypeOK, AI!Goto, ToolPlaces

\* What is true of a request stays so while nothing of its own changes.
LEMMA StudioOthers ==
  ASSUME NEW q \in Briefs, AI!ChargeInv(q), AI!PaysForAnswer(q), tool'[q] = tool[q], owner' = owner,
         AI!Spent(q) \in ledger' <=> AI!Spent(q) \in ledger, AI!Refund(q) \in ledger' <=> AI!Refund(q) \in ledger,
         q \in rows' <=> q \in rows, q \in files' <=> q \in files, q \in unreturned => q \in unreturned'
  PROVE  AI!ChargeInv(q)' /\ AI!PaysForAnswer(q)'
<1>1. AI!ChargeInv(q)'
  BY DEF AI!ChargeInv
<1>2. AI!PaysForAnswer(q)'
  BY DEF AI!PaysForAnswer, AI!Charged
<1>3. QED BY <1>1, <1>2

-----------------------------------------------------------------------------
\* What the tools have cost is a number, and it depends on who is charged.
LEMMA StudioKept ==
  ASSUME AI!TypeOK, NEW t \in AI!Tools
  PROVE  IsFiniteSet(AI!Uses(t)) /\ Cardinality(AI!Uses(t)) \in Nat /\ Cost[t] \in Nat \ {0} /\ AI!Kept(t) \in Nat
<1>1. AI!Uses(t) \subseteq Briefs
  BY DEF AI!Uses
<1>2. IsFiniteSet(AI!Uses(t)) /\ Cardinality(AI!Uses(t)) \in Nat
  BY <1>1, BriefsAssumption, FS_Subset, FS_CardinalityType
<1>3. QED BY <1>2, CostAssumption, StudioCount DEF AI!Kept

KeptInAll == AI!Kept("copy") + AI!Kept("reply") + AI!Kept("audit") + AI!Kept("image")

\* The sum moves with one tool.
LEMMA StudioSum ==
  ASSUME AI!TypeOK, NEW t \in AI!Tools, NEW n \in Int, AI!Kept(t)' = AI!Kept(t) + n, \A u \in AI!Tools \ {t} : AI!Kept(u)' = AI!Kept(u)
  PROVE  KeptInAll' = KeptInAll + n
<1>1. AI!Kept("copy") \in Nat /\ AI!Kept("reply") \in Nat /\ AI!Kept("audit") \in Nat /\ AI!Kept("image") \in Nat
  BY StudioKept DEF AI!Tools
<1>2. QED BY <1>1 DEF AI!Tools, KeptInAll
LEMMA StudioSame ==
  ASSUME AI!TypeOK, \A t \in AI!Tools : AI!Uses(t)' = AI!Uses(t)
  PROVE  KeptInAll' = KeptInAll
<1>1. \A t \in AI!Tools : AI!Kept(t)' = AI!Kept(t)
  BY DEF AI!Kept
<1>2. AI!Kept("copy")' = AI!Kept("copy") + 0
  BY <1>1, StudioKept DEF AI!Tools
<1>3. KeptInAll' = KeptInAll + 0 /\ KeptInAll \in Int
  BY <1>1, StudioKept DEF AI!Tools, KeptInAll
<1>4. QED BY <1>3

\* One more request is charged for a tool, or one fewer.
LEMMA StudioMore ==
  ASSUME AI!TypeOK, NEW r \in Briefs, NEW t \in AI!Tools, r \notin AI!Uses(t),
         AI!Uses(t)' = AI!Uses(t) \cup {r}, \A u \in AI!Tools \ {t} : AI!Uses(u)' = AI!Uses(u)
  PROVE  KeptInAll' = KeptInAll + Cost[t]
<1>1. Cardinality(AI!Uses(t) \cup {r}) = Cardinality(AI!Uses(t)) + 1
  BY StudioKept, FS_AddElement
<1>2. PICK c \in Nat, n \in Nat : c = Cost[t] /\ n = Cardinality(AI!Uses(t))
  BY StudioKept
<1>3. AI!Kept(t)' = c * (n + 1) /\ AI!Kept(t) = c * n
  BY <1>1, <1>2, StudioCount DEF AI!Kept
<1>4. c * (n + 1) = c * n + c
  BY <1>2
<1>5. AI!Kept(t)' = AI!Kept(t) + Cost[t] /\ Cost[t] \in Int
  BY <1>2, <1>3, <1>4
<1>6. \A u \in AI!Tools \ {t} : AI!Kept(u)' = AI!Kept(u)
  BY DEF AI!Kept
<1>7. QED BY <1>5, <1>6, StudioSum
LEMMA StudioFewer ==
  ASSUME AI!TypeOK, NEW r \in Briefs, NEW t \in AI!Tools, r \in AI!Uses(t),
         AI!Uses(t)' = AI!Uses(t) \ {r}, \A u \in AI!Tools \ {t} : AI!Uses(u)' = AI!Uses(u)
  PROVE  KeptInAll' = KeptInAll - Cost[t]
<1>1. Cardinality(AI!Uses(t) \ {r}) = Cardinality(AI!Uses(t)) - 1
  BY StudioKept, FS_RemoveElement
<1>2. PICK c \in Nat, n \in Nat : c = Cost[t] /\ n = Cardinality(AI!Uses(t))
  BY StudioKept
<1>3. AI!Kept(t)' = c * (n - 1) /\ AI!Kept(t) = c * n
  BY <1>1, <1>2, StudioCount DEF AI!Kept
<1>4. c * (n - 1) = c * n + (0 - c)
  BY <1>2
<1>5. AI!Kept(t)' = AI!Kept(t) + (0 - c) /\ 0 - c \in Int
  BY <1>2, <1>3, <1>4
<1>6. \A u \in AI!Tools \ {t} : AI!Kept(u)' = AI!Kept(u)
  BY DEF AI!Kept
<1>7. KeptInAll' = KeptInAll + (0 - c)
  BY <1>5, <1>6, StudioSum
<1>8. KeptInAll \in Int
  BY StudioKept DEF KeptInAll, AI!Tools
<1>9. QED BY <1>2, <1>7, <1>8

-----------------------------------------------------------------------------
\* The credits of the company, without a request.
LEMMA StudioCredits ==
  ASSUME AI!StudioInv, (\E ok \in BOOLEAN : AI!GiveNewCompany(ok)) \/ (\E n \in Grants : AI!Grant(n))
  PROVE  AI!StudioInv'
<1> USE CostAssumption
<1>1. AI!TypeOK /\ AI!PaidForWork /\ \A q \in Briefs : AI!ChargeInv(q)
  BY DEF AI!StudioInv
<1>2. PICK n \in Int : /\ balance' = balance + n /\ granted' = granted + n /\ balance + n >= 0
                       /\ trial' \in {"due", "given", "missed"} /\ UNCHANGED <<owner, ledger, rows, files, tool, unreturned>>
  <2>1. CASE \E ok \in BOOLEAN : AI!GiveNewCompany(ok)
    <3>1. balance \in Int /\ granted \in Int /\ balance >= 0
      BY <1>1 DEF AI!TypeOK, AI!PaidForWork
    <3>2. CASE trial' = "given"
      BY <2>1, <3>1, <3>2 DEF AI!GiveNewCompany
    <3>3. CASE trial' # "given"
      <4>1. balance' = balance + 0 /\ granted' = granted + 0 /\ trial' = "missed" /\ UNCHANGED <<owner, ledger, rows, files, tool, unreturned>>
        BY <2>1, <3>1, <3>3 DEF AI!GiveNewCompany
      <4>2. QED BY <3>1, <4>1
    <3>4. QED BY <3>2, <3>3
  <2>2. CASE \E n \in Grants : AI!Grant(n)
    BY <1>1, <2>2 DEF AI!Grant, AI!apply, AI!Covers, AI!TypeOK
  <2>3. QED BY <2>1, <2>2
<1>3. AI!TypeOK'
  BY <1>1, <1>2 DEF AI!TypeOK
<1>4. \A q \in Briefs : AI!ChargeInv(q)' /\ AI!PaysForAnswer(q)'
  BY <1>1, <1>2, StudioOthers DEF AI!PaidForWork
<1>5. KeptInAll' = KeptInAll
  <2>1. \A t \in AI!Tools : AI!Uses(t)' = AI!Uses(t)
    BY <1>2 DEF AI!Uses, AI!Charged
  <2>2. QED BY <1>1, <2>1, StudioSame
<1>6. balance' >= 0 /\ balance' = granted' - KeptInAll'
  <2>1. KeptInAll \in Int /\ balance \in Int /\ granted \in Int /\ balance = granted - KeptInAll
    BY <1>1, StudioKept DEF AI!TypeOK, AI!PaidForWork, KeptInAll, AI!Tools
  <2>2. QED BY <1>2, <1>5, <2>1
<1>7. AI!PaidForWork'
  BY <1>4, <1>6 DEF AI!PaidForWork, KeptInAll
<1>8. QED BY <1>3, <1>4, <1>7 DEF AI!StudioInv

\* A step of a request that moves no credits.
LEMMA StudioFree ==
  ASSUME AI!StudioInv, NEW r \in Briefs, AI!TypeOK', UNCHANGED <<owner, balance, granted>>,
         \A q \in Briefs : AI!Spent(q) \in ledger' <=> AI!Spent(q) \in ledger,
         \A q \in Briefs : AI!Refund(q) \in ledger' <=> AI!Refund(q) \in ledger,
         \A q \in Briefs \ {r} : tool'[q] = tool[q] /\ (q \in rows' <=> q \in rows) /\ (q \in files' <=> q \in files) /\ (q \in unreturned => q \in unreturned'),
         tool'[r].tool = tool[r].tool \/ ~AI!Charged(r),
         AI!ChargeInv(r)', AI!PaysForAnswer(r)'
  PROVE  AI!StudioInv'
<1>1. AI!TypeOK /\ AI!PaidForWork /\ \A q \in Briefs : AI!ChargeInv(q)
  BY DEF AI!StudioInv
<1>2. \A q \in Briefs : AI!ChargeInv(q)' /\ AI!PaysForAnswer(q)'
  <2>1. TAKE q \in Briefs
  <2>2. CASE q = r
    BY <2>2
  <2>3. CASE q # r
    BY <1>1, <2>3, StudioOthers DEF AI!PaidForWork
  <2>4. QED BY <2>2, <2>3
<1>3. \A t \in AI!Tools : AI!Uses(t)' = AI!Uses(t)
  <2>1. \A q \in Briefs : AI!Charged(q)' <=> AI!Charged(q)
    BY DEF AI!Charged
  <2>2. \A q \in Briefs : AI!Charged(q) => tool'[q].tool = tool[q].tool
    OBVIOUS
  <2>3. QED BY <2>1, <2>2 DEF AI!Uses
<1>4. KeptInAll' = KeptInAll
  BY <1>1, <1>3, StudioSame
<1>5. AI!PaidForWork'
  BY <1>1, <1>2, <1>4 DEF AI!PaidForWork, KeptInAll
<1>6. QED BY <1>2, <1>5 DEF AI!StudioInv

LEMMA StudioAsk ==
  ASSUME AI!StudioInv, NEW r \in Briefs, NEW t \in AI!Tools, AI!Ask(r, t)
  PROVE  AI!StudioInv'
<1>1. AI!TypeOK /\ AI!ChargeInv(r)
  BY DEF AI!StudioInv
<1>2. /\ tool[r].at = "idle" /\ tool' = [tool EXCEPT ![r] = [at |-> "debit", tool |-> t, tried |-> 0]]
      /\ UNCHANGED <<owner, balance, ledger, granted, trial, rows, files, unreturned>>
  BY DEF AI!Ask, AI!NewJob, AI!credits
<1>3. /\ tool' \in [Briefs -> [at : ToolPlaces, tool : AI!Tools, tried : Nat]]
      /\ tool'[r].at = "debit" /\ \A q \in Briefs \ {r} : tool'[q] = tool[q]
  BY <1>1, <1>2 DEF AI!TypeOK, ToolPlaces
<1>4. AI!TypeOK'
  BY <1>1, <1>2, <1>3 DEF AI!TypeOK, ToolPlaces
<1>5. AI!Spent(r) \notin ledger /\ AI!Refund(r) \notin ledger
  BY <1>1, <1>2 DEF AI!ChargeInv
<1>6. AI!ChargeInv(r)' /\ AI!PaysForAnswer(r)' /\ ~AI!Charged(r)
  BY <1>2, <1>3, <1>5 DEF AI!ChargeInv, AI!PaysForAnswer, AI!Charged, AI!Working, AI!Ended
<1>7. QED BY <1>2, <1>3, <1>4, <1>6, StudioFree

\* Generate, GenerateFails, Create, CreateFails, Save, SaveFails.
LEMMA StudioWorks ==
  ASSUME AI!StudioInv, NEW r \in Briefs,
         AI!Generate(r) \/ AI!GenerateFails(r) \/ AI!Create(r) \/ AI!CreateFails(r) \/ AI!Save(r) \/ AI!SaveFails(r)
  PROVE  AI!StudioInv'
<1>1. AI!TypeOK /\ AI!ChargeInv(r)
  BY DEF AI!StudioInv
<1>2. PICK place \in AI!Working :
        /\ tool[r].at \in AI!Working /\ AI!Goto(r, place) /\ UNCHANGED <<owner, balance, ledger, granted, trial, unreturned>>
        /\ rows' \in {rows, rows \cup {r}} /\ files' \in {files, files \cup {r}}
        /\ (place \in {"store", "done"} => r \in rows')
        /\ (place = "done" /\ tool[r].tool = "image" => r \in files')
  <2>1. CASE AI!Generate(r) \/ AI!GenerateFails(r)
    BY <2>1 DEF AI!Generate, AI!GenerateFails, AI!Working, AI!credits
  <2>2. CASE AI!Create(r)
    BY <2>2 DEF AI!Create, AI!Working, AI!credits
  <2>3. CASE AI!CreateFails(r)
    BY <2>3 DEF AI!CreateFails, AI!Working, AI!credits
  <2>4. CASE AI!Save(r)
    BY <1>1, <2>4 DEF AI!Save, AI!Working, AI!credits, AI!ChargeInv
  <2>5. CASE AI!SaveFails(r)
    BY <2>5 DEF AI!SaveFails, AI!Working, AI!credits
  <2>6. QED BY <2>1, <2>2, <2>3, <2>4, <2>5
<1>3. /\ tool' \in [Briefs -> [at : ToolPlaces, tool : AI!Tools, tried : Nat]]
      /\ tool'[r].at = place /\ tool'[r].tool = tool[r].tool /\ \A q \in Briefs \ {r} : tool'[q] = tool[q]
  BY <1>1, <1>2, StudioGoto DEF ToolPlaces
<1>4. AI!TypeOK'
  BY <1>1, <1>2, <1>3 DEF AI!TypeOK, ToolPlaces
<1>5. AI!ChargeInv(r)'
  <2>1. AI!Refund(r) \notin ledger /\ (AI!Spent(r) \in ledger <=> ~owner)
    BY <1>1, <1>2 DEF AI!ChargeInv
  <2>2. tool'[r].at \in AI!Working /\ tool'[r].at \notin {"idle", "debit", "refused"}
    BY <1>3 DEF AI!Working
  <2>3. QED BY <1>2, <1>3, <2>1, <2>2 DEF AI!ChargeInv
<1>6. AI!PaysForAnswer(r)'
  BY <1>3 DEF AI!PaysForAnswer, AI!Working
<1>7. QED BY <1>2, <1>3, <1>4, <1>5, <1>6, StudioFree

LEMMA StudioFallsBack ==
  ASSUME AI!StudioInv, NEW r \in Briefs, AI!withModelFallback(r)
  PROVE  AI!StudioInv'
<1>1. AI!TypeOK /\ AI!ChargeInv(r)
  BY DEF AI!StudioInv
<1>2. /\ tool[r].at = "generate" /\ tool' = [tool EXCEPT ![r].tried = @ + 1]
      /\ UNCHANGED <<owner, balance, ledger, granted, trial, rows, files, unreturned>>
  BY DEF AI!withModelFallback, AI!credits
<1>3. /\ tool' \in [Briefs -> [at : ToolPlaces, tool : AI!Tools, tried : Nat]]
      /\ tool'[r].at = "generate" /\ tool'[r].tool = tool[r].tool /\ \A q \in Briefs \ {r} : tool'[q] = tool[q]
  BY <1>1, <1>2 DEF AI!TypeOK, ToolPlaces
<1>4. AI!TypeOK'
  BY <1>1, <1>2, <1>3 DEF AI!TypeOK, ToolPlaces
<1>5. AI!ChargeInv(r)'
  BY <1>1, <1>2, <1>3 DEF AI!ChargeInv, AI!Working
<1>6. AI!PaysForAnswer(r)'
  BY <1>3 DEF AI!PaysForAnswer
<1>7. QED BY <1>2, <1>3, <1>4, <1>5, <1>6, StudioFree

\* DebitFails, LogUnlimited, RefundFails: a request ends.
LEMMA StudioEnds ==
  ASSUME AI!StudioInv, NEW r \in Briefs, AI!DebitFails(r) \/ AI!LogUnlimited(r) \/ AI!RefundFails(r)
  PROVE  AI!StudioInv'
<1>1. AI!TypeOK /\ AI!ChargeInv(r)
  BY DEF AI!StudioInv
<1>2. PICK place \in {"refused", "answered", "error"} :
        /\ AI!Goto(r, place) /\ UNCHANGED <<owner, balance, granted, trial, rows, files>>
        /\ ledger' \in {ledger, ledger \cup {AI!Noted(r)}} /\ unreturned' \in {unreturned, unreturned \cup {r}}
        /\ (place = "refused" => tool[r].at = "debit") /\ (place = "answered" => tool[r].at = "done")
        /\ (place = "error" => r \in unreturned')
  <2>1. CASE AI!DebitFails(r)
    BY <2>1 DEF AI!DebitFails, AI!credits
  <2>2. CASE AI!LogUnlimited(r)
    BY <2>2 DEF AI!LogUnlimited
  <2>3. CASE AI!RefundFails(r)
    BY <2>3 DEF AI!RefundFails, AI!credits
  <2>4. QED BY <2>1, <2>2, <2>3
<1>3. /\ tool' \in [Briefs -> [at : ToolPlaces, tool : AI!Tools, tried : Nat]]
      /\ tool'[r].at = place /\ tool'[r].tool = tool[r].tool /\ \A q \in Briefs \ {r} : tool'[q] = tool[q]
  BY <1>1, <1>2, StudioGoto DEF ToolPlaces, AI!Ended
<1>4. AI!TypeOK'
  <2>1. ledger' \subseteq [kind : {"spend", "refund", "noted"}, of : Briefs]
    BY <1>1, <1>2, StudioEntries DEF AI!TypeOK
  <2>2. QED BY <1>1, <1>2, <1>3, <2>1 DEF AI!TypeOK, ToolPlaces
<1>5. \A q \in Briefs : (AI!Spent(q) \in ledger' <=> AI!Spent(q) \in ledger) /\ (AI!Refund(q) \in ledger' <=> AI!Refund(q) \in ledger)
  <2>1. TAKE q \in Briefs
  <2>2. AI!Spent(q) # AI!Noted(r) /\ AI!Refund(q) # AI!Noted(r)
    BY DEF AI!Spent, AI!Refund, AI!Noted
  <2>3. QED BY <1>2, <2>2
<1>6. AI!ChargeInv(r)'
  BY <1>1, <1>2, <1>3, <1>5 DEF AI!ChargeInv, AI!Working
<1>7. AI!PaysForAnswer(r)'
  <2>1. CASE place = "refused"
    BY <1>1, <1>2, <1>3, <1>5, <2>1 DEF AI!PaysForAnswer, AI!Charged, AI!ChargeInv
  <2>2. CASE place = "answered"
    BY <1>1, <1>2, <1>3, <1>5, <2>2 DEF AI!PaysForAnswer, AI!Charged, AI!ChargeInv, AI!Working
  <2>3. CASE place = "error"
    BY <1>2, <1>3, <2>3 DEF AI!PaysForAnswer
  <2>4. QED BY <1>2, <2>1, <2>2, <2>3
<1>8. QED BY <1>2, <1>3, <1>4, <1>5, <1>6, <1>7, StudioFree

-----------------------------------------------------------------------------
\* A request that takes its credits.
LEMMA StudioDebit ==
  ASSUME AI!StudioInv, NEW r \in Briefs, AI!Debit(r)
  PROVE  AI!StudioInv'
<1>1. AI!TypeOK /\ AI!PaidForWork /\ AI!ChargeInv(r) /\ \A q \in Briefs : AI!ChargeInv(q)
  BY DEF AI!StudioInv
<1>2. PICK t \in AI!Tools : t = tool[r].tool
  BY <1>1 DEF AI!TypeOK
<1>3. /\ tool[r].at = "debit" /\ UNCHANGED <<owner, granted, trial, rows, files, unreturned>>
      /\ AI!Spent(r) \notin ledger /\ AI!Refund(r) \notin ledger
  BY <1>1 DEF AI!Debit, AI!ChargeInv
<1>4. CASE owner \/ ~AI!apply(balance, -Cost[t])
  <2>1. PICK place \in {"generate", "refused"} : AI!Goto(r, place) /\ UNCHANGED <<balance, ledger>> /\ (place = "generate" => owner)
    BY <1>2, <1>4 DEF AI!Debit
  <2>2. /\ tool' \in [Briefs -> [at : ToolPlaces, tool : AI!Tools, tried : Nat]]
        /\ tool'[r].at = place /\ tool'[r].tool = tool[r].tool /\ \A q \in Briefs \ {r} : tool'[q] = tool[q]
    BY <1>1, <2>1, StudioGoto DEF ToolPlaces, AI!Ended, AI!Working
  <2>3. AI!TypeOK'
    BY <1>1, <1>3, <2>1, <2>2 DEF AI!TypeOK, ToolPlaces
  <2>4. AI!ChargeInv(r)' /\ AI!PaysForAnswer(r)'
    BY <1>3, <2>1, <2>2 DEF AI!ChargeInv, AI!PaysForAnswer, AI!Charged, AI!Working
  <2>5. QED BY <1>3, <2>1, <2>2, <2>3, <2>4, StudioFree
<1>5. CASE ~owner /\ AI!apply(balance, -Cost[t])
  <2>1. balance' = balance - Cost[t] /\ ledger' = ledger \cup {AI!Spent(r)} /\ AI!Goto(r, "generate")
    BY <1>2, <1>5 DEF AI!Debit
  <2>2. /\ tool' \in [Briefs -> [at : ToolPlaces, tool : AI!Tools, tried : Nat]]
        /\ tool'[r].at = "generate" /\ tool'[r].tool = t /\ \A q \in Briefs \ {r} : tool'[q] = tool[q]
    BY <1>1, <1>2, <2>1, StudioGoto DEF ToolPlaces, AI!Working
  <2>3. /\ Cost[t] \in Nat \ {0} /\ balance \in Int /\ granted \in Int /\ KeptInAll \in Int
        /\ balance = granted - KeptInAll /\ balance - Cost[t] >= 0
    BY <1>1, <1>5, CostAssumption, StudioKept DEF AI!TypeOK, AI!PaidForWork, KeptInAll, AI!Tools, AI!apply, AI!Covers
  <2>4. AI!TypeOK'
    <3>1. ledger' \subseteq [kind : {"spend", "refund", "noted"}, of : Briefs] /\ balance' \in Int
      BY <1>1, <2>1, <2>3, StudioEntries DEF AI!TypeOK
    <3>2. QED BY <1>1, <1>3, <2>2, <3>1 DEF AI!TypeOK, ToolPlaces
  <2>5. /\ AI!Spent(r) \in ledger' /\ AI!Refund(r) \notin ledger'
        /\ \A q \in Briefs \ {r} : AI!Spent(q) \in ledger' <=> AI!Spent(q) \in ledger
        /\ \A q \in Briefs : AI!Refund(q) \in ledger' <=> AI!Refund(q) \in ledger
    BY <1>3, <2>1, StudioEntries
  <2>6. \A q \in Briefs : AI!ChargeInv(q)' /\ AI!PaysForAnswer(q)'
    <3>1. AI!ChargeInv(r)' /\ AI!PaysForAnswer(r)'
      BY <1>3, <1>5, <2>2, <2>5 DEF AI!ChargeInv, AI!PaysForAnswer, AI!Charged, AI!Working
    <3>2. \A q \in Briefs \ {r} : AI!ChargeInv(q)' /\ AI!PaysForAnswer(q)'
      BY <1>1, <1>3, <2>2, <2>5, StudioOthers DEF AI!PaidForWork
    <3>3. QED BY <3>1, <3>2
  <2>7. r \notin AI!Uses(t) /\ AI!Uses(t)' = AI!Uses(t) \cup {r} /\ \A u \in AI!Tools \ {t} : AI!Uses(u)' = AI!Uses(u)
    BY <1>2, <1>3, <2>2, <2>5 DEF AI!Uses, AI!Charged
  <2>8. KeptInAll' = KeptInAll + Cost[t]
    BY <1>1, <2>7, StudioMore
  <2>9. balance' >= 0 /\ balance' = granted' - KeptInAll'
    BY <1>3, <2>1, <2>3, <2>8
  <2>10. QED BY <2>4, <2>6, <2>9 DEF AI!StudioInv, AI!PaidForWork, KeptInAll
<1>6. QED BY <1>4, <1>5

\* A failure gives back what was taken.
LEMMA StudioRefunds ==
  ASSUME AI!StudioInv, NEW r \in Briefs, AI!ChargeFails(r)
  PROVE  AI!StudioInv'
<1>1. AI!TypeOK /\ AI!PaidForWork /\ AI!ChargeInv(r) /\ \A q \in Briefs : AI!ChargeInv(q)
  BY DEF AI!StudioInv
<1>2. PICK t \in AI!Tools : t = tool[r].tool
  BY <1>1 DEF AI!TypeOK
<1>3. /\ AI!Goto(r, "error") /\ UNCHANGED <<owner, granted, trial, rows, files, unreturned>>
      /\ AI!Refund(r) \notin ledger /\ (AI!Spent(r) \in ledger <=> ~owner)
  BY <1>1 DEF AI!ChargeFails, AI!ChargeInv, AI!Working
<1>4. /\ tool' \in [Briefs -> [at : ToolPlaces, tool : AI!Tools, tried : Nat]]
      /\ tool'[r].at = "error" /\ tool'[r].tool = t /\ \A q \in Briefs \ {r} : tool'[q] = tool[q]
  BY <1>1, <1>2, <1>3, StudioGoto DEF ToolPlaces, AI!Ended
<1>5. AI!refund(r) = Cost[t] /\ Cost[t] \in Nat \ {0}
  BY <1>2, CostAssumption DEF AI!refund, AI!Price
<1>6. CASE owner
  <2>1. UNCHANGED <<balance, ledger>>
    BY <1>6 DEF AI!ChargeFails
  <2>2. AI!TypeOK'
    BY <1>1, <1>3, <1>4, <2>1 DEF AI!TypeOK, ToolPlaces
  <2>3. AI!ChargeInv(r)' /\ AI!PaysForAnswer(r)'
    BY <1>3, <1>4, <1>6, <2>1 DEF AI!ChargeInv, AI!PaysForAnswer, AI!Charged, AI!Working
  <2>4. QED BY <1>2, <1>3, <1>4, <2>1, <2>2, <2>3, StudioFree
<1>7. CASE ~owner
  <2>1. balance' = balance + Cost[t] /\ ledger' = ledger \cup {AI!Refund(r)}
    BY <1>5, <1>7 DEF AI!ChargeFails
  <2>2. /\ balance \in Int /\ granted \in Int /\ KeptInAll \in Int /\ balance = granted - KeptInAll /\ balance >= 0
    BY <1>1, StudioKept DEF AI!TypeOK, AI!PaidForWork, KeptInAll, AI!Tools
  <2>3. AI!TypeOK'
    <3>1. ledger' \subseteq [kind : {"spend", "refund", "noted"}, of : Briefs] /\ balance' \in Int
      BY <1>1, <1>5, <2>1, <2>2, StudioEntries DEF AI!TypeOK
    <3>2. QED BY <1>1, <1>3, <1>4, <3>1 DEF AI!TypeOK, ToolPlaces
  <2>4. /\ AI!Refund(r) \in ledger'
        /\ \A q \in Briefs : AI!Spent(q) \in ledger' <=> AI!Spent(q) \in ledger
        /\ \A q \in Briefs \ {r} : AI!Refund(q) \in ledger' <=> AI!Refund(q) \in ledger
    BY <2>1, StudioEntries
  <2>5. \A q \in Briefs : AI!ChargeInv(q)' /\ AI!PaysForAnswer(q)'
    <3>1. AI!ChargeInv(r)' /\ AI!PaysForAnswer(r)'
      BY <1>4, <2>4 DEF AI!ChargeInv, AI!PaysForAnswer, AI!Charged, AI!Working
    <3>2. \A q \in Briefs \ {r} : AI!ChargeInv(q)' /\ AI!PaysForAnswer(q)'
      BY <1>1, <1>3, <1>4, <2>4, StudioOthers DEF AI!PaidForWork
    <3>3. QED BY <3>1, <3>2
  <2>6. r \in AI!Uses(t) /\ AI!Uses(t)' = AI!Uses(t) \ {r} /\ \A u \in AI!Tools \ {t} : AI!Uses(u)' = AI!Uses(u)
    BY <1>2, <1>3, <1>4, <1>7, <2>4 DEF AI!Uses, AI!Charged
  <2>7. KeptInAll' = KeptInAll - Cost[t]
    BY <1>1, <2>6, StudioFewer
  <2>8. balance' >= 0 /\ balance' = granted' - KeptInAll'
    BY <1>3, <1>5, <2>1, <2>2, <2>7
  <2>9. QED BY <2>3, <2>5, <2>8 DEF AI!StudioInv, AI!PaidForWork, KeptInAll
<1>8. QED BY <1>6, <1>7

\* What a restart interrupts stays charged, and is remembered.
LEMMA StudioRestarts ==
  ASSUME AI!StudioInv, AI!Restart
  PROVE  AI!StudioInv'
<1>1. AI!TypeOK /\ AI!PaidForWork /\ \A q \in Briefs : AI!ChargeInv(q)
  BY DEF AI!StudioInv
<1>2. PICK notKept \in SUBSET Briefs :
        /\ notKept = {r \in Briefs : tool[r].at \notin AI!Ended} /\ unreturned' = unreturned \cup {r \in notKept : AI!Charged(r)}
        /\ tool' = [r \in Briefs |-> IF r \in notKept THEN [tool[r] EXCEPT !.at = "error"] ELSE tool[r]]
        /\ UNCHANGED <<owner, balance, ledger, granted, trial, rows, files>>
  BY DEF AI!Restart, AI!credits
<1>3. ASSUME NEW r \in notKept
      PROVE  tool'[r] \in [at : ToolPlaces, tool : AI!Tools, tried : Nat] /\ tool'[r].at = "error" /\ tool'[r].tool = tool[r].tool
  BY <1>1, <1>2 DEF AI!TypeOK, ToolPlaces, AI!Ended
<1>4. \A r \in Briefs \ notKept : tool'[r] = tool[r] /\ tool[r] \in [at : ToolPlaces, tool : AI!Tools, tried : Nat]
  BY <1>1, <1>2 DEF AI!TypeOK, ToolPlaces
<1>5. AI!TypeOK'
  <2>1. tool' \in [Briefs -> [at : ToolPlaces, tool : AI!Tools, tried : Nat]]
    BY <1>2, <1>3, <1>4
  <2>2. QED BY <1>1, <1>2, <2>1 DEF AI!TypeOK, ToolPlaces
<1>6. \A r \in Briefs : AI!ChargeInv(r)' /\ AI!PaysForAnswer(r)'
  <2>1. ASSUME NEW r \in notKept PROVE AI!ChargeInv(r)' /\ AI!PaysForAnswer(r)'
    BY <1>2, <1>3 DEF AI!ChargeInv, AI!PaysForAnswer, AI!Charged, AI!Working
  <2>2. ASSUME NEW r \in Briefs \ notKept PROVE AI!ChargeInv(r)' /\ AI!PaysForAnswer(r)'
    BY <1>1, <1>2, <1>4, StudioOthers DEF AI!PaidForWork
  <2>3. QED BY <2>1, <2>2
<1>7. \A t \in AI!Tools : AI!Uses(t)' = AI!Uses(t)
  BY <1>2, <1>3, <1>4 DEF AI!Uses, AI!Charged
<1>8. KeptInAll' = KeptInAll
  BY <1>1, <1>7, StudioSame
<1>9. QED BY <1>1, <1>2, <1>5, <1>6, <1>8 DEF AI!StudioInv, AI!PaidForWork, KeptInAll

LEMMA StudioKeeps == AI!StudioInv /\ [AI!Next]_studio => AI!StudioInv'
<1> SUFFICES ASSUME AI!StudioInv, [AI!Next]_studio PROVE AI!StudioInv'
  OBVIOUS
<1>1. CASE (\E ok \in BOOLEAN : AI!GiveNewCompany(ok)) \/ (\E n \in Grants : AI!Grant(n))
  BY <1>1, StudioCredits
<1>2. ASSUME NEW r \in Briefs, AI!write(r) \/ AI!suggest(r) \/ AI!run(r) \/ AI!create(r) PROVE AI!StudioInv'
  BY <1>2, StudioAsk DEF AI!write, AI!suggest, AI!run, AI!create, AI!Tools
<1>3. ASSUME NEW r \in Briefs, AI!Debit(r) \/ AI!ChargeFails(r) PROVE AI!StudioInv'
  BY <1>3, StudioDebit, StudioRefunds
<1>4. ASSUME NEW r \in Briefs, AI!Generate(r) \/ AI!GenerateFails(r) \/ AI!Create(r) \/ AI!CreateFails(r) \/ AI!Save(r) \/ AI!SaveFails(r)
      PROVE  AI!StudioInv'
  BY <1>4, StudioWorks
<1>5. ASSUME NEW r \in Briefs, AI!withModelFallback(r) PROVE AI!StudioInv'
  BY <1>5, StudioFallsBack
<1>6. ASSUME NEW r \in Briefs, AI!DebitFails(r) \/ AI!LogUnlimited(r) \/ AI!RefundFails(r) PROVE AI!StudioInv'
  BY <1>6, StudioEnds
<1>7. ASSUME AI!Restart PROVE AI!StudioInv'
  BY <1>7, StudioRestarts
<1>8. ASSUME UNCHANGED studio PROVE AI!StudioInv'
  <2>1. \A q : (AI!ChargeInv(q) => AI!ChargeInv(q)') /\ (AI!PaysForAnswer(q) => AI!PaysForAnswer(q)')
    BY <1>8 DEF studio, AI!ChargeInv, AI!PaysForAnswer, AI!Charged
  <2>2. AI!TypeOK' /\ \A t \in AI!Tools : AI!Uses(t)' = AI!Uses(t)
    BY <1>8 DEF AI!StudioInv, AI!TypeOK, studio, AI!Uses, AI!Charged
  <2>3. KeptInAll' = KeptInAll
    BY <2>2, StudioSame DEF AI!StudioInv
  <2>4. QED BY <1>8, <2>1, <2>2, <2>3 DEF studio, AI!StudioInv, AI!PaidForWork, KeptInAll
<1>9. QED BY <1>1, <1>2, <1>3, <1>4, <1>5, <1>6, <1>7, <1>8 DEF AI!Next

LEMMA StudioStart == AI!Init => AI!StudioInv
<1> SUFFICES ASSUME AI!Init PROVE AI!StudioInv
  OBVIOUS
<1>1. AI!TypeOK
  BY DEF AI!Init, AI!TypeOK, AI!NewJob, AI!Tools, AI!Ended
<1>2. \A q \in Briefs : AI!ChargeInv(q) /\ AI!PaysForAnswer(q)
  BY DEF AI!Init, AI!ChargeInv, AI!PaysForAnswer, AI!Charged, AI!NewJob, AI!Working
<1>3. \A t \in AI!Tools : AI!Kept(t) = 0
  <2>1. TAKE t \in AI!Tools
  <2>2. AI!Uses(t) = {} /\ Cardinality({}) = 0
    BY FS_EmptySet DEF AI!Init, AI!Uses, AI!Charged
  <2>3. QED BY <2>2, CostAssumption, StudioCount DEF AI!Kept
<1>4. KeptInAll = 0
  BY <1>3 DEF KeptInAll, AI!Tools
<1>5. QED BY <1>1, <1>2, <1>4 DEF AI!Init, AI!StudioInv, AI!PaidForWork, KeptInAll

-----------------------------------------------------------------------------
(* What the components promise, side by side.                              *)

\* A behaviour of them all is one of each.
LEMMA ShopSideBySide ==
  ASSUME [ShopNext]_<<cards, orders, hooks, studio>>
  PROVE  [Cards!Next]_cards /\ [Menu!Next]_orders /\ [Hooks!Next]_hooks /\ [AI!Next]_studio
BY DEF ShopNext, CardStep, MenuStep, HookStep, StudioStep

\* Whatever members, gifts and requests there are: the stamps and adjustments
\* of the log are the balance and what the gifts took, unless an adjustment was
\* computed from a balance that had moved (adjustCustomerBalance locks
\* nothing); and the card at Google shows the member once its updates are over,
\* unless the last ones overlapped or failed (queuePassSync).
THEOREM CardIsTrueHolds == ShopSpec => []CardIsTrue
<1>1. ShopInit => Cards!WalletInv
  BY CardsStart DEF ShopInit
<1>2. Cards!WalletInv /\ [ShopNext]_<<cards, orders, hooks, studio>> => Cards!WalletInv'
  BY ShopSideBySide, CardsStep
<1>3. Cards!WalletInv => CardIsTrue
  BY DEF Cards!WalletInv, CardIsTrue
<1>4. QED BY <1>1, <1>2, <1>3, PTL DEF ShopSpec

\* Whatever orders, payments and overlapping confirmations there are, the menu
\* and its orders keep what makes their promises true.
THEOREM MenuHolds == ShopSpec => []Menu!CatalogInv
<1>1. ShopInit => Menu!CatalogInv
  BY MenuStart DEF ShopInit
<1>2. Menu!CatalogInv /\ [ShopNext]_<<cards, orders, hooks, studio>> => Menu!CatalogInv'
  BY ShopSideBySide, MenuKeeps
<1>3. QED BY <1>1, <1>2, PTL DEF ShopSpec

\* The kitchen never hears of an order that waits for its money online or by
\* transfer; it hears of one it has to prepare, once the requests with it have
\* ended, unless one was cut off before; and it hears no more than once, unless
\* two confirmations overlapped or a payment was accepted without an invoice to
\* compare it with (confirmPaidOrder, notifyNewOrder).
THEOREM KitchenHearsOnceHolds == ShopSpec => []KitchenHearsOnce
<1>1. Menu!CatalogInv => KitchenHearsOnce
  BY MenuHears DEF KitchenHearsOnce
<1>2. QED BY <1>1, MenuHolds, PTL

\* The payment that confirmed an order settled that order's invoice, if it has
\* one, and no other order has taken it, unless two requests looked it up at
\* the same time.
THEOREM PaymentConfirmsOneOrderHolds == ShopSpec => []PaymentConfirmsOneOrder
<1>1. Menu!CatalogInv => PaymentConfirmsOneOrder
  BY DEF Menu!CatalogInv, PaymentConfirmsOneOrder
<1>2. QED BY <1>1, MenuHolds, PTL

\* For any number of repeats and of failures that switch a link off: a link
\* that is on has failed fewer times in a row, once no record is half made and
\* no restart came between the count and the switch; and it is asked again only
\* after a failure, until it accepts, refuses or the tries are used up, a test
\* and a restart apart (recordDelivery, attemptDelivery).
THEOREM LinksAreServedHolds == ShopSpec => []LinksAreServed
<1>1. ShopInit => Hooks!HooksInv
  BY HooksStart DEF ShopInit
<1>2. Hooks!HooksInv /\ [ShopNext]_<<cards, orders, hooks, studio>> => Hooks!HooksInv'
  BY ShopSideBySide, HooksStep
<1>3. Hooks!HooksInv => LinksAreServed
  BY DEF Hooks!HooksInv, LinksAreServed
<1>4. QED BY <1>1, <1>2, <1>3, PTL DEF ShopSpec

\* For any requests, prices, grants and free credits: a request that got its
\* answer was charged for it and is in the history, one that got none was not
\* charged in the end, unless a refund failed or the server stopped meanwhile;
\* and the balance is what was granted without what the ledger kept, and never
\* below nothing, whatever requests overlap.
THEOREM PaidForWorkHolds == ShopSpec => []PaidForWork
<1>1. ShopInit => AI!StudioInv
  BY StudioStart DEF ShopInit
<1>2. AI!StudioInv /\ [ShopNext]_<<cards, orders, hooks, studio>> => AI!StudioInv'
  BY ShopSideBySide, StudioKeeps
<1>3. AI!StudioInv => PaidForWork
  BY DEF AI!StudioInv, PaidForWork
<1>4. QED BY <1>1, <1>2, <1>3, PTL DEF ShopSpec
==============================================================================
