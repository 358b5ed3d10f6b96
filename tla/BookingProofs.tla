----------------------------- MODULE BookingProofs -----------------------------
(***************************************************************************)
(* Proofs about Booking, for any sets of bookings, slots, pages, merchants *)
(* and servers, any payment methods and any number of crashes.             *)
(***************************************************************************)
EXTENDS Booking, TLAPS

\* Every action keeps the variables in their types.
LEMMA TypeStep == ASSUME TypeOK, RowInv, [Next]_vars PROVE TypeOK'
<1> USE SlotsAssumption, MethodsAssumption, ActorsAssumption, BoundsAssumption DEF TypeOK, RowInv, RowTraces, RequestRows, PageWork, Places, Exists, row, payment, local, job, world, Requests
<1>1. ASSUME NEW b \in Bookings, NEW s \in Slots, NEW m \in Methods, Book(b, s, m) PROVE TypeOK'
  <2>1. pc' \in [Requests -> Places] /\ bk' \in [Requests -> Bookings \cup {None}]
        /\ ref' \in [Requests -> Bookings \cup {None}]
    BY <1>1 DEF Book, Goto, Answer, AfterBook
  <2>2. slot' \in [Bookings -> Slots \cup {None}] /\ created' \in [Bookings -> Nat]
        /\ method' \in [Bookings -> Methods \cup {"free"}] /\ UNCHANGED status
    BY <1>1 DEF Book
  <2>3. pay' \in [Bookings -> {"NOT_REQUIRED", "AWAITING_PAYMENT", "PAID"}]
    BY <1>1 DEF Book
  <2>4. QED BY <1>1, <2>1, <2>2, <2>3 DEF Book
<1>2. ASSUME NEW b \in Bookings, StartPayment(b) PROVE TypeOK'
  <2>1. TypeOK'
    BY <1>2 DEF StartPayment, Goto, Answer
  <2>2. QED BY <2>1
<1>3. ASSUME NEW b \in Bookings, StoreInvoice(b) PROVE TypeOK'
  <2>1. TypeOK'
    BY <1>3 DEF StoreInvoice, Goto, Answer
  <2>2. QED BY <2>1
<1>4. ASSUME NEW b \in Bookings, Pay(b) PROVE TypeOK'
  <2>1. TypeOK'
    BY <1>4 DEF Pay
  <2>2. QED BY <2>1
<1>5. ASSUME NEW b \in Bookings, Cancel(b) PROVE TypeOK'
  <2>1. TypeOK'
    BY <1>5 DEF Cancel
  <2>2. QED BY <2>1
<1>6. ASSUME NEW b \in Bookings, NEW s \in Slots, Reschedule(b, s) PROVE TypeOK'
  <2>1. TypeOK'
    BY <1>6 DEF Reschedule, Taken
  <2>2. QED BY <2>1
<1>7. ASSUME NEW a \in Requests, Announce(a) PROVE TypeOK'
  <2>1. confirmed' \in [Bookings -> Nat]
    BY <1>7 DEF Announce
  <2>2. pc' \in [Requests -> Places] /\ bk' \in [Requests -> Bookings \cup {None}]
        /\ ref' \in [Requests -> Bookings \cup {None}]
    BY <1>7 DEF Announce, Goto, Answer
  <2>3. QED BY <1>7, <2>1, <2>2 DEF Announce
<1>8. ASSUME NEW a \in Requests, AskPayment(a) PROVE TypeOK'
  <2>1. TypeOK'
    BY <1>8 DEF AskPayment, Goto, Answer, Match
  <2>2. QED BY <2>1
<1>9. ASSUME NEW a \in Requests, CheckReuse(a) PROVE TypeOK'
  <2>1. TypeOK'
    BY <1>9 DEF CheckReuse, Goto, Answer
  <2>2. QED BY <2>1
<1>10. ASSUME NEW a \in Requests, MarkPaid(a) PROVE TypeOK'
  <2>1. TypeOK'
    BY <1>10 DEF MarkPaid, Goto, SetPaid
  <2>2. QED BY <2>1
<1>11. ASSUME NEW a \in Requests, MarkManually(a) PROVE TypeOK'
  <2>1. TypeOK'
    <3>1. bk[a] \in Bookings
      BY <1>11 DEF MarkManually
    <3>2. pc' \in [Requests -> Places] /\ bk' \in [Requests -> Bookings \cup {None}] /\ ref' \in [Requests -> Bookings \cup {None}]
      BY <1>11 DEF MarkManually, Goto, Answer
    <3>3. pay' \in [Bookings -> {"NOT_REQUIRED", "AWAITING_PAYMENT", "PAID"}] /\ again' \subseteq Bookings /\ marked' \subseteq Bookings
      BY <1>11, <3>1 DEF MarkManually, SetPaid
    <3>4. UNCHANGED <<slot, status, method, created, invoices, payRef, paid, confirmed, job, world>>
      BY <1>11 DEF MarkManually, SetPaid
    <3>5. QED BY <3>2, <3>3, <3>4
  <2>2. QED BY <2>1
<1>12. ASSUME NEW a \in Requests, CrashRequest(a) PROVE TypeOK'
  <2>1. TypeOK'
    <3>1. pc' \in [Requests -> Places] /\ bk' \in [Requests -> Bookings \cup {None}] /\ ref' \in [Requests -> Bookings \cup {None}]
      BY <1>12 DEF CrashRequest, Goto, Answer
    <3>2. QED BY <1>12, <3>1 DEF CrashRequest
  <2>2. QED BY <2>1
<1>13. ASSUME NEW a \in Requests, NEW b \in Bookings, PressMarkPaid(a, b) PROVE TypeOK'
  <2>1. TypeOK'
    BY <1>13 DEF PressMarkPaid
  <2>2. QED BY <2>1
<1>14. ASSUME NEW a \in Requests, NEW b \in Bookings, NEW p \in Bookings, OpenPage(a, b, p) PROVE TypeOK'
  <2>1. TypeOK'
    BY <1>14 DEF OpenPage
  <2>2. QED BY <2>1
<1>15. ASSUME NEW v \in Servers, Scan(v) PROVE TypeOK'
  <2>1. TypeOK'
    BY <1>15 DEF Scan, Remindable, AwaitsPayment, ConfirmsOnOrder, ReminderDue
  <2>2. QED BY <2>1
<1>16. ASSUME NEW v \in Servers, ClaimReminder(v) PROVE TypeOK'
  <2>1. TypeOK'
    BY <1>16 DEF ClaimReminder, Claims
  <2>2. QED BY <2>1
<1>17. ASSUME NEW v \in Servers, SendReminder(v) PROVE TypeOK'
  <2>1. TypeOK'
    BY <1>17 DEF SendReminder
  <2>2. QED BY <2>1
<1>18. ASSUME NEW v \in Servers, CrashJob(v) PROVE TypeOK'
  <2>1. TypeOK'
    BY <1>18 DEF CrashJob
  <2>2. QED BY <2>1
<1>19. ASSUME Tick PROVE TypeOK'
  <2>1. TypeOK'
    BY <1>19 DEF Tick
  <2>2. QED BY <2>1
<1>20. CASE UNCHANGED vars
  BY <1>20 DEF vars
<1>21. QED
  BY <1>1, <1>2, <1>3, <1>4, <1>5, <1>6, <1>7, <1>8, <1>9, <1>10, <1>11, <1>12, <1>13, <1>14, <1>15, <1>16, <1>17, <1>18, <1>19, <1>20
     DEF Next, Create, Manage, Confirm, Remind

\* The inductive invariant is preserved by every step.
LEMMA BookingInvStep == ASSUME BookingInv, TypeOK', [Next]_vars PROVE BookingInv'
<1> USE SlotsAssumption, MethodsAssumption, ActorsAssumption, BoundsAssumption DEF BookingInv, TypeOK, RowInv, NewsInv, Exists, Places, row, payment, local, job, world, Requests
<1>1. ASSUME NEW b \in Bookings, NEW s \in Slots, NEW m \in Methods, Book(b, s, m) PROVE BookingInv'
  <2>1. NoDoubleBooking'
    BY <1>1 DEF Book, Goto, Answer, Taken, ConfirmsOnOrder, AfterBook, NoDoubleBooking
  <2>2. RowTraces'
    BY <1>1 DEF Book, Goto, Answer, Taken, ConfirmsOnOrder, AfterBook, RowTraces, RequestRows, AnnouncersSettled, RemindersSettled, PageWork
  <2>3. RequestRows'
    BY <1>1 DEF Book, Goto, Answer, Taken, ConfirmsOnOrder, AfterBook, RowTraces, RequestRows, PageWork
  <2>4. SettledBeforeNews'
    BY <1>1 DEF Book, Goto, Answer, Taken, ConfirmsOnOrder, AfterBook, SettledBeforeNews, AnnouncersSettled, RemindersSettled, RowTraces, Due
  <2>5. AnnouncersSettled'
    BY <1>1 DEF Book, Goto, Answer, Taken, ConfirmsOnOrder, AfterBook, AnnouncersSettled, RowTraces, RequestRows, PageWork, Due
  <2>6. RemindersSettled'
    BY <1>1 DEF Book, Goto, Answer, Taken, ConfirmsOnOrder, AfterBook, RemindersSettled, RowTraces, Due
  <2>7. ConfirmInv'
    BY <1>1 DEF Book, Goto, Answer, Taken, ConfirmsOnOrder, AfterBook, ConfirmInv, SettledBeforeNews, AnnouncersSettled, RowTraces, RequestRows, PageWork, Announces, Due
  <2>8. RemindInv'
    BY <1>1 DEF Book, Goto, Answer, Taken, ConfirmsOnOrder, AfterBook, RemindInv, RowTraces
  <2>9. QED BY <2>1, <2>2, <2>3, <2>4, <2>5, <2>6, <2>7, <2>8
<1>2. ASSUME NEW b \in Bookings, StartPayment(b) PROVE BookingInv'
  <2>1. NoDoubleBooking'
    BY <1>2 DEF StartPayment, Goto, Answer, NoDoubleBooking
  <2>2. RowTraces'
    BY <1>2 DEF StartPayment, Goto, Answer, RowTraces, RequestRows, AnnouncersSettled, RemindersSettled, PageWork
  <2>3. RequestRows'
    BY <1>2 DEF StartPayment, Goto, Answer, RowTraces, RequestRows, PageWork
  <2>4. SettledBeforeNews'
    BY <1>2 DEF StartPayment, Goto, Answer, SettledBeforeNews, AnnouncersSettled, RemindersSettled, RowTraces, Due
  <2>5. AnnouncersSettled'
    BY <1>2 DEF StartPayment, Goto, Answer, AnnouncersSettled, RowTraces, RequestRows, PageWork, Due
  <2>6. RemindersSettled'
    BY <1>2 DEF StartPayment, Goto, Answer, RemindersSettled, RowTraces, Due
  <2>7. ConfirmInv'
    BY <1>2 DEF StartPayment, Goto, Answer, ConfirmInv, SettledBeforeNews, AnnouncersSettled, RowTraces, RequestRows, PageWork, Announces, Due
  <2>8. RemindInv'
    BY <1>2 DEF StartPayment, Goto, Answer, RemindInv, RowTraces
  <2>9. QED BY <2>1, <2>2, <2>3, <2>4, <2>5, <2>6, <2>7, <2>8
<1>3. ASSUME NEW b \in Bookings, StoreInvoice(b) PROVE BookingInv'
  <2>1. NoDoubleBooking'
    BY <1>3 DEF StoreInvoice, Goto, Answer, NoDoubleBooking
  <2>2. RowTraces'
    BY <1>3 DEF StoreInvoice, Goto, Answer, RowTraces, RequestRows, AnnouncersSettled, RemindersSettled, PageWork
  <2>3. RequestRows'
    BY <1>3 DEF StoreInvoice, Goto, Answer, RowTraces, RequestRows, PageWork
  <2>4. SettledBeforeNews'
    BY <1>3 DEF StoreInvoice, Goto, Answer, SettledBeforeNews, AnnouncersSettled, RemindersSettled, RowTraces, Due
  <2>5. AnnouncersSettled'
    BY <1>3 DEF StoreInvoice, Goto, Answer, AnnouncersSettled, RowTraces, RequestRows, PageWork, Due
  <2>6. RemindersSettled'
    BY <1>3 DEF StoreInvoice, Goto, Answer, RemindersSettled, RowTraces, Due
  <2>7. ConfirmInv'
    BY <1>3 DEF StoreInvoice, Goto, Answer, ConfirmInv, SettledBeforeNews, AnnouncersSettled, RowTraces, RequestRows, PageWork, Announces, Due
  <2>8. RemindInv'
    BY <1>3 DEF StoreInvoice, Goto, Answer, RemindInv, RowTraces
  <2>9. QED BY <2>1, <2>2, <2>3, <2>4, <2>5, <2>6, <2>7, <2>8
<1>4. ASSUME NEW b \in Bookings, Pay(b) PROVE BookingInv'
  <2>1. NoDoubleBooking'
    BY <1>4 DEF Pay, NoDoubleBooking
  <2>2. RowTraces'
    BY <1>4 DEF Pay, RowTraces, RequestRows, AnnouncersSettled, RemindersSettled, PageWork
  <2>3. RequestRows'
    BY <1>4 DEF Pay, RowTraces, RequestRows, PageWork
  <2>4. SettledBeforeNews'
    BY <1>4 DEF Pay, SettledBeforeNews, AnnouncersSettled, RemindersSettled, RowTraces, Due
  <2>5. AnnouncersSettled'
    BY <1>4 DEF Pay, AnnouncersSettled, RowTraces, RequestRows, PageWork, Due
  <2>6. RemindersSettled'
    BY <1>4 DEF Pay, RemindersSettled, RowTraces, Due
  <2>7. ConfirmInv'
    BY <1>4 DEF Pay, ConfirmInv, SettledBeforeNews, AnnouncersSettled, RowTraces, RequestRows, PageWork, Announces, Due
  <2>8. RemindInv'
    BY <1>4 DEF Pay, RemindInv, RowTraces
  <2>9. QED BY <2>1, <2>2, <2>3, <2>4, <2>5, <2>6, <2>7, <2>8
<1>5. ASSUME NEW b \in Bookings, Cancel(b) PROVE BookingInv'
  <2>1. NoDoubleBooking'
    BY <1>5 DEF Cancel, NoDoubleBooking
  <2>2. RowTraces'
    BY <1>5 DEF Cancel, RowTraces, RequestRows, AnnouncersSettled, RemindersSettled, PageWork
  <2>3. RequestRows'
    BY <1>5 DEF Cancel, RowTraces, RequestRows, PageWork
  <2>4. SettledBeforeNews'
    BY <1>5 DEF Cancel, SettledBeforeNews, AnnouncersSettled, RemindersSettled, RowTraces, Due
  <2>5. AnnouncersSettled'
    BY <1>5 DEF Cancel, AnnouncersSettled, RowTraces, RequestRows, PageWork, Due
  <2>6. RemindersSettled'
    BY <1>5 DEF Cancel, RemindersSettled, RowTraces, Due
  <2>7. ConfirmInv'
    BY <1>5 DEF Cancel, ConfirmInv, SettledBeforeNews, AnnouncersSettled, RowTraces, RequestRows, PageWork, Announces, Due
  <2>8. RemindInv'
    BY <1>5 DEF Cancel, RemindInv, RowTraces
  <2>9. QED BY <2>1, <2>2, <2>3, <2>4, <2>5, <2>6, <2>7, <2>8
<1>6. ASSUME NEW b \in Bookings, NEW s \in Slots, Reschedule(b, s) PROVE BookingInv'
  <2>1. NoDoubleBooking'
    BY <1>6 DEF Reschedule, Taken, NoDoubleBooking
  <2>2. RowTraces'
    BY <1>6 DEF Reschedule, Taken, RowTraces, RequestRows, AnnouncersSettled, RemindersSettled, PageWork
  <2>3. RequestRows'
    BY <1>6 DEF Reschedule, Taken, RowTraces, RequestRows, PageWork
  <2>4. SettledBeforeNews'
    BY <1>6 DEF Reschedule, Taken, SettledBeforeNews, AnnouncersSettled, RemindersSettled, RowTraces, Due
  <2>5. AnnouncersSettled'
    BY <1>6 DEF Reschedule, Taken, AnnouncersSettled, RowTraces, RequestRows, PageWork, Due
  <2>6. RemindersSettled'
    BY <1>6 DEF Reschedule, Taken, RemindersSettled, RowTraces, Due
  <2>7. ConfirmInv'
    BY <1>6 DEF Reschedule, Taken, ConfirmInv, SettledBeforeNews, AnnouncersSettled, RowTraces, RequestRows, PageWork, Announces, Due
  <2>8. RemindInv'
    BY <1>6 DEF Reschedule, Taken, RemindInv, RowTraces
  <2>9. QED BY <2>1, <2>2, <2>3, <2>4, <2>5, <2>6, <2>7, <2>8
<1>7. ASSUME NEW a \in Requests, Announce(a) PROVE BookingInv'
  <2>1. NoDoubleBooking'
    BY <1>7 DEF Announce, Goto, Answer, NoDoubleBooking
  <2>2. RowTraces'
    BY <1>7 DEF Announce, Goto, Answer, RowTraces, RequestRows, AnnouncersSettled, RemindersSettled, PageWork
  <2>3. RequestRows'
    BY <1>7 DEF Announce, Goto, Answer, RowTraces, RequestRows, PageWork
  <2>4. SettledBeforeNews'
    BY <1>7 DEF Announce, Goto, Answer, SettledBeforeNews, AnnouncersSettled, RemindersSettled, RowTraces, Due
  <2>5. AnnouncersSettled'
    BY <1>7 DEF Announce, Goto, Answer, AnnouncersSettled, RowTraces, RequestRows, PageWork, Due
  <2>6. RemindersSettled'
    BY <1>7 DEF Announce, Goto, Answer, RemindersSettled, RowTraces, Due
  <2>7. ConfirmInv'
    <3>1. /\ pc[a] = "announce" /\ bk[a] \in Bookings /\ UNCHANGED again
          /\ confirmed' = [confirmed EXCEPT ![bk[a]] = @ + 1]
      BY <1>7 DEF Announce, RowTraces, RequestRows
    <3>2. (\A c \in Bookings : ~Announces(a, c)') /\ \A e \in Requests \ {a} : \A c \in Bookings : Announces(e, c)' <=> Announces(e, c)
      BY <1>7 DEF Announce, Goto, Answer, Announces
    <3>3. \A e \in Requests, c \in Bookings : Announces(e, c)' => Announces(e, c) /\ e # a /\ (c \notin again => c # bk[a])
      BY <3>1, <3>2 DEF ConfirmInv, Announces
    <3>4. ASSUME NEW c \in Bookings \ again PROVE confirmed'[c] \in {0, 1} /\ \A e \in Requests : Announces(e, c)' => confirmed'[c] = 0
      <4>1. CASE c = bk[a]
        <5>1. confirmed[c] = 0
          BY <3>1, <4>1 DEF ConfirmInv, Announces
        <5>2. QED BY <3>1, <3>3, <4>1, <5>1
      <4>2. CASE c # bk[a]
        BY <3>1, <3>3, <4>2 DEF ConfirmInv
      <4>3. QED BY <4>1, <4>2
    <3>5. \A c \in Bookings \ again : \A e, f \in Requests : Announces(e, c)' /\ Announces(f, c)' => e = f
      BY <3>3 DEF ConfirmInv
    <3>6. QED BY <3>1, <3>4, <3>5 DEF ConfirmInv
  <2>8. RemindInv'
    BY <1>7 DEF Announce, Goto, Answer, RemindInv, RowTraces
  <2>9. QED BY <2>1, <2>2, <2>3, <2>4, <2>5, <2>6, <2>7, <2>8
<1>8. ASSUME NEW a \in Requests, AskPayment(a) PROVE BookingInv'
  <2>1. NoDoubleBooking'
    BY <1>8 DEF AskPayment, Goto, Answer, Match, NoDoubleBooking
  <2>2. RowTraces'
    BY <1>8 DEF AskPayment, Goto, Answer, Match, RowTraces, RequestRows, AnnouncersSettled, RemindersSettled, PageWork
  <2>3. RequestRows'
    BY <1>8 DEF AskPayment, Goto, Answer, Match, RowTraces, RequestRows, PageWork
  <2>4. SettledBeforeNews'
    BY <1>8 DEF AskPayment, Goto, Answer, Match, SettledBeforeNews, AnnouncersSettled, RemindersSettled, RowTraces, Due
  <2>5. AnnouncersSettled'
    BY <1>8 DEF AskPayment, Goto, Answer, Match, AnnouncersSettled, RowTraces, RequestRows, PageWork, Due
  <2>6. RemindersSettled'
    BY <1>8 DEF AskPayment, Goto, Answer, Match, RemindersSettled, RowTraces, Due
  <2>7. ConfirmInv'
    <3>1. UNCHANGED <<again, confirmed>> /\ \A e \in Requests, c \in Bookings : Announces(e, c)' => Announces(e, c)
      BY <1>8 DEF AskPayment, Goto, Answer, Announces
    <3>2. QED BY <3>1 DEF ConfirmInv
  <2>8. RemindInv'
    BY <1>8 DEF AskPayment, Goto, Answer, Match, RemindInv, RowTraces
  <2>9. QED BY <2>1, <2>2, <2>3, <2>4, <2>5, <2>6, <2>7, <2>8
<1>9. ASSUME NEW a \in Requests, CheckReuse(a) PROVE BookingInv'
  <2>1. NoDoubleBooking'
    BY <1>9 DEF CheckReuse, Goto, Answer, NoDoubleBooking
  <2>2. RowTraces'
    BY <1>9 DEF CheckReuse, Goto, Answer, RowTraces, RequestRows, AnnouncersSettled, RemindersSettled, PageWork
  <2>3. RequestRows'
    BY <1>9 DEF CheckReuse, Goto, Answer, RowTraces, RequestRows, PageWork
  <2>4. SettledBeforeNews'
    BY <1>9 DEF CheckReuse, Goto, Answer, SettledBeforeNews, AnnouncersSettled, RemindersSettled, RowTraces, Due
  <2>5. AnnouncersSettled'
    BY <1>9 DEF CheckReuse, Goto, Answer, AnnouncersSettled, RowTraces, RequestRows, PageWork, Due
  <2>6. RemindersSettled'
    BY <1>9 DEF CheckReuse, Goto, Answer, RemindersSettled, RowTraces, Due
  <2>7. ConfirmInv'
    BY <1>9 DEF CheckReuse, Goto, Answer, ConfirmInv, SettledBeforeNews, AnnouncersSettled, RowTraces, RequestRows, PageWork, Announces, Due
  <2>8. RemindInv'
    BY <1>9 DEF CheckReuse, Goto, Answer, RemindInv, RowTraces
  <2>9. QED BY <2>1, <2>2, <2>3, <2>4, <2>5, <2>6, <2>7, <2>8
<1>10. ASSUME NEW a \in Requests, MarkPaid(a) PROVE BookingInv'
  <2>1. NoDoubleBooking'
    BY <1>10 DEF MarkPaid, Goto, SetPaid, NoDoubleBooking
  <2>2. RowTraces'
    BY <1>10 DEF MarkPaid, Goto, SetPaid, RowTraces, RequestRows, AnnouncersSettled, RemindersSettled, PageWork
  <2>3. RequestRows'
    BY <1>10 DEF MarkPaid, Goto, SetPaid, RowTraces, RequestRows, PageWork
  <2>4. SettledBeforeNews'
    BY <1>10 DEF MarkPaid, Goto, SetPaid, SettledBeforeNews, AnnouncersSettled, RemindersSettled, RowTraces, Due
  <2>5. AnnouncersSettled'
    BY <1>10 DEF MarkPaid, Goto, SetPaid, AnnouncersSettled, RowTraces, RequestRows, PageWork, Due
  <2>6. RemindersSettled'
    BY <1>10 DEF MarkPaid, Goto, SetPaid, RemindersSettled, RowTraces, Due
  <2>7. ConfirmInv'
    BY <1>10 DEF MarkPaid, Goto, SetPaid, ConfirmInv, SettledBeforeNews, AnnouncersSettled, RowTraces, RequestRows, PageWork, Announces, Due
  <2>8. RemindInv'
    BY <1>10 DEF MarkPaid, Goto, SetPaid, RemindInv, RowTraces
  <2>9. QED BY <2>1, <2>2, <2>3, <2>4, <2>5, <2>6, <2>7, <2>8
<1>11. ASSUME NEW a \in Requests, MarkManually(a) PROVE BookingInv'
  <2>1. NoDoubleBooking'
    BY <1>11 DEF MarkManually, Goto, Answer, SetPaid, ConfirmsOnOrder, NoDoubleBooking
  <2>2. RowTraces'
    BY <1>11 DEF MarkManually, Goto, Answer, SetPaid, ConfirmsOnOrder, RowTraces, RequestRows, AnnouncersSettled, RemindersSettled, PageWork
  <2>3. RequestRows'
    <3>1. UNCHANGED <<slot, method>> /\ pc[a] = "markManually"
      BY <1>11 DEF MarkManually, SetPaid
    <3>2. ASSUME NEW r \in Requests
          PROVE  /\ pc'[r] # "idle" => pc[r] # "idle" /\ bk'[r] = bk[r]
                 /\ pc'[r] \in PageWork \cup {"markManually"} => pc[r] = pc'[r]
      <4>1. CASE r = a
        BY <1>11, <3>1, <4>1 DEF MarkManually, Goto, Answer, PageWork
      <4>2. CASE r # a
        BY <1>11, <4>2 DEF MarkManually, Goto, Answer
      <4>3. QED BY <4>1, <4>2
    <3>3. QED BY <3>1, <3>2 DEF RequestRows, PageWork
  <2>4. SettledBeforeNews'
    BY <1>11 DEF MarkManually, Goto, Answer, SetPaid, ConfirmsOnOrder, SettledBeforeNews, AnnouncersSettled, RemindersSettled, RowTraces, Due
  <2>5. AnnouncersSettled'
    BY <1>11 DEF MarkManually, Goto, Answer, SetPaid, ConfirmsOnOrder, AnnouncersSettled, RowTraces, RequestRows, PageWork, Due
  <2>6. RemindersSettled'
    BY <1>11 DEF MarkManually, Goto, Answer, SetPaid, ConfirmsOnOrder, RemindersSettled, RowTraces, Due
  <2>7. ConfirmInv'
    <3> DEFINE k == bk[a]
    <3>1. /\ k \in Bookings /\ UNCHANGED confirmed /\ a \notin Bookings /\ method[k] # "free" /\ Exists(k)
          /\ again' = IF pay[k] = "PAID" THEN again \cup {k} ELSE again
          /\ pc[a] = "markManually" /\ (pc'[a] = "announce" => method[k] # "cash" /\ bk'[a] = k)
          /\ \A e \in Requests \ {a} : pc'[e] = pc[e] /\ bk'[e] = bk[e]
      BY <1>11 DEF MarkManually, SetPaid, Goto, Answer, ConfirmsOnOrder, RowTraces, RequestRows
    <3>2. CASE pc'[a] # "announce" \/ k \in again'
      <4>1. again \subseteq again' /\ \A e \in Requests, c \in Bookings \ again' : Announces(e, c)' => Announces(e, c)
        BY <3>1, <3>2 DEF Announces
      <4>2. QED BY <3>1, <4>1 DEF ConfirmInv
    <3>3. CASE pc'[a] = "announce" /\ k \notin again'
      <4>0. Due(k)
        <5>1. pay[k] # "PAID"
          BY ONLY <3>1, <3>3
        <5>2. method[k] \in Methods \cup {"free"}
          BY <3>1
        <5>3. method[k] \in {"transfer", "gateway"}
          BY ONLY <5>2, <3>1, <3>3, MethodsAssumption
        <5>4. QED BY ONLY <5>1, <5>3 DEF Due
      <4>1. Due(k) /\ confirmed[k] = 0
        BY <3>1, <4>0 DEF SettledBeforeNews
      <4>2. \A e \in Requests : ~Announces(e, k)
        BY <4>1 DEF Announces, AnnouncersSettled
      <4>3. again' = again /\ \A e \in Requests, c \in Bookings : Announces(e, c)' => Announces(e, c) \/ (e = a /\ c = k)
        BY <3>1, <3>3 DEF Announces
      <4>4. QED BY <3>1, <4>1, <4>2, <4>3 DEF ConfirmInv
    <3>4. QED BY <3>2, <3>3
  <2>8. RemindInv'
    BY <1>11 DEF MarkManually, Goto, Answer, SetPaid, ConfirmsOnOrder, RemindInv, RowTraces
  <2>9. QED BY <2>1, <2>2, <2>3, <2>4, <2>5, <2>6, <2>7, <2>8
<1>12. ASSUME NEW a \in Requests, CrashRequest(a) PROVE BookingInv'
  <2>1. NoDoubleBooking'
    BY <1>12 DEF CrashRequest, Goto, Answer, NoDoubleBooking
  <2>2. RowTraces'
    BY <1>12 DEF CrashRequest, Goto, Answer, RowTraces, RequestRows, AnnouncersSettled, RemindersSettled, PageWork
  <2>3. RequestRows'
    BY <1>12 DEF CrashRequest, Goto, Answer, RowTraces, RequestRows, PageWork
  <2>4. SettledBeforeNews'
    BY <1>12 DEF CrashRequest, Goto, Answer, SettledBeforeNews, AnnouncersSettled, RemindersSettled, RowTraces, Due
  <2>5. AnnouncersSettled'
    BY <1>12 DEF CrashRequest, Goto, Answer, AnnouncersSettled, RowTraces, RequestRows, PageWork, Due
  <2>6. RemindersSettled'
    BY <1>12 DEF CrashRequest, Goto, Answer, RemindersSettled, RowTraces, Due
  <2>7. ConfirmInv'
    <3>1. \A r \in Requests : pc'[r] = "announce" => pc[r] = "announce" /\ bk'[r] = bk[r]
      BY <1>12 DEF CrashRequest, Goto, Answer
    <3>2. UNCHANGED <<again, confirmed>>
      BY <1>12 DEF CrashRequest
    <3>3. QED BY <3>1, <3>2 DEF ConfirmInv, Announces
  <2>8. RemindInv'
    BY <1>12 DEF CrashRequest, Goto, Answer, RemindInv, RowTraces
  <2>9. QED BY <2>1, <2>2, <2>3, <2>4, <2>5, <2>6, <2>7, <2>8
<1>13. ASSUME NEW a \in Requests, NEW b \in Bookings, PressMarkPaid(a, b) PROVE BookingInv'
  <2>1. NoDoubleBooking'
    BY <1>13 DEF PressMarkPaid, NoDoubleBooking
  <2>2. RowTraces'
    <3>1. /\ \A c \in Bookings : pc'[c] = pc[c] /\ bk'[c] = bk[c]
          /\ UNCHANGED <<row, invoices, confirmed, reminders>>
      BY <1>13 DEF PressMarkPaid
    <3>2. QED BY <3>1 DEF RowTraces
  <2>3. RequestRows'
    BY <1>13 DEF PressMarkPaid, RowTraces, RequestRows, PageWork
  <2>4. SettledBeforeNews'
    BY <1>13 DEF PressMarkPaid, SettledBeforeNews, AnnouncersSettled, RemindersSettled, RowTraces, Due
  <2>5. AnnouncersSettled'
    BY <1>13 DEF PressMarkPaid, AnnouncersSettled, RowTraces, RequestRows, PageWork, Due
  <2>6. RemindersSettled'
    BY <1>13 DEF PressMarkPaid, RemindersSettled, RowTraces, Due
  <2>7. ConfirmInv'
    BY <1>13 DEF PressMarkPaid, ConfirmInv, SettledBeforeNews, AnnouncersSettled, RowTraces, RequestRows, PageWork, Announces, Due
  <2>8. RemindInv'
    BY <1>13 DEF PressMarkPaid, RemindInv, RowTraces
  <2>9. QED BY <2>1, <2>2, <2>3, <2>4, <2>5, <2>6, <2>7, <2>8
<1>14. ASSUME NEW a \in Requests, NEW b \in Bookings, NEW p \in Bookings, OpenPage(a, b, p) PROVE BookingInv'
  <2>1. NoDoubleBooking'
    BY <1>14 DEF OpenPage, NoDoubleBooking
  <2>2. RowTraces'
    BY <1>14 DEF OpenPage, RowTraces, RequestRows, AnnouncersSettled, RemindersSettled, PageWork
  <2>3. RequestRows'
    BY <1>14 DEF OpenPage, RowTraces, RequestRows, PageWork
  <2>4. SettledBeforeNews'
    BY <1>14 DEF OpenPage, SettledBeforeNews, AnnouncersSettled, RemindersSettled, RowTraces, Due
  <2>5. AnnouncersSettled'
    BY <1>14 DEF OpenPage, AnnouncersSettled, RowTraces, RequestRows, PageWork, Due
  <2>6. RemindersSettled'
    BY <1>14 DEF OpenPage, RemindersSettled, RowTraces, Due
  <2>7. ConfirmInv'
    BY <1>14 DEF OpenPage, ConfirmInv, SettledBeforeNews, AnnouncersSettled, RowTraces, RequestRows, PageWork, Announces, Due
  <2>8. RemindInv'
    BY <1>14 DEF OpenPage, RemindInv, RowTraces
  <2>9. QED BY <2>1, <2>2, <2>3, <2>4, <2>5, <2>6, <2>7, <2>8
<1>15. ASSUME NEW v \in Servers, Scan(v) PROVE BookingInv'
  <2>1. NoDoubleBooking'
    BY <1>15 DEF Scan, Remindable, AwaitsPayment, ConfirmsOnOrder, ReminderDue, NoDoubleBooking
  <2>2. RowTraces'
    BY <1>15 DEF Scan, Remindable, AwaitsPayment, ConfirmsOnOrder, ReminderDue, RowTraces, RequestRows, AnnouncersSettled, RemindersSettled, PageWork
  <2>3. RequestRows'
    BY <1>15 DEF Scan, Remindable, AwaitsPayment, ConfirmsOnOrder, ReminderDue, RowTraces, RequestRows, PageWork
  <2>4. SettledBeforeNews'
    BY <1>15 DEF Scan, Remindable, AwaitsPayment, ConfirmsOnOrder, ReminderDue, SettledBeforeNews, AnnouncersSettled, RemindersSettled, RowTraces, Due
  <2>5. AnnouncersSettled'
    BY <1>15 DEF Scan, Remindable, AwaitsPayment, ConfirmsOnOrder, ReminderDue, AnnouncersSettled, RowTraces, RequestRows, PageWork, Due
  <2>6. RemindersSettled'
    BY <1>15 DEF Scan, Remindable, AwaitsPayment, ConfirmsOnOrder, ReminderDue, RemindersSettled, RowTraces, Due
  <2>7. ConfirmInv'
    BY <1>15 DEF Scan, Remindable, AwaitsPayment, ConfirmsOnOrder, ReminderDue, ConfirmInv, SettledBeforeNews, AnnouncersSettled, RowTraces, RequestRows, PageWork, Announces, Due
  <2>8. RemindInv'
    BY <1>15 DEF Scan, Remindable, AwaitsPayment, ConfirmsOnOrder, ReminderDue, RemindInv, RowTraces
  <2>9. QED BY <2>1, <2>2, <2>3, <2>4, <2>5, <2>6, <2>7, <2>8
<1>16. ASSUME NEW v \in Servers, ClaimReminder(v) PROVE BookingInv'
  <2>1. NoDoubleBooking'
    BY <1>16 DEF ClaimReminder, Claims, NoDoubleBooking
  <2>2. RowTraces'
    BY <1>16 DEF ClaimReminder, Claims, RowTraces, RequestRows, AnnouncersSettled, RemindersSettled, PageWork
  <2>3. RequestRows'
    BY <1>16 DEF ClaimReminder, Claims, RowTraces, RequestRows, PageWork
  <2>4. SettledBeforeNews'
    BY <1>16 DEF ClaimReminder, Claims, SettledBeforeNews, AnnouncersSettled, RemindersSettled, RowTraces, Due
  <2>5. AnnouncersSettled'
    BY <1>16 DEF ClaimReminder, Claims, AnnouncersSettled, RowTraces, RequestRows, PageWork, Due
  <2>6. RemindersSettled'
    BY <1>16 DEF ClaimReminder, Claims, RemindersSettled, RowTraces, Due
  <2>7. ConfirmInv'
    BY <1>16 DEF ClaimReminder, Claims, ConfirmInv, SettledBeforeNews, AnnouncersSettled, RowTraces, RequestRows, PageWork, Announces, Due
  <2>8. RemindInv'
    BY <1>16 DEF ClaimReminder, Claims, RemindInv, RowTraces
  <2>9. QED BY <2>1, <2>2, <2>3, <2>4, <2>5, <2>6, <2>7, <2>8
<1>17. ASSUME NEW v \in Servers, SendReminder(v) PROVE BookingInv'
  <2>1. NoDoubleBooking'
    BY <1>17 DEF SendReminder, NoDoubleBooking
  <2>2. RowTraces'
    BY <1>17 DEF SendReminder, RowTraces, RequestRows, AnnouncersSettled, RemindersSettled, PageWork
  <2>3. RequestRows'
    BY <1>17 DEF SendReminder, RowTraces, RequestRows, PageWork
  <2>4. SettledBeforeNews'
    BY <1>17 DEF SendReminder, SettledBeforeNews, AnnouncersSettled, RemindersSettled, RowTraces, Due
  <2>5. AnnouncersSettled'
    BY <1>17 DEF SendReminder, AnnouncersSettled, RowTraces, RequestRows, PageWork, Due
  <2>6. RemindersSettled'
    BY <1>17 DEF SendReminder, RemindersSettled, RowTraces, Due
  <2>7. ConfirmInv'
    BY <1>17 DEF SendReminder, ConfirmInv, SettledBeforeNews, AnnouncersSettled, RowTraces, RequestRows, PageWork, Announces, Due
  <2>8. RemindInv'
    BY <1>17 DEF SendReminder, RemindInv, RowTraces
  <2>9. QED BY <2>1, <2>2, <2>3, <2>4, <2>5, <2>6, <2>7, <2>8
<1>18. ASSUME NEW v \in Servers, CrashJob(v) PROVE BookingInv'
  <2>1. NoDoubleBooking'
    BY <1>18 DEF CrashJob, NoDoubleBooking
  <2>2. RowTraces'
    BY <1>18 DEF CrashJob, RowTraces, RequestRows, AnnouncersSettled, RemindersSettled, PageWork
  <2>3. RequestRows'
    BY <1>18 DEF CrashJob, RowTraces, RequestRows, PageWork
  <2>4. SettledBeforeNews'
    BY <1>18 DEF CrashJob, SettledBeforeNews, AnnouncersSettled, RemindersSettled, RowTraces, Due
  <2>5. AnnouncersSettled'
    BY <1>18 DEF CrashJob, AnnouncersSettled, RowTraces, RequestRows, PageWork, Due
  <2>6. RemindersSettled'
    BY <1>18 DEF CrashJob, RemindersSettled, RowTraces, Due
  <2>7. ConfirmInv'
    BY <1>18 DEF CrashJob, ConfirmInv, SettledBeforeNews, AnnouncersSettled, RowTraces, RequestRows, PageWork, Announces, Due
  <2>8. RemindInv'
    BY <1>18 DEF CrashJob, RemindInv, RowTraces
  <2>9. QED BY <2>1, <2>2, <2>3, <2>4, <2>5, <2>6, <2>7, <2>8
<1>19. ASSUME Tick PROVE BookingInv'
  <2>1. NoDoubleBooking'
    BY <1>19 DEF Tick, NoDoubleBooking
  <2>2. RowTraces'
    BY <1>19 DEF Tick, RowTraces, RequestRows, AnnouncersSettled, RemindersSettled, PageWork
  <2>3. RequestRows'
    BY <1>19 DEF Tick, RowTraces, RequestRows, PageWork
  <2>4. SettledBeforeNews'
    BY <1>19 DEF Tick, SettledBeforeNews, AnnouncersSettled, RemindersSettled, RowTraces, Due
  <2>5. AnnouncersSettled'
    BY <1>19 DEF Tick, AnnouncersSettled, RowTraces, RequestRows, PageWork, Due
  <2>6. RemindersSettled'
    BY <1>19 DEF Tick, RemindersSettled, RowTraces, Due
  <2>7. ConfirmInv'
    BY <1>19 DEF Tick, ConfirmInv, SettledBeforeNews, AnnouncersSettled, RowTraces, RequestRows, PageWork, Announces, Due
  <2>8. RemindInv'
    BY <1>19 DEF Tick, RemindInv, RowTraces
  <2>9. QED BY <2>1, <2>2, <2>3, <2>4, <2>5, <2>6, <2>7, <2>8
<1>20. CASE UNCHANGED vars
  BY <1>20 DEF vars, NoDoubleBooking, RowTraces, RequestRows, SettledBeforeNews, AnnouncersSettled, RemindersSettled, ConfirmInv, RemindInv, Announces, Due
<1>21. QED
  BY <1>1, <1>2, <1>3, <1>4, <1>5, <1>6, <1>7, <1>8, <1>9, <1>10, <1>11, <1>12, <1>13, <1>14, <1>15, <1>16, <1>17, <1>18, <1>19, <1>20
     DEF Next, Create, Manage, Confirm, Remind

\* The inductive invariant holds in every reachable state.
THEOREM BookingInvHolds == Spec => []BookingInv
<1>1. Init => BookingInv
  BY SlotsAssumption, ActorsAssumption
     DEF Init, BookingInv, TypeOK, NoDoubleBooking, RowInv, RowTraces, RequestRows, NewsInv, AnnouncersSettled, RemindersSettled, ConfirmInv, RemindInv, SettledBeforeNews,
         Announces, Due, Exists, PageWork, Places, Requests
<1>2. BookingInv /\ [Next]_vars => BookingInv'
  BY TypeStep, BookingInvStep DEF BookingInv
<1>3. QED
  BY <1>1, <1>2, PTL DEF Spec

\* The variables keep their types.
THEOREM TypeCorrect == Spec => []TypeOK
  BY BookingInvHolds, PTL DEF BookingInv

\* No two appointments share an hour of a resource.
THEOREM NoDoubleBookingHolds == Spec => []NoDoubleBooking
  BY BookingInvHolds, PTL DEF BookingInv

\* Nobody hears of a booking that is still to be paid.
THEOREM SettledBeforeNewsHolds == Spec => []SettledBeforeNews
  BY BookingInvHolds, PTL DEF BookingInv, NewsInv

\* A booking is confirmed once, unless two payment confirmations overlapped.
THEOREM ConfirmedOnceHolds == Spec => []ConfirmedOnce
<1>1. BookingInv => ConfirmedOnce
  <2> SUFFICES ASSUME BookingInv, NEW b \in Bookings \ again PROVE confirmed[b] <= 1
    BY DEF ConfirmedOnce
  <2>1. confirmed[b] \in {0, 1}
    BY DEF BookingInv, ConfirmInv
  <2>2. QED BY <2>1
<1>2. QED
  BY <1>1, BookingInvHolds, PTL

\* Each booking gets at most one reminder.
THEOREM RemindedOnceHolds == Spec => []RemindedOnce
<1>1. BookingInv => RemindedOnce
  <2> SUFFICES ASSUME BookingInv, NEW b \in Bookings PROVE reminders[b] <= 1
    BY DEF RemindedOnce
  <2>1. reminders[b] \in {0, 1}
    BY DEF BookingInv, RemindInv
  <2>2. QED BY <2>1
<1>2. QED
  BY <1>1, BookingInvHolds, PTL

-----------------------------------------------------------------------------
\* A page that has asked the gateway holds a payment that was made, of its own
\* booking or without a name.
PayRefInv ==
  \A a \in Requests :
    /\ pc[a] \in PageWork => ref[a] \in paid /\ bk[a] \in Bookings
    /\ pc[a] \in {"checkReuse", "markPaid"} => ref[a] = bk[a] \/ ref[a] \notin Named
PaidInv == PaidForReal /\ PayRefInv

LEMMA PaidInvStep == ASSUME TypeOK, PaidInv, [Next]_vars PROVE PaidInv'
<1> USE ActorsAssumption, BoundsAssumption, SlotsAssumption
    DEF TypeOK, PaidInv, PageWork, Places, Exists, row, payment, local, job, world, Requests
<1>1. ASSUME NEW b \in Bookings, NEW s \in Slots, NEW m \in Methods, Book(b, s, m) PROVE PaidInv'
  <2>1. pay'[b] # "PAID" \/ pay' = pay
    BY <1>1 DEF Book
  <2>2. PaidForReal'
    BY <1>1, <2>1 DEF Book, PaidForReal
  <2>3. PayRefInv'
    BY <1>1 DEF Book, Answer, Goto, AfterBook, ConfirmsOnOrder, PayRefInv
  <2>4. QED BY <2>2, <2>3
<1>2. ASSUME NEW b \in Bookings, StartPayment(b) PROVE PaidInv'
  <2>1. PaidForReal'
    BY <1>2 DEF StartPayment, Answer, Goto, PaidForReal, PayRefInv
  <2>2. PayRefInv'
    BY <1>2 DEF StartPayment, Answer, Goto, PayRefInv
  <2>3. QED BY <2>1, <2>2
<1>3. ASSUME NEW b \in Bookings, StoreInvoice(b) PROVE PaidInv'
  <2>1. PaidForReal'
    BY <1>3 DEF StoreInvoice, Answer, Goto, PaidForReal, PayRefInv
  <2>2. PayRefInv'
    BY <1>3 DEF StoreInvoice, Answer, Goto, PayRefInv
  <2>3. QED BY <2>1, <2>2
<1>4. ASSUME NEW b \in Bookings, Pay(b) PROVE PaidInv'
  <2>1. PaidForReal'
    BY <1>4 DEF Pay, PaidForReal, PayRefInv
  <2>2. PayRefInv'
    BY <1>4 DEF Pay, PayRefInv
  <2>3. QED BY <2>1, <2>2
<1>5. ASSUME NEW b \in Bookings, Cancel(b) PROVE PaidInv'
  <2>1. PaidForReal'
    BY <1>5 DEF Cancel, PaidForReal, PayRefInv
  <2>2. PayRefInv'
    BY <1>5 DEF Cancel, PayRefInv
  <2>3. QED BY <2>1, <2>2
<1>6. ASSUME NEW b \in Bookings, NEW s \in Slots, Reschedule(b, s) PROVE PaidInv'
  <2>1. PaidForReal'
    BY <1>6 DEF Reschedule, PaidForReal, PayRefInv
  <2>2. PayRefInv'
    BY <1>6 DEF Reschedule, PayRefInv
  <2>3. QED BY <2>1, <2>2
<1>7. ASSUME NEW a \in Requests, Announce(a) PROVE PaidInv'
  <2>1. PaidForReal'
    BY <1>7 DEF Announce, Answer, Goto, PaidForReal, PayRefInv
  <2>2. PayRefInv'
    BY <1>7 DEF Announce, Answer, Goto, PayRefInv
  <2>3. QED BY <2>1, <2>2
<1>8. ASSUME NEW a \in Requests, AskPayment(a) PROVE PaidInv'
  <2>1. PaidForReal'
    BY <1>8 DEF AskPayment, Answer, Goto, Match, PaidForReal, PayRefInv
  <2>2. PayRefInv'
    BY <1>8 DEF AskPayment, Answer, Goto, Match, PayRefInv
  <2>3. QED BY <2>1, <2>2
<1>9. ASSUME NEW a \in Requests, CheckReuse(a) PROVE PaidInv'
  <2>1. PaidForReal'
    BY <1>9 DEF CheckReuse, Answer, Goto, PaidForReal, PayRefInv
  <2>2. PayRefInv'
    BY <1>9 DEF CheckReuse, Answer, Goto, PayRefInv
  <2>3. QED BY <2>1, <2>2
<1>10. ASSUME NEW a \in Requests, MarkPaid(a) PROVE PaidInv'
  <2>1. PaidForReal'
    BY <1>10 DEF MarkPaid, Goto, SetPaid, PaidForReal, PayRefInv
  <2>2. PayRefInv'
    BY <1>10 DEF MarkPaid, Goto, SetPaid, PayRefInv
  <2>3. QED BY <2>1, <2>2
<1>11. ASSUME NEW a \in Requests, MarkManually(a) PROVE PaidInv'
  <2>1. PaidForReal'
    BY <1>11 DEF MarkManually, Answer, Goto, SetPaid, PaidForReal, PayRefInv
  <2>2. PayRefInv'
    BY <1>11 DEF MarkManually, Answer, Goto, SetPaid, PayRefInv
  <2>3. QED BY <2>1, <2>2
<1>12. ASSUME NEW a \in Requests, CrashRequest(a) PROVE PaidInv'
  <2>1. PaidForReal'
    BY <1>12 DEF CrashRequest, Answer, Goto, PaidForReal, PayRefInv
  <2>2. PayRefInv'
    BY <1>12 DEF CrashRequest, Answer, Goto, PayRefInv
  <2>3. QED BY <2>1, <2>2
<1>13. ASSUME NEW a \in Requests, NEW b \in Bookings, PressMarkPaid(a, b) PROVE PaidInv'
  <2>1. PaidForReal'
    BY <1>13 DEF PressMarkPaid, PaidForReal, PayRefInv
  <2>2. PayRefInv'
    BY <1>13 DEF PressMarkPaid, PayRefInv
  <2>3. QED BY <2>1, <2>2
<1>14. ASSUME NEW a \in Requests, NEW b \in Bookings, NEW p \in Bookings, OpenPage(a, b, p) PROVE PaidInv'
  <2>1. PaidForReal'
    BY <1>14 DEF OpenPage, PaidForReal, PayRefInv
  <2>2. PayRefInv'
    BY <1>14 DEF OpenPage, PayRefInv
  <2>3. QED BY <2>1, <2>2
<1>15. ASSUME NEW v \in Servers, Scan(v) PROVE PaidInv'
  <2>1. PaidForReal'
    BY <1>15 DEF Scan, PaidForReal, PayRefInv
  <2>2. PayRefInv'
    BY <1>15 DEF Scan, PayRefInv
  <2>3. QED BY <2>1, <2>2
<1>16. ASSUME NEW v \in Servers, ClaimReminder(v) PROVE PaidInv'
  <2>1. PaidForReal'
    BY <1>16 DEF ClaimReminder, PaidForReal, PayRefInv
  <2>2. PayRefInv'
    BY <1>16 DEF ClaimReminder, PayRefInv
  <2>3. QED BY <2>1, <2>2
<1>17. ASSUME NEW v \in Servers, SendReminder(v) PROVE PaidInv'
  <2>1. PaidForReal'
    BY <1>17 DEF SendReminder, PaidForReal, PayRefInv
  <2>2. PayRefInv'
    BY <1>17 DEF SendReminder, PayRefInv
  <2>3. QED BY <2>1, <2>2
<1>18. ASSUME NEW v \in Servers, CrashJob(v) PROVE PaidInv'
  <2>1. PaidForReal'
    BY <1>18 DEF CrashJob, PaidForReal, PayRefInv
  <2>2. PayRefInv'
    BY <1>18 DEF CrashJob, PayRefInv
  <2>3. QED BY <2>1, <2>2
<1>19. ASSUME Tick PROVE PaidInv'
  <2>1. PaidForReal'
    BY <1>19 DEF Tick, PaidForReal, PayRefInv
  <2>2. PayRefInv'
    BY <1>19 DEF Tick, PayRefInv
  <2>3. QED BY <2>1, <2>2
<1>20. CASE UNCHANGED vars
  BY <1>20 DEF vars, PaidForReal, PayRefInv
<1>21. QED
  BY <1>1, <1>2, <1>3, <1>4, <1>5, <1>6, <1>7, <1>8, <1>9, <1>10,
     <1>11, <1>12, <1>13, <1>14, <1>15, <1>16, <1>17, <1>18, <1>19, <1>20
     DEF Next, Create, Manage, Confirm, Remind

\* A booking is PAID because it was paid, or the merchant said so, or a payment that
\* names no invoice was shown.
THEOREM PaidForRealHolds == Spec => []PaidForReal
<1>1. Init => PaidInv
  BY DEF Init, PaidInv, PaidForReal, PayRefInv, PageWork
<1>2. PaidInv => PaidForReal
  BY DEF PaidInv
<1>3. QED
  BY <1>1, <1>2, PaidInvStep, TypeCorrect, PTL DEF Spec
=============================================================================
