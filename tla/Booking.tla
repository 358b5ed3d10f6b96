------------------------------- MODULE Booking -------------------------------
(***************************************************************************)
(* Appointments of one company: booking a slot, paying for it, confirming  *)
(* it to customer and merchant, moving and cancelling it, and reminding    *)
(* the customer before it.                                                 *)
(*                                                                         *)
(* A creation request inserts the row and only then starts the payment and *)
(* sends the confirmation.  Payment is learnt by a page the customer       *)
(* returns to or from the merchant's "Mark paid".  Reminders are sent by a *)
(* job that runs in every server.  A step is what happens between awaits.  *)
(*                                                                         *)
(* Time counts whole units up to MaxTime; a slot is one hour of one        *)
(* resource and At[s] the time of it.                                      *)
(***************************************************************************)
EXTENDS Integers, FiniteSets

CONSTANTS Bookings,     \* creation requests, and the rows they insert
          Slots, At,
          Methods,      \* "free", "cash", "transfer" or "gateway"
          Pages,        \* pages that call the payment-status route
          Staff,        \* "Mark paid" requests
          Servers,      \* servers that run the reminder job
          Named,        \* bookings whose payment the gateway answers with its invoice
          Before,       \* settings.reminderHoursBefore
          None, MaxTime, MaxCrashes

Requests == Bookings \cup Pages \cup Staff

ASSUME SlotsAssumption   == At \in [Slots -> Nat] /\ None \notin Slots \cup Bookings
ASSUME MethodsAssumption == Methods \subseteq {"free", "cash", "transfer", "gateway"}
ASSUME ActorsAssumption  ==
  Bookings \cap (Pages \cup Staff) = {} /\ Pages \cap Staff = {} /\ Servers \cap Requests = {}
ASSUME BoundsAssumption  == Named \subseteq Bookings /\ {Before, MaxTime, MaxCrashes} \subseteq Nat

VARIABLES
  slot,       \* slot[b]: resource, date and hour of the row, None before it exists
  status,     \* status[b]
  pay,        \* pay[b]: paymentStatus
  method,     \* method[b]: paymentMethodType
  created,    \* created[b]: createdAt
  invoices,   \* bookings whose row has a myFatoorahInvoiceId
  payRef,     \* payRef[b]: myFatoorahPaymentId (b's own payment is b)
  paid,       \* invoices paid at the gateway
  marked,     \* bookings the merchant marked as paid
  again,      \* bookings that were set PAID when they were PAID already
  confirmed,  \* confirmed[b]: how often its confirmation was sent
  claimed,    \* bookings with a reminderSentAt
  reminders,  \* reminders[b]: reminders sent
  pc, bk, ref,  \* each request: where it stands, its booking and payment id
  todo,       \* todo[v]: decisions of v's reminder run not acted on yet
  sending,    \* sending[v]: the booking v has claimed to remind
  now, crashes

row     == <<slot, status, pay, method, created>>
payment == <<invoices, payRef, paid, marked, again>>
local   == <<pc, bk, ref>>
job     == <<claimed, reminders, todo, sending>>
world   == <<now, crashes>>
vars    == <<slot, status, pay, method, created, invoices, payRef, paid, marked, again, confirmed,
             claimed, reminders, pc, bk, ref, todo, sending, now, crashes>>

Places == {"idle", "announce", "startPayment", "storeInvoice", "askPayment", "checkReuse",
           "markPaid", "markManually", "done"}
Exists(b)          == slot[b] # None
ConfirmsOnOrder(m) == m = "cash"

Init ==
  /\ slot = [b \in Bookings |-> None] /\ status = [b \in Bookings |-> "CONFIRMED"]
  /\ pay = [b \in Bookings |-> "NOT_REQUIRED"] /\ method = [b \in Bookings |-> "free"]
  /\ created = [b \in Bookings |-> 0] /\ invoices = {} /\ paid = {} /\ marked = {} /\ again = {}
  /\ payRef = [b \in Bookings |-> None]
  /\ confirmed = [b \in Bookings |-> 0] /\ reminders = [b \in Bookings |-> 0] /\ claimed = {}
  /\ pc = [a \in Requests |-> "idle"]
  /\ bk = [a \in Requests |-> IF a \in Bookings THEN a ELSE None]
  /\ ref = [a \in Requests |-> None]
  /\ todo = [v \in Servers |-> {}] /\ sending = [v \in Servers |-> None]
  /\ now = 0 /\ crashes = 0

Goto(a, place) == pc' = [pc EXCEPT ![a] = place] /\ UNCHANGED <<bk, ref>>
\* The request is answered: a creation is over, a page or a button may come again.
Answer(a) ==
  IF a \in Bookings
  THEN Goto(a, "done")
  ELSE /\ pc' = [pc EXCEPT ![a] = "idle"]
       /\ bk' = [bk EXCEPT ![a] = None] /\ ref' = [ref EXCEPT ![a] = None]

-----------------------------------------------------------------------------
(* createBooking.                                                          *)

\* The unique index on resource, date and hour counts every row.
Taken(s) == \E b \in Bookings : slot[b] = s

AfterBookEager(m) == IF m = "gateway" THEN "startPayment" ELSE "announce"  \* mutant
AfterBook(m) ==
  IF m = "free" \/ ConfirmsOnOrder(m) THEN "announce" ELSE IF m = "transfer" THEN "done" ELSE "startPayment"

\* The insert.  What follows depends on the method the customer picked.
Book(b, s, m) ==
  /\ pc[b] = "idle" /\ ~Exists(b)
  /\ IF Taken(s)
     THEN UNCHANGED row /\ Answer(b)
     ELSE /\ slot' = [slot EXCEPT ![b] = s] /\ method' = [method EXCEPT ![b] = m]
          /\ created' = [created EXCEPT ![b] = now]
          /\ pay' = [pay EXCEPT ![b] = IF m = "free" THEN "NOT_REQUIRED" ELSE "AWAITING_PAYMENT"]
          /\ Goto(b, AfterBook(m))
          /\ UNCHANGED status
  /\ UNCHANGED <<payment, confirmed, job, world>>

\* startTenantPayment: when the gateway refuses, the row stays without an invoice.
StartPayment(b) ==
  /\ pc[b] = "startPayment"
  /\ Goto(b, "storeInvoice") \/ Answer(b)
  /\ UNCHANGED <<row, payment, confirmed, job, world>>

StoreInvoice(b) ==
  /\ pc[b] = "storeInvoice"
  /\ invoices' = invoices \cup {b}
  /\ Answer(b)
  /\ UNCHANGED <<row, payRef, paid, marked, again, confirmed, job, world>>

\* runBookingConfirmationSideEffects, after a creation or a payment.
Announce(a) ==
  /\ pc[a] = "announce"
  /\ confirmed' = [confirmed EXCEPT ![bk[a]] = @ + 1]
  /\ Answer(a)
  /\ UNCHANGED <<row, payment, job, world>>

Pay(b) ==
  /\ b \in invoices \ paid
  /\ paid' = paid \cup {b}
  /\ UNCHANGED <<row, invoices, payRef, marked, again, confirmed, local, job, world>>

-----------------------------------------------------------------------------
(* confirmBookingPaymentIfPaid, from the page the customer returns to.     *)

OpenPage(a, b, p) ==
  /\ a \in Pages /\ pc[a] = "idle"
  /\ b \in invoices /\ p \in paid /\ pay[b] = "AWAITING_PAYMENT"
  /\ pc' = [pc EXCEPT ![a] = "askPayment"]
  /\ bk' = [bk EXCEPT ![a] = b] /\ ref' = [ref EXCEPT ![a] = p]
  /\ UNCHANGED <<row, payment, confirmed, job, world>>

Match(a) ==
  IF ref[a] \in Named THEN IF ref[a] = bk[a] THEN "match" ELSE "mismatch" ELSE "unknown"

\* Paid, or no clear answer; a payment of another invoice is refused.
AskPayment(a) ==
  /\ pc[a] = "askPayment"
  /\ \/ Match(a) # "mismatch" /\ Goto(a, "checkReuse")
     \/ Answer(a)
  /\ UNCHANGED <<row, payment, confirmed, job, world>>

CheckReuse(a) ==
  /\ pc[a] = "checkReuse"
  /\ IF \E b \in Bookings \ {bk[a]} : payRef[b] = ref[a] THEN Answer(a) ELSE Goto(a, "markPaid")
  /\ UNCHANGED <<row, payment, confirmed, job, world>>

\* An update by id: the status read before the gateway was asked is not checked.
SetPaid(b) ==
  /\ pay' = [pay EXCEPT ![b] = "PAID"]
  /\ again' = IF pay[b] = "PAID" THEN again \cup {b} ELSE again
  /\ UNCHANGED <<slot, status, method, created>>

MarkPaid(a) ==
  /\ pc[a] = "markPaid"
  /\ SetPaid(bk[a])
  /\ payRef' = [payRef EXCEPT ![bk[a]] = ref[a]]
  /\ Goto(a, "announce")
  /\ UNCHANGED <<invoices, paid, marked, confirmed, job, world>>

-----------------------------------------------------------------------------
(* The merchant.                                                           *)

PressMarkPaid(a, b) ==
  /\ a \in Staff /\ pc[a] = "idle"
  /\ Exists(b) /\ pay[b] = "AWAITING_PAYMENT"
  /\ pc' = [pc EXCEPT ![a] = "markManually"] /\ bk' = [bk EXCEPT ![a] = b]
  /\ UNCHANGED <<row, payment, confirmed, ref, job, world>>

\* A booking that was confirmed when it was made is not confirmed again.
MarkManually(a) ==
  /\ pc[a] = "markManually"
  /\ SetPaid(bk[a])
  /\ marked' = marked \cup {bk[a]}
  /\ IF ConfirmsOnOrder(method[bk[a]]) THEN Answer(a) ELSE Goto(a, "announce")
  /\ UNCHANGED <<invoices, payRef, paid, confirmed, job, world>>

Cancel(b) ==
  /\ Exists(b)
  /\ status' = [status EXCEPT ![b] = "CANCELLED"]
  /\ UNCHANGED <<slot, pay, method, created, payment, confirmed, local, job, world>>

\* The update fails on the unique index when another row has the slot.
RescheduleBlind(b, s) ==                                     \* mutant
  /\ Exists(b) /\ slot' = [slot EXCEPT ![b] = s]
  /\ UNCHANGED <<status, pay, method, created, payment, confirmed, local, job, world>>
Reschedule(b, s) ==
  /\ Exists(b) /\ ~Taken(s)
  /\ slot' = [slot EXCEPT ![b] = s]
  /\ UNCHANGED <<status, pay, method, created, payment, confirmed, local, job, world>>

-----------------------------------------------------------------------------
(* The reminder job.                                                       *)

\* isReminderDue.
ReminderDueLate(b) ==                                        \* mutant
  IF now < At[slot[b]] /\ now >= At[slot[b]] - Before THEN "send" ELSE "wait"
WindowStart(b) == At[slot[b]] - Before
ReminderDue(b) ==
  IF now >= At[slot[b]] \/ created[b] >= WindowStart(b) THEN "skip"
  ELSE IF now >= WindowStart(b) THEN "send" ELSE "wait"

\* Not cancelled, not reminded, and not waiting for a payment.
AwaitsPayment(b) == pay[b] = "AWAITING_PAYMENT" /\ ~ConfirmsOnOrder(method[b])
Remindable(b) ==
  /\ Exists(b) /\ b \notin claimed /\ status[b] # "CANCELLED" /\ ~AwaitsPayment(b)
  /\ ReminderDue(b) # "wait"

\* The rows are read once; each is then decided as it was read.
Scan(v) ==
  /\ todo[v] = {} /\ sending[v] = None
  /\ \E b \in Bookings : Remindable(b)
  /\ todo' = [todo EXCEPT ![v] = {<<b, ReminderDue(b)>> : b \in {c \in Bookings : Remindable(c)}}]
  /\ UNCHANGED <<row, payment, confirmed, local, claimed, reminders, sending, world>>

\* UPDATE ... WHERE reminderSentAt IS NULL: the count says who sends it.
ClaimsAlways(b) == TRUE                                      \* mutant
Claims(b) == b \notin claimed
ClaimReminder(v) ==
  /\ sending[v] = None
  /\ \E d \in todo[v] :
       /\ todo' = [todo EXCEPT ![v] = @ \ {d}]
       /\ claimed' = claimed \cup {d[1]}
       /\ sending' = IF Claims(d[1]) /\ d[2] = "send" THEN [sending EXCEPT ![v] = d[1]] ELSE sending
  /\ UNCHANGED <<row, payment, confirmed, local, reminders, world>>

\* The template is sent, or refused: it is not tried again.
SendReminder(v) ==
  /\ sending[v] # None
  /\ reminders' \in {reminders, [reminders EXCEPT ![sending[v]] = @ + 1]}
  /\ sending' = [sending EXCEPT ![v] = None]
  /\ UNCHANGED <<row, payment, confirmed, local, claimed, todo, world>>

-----------------------------------------------------------------------------
Tick ==
  /\ now < MaxTime
  /\ now' = now + 1
  /\ UNCHANGED <<row, payment, confirmed, local, job, crashes>>

\* A request or a reminder run stops half-way: a restart, or a call that throws.
CrashRequest(a) ==
  /\ crashes < MaxCrashes /\ pc[a] \notin {"idle", "done"}
  /\ crashes' = crashes + 1
  /\ Answer(a)
  /\ UNCHANGED <<row, payment, confirmed, job, now>>
CrashJob(v) ==
  /\ crashes < MaxCrashes /\ (todo[v] # {} \/ sending[v] # None)
  /\ crashes' = crashes + 1
  /\ todo' = [todo EXCEPT ![v] = {}] /\ sending' = [sending EXCEPT ![v] = None]
  /\ UNCHANGED <<row, payment, confirmed, local, claimed, reminders, now>>

Create(b)   == StartPayment(b) \/ StoreInvoice(b) \/ \E s \in Slots, m \in Methods : Book(b, s, m)
Confirm(a)  == Announce(a) \/ AskPayment(a) \/ CheckReuse(a) \/ MarkPaid(a) \/ MarkManually(a)
Manage(b)   == Pay(b) \/ Cancel(b) \/ \E s \in Slots : Reschedule(b, s)
Remind(v)   == Scan(v) \/ ClaimReminder(v) \/ SendReminder(v)

Next ==
  \/ \E b \in Bookings : Create(b) \/ Manage(b)
  \/ \E a \in Requests : Confirm(a) \/ CrashRequest(a)
  \/ \E a \in Requests, b \in Bookings : PressMarkPaid(a, b) \/ \E p \in Bookings : OpenPage(a, b, p)
  \/ \E v \in Servers : Remind(v) \/ CrashJob(v)
  \/ Tick

Spec == Init /\ [][Next]_vars

\* Time passes, and every server runs the job every five minutes.
FairSpec == Spec /\ WF_vars(Tick) /\ \A v \in Servers : WF_vars(Remind(v))

-----------------------------------------------------------------------------
(* Properties.                                                             *)

TypeOK ==
  /\ slot \in [Bookings -> Slots \cup {None}] /\ status \in [Bookings -> {"CONFIRMED", "CANCELLED"}]
  /\ pay \in [Bookings -> {"NOT_REQUIRED", "AWAITING_PAYMENT", "PAID"}]
  /\ method \in [Bookings -> Methods \cup {"free"}] /\ created \in [Bookings -> Nat]
  /\ invoices \subseteq Bookings /\ paid \subseteq Bookings /\ marked \subseteq Bookings
  /\ again \subseteq Bookings /\ claimed \subseteq Bookings
  /\ payRef \in [Bookings -> Bookings \cup {None}]
  /\ confirmed \in [Bookings -> Nat] /\ reminders \in [Bookings -> Nat]
  /\ pc \in [Requests -> Places] /\ bk \in [Requests -> Bookings \cup {None}]
  /\ ref \in [Requests -> Bookings \cup {None}]
  /\ todo \in [Servers -> SUBSET (Bookings \X {"send", "skip"})]
  /\ sending \in [Servers -> Bookings \cup {None}]
  /\ now \in Nat /\ crashes \in Nat

\* No two appointments share an hour of a resource, whatever is booked, moved
\* or cancelled at the same time.
NoDoubleBooking ==
  \A b, c \in Bookings : Exists(b) /\ slot[b] = slot[c] => b = c

\* Neither customer nor merchant hears of a booking that is still to be paid,
\* and no reminder goes out for one.
Due(b) == method[b] \in {"transfer", "gateway"} /\ pay[b] # "PAID"
SettledBeforeNews == \A b \in Bookings : confirmed[b] > 0 \/ reminders[b] > 0 => ~Due(b)

\* "The first time only, not at every query": a booking is confirmed at most
\* once, unless two payment confirmations of it overlapped.
ConfirmedOnce == \A b \in Bookings \ again : confirmed[b] <= 1

\* Each booking gets at most one reminder, though every server runs the job.
RemindedOnce == \A b \in Bookings : reminders[b] <= 1

\* A booking is PAID because its own invoice was paid or because the merchant
\* said so; only a payment that names no invoice can stand for another booking.
PaidForReal ==
  \A b \in Bookings : pay[b] = "PAID" => b \in paid \cup marked \/ payRef[b] \in paid \ Named

\* The inductive invariant behind them.  RowInv: a booking leaves no trace
\* before its row exists, and its method and payment agree.  NewsInv: whoever is
\* about to tell of a booking has found it settled.  OnceInv: the confirmation
\* and the reminder of a booking are sent, or in the hands of one sender.
PageWork == {"askPayment", "checkReuse", "markPaid"}
RowTraces ==
  \A b \in Bookings :
    /\ bk[b] = b /\ pc[b] \notin PageWork \cup {"markManually"}
    /\ pc[b] = "idle" => ~Exists(b)
    /\ b \in invoices \/ pc[b] \in {"startPayment", "storeInvoice"} => Exists(b) /\ method[b] = "gateway"
    /\ pay[b] = "NOT_REQUIRED" <=> method[b] = "free"
    /\ ~Exists(b) => confirmed[b] = 0 /\ reminders[b] = 0
RequestRows ==
  \A a \in Pages \cup Staff :
    /\ pc[a] # "idle" => bk[a] \in Bookings /\ Exists(bk[a])
    /\ pc[a] \in PageWork => method[bk[a]] = "gateway"
    /\ pc[a] = "markManually" => method[bk[a]] # "free"
RowInv == RowTraces /\ RequestRows
AnnouncersSettled == \A a \in Requests : pc[a] = "announce" => ~Due(bk[a]) /\ Exists(bk[a])
RemindersSettled ==
  \A v \in Servers :
    /\ \A d \in todo[v] : ~Due(d[1]) /\ Exists(d[1])
    /\ sending[v] # None => ~Due(sending[v]) /\ Exists(sending[v])
NewsInv == SettledBeforeNews /\ AnnouncersSettled /\ RemindersSettled
Announces(a, b) == pc[a] = "announce" /\ bk[a] = b
ConfirmInv ==
  \A b \in Bookings \ again :
    /\ confirmed[b] \in {0, 1}
    /\ \A a \in Requests : Announces(a, b) => confirmed[b] = 0
    /\ \A a, c \in Requests : Announces(a, b) /\ Announces(c, b) => a = c
RemindInv ==
  /\ \A b \in Bookings : reminders[b] \in {0, 1} /\ (reminders[b] = 1 => b \in claimed)
  /\ \A v \in Servers : sending[v] # None => sending[v] \in claimed /\ reminders[sending[v]] = 0
  /\ \A v, w \in Servers : sending[v] # None /\ sending[v] = sending[w] => v = w
BookingInv == TypeOK /\ NoDoubleBooking /\ RowInv /\ NewsInv /\ ConfirmInv /\ RemindInv

\* An appointment that is not cancelled and not waiting for a payment is
\* handled by the reminder job in the end, even if the job misses its window.
EveryBookingReminded ==
  \A b \in Bookings :
    (Exists(b) /\ ~AwaitsPayment(b)) ~> (b \in claimed \/ status[b] = "CANCELLED")
=============================================================================
