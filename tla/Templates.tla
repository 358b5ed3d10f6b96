------------------------------ MODULE Templates ------------------------------
(***************************************************************************)
(* A company's WhatsApp account and its message templates.  Every request  *)
(* that saves an account asks Meta afterwards whether it works.  Templates *)
(* are made at Meta first and kept as rows, one per name; Meta reviews     *)
(* them in its own time, and the panel asks for the outcome whenever a     *)
(* page, a reminder or a campaign needs it.  Between a row read and a row  *)
(* written Meta is asked, and other requests run.                          *)
(***************************************************************************)
EXTENDS Integers, Sequences

CONSTANTS
  Requests,
  Accounts, Valid, NoAccount,  \* tokens with their number and WABA; those Meta accepts
  Purposes, Languages,         \* what the platform writes templates for, in order
  Own,                         \* names of the merchant's own templates
  Ids, NoId,                   \* ids Meta gives to templates
  Carousels,                   \* the cards merchants ask for: the kinds of buttons of each
  MaxEvents                    \* reviews by Meta and servers that stop

VARIABLES
  settings,  \* whatsapp_settings: the account and isConnected
  doubt,     \* isConnected is Meta's answer about another account, or out of date
  meta,      \* the templates at Meta
  rows,      \* whatsapp_templates, one per name of a company
  job,
  approved,  \* the ids Meta has ever approved
  moved,     \* names whose row holds what Meta said of another template
  events

vars == <<settings, doubt, meta, rows, job, approved, moved, events>>

\* The platform's templates have a name per purpose and language.
BookingName(p, l) == <<p, l>>
Booking(l) == [k \in DOMAIN Purposes |-> BookingName(Purposes[k], l)]
BookingNames == {BookingName(Purposes[k], l) : k \in DOMAIN Purposes, l \in Languages}
Names == BookingNames \cup Own

Unmade == [account |-> NoAccount, name |-> <<>>, status |-> "none"]
NoRow  == [id |-> NoId, status |-> "none"]
Idle   == [at |-> "idle", what |-> "none", todo |-> <<>>, name |-> <<>>, id |-> NoId, row |-> "none",
           status |-> "none", account |-> NoAccount, sure |-> FALSE]

Init ==
  /\ settings = [account |-> NoAccount, connected |-> FALSE] /\ doubt = FALSE
  /\ meta = [i \in Ids |-> Unmade] /\ rows = [n \in Names |-> NoRow]
  /\ job = [q \in Requests |-> Idle]
  /\ approved = {} /\ moved = {} /\ events = 0

templates == <<meta, rows, approved, moved, events>>
Go(q, j) == job' = [job EXCEPT ![q] = j]
Done(q)  == Go(q, Idle)
Event    == events < MaxEvents /\ events' = events + 1

-----------------------------------------------------------------------------
(* The account.                                                            *)

\* The old isConnected stands until Meta has told of the new account.
Connect(q, a) ==
  /\ job[q].at = "idle" /\ settings' = [settings EXCEPT !.account = a]
  /\ Go(q, [Idle EXCEPT !.at = "verify"]) /\ UNCHANGED <<doubt, templates>>
\* Signed in at Meta: it gave the token and told the number.
SignUp(q, a) == a \in Valid /\ Connect(q, a)
Verify(q) == job[q].at = "idle" /\ Go(q, [Idle EXCEPT !.at = "verify"]) /\ UNCHANGED <<settings, doubt, templates>>
Disconnect ==
  /\ settings' = [account |-> NoAccount, connected |-> FALSE] /\ UNCHANGED <<doubt, job, templates>>

VerifyRead(q) ==
  /\ job[q].at = "verify"
  /\ IF settings.account = NoAccount
     THEN Done(q) /\ settings' = [settings EXCEPT !.connected = FALSE]
     ELSE Go(q, [job[q] EXCEPT !.at = "verified", !.account = settings.account]) /\ UNCHANGED settings
  /\ UNCHANGED <<doubt, templates>>
\* Meta may be out of reach; then the account counts as not connected.
Verdicts(a) == {FALSE, (a \in Valid)}
IfVerified(ok) == settings.connected \/ ok   \* mutant: a refusal is not written down
Connected(ok) == ok
VerifyStore(q) ==
  /\ job[q].at = "verified" /\ Done(q)
  /\ \E ok \in Verdicts(job[q].account) : settings' = [settings EXCEPT !.connected = Connected(ok)]
  /\ doubt' = (job[q].account # settings.account) /\ UNCHANGED templates

-----------------------------------------------------------------------------
(* Making templates.                                                       *)

\* The booking templates that are missing or were rejected, one after another.
Ensure(q, l) ==
  /\ job[q].at = "idle" /\ settings.connected /\ settings.account # NoAccount
  /\ Go(q, [Idle EXCEPT !.at = "look", !.what = "ensure", !.todo = Booking(l), !.account = settings.account])
  /\ UNCHANGED <<settings, doubt, templates>>
NextName(q) ==
  Go(q, IF Len(job[q].todo) <= 1 THEN Idle
        ELSE [Idle EXCEPT !.at = "look", !.what = "ensure", !.todo = Tail(job[q].todo), !.account = job[q].account])
Look(q) == LET n == Head(job[q].todo) IN
  /\ job[q].at = "look"
  /\ IF rows[n].status \notin {"none", "REJECTED"} THEN NextName(q)
     ELSE Go(q, [job[q] EXCEPT !.at = "make", !.name = n, !.row = IF rows[n] = NoRow THEN "none" ELSE "kept"])
  /\ UNCHANGED <<settings, doubt, templates>>

\* Two to ten cards, with the same kinds of buttons in the same order.
CarouselProblem(cards) == Len(cards) \notin 2..10 \/ \E k \in DOMAIN cards : cards[k] # cards[1]
Create(q, n, image, cards) ==
  /\ job[q].at = "idle" /\ settings.connected /\ settings.account # NoAccount
  /\ cards # <<>> => ~CarouselProblem(cards)
  /\ Go(q, [Idle EXCEPT !.at = IF image \/ cards # <<>> THEN "upload" ELSE "make", !.what = "create",
                        !.name = n, !.account = settings.account])
  /\ UNCHANGED <<settings, doubt, templates>>
\* An image that cannot be uploaded ends the request.
Upload(q) ==
  /\ job[q].at = "upload" /\ (Go(q, [job[q] EXCEPT !.at = "make"]) \/ Done(q))
  /\ UNCHANGED <<settings, doubt, templates>>

\* Meta keeps one template of a name and language in an account.
At(a, n) == {i \in Ids : meta[i].account = a /\ meta[i].name = n}
MadeAtMeta(q, i) ==
  /\ job[q].account \in Valid /\ At(job[q].account, job[q].name) = {} /\ meta[i] = Unmade
  /\ meta' = [meta EXCEPT ![i] = [account |-> job[q].account, name |-> job[q].name, status |-> "PENDING"]]
Make(q, i) ==
  /\ job[q].at = "make" /\ MadeAtMeta(q, i)
  /\ Go(q, [job[q] EXCEPT !.at = "save", !.id = i, !.status = "PENDING"])
  /\ UNCHANGED <<settings, doubt, rows, approved, moved, events>>
\* Meta refuses, or its answer is lost: a booking template is looked for.
MakeFails(q) ==
  /\ job[q].at = "make" /\ (UNCHANGED meta \/ \E i \in Ids : MadeAtMeta(q, i))
  /\ IF job[q].what = "ensure" THEN Go(q, [job[q] EXCEPT !.at = "find"]) ELSE Done(q)
  /\ UNCHANGED <<settings, doubt, rows, approved, moved, events>>

\* Any other answer of Meta counts as a review under way.
OrElse(status) == IF status = "REJECTED" THEN status ELSE "APPROVED"   \* mutant: any other is an approval
Told(status) == IF status \in {"APPROVED", "REJECTED"} THEN status ELSE "PENDING"
Find(q) ==
  /\ job[q].at = "find"
  /\ \/ NextName(q)
     \/ \E i \in At(job[q].account, job[q].name) :
          Go(q, [job[q] EXCEPT !.at = "save", !.id = i, !.status = Told(meta[i].status)])
  /\ UNCHANGED <<settings, doubt, templates>>

\* The row seen before is written over, if it is still there; a name that has
\* got a row meanwhile is not given another.  Either error ends the request.
Save(q) == LET n == job[q].name  saved == IF job[q].row = "none" THEN rows[n] = NoRow ELSE job[q].row = "kept" IN
  /\ job[q].at = "save"
  /\ IF saved
     THEN /\ rows' = [rows EXCEPT ![n] = [id |-> job[q].id, status |-> job[q].status]]
          /\ moved' = moved \ {n}
          /\ IF job[q].what = "ensure" THEN NextName(q) ELSE Done(q)
     ELSE Done(q) /\ UNCHANGED <<rows, moved>>
  /\ UNCHANGED <<settings, doubt, meta, approved, events>>

-----------------------------------------------------------------------------
(* Asking how the review went.                                             *)

Read(n, what) == [Idle EXCEPT !.at = "ask", !.what = what, !.name = n, !.id = rows[n].id, !.row = "kept",
                              !.account = settings.account]
\* The merchant asks about any template.
CheckStatus(q, n) ==
  /\ job[q].at = "idle" /\ rows[n] # NoRow /\ settings.account # NoAccount
  /\ Go(q, Read(n, "check")) /\ UNCHANGED <<settings, doubt, templates>>
\* The inbox's list asks about those under review, the booking templates'
\* page about its own; so does a message, unless its template is approved.
AskPending(q, n, what) ==
  /\ job[q].at = "idle" /\ rows[n].status = "PENDING" /\ settings.account # NoAccount
  /\ Go(q, Read(n, what)) /\ UNCHANGED <<settings, doubt, templates>>
List(q, n)    == AskPending(q, n, "list")
Refresh(q, n) == n \in BookingNames /\ AskPending(q, n, "list")
AskFirst(q, n) == AskPending(q, n, "send")
UseApproved(q, n) ==
  /\ job[q].at = "idle" /\ rows[n].status = "APPROVED"
  /\ Go(q, [Read(n, "send") EXCEPT !.at = "send", !.sure = n \notin moved])
  /\ UNCHANGED <<settings, doubt, templates>>

\* Meta tells its own account's templates only, and may be out of reach.
Answer(q) ==
  /\ job[q].at = "ask"
  /\ \/ Done(q)
     \/ /\ meta[job[q].id].account = job[q].account
        /\ Go(q, [job[q] EXCEPT !.at = "store", !.status = meta[job[q].id].status])
  /\ UNCHANGED <<settings, doubt, templates>>
\* Only the merchant's own question writes an unfinished review down.
Written(q) == job[q].what = "check" \/ job[q].status \in {"APPROVED", "REJECTED"}
Store(q) == LET n == job[q].name  stored == Written(q) /\ job[q].row = "kept" IN
  /\ job[q].at = "store"
  /\ IF stored
     THEN /\ rows' = [rows EXCEPT ![n].status = Told(job[q].status)]
          /\ moved' = IF rows[n].id = job[q].id THEN moved \ {n} ELSE moved \cup {n}
     ELSE UNCHANGED <<rows, moved>>
  /\ IF stored /\ job[q].what = "send" /\ job[q].status = "APPROVED"
     THEN Go(q, [job[q] EXCEPT !.at = "send", !.sure = TRUE]) ELSE Done(q)
  /\ UNCHANGED <<settings, doubt, meta, approved, events>>

\* With no account, or without its template, the caller sends free words.
Send(q) ==
  job[q].at = "send" /\ Done(q) /\ UNCHANGED <<settings, doubt, templates>>

\* A deleted row is not found by those who read it.
Delete(n) ==
  /\ rows[n] # NoRow /\ rows' = [rows EXCEPT ![n] = NoRow] /\ moved' = moved \ {n}
  /\ job' = [q \in Requests |-> IF job[q].name = n /\ job[q].row = "kept" THEN [job[q] EXCEPT !.row = "gone"] ELSE job[q]]
  /\ UNCHANGED <<settings, doubt, meta, approved, events>>

-----------------------------------------------------------------------------
(* Meta, and servers that stop.                                            *)

Review(i, status) ==
  /\ Event /\ meta[i] # Unmade /\ status # meta[i].status /\ meta' = [meta EXCEPT ![i].status = status]
  /\ approved' = IF status = "APPROVED" THEN approved \cup {i} ELSE approved
  /\ UNCHANGED <<settings, doubt, rows, job, moved>>
Verifying == {q \in Requests : job[q].at \in {"verify", "verified"}}
Break(q) ==
  /\ Event /\ job[q].at # "idle" /\ Done(q) /\ doubt' = (doubt \/ q \in Verifying)
  /\ UNCHANGED <<settings, meta, rows, approved, moved>>

Handle(q) ==
  \/ VerifyRead(q) \/ VerifyStore(q) \/ Look(q) \/ Upload(q) \/ (\E i \in Ids : Make(q, i)) \/ MakeFails(q)
  \/ Find(q) \/ Save(q) \/ Answer(q) \/ Store(q) \/ Send(q) \/ Break(q)
Ask(q) ==
  \/ \E a \in Accounts : Connect(q, a) \/ SignUp(q, a)
  \/ Verify(q) \/ \E l \in Languages : Ensure(q, l)
  \/ \E n \in Own, image \in BOOLEAN, cards \in Carousels : Create(q, n, image, cards)
  \/ \E n \in Names : CheckStatus(q, n) \/ List(q, n) \/ Refresh(q, n) \/ AskFirst(q, n) \/ UseApproved(q, n)
Next ==
  \/ \E q \in Requests : Handle(q) \/ Ask(q)
  \/ Disconnect \/ \E n \in Names : Delete(n)
  \/ \E i \in Ids, status \in {"APPROVED", "REJECTED", "PENDING", "PAUSED"} : Review(i, status)
Spec == Init /\ [][Next]_vars

-----------------------------------------------------------------------------
\* "Connected" is what Meta said of the account the company has now, unless a
\* save overlapped another's question to Meta, or a server stopped before the
\* answer (PATCH /settings saves first and asks afterwards, in runVerify).
ConnectedIsVerified ==
  settings.connected /\ ~doubt /\ Verifying = {} => settings.account \in Valid

\* A row is of the template of that name, and what it calls approved Meta has
\* approved, unless an answer about another template overtook a new link; a
\* message is sent by a template only if that one was approved.
TemplatesFollowMeta ==
  /\ \A n \in Names : rows[n] # NoRow => rows[n].id \in Ids /\ meta[rows[n].id].name = n
  /\ \A n \in Names \ moved : rows[n].status = "APPROVED" => rows[n].id \in approved
  /\ \A q \in Requests : job[q].at = "send" /\ job[q].sure =>
       job[q].id \in approved /\ meta[job[q].id].name = job[q].name

-----------------------------------------------------------------------------
(* Why: a request holds a template Meta has made by the name it holds, and *)
(* what it holds approved has been approved.                               *)

Statuses == {"none", "PENDING", "APPROVED", "REJECTED"}
Naming   == {"upload", "make", "find", "save", "ask", "store", "send"}
Holding  == {"save", "ask", "store", "send"}
Job == [at : {"idle", "verify", "verified", "look"} \cup Naming, what : {"none", "ensure", "create", "check", "list", "send"},
        todo : Seq(Names), name : Names \cup {<<>>}, id : Ids \cup {NoId}, row : {"none", "kept", "gone"},
        status : Statuses \cup {"PAUSED"}, account : Accounts \cup {NoAccount}, sure : BOOLEAN]
TypeOK ==
  /\ settings \in [account : Accounts \cup {NoAccount}, connected : BOOLEAN] /\ doubt \in BOOLEAN
  /\ meta \in [Ids -> [account : Accounts \cup {NoAccount}, name : Names \cup {<<>>}, status : Statuses \cup {"PAUSED"}]]
  /\ rows \in [Names -> [id : Ids \cup {NoId}, status : Statuses]]
  /\ job \in [Requests -> Job]
  /\ approved \subseteq Ids /\ moved \subseteq Names /\ events \in Nat

Made(i, n) == i \in Ids /\ meta[i].name = n /\ meta[i].status # "none"
RowInv(n) ==
  /\ rows[n] # NoRow => Made(rows[n].id, n)
  /\ n \notin moved /\ rows[n].status = "APPROVED" => rows[n].id \in approved
JobInv(j) ==
  /\ j.at = "look" => j.todo # <<>>
  /\ j.at \in Naming \/ j.row = "kept" => j.name \in Names
  /\ j.row = "kept" => Made(rows[j.name].id, j.name)
  /\ j.at \in Holding => Made(j.id, j.name)
  /\ j.at \in {"save", "store"} /\ j.status = "APPROVED" => j.id \in approved
  /\ j.at = "save" => j.status # "PAUSED"
  /\ j.at = "send" /\ j.sure => j.id \in approved
TextsInv ==
  /\ TypeOK /\ ConnectedIsVerified
  /\ \A i \in Ids : /\ meta[i].status = "APPROVED" => i \in approved
                    /\ meta[i].status = "none" => meta[i].name = <<>>
  /\ \A n \in Names : RowInv(n)
  /\ \A q \in Requests : JobInv(job[q])
=============================================================================
