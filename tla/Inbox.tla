-------------------------------- MODULE Inbox --------------------------------
(***************************************************************************)
(* The inbox of a company's Facebook and Instagram accounts: comments and  *)
(* private messages come by webhook or by a synchronization, the staff     *)
(* read and answer them, and a flow answers private messages by itself     *)
(* while no one of the staff does.                                         *)
(*                                                                         *)
(* Meta may deliver a message twice, late, or as the echo of an answer     *)
(* this program is still sending.  Messages are named by the time they     *)
(* were written.                                                           *)
(***************************************************************************)
EXTENDS Integers, FiniteSets

CONSTANTS
  Threads,   \* a customer of the account's private messages, or a comment
  Private,   \* those that are private messages
  Requests,
  Shown,     \* messages a thread shows: the first ones
  Questions, \* steps of the flow
  MaxClock

VARIABLES
  clock, today,  \* the last message's time, and the time a day ago
  account,       \* social_accounts
  meta,          \* messages that exist at Meta
  rows,          \* social_messages
  session,       \* the flow's question each customer is at, 0 for none
  job,
  shown,         \* messages the staff were shown
  passed,        \* messages marked read that came after the thread's were read
  spoke,         \* when the staff last answered each thread
  overtaken,     \* those whose answer's echo was recorded before the answer
  talkedOver,    \* threads the flow spoke in after the staff
  answered, twice \* messages the flow answered, and answered again

seen == <<shown, passed>>
flowing == <<spoke, overtaken, talkedOver, answered, twice>>
vars == <<clock, today, account, meta, rows, session, job, seen, flowing>>

Idle == [at |-> "idle"]
Message(at, t, dir) == [at |-> at, t |-> t, dir |-> dir, staff |-> FALSE, read |-> FALSE]

Init ==
  /\ clock = 0 /\ today = 0 /\ account = "ACTIVE" /\ meta = {} /\ rows = {}
  /\ session = [t \in Private |-> 0] /\ job = [q \in Requests |-> Idle]
  /\ shown = {} /\ passed = {}
  /\ spoke = [t \in Threads |-> 0] /\ overtaken = {} /\ talkedOver = {} /\ answered = {} /\ twice = {}

RowsOf(t) == {r \in rows : r.t = t}
Recent(r) == r.at > today
Write(t, dir) ==
  /\ clock < MaxClock /\ clock' = clock + 1
  /\ meta' = meta \cup {Message(clock + 1, t, dir)}
Go(q, next) == job' = [job EXCEPT ![q] = next]

\* A message is recorded once: the account and Meta's number are unique.
NotKnown(m) == FALSE   \* mutant: recorded however often it comes
Known(m) == \E r \in rows : r.at = m.at
recordNobody(m, byStaff) ==   \* mutant: without the one who wrote it
  IF Known(m) THEN rows ELSE rows \cup {[m EXCEPT !.read = m.dir = "OUT"]}
record(m, byStaff) ==
  IF Known(m) THEN rows ELSE rows \cup {[m EXCEPT !.staff = byStaff, !.read = m.dir = "OUT"]}

-----------------------------------------------------------------------------
(* Customers, Meta and the company's owner.                                *)

CustomerWrites(t) ==
  Write(t, "IN") /\ UNCHANGED <<today, account, rows, session, job, seen, flowing>>
DayPasses ==
  /\ today = 0 /\ today' = clock   \* bound: one day passes
  /\ UNCHANGED <<clock, account, meta, rows, session, job, seen, flowing>>
Turn(s) ==
  account' = s /\ UNCHANGED <<clock, today, meta, rows, session, job, seen, flowing>>
connectMeta       == account # "ACTIVE" /\ Turn("ACTIVE")
markAccount       == account = "ACTIVE" /\ Turn("NEEDS_RECONNECT")   \* a publication was refused
disconnectAccount == account = "ACTIVE" /\ Turn("DISCONNECTED")

\* The webhook, whose sender has its answer already.  A private message that is new
\* goes on to the flow.
handleWebhook(q, m) ==
  /\ job[q] = Idle /\ account = "ACTIVE"
  /\ rows' = record(m, FALSE)
  /\ IF ~Known(m) /\ m.dir = "IN" /\ m.t \in Private
     THEN Go(q, [at |-> "flow", m |-> m, spoken |-> spoke[m.t]])
     ELSE UNCHANGED job
  /\ UNCHANGED <<clock, today, account, meta, session, seen, flowing>>
\* "Check for new": no flow looks at what it finds.  Meta is asked for the
\* comments and for the private messages, and one of the two may fail.
fbComments    == {m \in meta : m.t \notin Private}
conversations == {m \in meta : m.t \in Private}
fetchRecent   == {fbComments, conversations, fbComments \cup conversations}
sync ==
  /\ account = "ACTIVE"
  /\ \E found \in fetchRecent : rows' = rows \cup UNION {record(m, FALSE) : m \in found}
  /\ UNCHANGED <<clock, today, account, meta, session, job, seen, flowing>>
\* A stop of the process ends its requests.
Restart ==
  /\ job' = [q \in Requests |-> Idle]
  /\ UNCHANGED <<clock, today, account, meta, rows, session, seen, flowing>>

-----------------------------------------------------------------------------
(* The flow.                                                               *)

staffRepliedSince(t) == \E r \in RowsOf(t) : r.dir = "OUT" /\ r.staff /\ Recent(r)
FlowLooks(q) ==
  /\ job[q].at = "flow"
  /\ LET t == job[q].m.t IN
     Go(q, IF account # "ACTIVE" \/ staffRepliedSince(t) THEN Idle
              ELSE [at |-> "say", m |-> job[q].m, spoken |-> job[q].spoken, k |-> session[t]])
  /\ UNCHANGED <<clock, today, account, meta, rows, session, seen, flowing>>
FlowSays(q) ==
  /\ job[q].at = "say"
  /\ LET m == job[q].m IN
     /\ Write(m.t, "OUT")
     /\ Go(q, [at |-> "note", m |-> m, k |-> job[q].k, out |-> clock + 1])
     /\ answered' = answered \cup {m.at}
     /\ twice' = twice \cup (answered \cap {m.at})
     /\ talkedOver' = IF job[q].spoken > today THEN talkedOver \cup {m.t} ELSE talkedOver
  /\ UNCHANGED <<today, account, rows, session, seen, spoke, overtaken>>
FlowFails(q) ==
  /\ job[q].at = "say" /\ Go(q, [at |-> "save", m |-> job[q].m, k |-> job[q].k])
  /\ UNCHANGED <<clock, today, account, meta, rows, session, seen, flowing>>
FlowNotes(q) ==
  /\ job[q].at = "note"
  /\ rows' = record(Message(job[q].out, job[q].m.t, "OUT"), FALSE)
  /\ Go(q, [at |-> "save", m |-> job[q].m, k |-> job[q].k])
  /\ UNCHANGED <<clock, today, account, meta, session, seen, flowing>>
FlowSaves(q) ==
  /\ job[q].at = "save"
  /\ session' = [session EXCEPT ![job[q].m.t] = (job[q].k + 1) % Questions]
  /\ Go(q, Idle)
  /\ UNCHANGED <<clock, today, account, meta, rows, seen, flowing>>

-----------------------------------------------------------------------------
(* The staff.  A thread's messages are read, and then all are marked read. *)

Before(r) == {s.at : s \in {x \in RowsOf(r.t) : x.at < r.at}}
Behind(r) == Cardinality(Before(r)) >= Shown
messages(t) == {r \in RowsOf(t) : ~Behind(r)}
thread(q, t) ==
  /\ job[q] = Idle \/ job[q] = [at |-> "open", t |-> t]
  /\ messages(t) # {}
  /\ shown' = shown \cup {r.at : r \in messages(t)}
  /\ Go(q, [at |-> "mark", t |-> t, had |-> {r.at : r \in RowsOf(t)}])
  /\ UNCHANGED <<clock, today, account, meta, rows, session, passed, flowing>>
MarkedAll(r, t) == TRUE   \* mutant: whichever the thread
Marked(r, t) == r.t = t
markRead(q) ==
  /\ job[q].at = "mark"
  /\ rows' = {[r EXCEPT !.read = r.read \/ Marked(r, job[q].t)] : r \in rows}
  /\ passed' = passed \cup ({r.at : r \in RowsOf(job[q].t)} \ job[q].had)
  /\ Go(q, Idle)
  /\ UNCHANGED <<clock, today, account, meta, session, shown, flowing>>

\* Meta takes an answer to a private message within a day of the last one.
windowOpen(t) ==
  t \in Private =>
    \E r \in messages(t) : r.dir = "IN" /\ Recent(r) /\ \A s \in messages(t) : s.dir = "IN" => s.at <= r.at
reply(q, t) ==
  /\ job[q] = Idle /\ account = "ACTIVE" /\ messages(t) # {} /\ windowOpen(t)
  /\ Go(q, [at |-> "reply", t |-> t])
  /\ UNCHANGED <<clock, today, account, meta, rows, session, seen, flowing>>
ReplyGoes(q) ==
  /\ job[q].at = "reply"
  /\ \/ Write(job[q].t, "OUT") /\ Go(q, [at |-> "keep", t |-> job[q].t, out |-> clock + 1])
     \/ Go(q, Idle) /\ UNCHANGED <<clock, meta>>
  /\ UNCHANGED <<today, account, rows, session, seen, flowing>>
ReplyKept(q) ==
  /\ job[q].at = "keep"
  /\ LET m == Message(job[q].out, job[q].t, "OUT") IN
     /\ rows' = record(m, TRUE)
     /\ overtaken' = IF Known(m) THEN overtaken \cup {m.t} ELSE overtaken
     /\ spoke' = [spoke EXCEPT ![m.t] = IF m.at > @ THEN m.at ELSE @]
  /\ Go(q, [at |-> "open", t |-> job[q].t])
  /\ UNCHANGED <<clock, today, account, meta, session, seen, talkedOver, answered, twice>>

Next ==
  \/ DayPasses \/ sync \/ Restart
  \/ connectMeta \/ markAccount \/ disconnectAccount
  \/ \E t \in Threads : CustomerWrites(t) \/ \E q \in Requests : thread(q, t) \/ reply(q, t)
  \/ \E q \in Requests :
       \/ FlowLooks(q) \/ FlowSays(q) \/ FlowFails(q) \/ FlowNotes(q) \/ FlowSaves(q)
       \/ markRead(q) \/ ReplyGoes(q) \/ ReplyKept(q)
       \/ \E m \in meta : handleWebhook(q, m)
Spec == Init /\ [][Next]_vars

-----------------------------------------------------------------------------
\* A message of a customer is answered by the flow once, however often Meta
\* delivers it and whether or not a synchronization finds it as well.
FlowAnswersOnce == twice = {}

\* The flow says nothing to a message that came after one of the staff had
\* answered the customer in the last hours, except when the answer's echo was
\* recorded first: the row then does not tell that the staff wrote it.
QuietAfterStaff == talkedOver \subseteq overtaken

\* A customer's message that counts as read was shown to the staff, or was
\* passed over: it came between the reading of its thread and its marking, or
\* it lies behind the first messages the thread shows.
ReadWasShown == \A r \in rows : r.dir = "IN" /\ r.read => r.at \in shown \cup passed \/ Behind(r)

-----------------------------------------------------------------------------
(* Why: what is recorded stays recorded, with who wrote it.                *)

Messages == [at : Nat, t : Threads, dir : {"IN", "OUT"}, staff : BOOLEAN, read : BOOLEAN]
Asked    == {m \in Messages : m.t \in Private}
Job ==
  {Idle} \cup [at : {"flow"}, m : Asked, spoken : Nat]
         \cup [at : {"say"}, m : Asked, spoken : Nat, k : Nat]
         \cup [at : {"note"}, m : Asked, k : Nat, out : Nat]
         \cup [at : {"save"}, m : Asked, k : Nat]
         \cup [at : {"mark"}, t : Threads, had : SUBSET Nat]
         \cup [at : {"open", "reply"}, t : Threads]
         \cup [at : {"keep"}, t : Threads, out : Nat]
TypeOK ==
  /\ clock \in Nat /\ today \in Nat /\ account \in {"ACTIVE", "NEEDS_RECONNECT", "DISCONNECTED"}
  /\ meta \subseteq Messages /\ rows \subseteq Messages /\ \A r \in rows : r.at <= clock
  /\ session \in [Private -> Nat] /\ job \in [Requests -> Job]
  /\ shown \subseteq Nat /\ passed \subseteq Nat
  /\ spoke \in [Threads -> Nat] /\ overtaken \subseteq Threads /\ talkedOver \subseteq Threads
  /\ answered \subseteq Nat /\ twice \subseteq Nat
  /\ \A m \in meta : m.at <= clock
  /\ \A q \in Requests : job[q].at \in {"note", "keep"} => job[q].out <= clock

Recorded(a)  == \E r \in rows : r.at = a
Flowing(q)   == job[q].at \in {"flow", "say"}
\* A message goes to the flow when it is recorded, and that happens once.
AnswersInv ==
  /\ \A a \in answered : Recorded(a)
  /\ \A q \in Requests : Flowing(q) =>
       /\ Recorded(job[q].m.at) /\ job[q].m.at \notin answered
       /\ \A p \in Requests \ {q} : Flowing(p) => job[p].m.at # job[q].m.at
\* An answer of the staff is a row that tells so, unless its echo came first.
Kept(t, a) == a > 0 => t \in overtaken \/ \E r \in RowsOf(t) : r.at = a /\ r.dir = "OUT" /\ r.staff
StaffInv ==
  /\ \A t \in Threads : Kept(t, spoke[t])
  /\ \A q \in Requests : Flowing(q) =>
       /\ Kept(job[q].m.t, job[q].spoken)
       /\ job[q].at = "say" /\ job[q].spoken > today => job[q].m.t \in overtaken
\* What a request is about to mark read, it has shown.
MarkInv ==
  \A q \in Requests : job[q].at = "mark" =>
    \A a \in job[q].had : Recorded(a) /\ \A r \in RowsOf(job[q].t) : r.at = a => a \in shown \/ Behind(r)
TalkInv == TypeOK /\ AnswersInv /\ StaffInv /\ MarkInv /\ FlowAnswersOnce /\ QuietAfterStaff /\ ReadWasShown
=============================================================================
