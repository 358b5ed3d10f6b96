-------------------------------- MODULE Studio --------------------------------
(***************************************************************************)
(* What the AI studio makes while the client waits: texts, suggested       *)
(* replies, account audits and images.  chargeFor takes the credits, does  *)
(* the work and gives the credits back if the work fails.  A text is asked *)
(* of several models, the next when one is busy; an image of one, and its  *)
(* file is stored after its row.  Videos are module VideoStudio.           *)
(*                                                                         *)
(* The company's credits also move by its trial and by the super admin.    *)
(* A write may fail, and when it fails may have been made.  A restart      *)
(* loses the requests under way.                                           *)
(***************************************************************************)
EXTENDS Integers, FiniteSets

CONSTANTS Requests,
          Cost,           \* Cost[t]: AI_COSTS of each tool
          Models,         \* Models[t]: models it is asked of
          TrialCredits,   \* defaultTrialCredits
          Grants,         \* amounts the super admin adds or takes away
          MaxGranted

VARIABLES
  owner,     \* tenant.isPlatformOwner
  balance,   \* tenant.creditBalance
  ledger,    \* credit_transactions of the requests: the kind and the request
  granted,   \* total of the other rows
  trial,     \* the free credits: due, given or missed
  rows,      \* ai_generations: requests with a row, DONE from the start
  files,     \* ai_assets: requests whose file is stored
  job,       \* job[r]: the tool, where it stands, the models tried
  cut        \* requests charged when a refund failed or the process stopped

vars == <<owner, balance, ledger, granted, trial, rows, files, job, cut>>
credits == <<balance, ledger, granted, trial>>

Spent(r)   == [kind |-> "spend", of |-> r]
Refund(r)  == [kind |-> "refund", of |-> r]
Noted(r)   == [kind |-> "noted", of |-> r]   \* the platform owner's use
NewJob == [at |-> "idle", tool |-> "copy", tried |-> 0]

Init ==
  /\ owner \in BOOLEAN
  /\ balance = 0 /\ ledger = {} /\ granted = 0 /\ trial = "due"
  /\ rows = {} /\ files = {} /\ job = [r \in Requests |-> NewJob] /\ cut = {}

\* The debit is one conditional update: it never goes below zero.
Covers(b, amount) == b + amount >= 0
apply(b, amount) == Covers(b, amount)

Goto(r, place) == job' = [job EXCEPT ![r].at = place]
Charged(r) == Spent(r) \in ledger /\ Refund(r) \notin ledger

-----------------------------------------------------------------------------
(* Credits.                                                                *)

\* Its failure does not stop the making of the company, and nobody retries.
GiveNewCompany(ok) ==
  /\ trial = "due"
  /\ IF ok /\ TrialCredits > 0
     THEN balance' = balance + TrialCredits /\ granted' = granted + TrialCredits /\ trial' = "given"
     ELSE trial' = "missed" /\ UNCHANGED <<balance, granted>>
  /\ UNCHANGED <<owner, ledger, rows, files, job, cut>>

Grant(n) ==
  /\ n # 0 /\ apply(balance, n) /\ granted + n \in 0..MaxGranted
  /\ balance' = balance + n /\ granted' = granted + n
  /\ UNCHANGED <<owner, ledger, trial, rows, files, job, cut>>

-----------------------------------------------------------------------------
(* One request.                                                            *)

Ask(r, t) ==
  /\ job[r] = NewJob /\ trial # "due"
  /\ job' = [job EXCEPT ![r] = [at |-> "debit", tool |-> t, tried |-> 0]]
  /\ UNCHANGED <<owner, credits, rows, files, cut>>
\* A text, an answer to a customer's last message, a report, an image.
write(r)   == Ask(r, "copy")
suggest(r) == Ask(r, "reply")
run(r)     == Ask(r, "audit")
create(r)  == Ask(r, "image")

\* The platform owner is not charged.
Debit(r) ==
  LET cost == Cost[job[r].tool] IN
  /\ job[r].at = "debit"
  /\ IF owner THEN Goto(r, "generate") /\ UNCHANGED <<balance, ledger>>
     ELSE IF apply(balance, -cost)
     THEN balance' = balance - cost /\ ledger' = ledger \cup {Spent(r)} /\ Goto(r, "generate")
     ELSE Goto(r, "refused") /\ UNCHANGED <<balance, ledger>>
  /\ UNCHANGED <<owner, granted, trial, rows, files, cut>>
DebitFails(r) ==
  /\ job[r].at = "debit" /\ Goto(r, "refused") /\ UNCHANGED <<owner, credits, rows, files, cut>>

\* A usable answer.
Generate(r) ==
  /\ job[r].at = "generate" /\ Goto(r, "record") /\ UNCHANGED <<owner, credits, rows, files, cut>>
\* A busy model leaves the turn to the next one.
withModelFallback(r) ==
  /\ job[r].at = "generate" /\ job[r].tried + 1 < Models[job[r].tool]
  /\ job' = [job EXCEPT ![r].tried = @ + 1] /\ UNCHANGED <<owner, credits, rows, files, cut>>
\* The last one is busy, or one refuses, times out or answers nonsense.
GenerateFails(r) ==
  /\ job[r].at = "generate" /\ Goto(r, "failed") /\ UNCHANGED <<owner, credits, rows, files, cut>>

Create(r) ==
  /\ job[r].at = "record" /\ rows' = rows \cup {r}
  /\ Goto(r, IF job[r].tool = "image" THEN "store" ELSE "done")
  /\ UNCHANGED <<owner, credits, files, cut>>
CreateFails(r) ==
  /\ job[r].at = "record" /\ rows' \in {rows, rows \cup {r}} /\ Goto(r, "failed")
  /\ UNCHANGED <<owner, credits, files, cut>>
Save(r) ==
  /\ job[r].at = "store" /\ files' = files \cup {r} /\ Goto(r, "done")
  /\ UNCHANGED <<owner, credits, rows, cut>>
SaveFails(r) ==
  /\ job[r].at = "store" /\ files' \in {files, files \cup {r}} /\ Goto(r, "failed")
  /\ UNCHANGED <<owner, credits, rows, cut>>

\* The owner's use is noted, if that works.
LogUnlimited(r) ==
  /\ job[r].at = "done" /\ Goto(r, "answered")
  /\ ledger' \in IF owner THEN {ledger, ledger \cup {Noted(r)}} ELSE {ledger}
  /\ UNCHANGED <<owner, balance, granted, trial, rows, files, cut>>

\* What a failure gives back.
Price(r) == Cost[job[r].tool]
Unless(r) == IF r \in rows THEN 0 ELSE Price(r)   \* mutant: not what has a row already
refund(r) == Price(r)
ChargeFails(r) ==
  /\ job[r].at = "failed" /\ Goto(r, "error")
  /\ IF owner \/ refund(r) = 0 THEN UNCHANGED <<balance, ledger>>
     ELSE balance' = balance + refund(r) /\ ledger' = ledger \cup {Refund(r)}
  /\ UNCHANGED <<owner, granted, trial, rows, files, cut>>
\* Its own failure is only logged.
RefundFails(r) ==
  /\ job[r].at = "failed" /\ ~owner /\ Goto(r, "error") /\ cut' = cut \cup {r}
  /\ UNCHANGED <<owner, credits, rows, files>>

Ended == {"idle", "refused", "answered", "error"}
Restart ==
  LET lost == {r \in Requests : job[r].at \notin Ended} IN
  /\ lost # {} /\ cut' = cut \cup {r \in lost : Charged(r)}
  /\ job' = [r \in Requests |-> IF r \in lost THEN [job[r] EXCEPT !.at = "error"] ELSE job[r]]
  /\ UNCHANGED <<owner, credits, rows, files>>

Next ==
  \/ \E ok \in BOOLEAN : GiveNewCompany(ok)
  \/ \E n \in Grants : Grant(n)
  \/ \E r \in Requests :
       \/ write(r) \/ suggest(r) \/ run(r) \/ create(r)
       \/ Debit(r) \/ DebitFails(r) \/ Generate(r) \/ withModelFallback(r) \/ GenerateFails(r)
       \/ Create(r) \/ CreateFails(r) \/ Save(r) \/ SaveFails(r)
       \/ LogUnlimited(r) \/ ChargeFails(r) \/ RefundFails(r)
  \/ Restart

Spec == Init /\ [][Next]_vars

-----------------------------------------------------------------------------
\* The credits a tool has cost.
Uses(t) == {r \in Requests : Charged(r) /\ job[r].tool = t}
Kept(t) == Cost[t] * Cardinality(Uses(t))

PaysForAnswer(r) ==
  /\ job[r].at = "answered" =>
       /\ r \in rows /\ (job[r].tool = "image" => r \in files)
       /\ Charged(r) <=> ~owner
  /\ job[r].at \in {"refused", "error"} => (~Charged(r) \/ r \in cut)

\* The client pays for what he gets and for nothing else, however requests
\* overlap and fail: an answer was charged once and is in the history with its
\* file, an error or a refusal cost nothing unless the refund failed or the
\* process stopped, and the ledger explains a balance that is never negative.
PaidForWork ==
  /\ \A r \in Requests : PaysForAnswer(r)
  /\ balance >= 0
  /\ balance = granted - (Kept("copy") + Kept("reply") + Kept("audit") + Kept("image"))
-----------------------------------------------------------------------------
(* Why: a request is charged while it works, and not before.               *)

Tools   == {"copy", "reply", "audit", "image"}
Working == {"generate", "record", "store", "done", "failed"}
TypeOK ==
  /\ owner \in BOOLEAN /\ balance \in Int /\ granted \in Int /\ trial \in {"due", "given", "missed"}
  /\ ledger \subseteq [kind : {"spend", "refund", "noted"}, of : Requests]
  /\ rows \subseteq Requests /\ files \subseteq Requests /\ cut \subseteq Requests
  /\ job \in [Requests -> [at : {"debit"} \cup Working \cup Ended, tool : Tools, tried : Nat]]
ChargeInv(r) ==
  /\ job[r].at \in {"idle", "debit", "refused"} => Spent(r) \notin ledger /\ Refund(r) \notin ledger
  /\ job[r].at \in Working => Refund(r) \notin ledger /\ (Spent(r) \in ledger <=> ~owner)
  /\ job[r].at \in {"store", "done"} => r \in rows
  /\ job[r].at = "done" /\ job[r].tool = "image" => r \in files
StudioInv ==
  /\ TypeOK /\ PaidForWork
  /\ \A r \in Requests : ChargeInv(r)
=============================================================================
