--------------------------------- MODULE Ads ---------------------------------
(***************************************************************************)
(* Boosting a published post: a campaign is made at Meta step by step,     *)
(* paused until everything is there, and the program's row follows it.     *)
(* The merchant pauses it, resumes it and changes its budget, each time at *)
(* Meta first and then in the row, while others refresh the row from what  *)
(* Meta says.                                                              *)
(***************************************************************************)
EXTENDS Integers

CONSTANTS
  Ads, Requests, Budgets,
  MaxEvents  \* bound: requests and what happens at Meta

VARIABLES
  token,     \* social_ads_auth: whether the company's token works
  row,       \* social_ad_campaigns
  meta,      \* the campaigns at Meta
  job,
  lost,      \* ads whose making was cut off, or whose end was not kept
  mixed,     \* ads whose last requests overlapped or were cut off, until one refreshes the row by itself
  doubtful,  \* ads whose budget was so
  events

vars == <<token, row, meta, job, lost, mixed, doubtful, events>>

Idle == [at |-> "idle"]
NoAd == [status |-> "none", ids |-> FALSE, budget |-> 0, young |-> FALSE]
NoCampaign == [status |-> "none", review |-> "waiting", ended |-> FALSE, budget |-> 0]
PAUSABLE == {"ACTIVE", "PENDING_REVIEW", "ISSUE"}
FINAL == {"FAILED", "CREATING"}

Init ==
  /\ token = TRUE /\ row = [a \in Ads |-> NoAd] /\ meta = [a \in Ads |-> NoCampaign]
  /\ job = [q \in Requests |-> Idle] /\ lost = {} /\ mixed = {} /\ doubtful = {} /\ events = 0

Event == events < MaxEvents /\ events' = events + 1
On(a) == {q \in Requests : job[q] # Idle /\ job[q].a = a}
\* A request begins on an ad; with another there, neither is alone.
Begin(q, at, a, do, b) ==
  job' = [p \in Requests |->
    IF p = q THEN [at |-> at, a |-> a, do |-> do, b |-> b, s |-> "none", alone |-> On(a) = {}]
    ELSE IF p \in On(a) THEN [job[p] EXCEPT !.alone = FALSE] ELSE job[p]]
Go(q, at) == job' = [job EXCEPT ![q].at = at]
End(q) == job' = [job EXCEPT ![q] = Idle]

-----------------------------------------------------------------------------
(* Meta's side.                                                            *)

SetToken == Event /\ token' = ~token /\ UNCHANGED <<row, meta, job, lost, mixed, doubtful>>
\* Two minutes pass: a row being made no longer holds others back.
TimePasses(a) ==
  /\ row[a].young /\ row' = [row EXCEPT ![a].young = FALSE]
  /\ UNCHANGED <<token, meta, job, lost, mixed, doubtful, events>>
Review(a) ==
  /\ meta[a].status = "ACTIVE" /\ meta[a].review = "waiting" /\ Event
  /\ \E r \in {"passed", "refused", "issue"} : meta' = [meta EXCEPT ![a].review = r]
  /\ UNCHANGED <<token, row, job, lost, mixed, doubtful>>
Ends(a) ==
  /\ meta[a].status \in {"ACTIVE", "PAUSED"} /\ ~meta[a].ended /\ Event
  /\ meta' = [meta EXCEPT ![a].ended = TRUE]
  /\ UNCHANGED <<token, row, job, lost, mixed, doubtful>>

statusFromMeta(m) ==
  CASE m.status = "DELETED" -> "COMPLETED"
    [] m.status # "DELETED" /\ m.review = "refused" -> "REJECTED"
    [] m.status # "DELETED" /\ m.review = "issue"   -> "ISSUE"
    [] m.status = "ACTIVE" /\ m.review = "waiting"  -> "PENDING_REVIEW"
    [] OTHER -> IF m.ended THEN "COMPLETED" ELSE m.status

-----------------------------------------------------------------------------
(* boost: the checks, the row, the campaign, the row again.                *)

creatingSince == \E a \in Ads : row[a].status = "CREATING" /\ row[a].young
CheckBoost(q) ==
  /\ job[q] = Idle /\ token /\ ~creatingSince /\ Event
  /\ \E a \in Ads, b \in Budgets :
       row[a].status = "none" /\ On(a) = {} /\ Begin(q, "row", a, "boost", b)
  /\ UNCHANGED <<token, row, meta, lost, mixed, doubtful>>
createCampaign(q) ==
  /\ job[q].at = "row" /\ Go(q, "ask")
  /\ row' = [row EXCEPT ![job[q].a] = [status |-> "CREATING", ids |-> FALSE, budget |-> job[q].b, young |-> TRUE]]
  /\ UNCHANGED <<token, meta, lost, mixed, doubtful, events>>
MakeCampaign(q) ==
  /\ job[q].at = "ask"
  /\ \/ Go(q, "failed") /\ UNCHANGED meta
     \/ Go(q, "build") /\ meta' = [meta EXCEPT ![job[q].a] = [status |-> "PAUSED", review |-> "waiting", ended |-> FALSE, budget |-> job[q].b]]
  /\ UNCHANGED <<token, row, lost, mixed, doubtful, events>>
\* The rest, and last of all the campaign is switched on.  Whatever fails, and
\* an answer that is lost, is followed by the campaign's deletion.
Running(a) == meta' = [meta EXCEPT ![a].status = "ACTIVE"]
createBoost(q) ==
  /\ job[q].at = "build"
  /\ \/ Running(job[q].a) /\ Go(q, "keep")
     \/ Running(job[q].a) /\ Go(q, "undo")
     \/ UNCHANGED meta /\ Go(q, "undo")
  /\ UNCHANGED <<token, row, lost, mixed, doubtful, events>>
DeleteNothing(q) ==   \* mutant: what was made is left
  /\ job[q].at = "undo" /\ Go(q, "failed")
  /\ UNCHANGED <<token, row, meta, lost, mixed, doubtful, events>>
DeleteCampaign(q) ==
  /\ job[q].at = "undo" /\ Go(q, "failed")
  /\ \/ meta' = [meta EXCEPT ![job[q].a].status = "DELETED"] /\ UNCHANGED lost
     \/ lost' = lost \cup {job[q].a} /\ UNCHANGED meta
  /\ UNCHANGED <<token, row, mixed, doubtful, events>>
\* The row with Meta's numbers, and the event, which may fail.
KeepCampaign(q) ==
  /\ job[q].at = "keep"
  /\ row' = [row EXCEPT ![job[q].a].status = "PENDING_REVIEW", ![job[q].a].ids = TRUE]
  /\ \/ End(q) /\ UNCHANGED lost
     \/ Go(q, "failed") /\ lost' = lost \cup {job[q].a}
  /\ UNCHANGED <<token, meta, mixed, doubtful, events>>
FailCampaign(q) ==
  /\ job[q].at = "failed" /\ row' = [row EXCEPT ![job[q].a].status = "FAILED"] /\ End(q)
  /\ UNCHANGED <<token, meta, lost, mixed, doubtful, events>>

-----------------------------------------------------------------------------
(* The merchant's commands: at Meta, then in the row, then a refresh.       *)

pause(q, a) ==
  /\ job[q] = Idle /\ token /\ row[a].ids /\ row[a].status \in PAUSABLE /\ Event
  /\ Begin(q, "command", a, "PAUSED", 0)
  /\ UNCHANGED <<token, row, meta, lost, mixed, doubtful>>
resume(q, a) ==
  /\ job[q] = Idle /\ token /\ row[a].ids /\ row[a].status = "PAUSED" /\ ~meta[a].ended /\ Event
  /\ Begin(q, "command", a, "ACTIVE", 0)
  /\ UNCHANGED <<token, row, meta, lost, mixed, doubtful>>
changeBudget(q, a, b) ==
  /\ job[q] = Idle /\ token /\ row[a].ids /\ row[a].status \in PAUSABLE \cup {"PAUSED"} /\ Event
  /\ Begin(q, "command", a, "budget", b)
  /\ UNCHANGED <<token, row, meta, lost, mixed, doubtful>>

Changed(x, j) == IF j.do = "budget" THEN [x EXCEPT !.budget = j.b] ELSE [x EXCEPT !.status = j.do]
\* Meta does it and says so, does it and is not heard, or refuses.
AskMeta(q) ==
  /\ job[q].at = "command"
  /\ LET a == job[q].a
         did == meta' = [meta EXCEPT ![a] = Changed(@, job[q])]
     IN \/ did /\ Go(q, "done") /\ UNCHANGED <<mixed, doubtful>>
        \/ did /\ End(q) /\ mixed' = mixed \cup {a} /\ doubtful' = doubtful \cup {a}
        \/ End(q) /\ UNCHANGED <<meta, mixed, doubtful>>
  /\ UNCHANGED <<token, row, lost, events>>
KeepCommand(q) ==
  /\ job[q].at = "done"
  /\ LET a == job[q].a IN
     /\ row' = [row EXCEPT ![a] = Changed(@, job[q])]
     /\ mixed' = IF job[q].alone THEN mixed ELSE mixed \cup {a}
     /\ doubtful' = IF job[q].alone THEN doubtful ELSE doubtful \cup {a}
  /\ Go(q, "refresh") /\ UNCHANGED <<token, meta, lost, events>>

\* The list and the ad's page ask Meta too.
refresh(q, a) ==
  /\ job[q] = Idle /\ token /\ row[a].ids /\ row[a].status \notin FINAL /\ Event
  /\ Begin(q, "refresh", a, "refresh", 0)
  /\ UNCHANGED <<token, row, meta, lost, mixed, doubtful>>
GetState(q) ==
  /\ job[q].at = "refresh"
  /\ \/ job' = [job EXCEPT ![q].at = "write", ![q].s = statusFromMeta(meta[job[q].a])]
        /\ UNCHANGED mixed
     \/ End(q) /\ mixed' = IF job[q].alone THEN mixed ELSE mixed \cup {job[q].a}
  /\ UNCHANGED <<token, row, meta, lost, doubtful, events>>
WriteState(q) ==
  /\ job[q].at = "write"
  /\ row' = [row EXCEPT ![job[q].a].status = job[q].s]
  /\ mixed' = IF job[q].alone THEN mixed \ {job[q].a} ELSE mixed \cup {job[q].a}
  /\ End(q) /\ UNCHANGED <<token, meta, lost, doubtful, events>>

\* A stop of the process: what was under way stays as it is.
Restart ==
  /\ Event /\ job' = [q \in Requests |-> Idle]
  /\ LET cut == {job[q].a : q \in {p \in Requests : job[p] # Idle}} IN
     lost' = lost \cup cut /\ mixed' = mixed \cup cut /\ doubtful' = doubtful \cup cut
  /\ UNCHANGED <<token, row, meta>>

Next ==
  \/ SetToken \/ Restart
  \/ \E a \in Ads : TimePasses(a) \/ Review(a) \/ Ends(a)
  \/ \E q \in Requests :
       \/ CheckBoost(q) \/ createCampaign(q) \/ MakeCampaign(q) \/ createBoost(q)
       \/ DeleteCampaign(q) \/ KeepCampaign(q) \/ FailCampaign(q)
       \/ AskMeta(q) \/ KeepCommand(q) \/ GetState(q) \/ WriteState(q)
       \/ \E a \in Ads : pause(q, a) \/ resume(q, a) \/ refresh(q, a) \/ \E b \in Budgets : changeBudget(q, a, b)
Spec == Init /\ [][Next]_vars

-----------------------------------------------------------------------------
\* A campaign that spends has a row the merchant can stop it by, except where
\* its making was cut off, its removal failed or its first event was not kept.
RunningIsKnown ==
  \A a \in Ads : meta[a].status = "ACTIVE" =>
    (row[a].ids /\ row[a].status \notin FINAL) \/ a \in lost \/ On(a) # {}

\* With no request under way, the row tells what Meta was last told: it is
\* paused only when the campaign is, it does not run while the campaign is
\* paused, and the budget is the same.  Requests that overlapped or were cut
\* off may leave it otherwise, until a refresh by itself.
AdTellsMeta ==
  \A a \in Ads : row[a].ids /\ On(a) = {} /\ row[a].status # "FAILED" =>
    /\ a \notin mixed =>
         /\ row[a].status = "PAUSED" => meta[a].status = "PAUSED"
         /\ meta[a].status = "PAUSED" => row[a].status # "ACTIVE"
    /\ a \notin doubtful => row[a].budget = meta[a].budget

-----------------------------------------------------------------------------
(* Why: a request that is alone on an ad is alone until it ends, and one   *)
(* that is not says so when it ends.                                       *)

Making  == {"row", "ask", "build", "keep", "undo"}
Orders  == {"command", "done", "refresh", "write"}
Told    == {"PENDING_REVIEW", "ACTIVE", "PAUSED", "ISSUE", "REJECTED", "COMPLETED"}
Money   == Budgets \cup {0}
Job == {Idle} \cup [at : Making \cup Orders \cup {"failed"}, a : Ads, do : {"boost", "PAUSED", "ACTIVE", "budget", "refresh"},
                    b : Money, s : Told \cup {"none"}, alone : BOOLEAN]
TypeOK ==
  /\ token \in BOOLEAN /\ job \in [Requests -> Job] /\ events \in Nat
  /\ row \in [Ads -> [status : Told \cup {"none", "CREATING", "FAILED"}, ids : BOOLEAN, budget : Money, young : BOOLEAN]]
  /\ meta \in [Ads -> [status : {"none", "PAUSED", "ACTIVE", "DELETED"}, review : {"waiting", "passed", "refused", "issue"},
                       ended : BOOLEAN, budget : Money]]
  /\ lost \subseteq Ads /\ mixed \subseteq Ads /\ doubtful \subseteq Ads
  /\ \A q \in Requests : job[q].at \in {"command", "done"} => job[q].do \in {"PAUSED", "ACTIVE", "budget"}

Agree(status, m) == (status = "PAUSED" => m = "PAUSED") /\ (m = "PAUSED" => status # "ACTIVE")
MakingOn(q, a) ==
  /\ job[q].at \in Making => On(a) = {q} /\ ~row[a].ids
  /\ job[q].at = "row" => row[a].status = "none"
  /\ job[q].at \in Making \ {"row"} => row[a].status = "CREATING" /\ row[a].budget = job[q].b
  /\ job[q].at \in {"row", "ask"} => meta[a].status = "none"
  /\ job[q].at \in {"build", "keep"} => meta[a].status # "none" /\ meta[a].budget = job[q].b
  /\ job[q].at = "keep" => meta[a].status = "ACTIVE"
  /\ job[q].at = "failed" => a \in lost \/ (On(a) = {q} /\ ~row[a].ids /\ meta[a].status # "ACTIVE")
AskedOn(q, a) ==
  /\ job[q].at \in Orders => row[a].ids
  /\ job[q].at = "write" => job[q].s # "none"
  /\ job[q].alone =>
       /\ On(a) = {q}
       /\ job[q].at = "done" => IF job[q].do = "budget" THEN meta[a].budget = job[q].b ELSE meta[a].status = job[q].do
       /\ job[q].at = "write" => Agree(job[q].s, meta[a].status)
RowOf(a) ==
  /\ row[a].status = "none" => meta[a].status = "none" /\ ~row[a].ids
  /\ row[a].ids => meta[a].status # "none" /\ (row[a].status \in FINAL => a \in lost)
  /\ meta[a].status = "ACTIVE" => row[a].ids \/ a \in lost \/ On(a) # {}
  /\ row[a].ids /\ a \notin mixed =>
       Agree(row[a].status, meta[a].status) \/ \E q \in On(a) : job[q].at = "done" /\ job[q].do # "budget"
  /\ row[a].ids /\ a \notin doubtful =>
       row[a].budget = meta[a].budget \/ \E q \in On(a) : job[q].at = "done" /\ job[q].do = "budget"
AdInv(a) == RowOf(a) /\ \A q \in On(a) : MakingOn(q, a) /\ AskedOn(q, a)
AdsInv == TypeOK /\ \A a \in Ads : AdInv(a)
=============================================================================
