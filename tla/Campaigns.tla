------------------------------ MODULE Campaigns ------------------------------
(***************************************************************************)
(* One WhatsApp campaign: its recipient list, its schedule, the attempts   *)
(* to send it and the lock between them, which is the status SENDING of    *)
(* its row.  Merchants start an attempt, and so does a job in every server *)
(* once the scheduled time has come.  An attempt checks the campaign,      *)
(* claims it, uploads its media and sends in the background.               *)
(*                                                                         *)
(* A lock whose holder shows no progress for staleAfterMs is lifted when   *)
(* somebody looks at the list of campaigns; a server spares the campaigns  *)
(* it is delivering itself.  A step is what happens between awaits.        *)
(***************************************************************************)
EXTENDS Integers, FiniteSets

CONSTANTS Servers,
          Attempts,     \* calls of CampaignSender.start
          Jobs,         \* those made by a server's scheduler
          On,           \* On[a]: the server of a
          People,       \* phone numbers
          Lists,        \* the recipient lists the merchant may set
          Leavers,      \* contacts who send STOP and START at any time
          MaxCrashes

ASSUME AttemptsAssumption == Jobs \subseteq Attempts /\ On \in [Attempts -> Servers]
ASSUME PeopleAssumption   == Lists \subseteq SUBSET People /\ Leavers \subseteq People
ASSUME CrashesAssumption  == MaxCrashes \in Nat

VARIABLES
  status, list, at,   \* the row; at: scheduledAt is null, ahead or past
  stale,              \* the row's sendingAt is null or too old
  pc, was, todo, ok,  \* each attempt: the status it read, whom it sends to, had it success
  running,            \* servers whose running map has the campaign
  lifted, outdated,   \* attempts that lost their lock; that read the list before it was replaced
  lost,               \* since the list was set, a delivery broke off or lost its lock
  got, twice, unsure, \* before that: who got the message, who twice, whose answer was lost
  crashes

campaign == <<status, list, at, stale>>
local    == <<pc, was, todo, ok>>
received == <<got, twice, unsure>>
history  == <<lifted, outdated, lost, got, twice, unsure>>
vars     == <<status, list, at, stale, pc, was, todo, ok, running, lifted, outdated, lost,
              got, twice, unsure, crashes>>

Claimable   == {"DRAFT", "SCHEDULED", "FAILED"}
Schedulable == {"DRAFT", "SCHEDULED", "FAILED"}
Statuses    == Claimable \cup {"SENDING", "SENT"}
Places      == {"idle", "load", "filter", "claim", "prepare", "deliver", "release", "markFailed"}

\* The attempts that hold the lock, or believe to.
Holders == {a \in Attempts : pc[a] \in {"prepare", "deliver", "release"}}

Init ==
  /\ status = "DRAFT" /\ list = {} /\ at = "none" /\ stale = FALSE
  /\ pc = [a \in Attempts |-> "idle"] /\ was = [a \in Attempts |-> "DRAFT"]
  /\ todo = [a \in Attempts |-> {}] /\ ok = [a \in Attempts |-> FALSE]
  /\ running = {} /\ got = {} /\ twice = {} /\ unsure = {}
  /\ lifted = {} /\ outdated = {} /\ lost = FALSE /\ crashes = 0

Goto(a, place) == pc' = [pc EXCEPT ![a] = place]
\* The attempts in S are over: nothing of them is left.
Leave(S) ==
  /\ pc'   = [a \in Attempts |-> IF a \in S THEN "idle" ELSE pc[a]]
  /\ was'  = [a \in Attempts |-> IF a \in S THEN "DRAFT" ELSE was[a]]
  /\ todo' = [a \in Attempts |-> IF a \in S THEN {} ELSE todo[a]]
  /\ ok'   = [a \in Attempts |-> a \notin S /\ ok[a]]
  /\ outdated' = outdated \ S
\* What broke is remembered until the list is set again; who got what is not.
Break(broken) ==
  /\ lost' = (lost \/ broken)
  /\ IF broken THEN got' = {} /\ twice' = {} /\ unsure' = {} ELSE UNCHANGED received
\* The lock is gone for the holders in S.
Lift(S, over) == lifted' = (lifted \cup S) \ over /\ Break(S # {})

\* An error: the scheduler records it on the campaign, a request answers it.
Fail(a) ==
  IF a \in Jobs
  THEN Goto(a, "markFailed") /\ UNCHANGED <<was, todo, ok, outdated>>
  ELSE Leave({a})

-----------------------------------------------------------------------------
(* CampaignSender.start and deliver.                                       *)

\* A request, or runDue after dueScheduled listed the campaign.
Start(a) ==
  /\ pc[a] = "idle"
  /\ a \in Jobs => status = "SCHEDULED" /\ at = "past"
  /\ Goto(a, "load")
  /\ UNCHANGED <<campaign, was, todo, ok, running, history, crashes>>

\* findForSend and audience; the connection or the list may be missing.
Load(a) ==
  /\ pc[a] = "load"
  /\ \/ /\ list # {} /\ Goto(a, "filter")
        /\ was' = [was EXCEPT ![a] = status] /\ todo' = [todo EXCEPT ![a] = list]
        /\ UNCHANGED <<ok, outdated>>
     \/ Fail(a)
  /\ UNCHANGED <<campaign, running, received, lifted, lost, crashes>>

\* optedOutAmong, then the template, which Meta may have refused.
Filter(a) ==
  /\ pc[a] = "filter"
  /\ \/ \E left \in SUBSET Leavers :
          /\ todo[a] \ left # {} /\ Goto(a, "claim")
          /\ todo' = [todo EXCEPT ![a] = @ \ left] /\ UNCHANGED <<was, ok, outdated>>
     \/ Fail(a)
  /\ UNCHANGED <<campaign, running, received, lifted, lost, crashes>>

\* UPDATE ... WHERE status IN CLAIMABLE: no row means that it is busy or sent.
MayClaimSent == status # "SENDING"                           \* mutant
MayClaim == status \in Claimable
Claim(a) ==
  /\ pc[a] = "claim"
  /\ IF MayClaim
     THEN /\ status' = "SENDING" /\ stale' = FALSE /\ Goto(a, "prepare")
          /\ UNCHANGED <<was, todo, ok, outdated>>
     ELSE UNCHANGED <<status, stale>> /\ Leave({a})
  /\ UNCHANGED <<list, at, running, received, lifted, lost, crashes>>

\* The media are uploaded; only then does running.set protect the delivery.
Prepare(a) ==
  /\ pc[a] = "prepare"
  /\ \/ Goto(a, "deliver") /\ running' = running \cup {On[a]}
     \/ Goto(a, "release") /\ UNCHANGED running
  /\ UNCHANGED <<campaign, was, todo, ok, history, crashes>>

\* The status the attempt read comes back, wherever it stood since; sendingAt is null.
Release(a) ==
  /\ pc[a] = "release"
  /\ IF status = "SENDING"
     THEN status' = was[a] /\ stale' = (was[a] = "SENDING") /\ Lift(Holders \ {a}, {a})
     ELSE UNCHANGED <<status, stale, lost, received>> /\ lifted' = lifted \ {a}
  /\ Fail(a)
  /\ UNCHANGED <<list, at, running, crashes>>

MayFailSending == status = "SENDING"                         \* mutant
MayFail == status \in {"SCHEDULED", "SENDING"}
MarkFailed(a) ==
  /\ pc[a] = "markFailed"
  /\ IF MayFail
     THEN status' = "FAILED" /\ stale' = FALSE /\ Lift(Holders, {})
     ELSE UNCHANGED <<status, stale, lifted, lost, received>>
  /\ Leave({a})
  /\ UNCHANGED <<list, at, running, crashes>>

\* The message reaches p, and Meta's answer reaches the sender or not.
Arrive(p, answered) ==
  IF lost THEN UNCHANGED received
  ELSE /\ got' = got \cup {p} /\ twice' = twice \cup (got \cap {p})
       /\ unsure' = IF answered THEN unsure ELSE unsure \cup {p}

\* Meta takes the message, refuses it, or takes it and the answer is lost, which
\* counts as a failure.  Every tenth message the counters are saved.
Send(a, p) ==
  /\ pc[a] = "deliver" /\ p \in todo[a]
  /\ todo' = [todo EXCEPT ![a] = @ \ {p}]
  /\ stale' \in {stale, FALSE}
  /\ \/ UNCHANGED <<ok, received>>
     \/ ok' = [ok EXCEPT ![a] = TRUE] /\ Arrive(p, TRUE)
     \/ UNCHANGED ok /\ Arrive(p, FALSE)
  /\ UNCHANGED <<status, list, at, pc, was, running, lifted, outdated, lost, crashes>>

\* SENT unless every message failed, whatever the status became meanwhile.
FinalStatus(a) == IF ok[a] THEN "SENT" ELSE "FAILED"
Finish(a) ==
  /\ pc[a] = "deliver" /\ todo[a] = {}
  /\ status' = FinalStatus(a) /\ stale' = FALSE
  /\ Lift(Holders \ {a}, {a})
  /\ Leave({a}) /\ running' = running \ {On[a]}
  /\ UNCHANGED <<list, at, crashes>>

\* The last update fails: the campaign stays SENDING without a sender.
FinishFails(a) ==
  /\ pc[a] = "deliver" /\ todo[a] = {} /\ crashes < MaxCrashes
  /\ crashes' = crashes + 1
  /\ lifted' = lifted \ {a} /\ Break(TRUE)
  /\ Leave({a}) /\ running' = running \ {On[a]}
  /\ UNCHANGED <<campaign>>

-----------------------------------------------------------------------------
(* The merchant, time and restarts.                                        *)

\* A list is uploaded or tags are chosen: a draft again, but not while it is sent.
MayEdit == status # "SENDING"
SetAudience(l) ==
  /\ MayEdit
  /\ list' = l /\ status' = "DRAFT" /\ at' = "none"
  /\ got' = {} /\ twice' = {} /\ unsure' = {}
  /\ outdated' = outdated \cup {a \in Attempts : pc[a] \in {"filter", "claim"}}
  /\ lost' = (Holders # {})
  /\ UNCHANGED <<stale, local, running, lifted, crashes>>

\* The same checks as before sending; only their outcome for the row matters here.
Schedule ==
  /\ list # {} /\ status \in Schedulable
  /\ status' = "SCHEDULED" /\ at' = "ahead"
  /\ UNCHANGED <<list, stale, local, running, history, crashes>>

Unschedule ==
  /\ status = "SCHEDULED"
  /\ status' = "DRAFT" /\ at' = "none"
  /\ UNCHANGED <<list, stale, local, running, history, crashes>>

\* scheduledAt passes; staleAfterMs pass without progress.
ComesDue ==
  /\ at = "ahead" /\ at' = "past"
  /\ UNCHANGED <<status, list, stale, local, running, history, crashes>>
Age ==
  /\ status = "SENDING" /\ ~stale /\ stale' = TRUE
  /\ UNCHANGED <<status, list, at, local, running, history, crashes>>

\* Server s lists the campaigns: expireStale spares what runs on s.
MayExpireOwn(s) == status = "SENDING" /\ stale /\ s \in running  \* mutant
MayExpire(s) == status = "SENDING" /\ stale /\ s \notin running
Expire(s) ==
  /\ MayExpire(s)
  /\ status' = "FAILED" /\ stale' = FALSE
  /\ Lift(Holders, {})
  /\ UNCHANGED <<list, at, local, running, outdated, crashes>>

Crash(s) ==
  LET gone == {a \in Attempts : On[a] = s} IN
  /\ crashes < MaxCrashes /\ \E a \in gone : pc[a] # "idle"
  /\ crashes' = crashes + 1
  /\ Break(\E a \in gone : pc[a] = "deliver")
  /\ lifted' = lifted \ gone
  /\ Leave(gone) /\ running' = running \ {s}
  /\ UNCHANGED <<campaign>>

Work(a) ==
  \/ Load(a) \/ Filter(a) \/ Claim(a) \/ Prepare(a) \/ Release(a) \/ MarkFailed(a) \/ Finish(a)
  \/ \E p \in People : Send(a, p)

Next ==
  \/ \E a \in Attempts : Start(a) \/ Work(a) \/ FinishFails(a)
  \/ \E l \in Lists : SetAudience(l)
  \/ Schedule \/ Unschedule \/ ComesDue \/ Age
  \/ \E s \in Servers : Expire(s) \/ Crash(s)

Spec == Init /\ [][Next]_vars

\* Attempts proceed, the schedulers run every minute, time passes, and the
\* merchant's screen lists the campaigns until they are sent.
FairSpec ==
  /\ Spec
  /\ \A a \in Attempts : WF_vars(Work(a))
  /\ \A j \in Jobs : WF_vars(Start(j))
  /\ WF_vars(Age) /\ WF_vars(\E s \in Servers : Expire(s))

-----------------------------------------------------------------------------
(* Properties.                                                             *)

TypeOK ==
  /\ status \in Statuses /\ list \subseteq People /\ at \in {"none", "ahead", "past"}
  /\ stale \in BOOLEAN
  /\ pc \in [Attempts -> Places] /\ was \in [Attempts -> Statuses]
  /\ todo \in [Attempts -> SUBSET People] /\ ok \in [Attempts -> BOOLEAN]
  /\ running \subseteq Servers
  /\ got \subseteq People /\ twice \subseteq People /\ unsure \subseteq People
  /\ lifted \subseteq Attempts /\ outdated \subseteq Attempts /\ lost \in BOOLEAN
  /\ crashes \in Nat

\* Nobody gets a campaign twice, however many requests and schedulers send it
\* and however often a failed one is started again: unless a delivery of it
\* broke off or lost its lock, or Meta's answer for that message was lost.
SentOnce == ~lost => twice \subseteq unsure

\* No list is put under a campaign that is being sent: a sender that has read
\* the list and holds the lock sends to people of the list only.
SendsToTheList == \A a \in Holders \ (lifted \cup outdated) : todo[a] \subseteq list

\* The inductive invariant.  The lock has one holder it was not lifted from, and
\* the campaign is SENDING then.  A sender that reads a list goes by it.  While
\* nothing broke: who was reached for sure is reached by a campaign that is SENT
\* or by the delivery under way, which reaches nobody it has still to send to.
SenderSending == \A a \in Holders \ lifted : status = "SENDING"
OneSender     == \A a, b \in Holders \ lifted : a = b
LiftedInv     == lifted \subseteq Holders /\ (lost \/ lifted = {})
LockInv       == SenderSending /\ OneSender /\ LiftedInv
Bound   == {a \in Attempts : pc[a] \in {"filter", "claim"}} \cup Holders
ListInv == \A a \in Bound \ (lifted \cup outdated) : todo[a] \subseteq list
Reached     == got \ unsure
Delivery(a) == pc[a] = "deliver"
OkInv       == \A a \in Attempts : ok[a] => Delivery(a)
ReachedBy   == lost \/ Reached = {} \/ status = "SENT" \/ \E a \in Attempts : Delivery(a) /\ ok[a]
NotYet      == lost \/ Reached = {} \/ \A a \in Holders : Delivery(a)
NotAgain    == lost \/ \A a \in Attempts : Delivery(a) => Reached \cap todo[a] = {}
FreshInv    == SentOnce /\ OkInv /\ ReachedBy /\ NotYet /\ NotAgain
CampaignInv == TypeOK /\ LockInv /\ ListInv /\ FreshInv

\* A campaign does not stay SENDING, whatever happened to its sender.
SendingEnds == status = "SENDING" ~> status # "SENDING"

\* A scheduled campaign whose time has come is started, or fails, or is withdrawn.
ScheduledStarts ==
  (status = "SCHEDULED" /\ at = "past") ~> (status # "SCHEDULED" \/ at # "past")
=============================================================================
