----------------------------- MODULE SocialPosts -----------------------------
(***************************************************************************)
(* One social post from its first draft to its publication on the pages of *)
(* several accounts, with the client's approval, the job that publishes    *)
(* what is due, and retries.                                               *)
(*                                                                         *)
(* Each server publishes a post at most once at a time (its running map);  *)
(* between servers the status PUBLISHING of the row is the lock.  The job  *)
(* lifts the lock after staleAfterMs without asking who holds it.  A step  *)
(* is what happens between awaits.                                         *)
(***************************************************************************)
EXTENDS Integers

CONSTANTS Servers,
          Schedulers,   \* the servers whose job runs
          Desks,        \* the servers that take the merchant's requests
          Accounts,
          Flaky         \* accounts that may be unusable at any time

ASSUME ServersAssumption  == Schedulers \subseteq Servers /\ Desks \subseteq Servers
ASSUME AccountsAssumption == Flaky \subseteq Accounts

VARIABLES
  status, approval,              \* the row; WAITING: approvalStatus PENDING or CHANGES
  target,                        \* the rows of its accounts
  pc, todo, cur, ok, failed,     \* publishPost on each server
  job, seen,                     \* runDue on each server; seen: something was published
  move,                          \* what is left of a reschedule
  owner, outdated,               \* whose claim it is; runs whose target rows were replaced
  agreed,                        \* the client's last word on this text was yes
  out, twice, unsure,            \* accounts it went out on, twice, without being recorded
  muddled                        \* a run lost its claim on this text

row     == <<status, approval, target>>
run     == <<pc, todo, cur, ok, failed>>
jobs    == <<job, seen>>
reached == <<out, twice, unsure>>
history == <<owner, outdated, agreed, out, twice, unsure, muddled>>
vars    == <<status, approval, target, pc, todo, cur, ok, failed, job, seen,
             move, owner, outdated, agreed, out, twice, unsure, muddled>>

Editable   == {"DRAFT", "SCHEDULED", "FAILED"}
Finished   == {"PUBLISHED", "PARTIAL", "FAILED"}
Statuses   == {"NONE", "GONE", "PUBLISHING"} \cup Editable \cup Finished
Publishing == {"read", "targets", "send", "sent", "refused"}
Places     == {"idle", "claim", "hook"} \cup Publishing
Jobs       == {"idle", "targets", "post", "list", "start", "wait"}

\* The runs that claimed the post and have not finished it.
Holders      == {s \in Servers : pc[s] \in Publishing}
Published    == {a \in Accounts : target[a] = "PUBLISHED"}
Unpublished  == {a \in Accounts : target[a] \in {"PENDING", "FAILED"}}
MayGoOut     == approval \in {"none", "APPROVED"}

Init ==
  /\ status = "NONE" /\ approval = "none"
  /\ target = [a \in Accounts |-> "none"]
  /\ pc = [s \in Servers |-> "idle"] /\ todo = [s \in Servers |-> {}]
  /\ cur = [s \in Servers |-> {}]
  /\ ok = [s \in Servers |-> FALSE] /\ failed = [s \in Servers |-> FALSE]
  /\ job = [s \in Servers |-> "idle"] /\ seen = [s \in Servers |-> FALSE]
  /\ move = "none"
  /\ owner = {} /\ outdated = {} /\ agreed = FALSE
  /\ out = {} /\ twice = {} /\ unsure = {} /\ muddled = FALSE

Goto(s, place) == pc' = [pc EXCEPT ![s] = place]
\* start: a server that publishes the post already does nothing.
StartRun(s) == pc' = IF pc[s] = "idle" THEN [pc EXCEPT ![s] = "claim"] ELSE pc
\* The run is over and the server forgets it.
End(s) ==
  /\ Goto(s, "idle")
  /\ todo' = [todo EXCEPT ![s] = {}] /\ cur' = [cur EXCEPT ![s] = {}]
  /\ ok' = [ok EXCEPT ![s] = FALSE] /\ failed' = [failed EXCEPT ![s] = FALSE]
  /\ outdated' = outdated \ {s} /\ owner' = owner \ {s}
Reset(from, to) == target' = [a \in Accounts |-> IF target[a] = from THEN to ELSE target[a]]

-----------------------------------------------------------------------------
(* SocialPostService.publishPost, and the hook after it.                   *)

\* UPDATE ... WHERE status = SCHEDULED and not waiting for the client.
MayClaim == status = "SCHEDULED" /\ MayGoOut
Claim(s) ==
  /\ pc[s] = "claim"
  /\ IF MayClaim
     THEN /\ status' = "PUBLISHING" /\ owner' = {s}
          /\ Goto(s, "read") /\ UNCHANGED <<todo, cur, ok, failed, outdated>>
     ELSE UNCHANGED status /\ End(s)
  /\ UNCHANGED <<approval, target, jobs, move, agreed, reached, muddled>>

\* postForPublish: the text and the targets, read once; what is out is skipped.
ReadPost(s) ==
  /\ pc[s] = "read"
  /\ IF status = "GONE" THEN End(s)
     ELSE /\ todo' = [todo EXCEPT ![s] = Unpublished]
          /\ ok' = [ok EXCEPT ![s] = Published # {}]
          /\ outdated' = outdated \ {s}
          /\ Goto(s, "targets") /\ UNCHANGED <<cur, failed, owner>>
  /\ UNCHANGED <<row, jobs, move, agreed, reached, muddled>>

\* The next target.  The merchant connects and disconnects accounts at any time; one
\* that needs to be connected again fails at once.
CheckAccount(s, a) ==
  /\ pc[s] = "targets" /\ a \in todo[s]
  /\ \/ /\ cur' = [cur EXCEPT ![s] = {a}] /\ Goto(s, "send") /\ UNCHANGED <<target, failed>>
     \/ /\ a \in Flaky /\ s \notin outdated
        /\ target' = [target EXCEPT ![a] = "FAILED"]
        /\ failed' = [failed EXCEPT ![s] = TRUE] /\ UNCHANGED <<pc, cur>>
  /\ todo' = [todo EXCEPT ![s] = @ \ {a}]
  /\ UNCHANGED <<status, approval, ok, jobs, move, history>>

\* The platform takes the post, refuses it, or takes it and the answer is lost.
Arrive(s) ==
  IF s \in outdated THEN UNCHANGED <<out, twice>>
  ELSE out' = out \cup cur[s] /\ twice' = twice \cup (out \cap cur[s])
Post(s) ==
  /\ pc[s] = "send"
  /\ \/ Goto(s, "sent") /\ ok' = [ok EXCEPT ![s] = TRUE] /\ Arrive(s) /\ UNCHANGED unsure
     \/ Goto(s, "refused") /\ UNCHANGED <<ok, reached>>
     \/ /\ Goto(s, "refused") /\ UNCHANGED ok /\ Arrive(s)
        /\ unsure' = IF s \in outdated THEN unsure ELSE unsure \cup cur[s]
  /\ UNCHANGED <<row, todo, cur, failed, jobs, move, owner, outdated, agreed, muddled>>

\* finishTarget, by the id of the row.  One that throws after the post went out is
\* caught as a failure to publish.
SetTargets(S, value) == target' = [a \in Accounts |-> IF a \in S THEN value ELSE target[a]]
RecordSent(s) ==
  /\ pc[s] = "sent" /\ s \notin outdated
  /\ \/ SetTargets(cur[s], "PUBLISHED") /\ Goto(s, "targets") /\ UNCHANGED unsure
     \/ Goto(s, "refused") /\ unsure' = unsure \cup cur[s] /\ UNCHANGED target
  /\ UNCHANGED <<status, approval, todo, cur, ok, failed, jobs, move, owner, outdated, agreed,
                 out, twice, muddled>>

\* The catch: FAILED; the account may be marked for a new connection, too.
RecordFailure(s) ==
  /\ pc[s] = "refused" /\ s \notin outdated
  /\ SetTargets(cur[s], "FAILED")
  /\ failed' = [failed EXCEPT ![s] = TRUE] /\ Goto(s, "targets")
  /\ UNCHANGED <<status, approval, todo, cur, ok, jobs, move, history>>

\* The target rows were replaced or deleted: finishTarget throws, in the catch too.
RowGone(s) ==
  /\ s \in outdated
  /\ \/ pc[s] \in {"sent", "refused"}
     \/ pc[s] = "targets" /\ todo[s] \cap Flaky # {}
  /\ End(s)
  /\ UNCHANGED <<row, jobs, move, agreed, reached, muddled>>

\* finishPost, by id: whatever happened to the post meanwhile.
FinalStatus(s) ==
  IF ~failed[s] THEN "PUBLISHED" ELSE IF ok[s] THEN "PARTIAL" ELSE "FAILED"
Finish(s) ==
  /\ pc[s] = "targets" /\ todo[s] = {}
  /\ IF status = "GONE" THEN UNCHANGED <<status, muddled>> /\ End(s)
     ELSE /\ status' = FinalStatus(s)
          /\ owner' = {} /\ muddled' = (muddled \/ owner # {s})
          /\ Goto(s, "hook") /\ outdated' = outdated \ {s}
          /\ ok' = [ok EXCEPT ![s] = FALSE] /\ failed' = [failed EXCEPT ![s] = FALSE]
          /\ cur' = [cur EXCEPT ![s] = {}] /\ UNCHANGED todo
  /\ UNCHANGED <<approval, target, jobs, move, agreed, reached>>

\* afterPublish: the next occurrence of a repeating post is a post of its own.
Hook(s) ==
  /\ pc[s] = "hook" /\ End(s)
  /\ UNCHANGED <<row, jobs, move, agreed, reached, muddled>>

\* An await fails where nothing catches it, or the server restarts: the rows stay.
Stop(s) ==
  /\ pc[s] # "send" /\ End(s)
  /\ unsure' = IF pc[s] = "sent" /\ s \notin outdated THEN unsure \cup cur[s] ELSE unsure
  /\ UNCHANGED <<row, agreed, out, twice, muddled>>
Break(s) == pc[s] # "idle" /\ Stop(s) /\ UNCHANGED <<jobs, move>>
Crash(s) ==
  /\ Stop(s) /\ move' \in {move, "none"}
  /\ job' = [job EXCEPT ![s] = "idle"] /\ seen' = [seen EXCEPT ![s] = FALSE]

-----------------------------------------------------------------------------
(* The job: SocialPostService.runDue.                                      *)

GotoJob(s, place) == job' = [job EXCEPT ![s] = place]

\* expireStale: a row whose publishingAt is too old by now is read, then its targets
\* and the post are updated.
JobLook(s) ==
  /\ job[s] = "idle"
  /\ \/ /\ status = "PUBLISHING"
        /\ GotoJob(s, "targets") /\ seen' = [seen EXCEPT ![s] = Published # {}]
     \/ GotoJob(s, "list") /\ UNCHANGED seen
  /\ UNCHANGED <<row, run, move, history>>
JobTargets(s) ==
  /\ job[s] = "targets" /\ Reset("PENDING", "FAILED") /\ GotoJob(s, "post")
  /\ UNCHANGED <<status, approval, run, seen, move, history>>
JobPost(s) ==
  /\ job[s] = "post"
  /\ IF status = "PUBLISHING"
     THEN /\ status' = IF seen[s] THEN "PARTIAL" ELSE "FAILED"
          /\ owner' = {}
          /\ muddled' = (muddled \/ owner # {} \/ seen[s] # (Published # {}))
     ELSE UNCHANGED <<status, owner, muddled>>
  /\ GotoJob(s, "list") /\ seen' = [seen EXCEPT ![s] = FALSE]
  /\ UNCHANGED <<approval, target, run, move, outdated, agreed, reached>>

\* An update of the job fails: the next tick starts again.
JobFails(s) ==
  /\ job[s] \in {"targets", "post", "list"} /\ GotoJob(s, "idle")
  /\ seen' = [seen EXCEPT ![s] = FALSE]
  /\ UNCHANGED <<row, run, move, history>>

\* dueIds, if its time has come by now and the company is not suspended.
JobList(s) ==
  /\ job[s] = "list"
  /\ \/ status = "SCHEDULED" /\ MayGoOut /\ GotoJob(s, "start")
     \/ GotoJob(s, "idle")
  /\ UNCHANGED <<row, run, seen, move, history>>

\* Start it unless it runs here already, and wait until it is over.
JobStart(s) ==
  /\ job[s] = "start" /\ StartRun(s)
  /\ GotoJob(s, IF pc[s] = "idle" THEN "wait" ELSE "idle")
  /\ UNCHANGED <<row, todo, cur, ok, failed, seen, move, history>>
JobDone(s) ==
  /\ job[s] = "wait" /\ pc[s] = "idle" /\ GotoJob(s, "idle")
  /\ UNCHANGED <<row, run, seen, move, history>>

-----------------------------------------------------------------------------
(* The merchant: create, update, remove, retry, reschedule.                *)

\* The text becomes a draft, or is for later or for now, on the accounts S.
Write(s, when, S) ==
  /\ S # {}
  /\ status' = IF when = "draft" THEN "DRAFT" ELSE "SCHEDULED"
  /\ target' = [a \in Accounts |-> IF a \in S THEN "PENDING" ELSE "none"]
  /\ IF when = "now" THEN StartRun(s) ELSE UNCHANGED pc
  /\ outdated' = outdated \cup Holders /\ muddled' = (Holders # {})
  /\ agreed' = FALSE /\ out' = {} /\ twice' = {} /\ unsure' = {}
  /\ UNCHANGED <<todo, cur, ok, failed, jobs, move, owner>>

Create(s, when, S) == status = "NONE" /\ Write(s, when, S) /\ UNCHANGED approval

\* An edited text waits for the client again.
AskedAgainNever == approval                                   \* mutant
AskedAgain == IF approval = "none" THEN "none" ELSE "WAITING"
Update(s, when, S) == status \in Editable /\ Write(s, when, S) /\ approval' = AskedAgain

Remove ==
  /\ status \notin {"PUBLISHING", "NONE", "GONE"}
  /\ status' = "GONE" /\ target' = [a \in Accounts |-> "none"] /\ outdated' = outdated \cup Holders
  /\ UNCHANGED <<approval, run, jobs, move, owner, agreed, reached, muddled>>

\* Only the accounts that failed are published again.
RetryAll == [a \in Accounts |-> IF target[a] = "none" THEN "none" ELSE "PENDING"]  \* mutant
RetryFailed == [a \in Accounts |-> IF target[a] = "FAILED" THEN "PENDING" ELSE target[a]]
Retry(s) ==
  /\ status \in {"FAILED", "PARTIAL"}
  /\ status' = "SCHEDULED"
  /\ target' = RetryFailed /\ StartRun(s)
  /\ UNCHANGED <<approval, todo, cur, ok, failed, jobs, move, history>>

\* Three updates: the time, a failed post's status, its targets.
Reschedule ==
  /\ move = "none" /\ status \in Editable
  /\ move' = "status"
  /\ UNCHANGED <<status, approval, target, run, jobs, history>>
MoveStatus ==
  /\ move = "status" /\ move' = "targets"
  /\ status' = IF status = "FAILED" THEN "SCHEDULED" ELSE status
  /\ UNCHANGED <<approval, target, run, jobs, history>>
MoveTargets ==
  /\ move = "targets" /\ move' = "none" /\ Reset("FAILED", "PENDING")
  /\ UNCHANGED <<status, approval, run, jobs, history>>

-----------------------------------------------------------------------------
(* The client's approval.                                                  *)

\* A new link for the client, or no approval at all any more.
SetApproval(value) ==
  /\ status \in Editable /\ approval' = value /\ agreed' = FALSE
  /\ UNCHANGED <<status, target, run, jobs, move, owner, outdated, reached, muddled>>
Decide(value) ==
  /\ status \in Editable /\ approval # "none"
  /\ approval' = value /\ agreed' = (value = "APPROVED")
  /\ UNCHANGED <<status, target, run, jobs, move, owner, outdated, reached, muddled>>

Work(s) ==
  \/ Claim(s) \/ ReadPost(s) \/ Post(s) \/ RecordSent(s) \/ RecordFailure(s) \/ RowGone(s)
  \/ Finish(s) \/ Hook(s) \/ \E a \in Accounts : CheckAccount(s, a)
Job(s) ==
  \/ JobLook(s) \/ JobTargets(s) \/ JobPost(s) \/ JobFails(s)
  \/ JobList(s) \/ JobStart(s) \/ JobDone(s)
Merchant ==
  \/ \E s \in Desks, when \in {"draft", "later", "now"}, S \in SUBSET Accounts :
       Create(s, when, S) \/ Update(s, when, S)
  \/ \E s \in Desks : Retry(s)
  \/ Remove \/ Reschedule \/ MoveStatus \/ MoveTargets
  \/ SetApproval("WAITING") \/ SetApproval("none")

Next ==
  \/ \E s \in Servers : Work(s) \/ Break(s) \/ Crash(s)
  \/ \E s \in Schedulers : Job(s)
  \/ Merchant \/ Decide("APPROVED") \/ Decide("WAITING")

Spec == Init /\ [][Next]_vars

-----------------------------------------------------------------------------
(* Properties.                                                             *)

TypeOK ==
  /\ status \in Statuses /\ approval \in {"none", "WAITING", "APPROVED"}
  /\ target \in [Accounts -> {"none", "PENDING", "PUBLISHED", "FAILED"}]
  /\ pc \in [Servers -> Places]
  /\ todo \in [Servers -> SUBSET Accounts] /\ cur \in [Servers -> SUBSET Accounts]
  /\ ok \in [Servers -> BOOLEAN] /\ failed \in [Servers -> BOOLEAN]
  /\ job \in [Servers -> Jobs] /\ seen \in [Servers -> BOOLEAN]
  /\ move \in {"none", "status", "targets"}
  /\ owner \subseteq Servers /\ outdated \subseteq Servers /\ agreed \in BOOLEAN
  /\ out \subseteq Accounts /\ twice \subseteq Accounts /\ unsure \subseteq Accounts
  /\ muddled \in BOOLEAN

\* A text appears once on each account, however many servers publish the post and
\* however often it is retried: unless a run lost its claim to the job, or that
\* account's publication was never recorded.
PublishedOnce == ~muddled => twice \subseteq unsure

\* What a run with a claim sends out needs no client, or is what he agreed to.
ApprovedText ==
  \A s \in Holders \cap owner : approval = "none" \/ (approval = "APPROVED" /\ agreed)

\* With no run that lost its claim, a finished post says what its targets say.
StatusTellsTargets ==
  ~muddled /\ unsure = {} =>
    /\ status = "PUBLISHED" => Unpublished = {}
    /\ status = "PARTIAL"   => Published # {}
    /\ status = "FAILED"    => Published = {}

\* The inductive invariant.  At most one run owns the post, which is PUBLISHING then;
\* a run that does not own it lost its claim.  An approval is the client's yes to
\* this text.  While no claim was lost, the owner's targets are still unpublished,
\* its counters tell the rows, and who was reached for sure has it in his row or is
\* the target the owner is about to record.
OwnerInv ==
  /\ owner \subseteq Holders /\ \A s, t \in owner : s = t
  /\ owner # {} => status = "PUBLISHING"
LostInv   == (Holders = owner \/ muddled) /\ outdated \subseteq Holders \ owner
AgreedInv == (approval = "APPROVED" => agreed) /\ (status = "NONE" => approval = "none")
Sending(s) == pc[s] \in {"send", "sent", "refused"}
Reads(s)   == s \in owner /\ pc[s] # "read"
TodoInv == ~muddled => \A s \in Servers : Reads(s) =>
  /\ todo[s] \subseteq Unpublished
  /\ Sending(s) => cur[s] # {} /\ cur[s] \subseteq Unpublished \ todo[s]
TellInv == ~muddled /\ unsure = {} => \A s \in Servers : Reads(s) =>
  /\ pc[s] = "sent" => ok[s]
  /\ ok[s] => pc[s] = "sent" \/ Published # {}
  /\ ~ok[s] => Published = {}
  /\ ~failed[s] => Unpublished \subseteq todo[s] \cup (IF Sending(s) THEN cur[s] ELSE {})
OutInv == ~muddled /\ status # "GONE" => \A a \in out \ unsure :
  target[a] = "PUBLISHED" \/ \E s \in owner : pc[s] = "sent" /\ a \in cur[s]
PostInv ==
  /\ TypeOK /\ OwnerInv /\ LostInv /\ AgreedInv /\ ApprovedText
  /\ TodoInv /\ TellInv /\ StatusTellsTargets /\ OutInv /\ PublishedOnce
=============================================================================
