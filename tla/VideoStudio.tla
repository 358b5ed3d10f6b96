----------------------------- MODULE VideoStudio -----------------------------
(***************************************************************************)
(* The AI video studio of one company and the credits it spends.           *)
(*                                                                         *)
(* A video takes minutes, so `start` reserves the credits, records a       *)
(* PENDING generation and returns; the work goes on in the background of   *)
(* the process that took the request.  Every request on videos first       *)
(* sweeps the company's stale PENDING rows (expireStale).  Each step below *)
(* is the code between two awaits; the steps of all requests, of the       *)
(* background runs and of several server processes interleave freely.      *)
(*                                                                         *)
(* A database call may fail, and then changes nothing.  Crashes are        *)
(* bounded by MaxCrashes, grants by MaxGranted.                            *)
(***************************************************************************)
EXTENDS Integers, FiniteSets

CONSTANTS Jobs,        \* start requests; each draws its own randomUUID
          Polls,       \* clients that repeat get() or history()
          Procs,       \* server processes
          Cost,        \* AI_COSTS.video
          MaxRunning,  \* limits.maxRunning
          Unlimited,   \* tenant.isPlatformOwner
          MaxCrashes,
          GrantSizes, MaxGranted

Actors == Jobs \cup Polls

ASSUME JobsAssumption   == IsFiniteSet(Jobs) /\ Jobs \cap Polls = {}
ASSUME CostAssumption   == Cost \in Nat \ {0}
ASSUME LimitAssumption  == MaxRunning \in Nat \ {0}
ASSUME FlagAssumption   == Unlimited \in BOOLEAN
ASSUME BoundAssumption  == MaxCrashes \in Nat /\ MaxGranted \in Nat
ASSUME GrantAssumption  == GrantSizes \subseteq Int \ {0}

VARIABLES
  balance,   \* tenant.creditBalance
  spends,    \* spends[j]: AI_VIDEO rows of the credit ledger whose refId is j
  refunds,   \* refunds[j]: REFUND rows of the credit ledger whose refId is j
  granted,   \* net amount of the GRANT and DEDUCT rows
  gen,       \* gen[j]: status of the aiGeneration row of j, "absent" before it exists
  old,       \* jobs whose row is older than staleAfterMs
  saved,     \* jobs with a stored video asset
  running,   \* running[p]: the in-memory map of process p
  pc,        \* where each request, and then its background run, stands
  host,      \* the process that serves it
  todo,      \* todo[a]: stale rows a's sweep has read and not handled yet
  owes,      \* owes[a]: the job a has just closed or given up and must refund
  interrupted, \* jobs whose refund was due when its actor crashed or the call failed
  crashes

ledger == <<balance, spends, refunds, granted>>
rows   == <<gen, old, saved>>
memory == <<running, pc, host, todo, owes>>
history == <<interrupted, crashes>>
vars   == <<balance, spends, refunds, granted, gen, old, saved,
            running, pc, host, todo, owes, interrupted, crashes>>

Statuses == {"absent", "PENDING", "DONE", "FAILED"}
Places   == {"idle", "sweep", "closing", "returning", "count", "spend", "create",
             "undo", "generate", "save", "finish", "fail", "refund", "ended"}

Pending == {j \in Jobs : gen[j] = "PENDING"}

Init ==
  /\ balance = 0 /\ granted = 0 /\ crashes = 0
  /\ spends  = [j \in Jobs |-> 0]
  /\ refunds = [j \in Jobs |-> 0]
  /\ gen     = [j \in Jobs |-> "absent"]
  /\ old = {} /\ saved = {} /\ interrupted = {}
  /\ running = [p \in Procs |-> {}]
  /\ pc      = [a \in Actors |-> "idle"]
  /\ host    \in [Actors -> Procs]
  /\ todo    = [a \in Actors |-> {}]
  /\ owes    = [a \in Actors |-> {}]

Goto(a, place) == pc' = [pc EXCEPT ![a] = place]

-----------------------------------------------------------------------------
(* The credit service.                                                     *)

\* grant: the super admin adds credits, or removes some the company still has.
Grant(n) ==
  /\ n > 0 => granted + n <= MaxGranted
  /\ balance + n >= 0
  /\ balance' = balance + n
  /\ granted' = granted + n
  /\ UNCHANGED <<spends, refunds, rows, memory, history>>

\* debit: one conditional update, so it never takes the balance below zero.
DebitUnchecked(j) ==                                         \* mutant
  /\ balance' = balance - Cost
  /\ spends' = [spends EXCEPT ![j] = @ + 1] /\ UNCHANGED <<refunds, granted>>
Debit(j) ==
  IF Unlimited
  THEN UNCHANGED ledger
  ELSE /\ balance >= Cost
       /\ balance' = balance - Cost
       /\ spends' = [spends EXCEPT ![j] = @ + 1]
       /\ UNCHANGED <<refunds, granted>>

RefundOf(j) ==
  IF Unlimited
  THEN UNCHANGED ledger
  ELSE /\ balance' = balance + Cost
       /\ refunds' = [refunds EXCEPT ![j] = @ + 1]
       /\ UNCHANGED <<spends, granted>>

\* finishPending: UPDATE ... WHERE status = 'PENDING'; the count says who won.
WonAlways(j) == gen[j] # "absent"                            \* mutant
Won(j) == gen[j] = "PENDING"
FinishPending(j, status) ==
  gen' = IF Won(j) THEN [gen EXCEPT ![j] = status] ELSE gen

-----------------------------------------------------------------------------
(* A request arrives: expireStale runs before anything else.               *)

Arrive(a) ==
  /\ pc[a] = "idle"
  /\ Goto(a, "sweep")
  /\ UNCHANGED <<ledger, rows, running, host, todo, owes, history>>

ReadStale(a) ==
  /\ pc[a] = "sweep"
  /\ todo' = [todo EXCEPT ![a] = (Pending \cap old) \ running[host[a]]]
  /\ Goto(a, "closing")
  /\ UNCHANGED <<ledger, rows, running, host, owes, history>>

CloseStale(a) ==
  /\ pc[a] = "closing"
  /\ \E j \in todo[a] :
       /\ FinishPending(j, "FAILED")
       /\ todo' = [todo EXCEPT ![a] = @ \ {j}]
       /\ IF Won(j) THEN owes' = [owes EXCEPT ![a] = {j}] /\ Goto(a, "returning")
                    ELSE UNCHANGED <<owes, pc>>
  /\ UNCHANGED <<ledger, old, saved, running, host, history>>

ReturnStale(a) ==
  /\ pc[a] = "returning"
  /\ \E j \in owes[a] : RefundOf(j)
  /\ owes' = [owes EXCEPT ![a] = {}]
  /\ Goto(a, "closing")
  /\ UNCHANGED <<rows, running, host, todo, history>>

\* The rest of the request: a poll answers, a start goes on.
SweepDone(a) ==
  /\ pc[a] = "closing" /\ todo[a] = {}
  /\ Goto(a, IF a \in Jobs THEN "count" ELSE "idle")
  /\ UNCHANGED <<ledger, rows, running, host, todo, owes, history>>

\* finishPending of a sweep throws: the request answers 500, the rest waits.
SweepThrows(a) ==
  /\ pc[a] = "closing"
  /\ todo[a] # {}
  /\ todo' = [todo EXCEPT ![a] = {}]
  /\ Goto(a, IF a \in Jobs THEN "ended" ELSE "idle")
  /\ UNCHANGED <<ledger, rows, running, host, owes, history>>

-----------------------------------------------------------------------------
(* start, after the sweep.                                                 *)

Admit(j) ==
  /\ pc[j] = "count"
  /\ Cardinality(Pending) < MaxRunning
  /\ Goto(j, "spend")
  /\ UNCHANGED <<ledger, rows, running, host, todo, owes, history>>

\* Too many videos, a source image that is not the company's, or no credits.
Refuse(j) ==
  /\ \/ pc[j] = "count"
     \/ pc[j] = "spend" /\ ~Unlimited /\ balance < Cost
  /\ Goto(j, "ended")
  /\ UNCHANGED <<ledger, rows, running, host, todo, owes, history>>

Spend(j) ==
  /\ pc[j] = "spend"
  /\ Debit(j)
  /\ Goto(j, "create")
  /\ UNCHANGED <<rows, running, host, todo, owes, history>>

\* The row exists and the run is registered in the same turn of the event loop.
Create(j) ==
  /\ pc[j] = "create"
  /\ gen' = [gen EXCEPT ![j] = "PENDING"]
  /\ running' = [running EXCEPT ![host[j]] = @ \cup {j}]
  /\ Goto(j, "generate")
  /\ UNCHANGED <<ledger, old, saved, host, todo, owes, history>>

CreateFails(j) ==
  /\ pc[j] = "create"
  /\ owes' = [owes EXCEPT ![j] = {j}]
  /\ Goto(j, "undo")
  /\ UNCHANGED <<ledger, rows, running, host, todo, history>>

-----------------------------------------------------------------------------
(* run: the background work.                                               *)

\* running.delete(id), the finally of run.
LeaveForgets(j) == UNCHANGED running                         \* mutant
Leave(j) == running' = [running EXCEPT ![host[j]] = @ \ {j}]

\* The provider answers, refuses, or withTimeout gives up on it.
Generate(j) ==
  /\ pc[j] = "generate"
  /\ \E next \in {"save", "fail"} : Goto(j, next)
  /\ UNCHANGED <<ledger, rows, running, host, todo, owes, history>>

Save(j) ==
  /\ pc[j] = "save"
  /\ \/ saved' = saved \cup {j} /\ Goto(j, "finish")
     \/ UNCHANGED saved /\ Goto(j, "fail")
  /\ UNCHANGED <<ledger, gen, old, running, host, todo, owes, history>>

Finish(j) ==
  /\ pc[j] = "finish"
  /\ FinishPending(j, "DONE")
  /\ Leave(j)
  /\ Goto(j, "ended")
  /\ UNCHANGED <<ledger, old, saved, host, todo, owes, history>>

\* finishPending(DONE) throws: run falls into its catch.
FinishThrows(j) ==
  /\ pc[j] = "finish"
  /\ Goto(j, "fail")
  /\ UNCHANGED <<ledger, rows, running, host, todo, owes, history>>

Fail(j) ==
  /\ pc[j] = "fail"
  /\ FinishPending(j, "FAILED")
  /\ IF Won(j) THEN owes' = [owes EXCEPT ![j] = {j}] /\ Goto(j, "refund") /\ UNCHANGED running
               ELSE UNCHANGED owes /\ Goto(j, "ended") /\ Leave(j)
  /\ UNCHANGED <<ledger, old, saved, host, todo, history>>

\* finishPending(FAILED).catch(() => false): left PENDING for a later sweep.
FailThrows(j) ==
  /\ pc[j] = "fail"
  /\ Leave(j)
  /\ Goto(j, "ended")
  /\ UNCHANGED <<ledger, rows, host, todo, owes, history>>

\* The refund of a start whose row was refused, or of a run that closed its row.
Refund(j) ==
  /\ pc[j] \in {"undo", "refund"}
  /\ RefundOf(j)
  /\ owes' = [owes EXCEPT ![j] = {}]
  /\ Leave(j)
  /\ Goto(j, "ended")
  /\ UNCHANGED <<rows, host, todo, history>>

\* Every refund is followed by .catch(log): a failure is not tried again.
RefundFails(a) ==
  /\ pc[a] \in {"undo", "refund", "returning"}
  /\ owes' = [owes EXCEPT ![a] = {}]
  /\ interrupted' = interrupted \cup owes[a]
  /\ IF a \in Jobs /\ pc[a] # "returning"
     THEN Leave(a) /\ Goto(a, "ended")
     ELSE UNCHANGED running /\ Goto(a, "closing")
  /\ UNCHANGED <<ledger, rows, host, todo, crashes>>

-----------------------------------------------------------------------------
(* Time and crashes.                                                       *)

\* A row passes staleAfterMs.  The provider's time is over by then, because
\* timeoutMs is smaller (AI_LIMITS), and so is the insert that made the row.
Age(j) ==
  /\ gen[j] = "PENDING" /\ j \notin old
  /\ pc[j] \notin {"generate", "undo"}
  /\ old' = old \cup {j}
  /\ UNCHANGED <<ledger, gen, saved, memory, history>>

\* A process restarts: its requests and runs are gone, the database is not.
Crash(p) ==
  /\ crashes < MaxCrashes
  /\ crashes' = crashes + 1
  /\ running' = [running EXCEPT ![p] = {}]
  /\ pc' = [a \in Actors |-> IF host[a] # p \/ pc[a] = "idle" THEN pc[a]
                             ELSE IF a \in Polls THEN "idle" ELSE "ended"]
  /\ todo' = [a \in Actors |-> IF host[a] = p THEN {} ELSE todo[a]]
  /\ owes' = [a \in Actors |-> IF host[a] = p THEN {} ELSE owes[a]]
  /\ interrupted' = interrupted \cup UNION {owes[a] : a \in {b \in Actors : host[b] = p}}
  /\ UNCHANGED <<ledger, rows, host>>

-----------------------------------------------------------------------------
Sweep(a) == Arrive(a) \/ ReadStale(a) \/ CloseStale(a) \/ ReturnStale(a) \/ SweepDone(a)
Start(j) == Admit(j) \/ Refuse(j) \/ Spend(j) \/ Create(j)
Run(j)   == Generate(j) \/ Save(j) \/ Finish(j) \/ Fail(j) \/ Refund(j)
Fault(j) == CreateFails(j) \/ FinishThrows(j) \/ FailThrows(j)

Next ==
  \/ \E a \in Actors : Sweep(a) \/ SweepThrows(a) \/ RefundFails(a)
  \/ \E j \in Jobs : Start(j) \/ Run(j) \/ Fault(j) \/ Age(j)
  \/ \E p \in Procs : Crash(p)
  \/ \E n \in GrantSizes : Grant(n)

Spec == Init /\ [][Next]_vars

\* Node runs every ready continuation; the provider call is bounded by
\* withTimeout; the screen polls every videoPollMs; time passes; and a
\* database that fails some calls does not fail every one of them.
Fairness ==
  /\ \A a \in Actors : WF_vars(ReadStale(a) \/ CloseStale(a) \/ ReturnStale(a) \/ SweepDone(a))
  /\ \A a \in Polls : WF_vars(Arrive(a)) /\ SF_vars(CloseStale(a))
  /\ \A j \in Jobs : WF_vars(Start(j) \/ Run(j)) /\ WF_vars(Age(j))
FairSpec == Spec /\ Fairness
-----------------------------------------------------------------------------
(* Properties.                                                             *)

TypeOK ==
  /\ balance \in Int /\ granted \in Int /\ crashes \in Nat
  /\ spends \in [Jobs -> Nat] /\ refunds \in [Jobs -> Nat]
  /\ gen \in [Jobs -> Statuses]
  /\ old \subseteq Jobs /\ saved \subseteq Jobs
  /\ running \in [Procs -> SUBSET Jobs]
  /\ pc \in [Actors -> Places] /\ host \in [Actors -> Procs]
  /\ todo \in [Actors -> SUBSET Jobs] /\ owes \in [Actors -> SUBSET Jobs]
  /\ interrupted \subseteq Jobs

\* "Whoever closes the job is the only one who returns the credits": a job is
\* refunded at most once, and only if it was charged.
NoDoubleReturn == \A j \in Jobs : refunds[j] <= spends[j] /\ spends[j] <= 1

\* The credits missing from a company's balance are those of its unreturned
\* charges, and concurrent charges never take it below zero.
Unreturned == {j \in Jobs : spends[j] = 1 /\ refunds[j] = 0}
CreditsAccounted == balance >= 0 /\ balance + Cost * Cardinality(Unreturned) = granted

\* A finished video is stored, was paid for, and is never refunded as well.
Delivered ==
  \A j \in Jobs : gen[j] = "DONE" =>
    j \in saved /\ (Unlimited \/ (spends[j] = 1 /\ refunds[j] = 0))

\* A failed job's credits are back, or the step that returns them is coming;
\* only a crash or a failed call in the middle of that step loses them.
Owed(j) == \E a \in Actors : j \in owes[a]
FailedIsReturned ==
  \A j \in Jobs : gen[j] = "FAILED" =>
    Unlimited \/ refunds[j] = 1 \/ Owed(j) \/ j \in interrupted

\* A closed job is never closed again, whoever else believes it is pending.
ClosedOnce ==
  [][\A j \in Jobs : gen[j] \in {"DONE", "FAILED"} => gen'[j] = gen[j]]_gen

\* Every PENDING job is closed in the end, by its run or, when its process has
\* restarted or its run could not close it, by a sweep.
EveryVideoCloses == \A j \in Jobs : gen[j] = "PENDING" ~> gen[j] \in {"DONE", "FAILED"}

\* The inductive invariant behind the safety properties.  JobInv ties the place
\* of a job to its row and its charge; OweInv says that a job somebody owes a
\* refund to is closed, charged, not refunded yet, and owed by nobody else.
Early       == {"idle", "sweep", "closing", "returning", "count", "spend"}
BeforeWork  == Early \cup {"create", "undo"}
Charged(j)  == spends[j] = IF Unlimited THEN 0 ELSE 1
JobInv(j) ==
  /\ IF pc[j] \in Early THEN spends[j] = 0 ELSE spends[j] \in {0, 1}
  /\ pc[j] \in {"create", "undo"} \/ gen[j] # "absent" => Charged(j)
  /\ pc[j] \in BeforeWork => gen[j] = "absent" /\ refunds[j] = 0
  /\ pc[j] \notin BeforeWork \cup {"ended"} => gen[j] # "absent"
  /\ refunds[j] <= spends[j]
  /\ refunds[j] > 0 => gen[j] \in {"absent", "FAILED"}
  /\ pc[j] = "finish" \/ gen[j] = "DONE" => j \in saved
  /\ pc[j] \in {"undo", "refund"} => j \in owes[j]
OwePlaces == \A a \in Actors : owes[a] # {} => pc[a] \in {"returning", "undo", "refund"}
OweClosed ==
  \A a \in Actors : \A j \in owes[a] :
    /\ owes[a] = {j} /\ Charged(j) /\ refunds[j] = 0
    /\ gen[j] = "FAILED" \/ (gen[j] = "absent" /\ a = j /\ pc[j] = "undo")
OweAlone  == \A a, b \in Actors : owes[a] \cap owes[b] # {} => a = b
OweInv == OwePlaces /\ OweClosed /\ OweAlone
VideoInv == TypeOK /\ (\A j \in Jobs : JobInv(j)) /\ OweInv

\* Every step is a step of the promise CreditHold, or changes nothing in it.
ChargeOf(j) ==
  IF spends[j] = 0 THEN "none" ELSE IF refunds[j] > 0 THEN "returned"
  ELSE IF gen[j] = "DONE" THEN "kept" ELSE "held"
Hold == INSTANCE CreditHold WITH Refs <- Jobs, Price <- Cost,
                                 charge <- [j \in Jobs |-> ChargeOf(j)]
HoldsCredits == Hold!Spec
=============================================================================
