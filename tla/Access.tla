-------------------------------- MODULE Access --------------------------------
(***************************************************************************)
(* Which services a company may use: its subscriptions with their dates    *)
(* and days of grace, its trial, and whether its account is open.  The     *)
(* super admin changes all of it; the server asks at each request and      *)
(* keeps the answer for TTL, the default grace for ConfigTTL.              *)
(*                                                                         *)
(* A change of the subscriptions writes both fields from what it has read. *)
(* Time is counted in ticks that no request outlives, to MaxTime; changes  *)
(* to MaxChanges.                                                          *)
(***************************************************************************)
EXTENDS Integers

CONSTANTS Modules, Requests,
          Graces,          \* days of grace, in ticks
          TTL, ConfigTTL, MaxTime, MaxChanges,
          None

VARIABLES
  now,
  plan,      \* the company: services, dates, trial, own grace, open
  grace,     \* defaultGraceDays
  known,     \* the default grace this server has read, and when
  cache,     \* cache[m]: the answer kept for module m, and when
  job,       \* job[r]: what request r is doing
  changes,   \* changes so far
  switched,  \* switched[m]: when m was last switched on
  redated,   \* modules dated since they were switched on
  torn,      \* modules whose subscription changed between a request's reading and writing
  lastYes, lastNo, \* when the company last was, was not, entitled to m
  graceAt    \* when the default grace last changed

vars == <<now, plan, grace, known, cache, job, changes, switched, redated, torn, lastYes, lastNo, graceAt>>

Times == 0..MaxTime
Idle  == [at |-> "idle", module |-> None, plan |-> None, set |-> {}, until |-> None, days |-> 0, ok |-> FALSE]
NewPlan == [on |-> {}, until |-> [m \in Modules |-> None], trial |-> 1, grace |-> None, open |-> TRUE]

Init ==
  /\ now = 0 /\ plan = NewPlan /\ grace = 0 /\ known = [days |-> None, at |-> 0]
  /\ cache = [m \in Modules |-> [ok |-> None, at |-> 0]]
  /\ job = [r \in Requests |-> Idle] /\ changes = 0
  /\ switched = [m \in Modules |-> 0] /\ redated = {} /\ torn = {}
  /\ lastYes = [m \in Modules |-> 0] /\ lastNo = [m \in Modules |-> -TTL] /\ graceAt = -TTL - ConfigTTL

-----------------------------------------------------------------------------
(* What the code makes of a plan.                                          *)

isModuleActive(p, m, days) ==
  /\ p.open /\ m \in p.on
  /\ p.until[m] # None => p.until[m] + days > now
Opened(p)  == p.open
Whatever(p) == TRUE   \* mutant: the account is not looked at
isAccountOpen(p) == Opened(p)
isTrialActive(p) == isAccountOpen(p) /\ p.trial > now
getEffectiveModules(p, days) ==
  IF isTrialActive(p) THEN Modules ELSE {m \in Modules : isModuleActive(p, m, days)}

-----------------------------------------------------------------------------
(* A request to a service.                                                 *)

Become(r, j) == job' = [job EXCEPT ![r] = j]
Fresh(at, ttl) == now - at < ttl
kept == <<now, plan, grace, changes, switched, redated, torn, graceAt>>

hasModuleAccess(r, m) ==
  /\ job[r].at \in {"idle", "told"}
  /\ IF cache[m].ok # None /\ Fresh(cache[m].at, TTL)
     THEN Become(r, [Idle EXCEPT !.at = "told", !.module = m, !.ok = cache[m].ok])
     ELSE Become(r, [Idle EXCEPT !.at = IF plan.grace = None THEN "grace" ELSE "answer", !.module = m,
                                 !.plan = plan, !.days = IF plan.grace = None THEN 0 ELSE plan.grace])
  /\ UNCHANGED <<kept, known, cache>>
tenantGraceDays(r) ==
  /\ job[r].at = "grace"
  /\ LET days == IF known.days # None /\ Fresh(known.at, ConfigTTL) THEN known.days ELSE grace IN
       /\ Become(r, [job[r] EXCEPT !.at = "answer", !.days = days])
       /\ known' = IF known.days # None /\ Fresh(known.at, ConfigTTL) THEN known ELSE [days |-> grace, at |-> now]
  /\ UNCHANGED <<kept, cache>>
Answer(r) ==
  LET ok == job[r].module \in getEffectiveModules(job[r].plan, job[r].days) IN
  /\ job[r].at = "answer"
  /\ cache' = [cache EXCEPT ![job[r].module] = [ok |-> ok, at |-> now]]
  /\ Become(r, [Idle EXCEPT !.at = "told", !.module = job[r].module, !.ok = ok])
  /\ UNCHANGED <<kept, known>>

-----------------------------------------------------------------------------
(* The super admin.                                                        *)

Counted == changes < MaxChanges /\ changes' = changes + 1
alone == <<now, known, cache, job, switched, redated, torn>>

PatchStatus(o) ==
  /\ Counted /\ o # plan.open /\ plan' = [plan EXCEPT !.open = o] /\ UNCHANGED <<alone, grace, graceAt>>
PatchGrace(g) ==
  /\ Counted /\ g # plan.grace /\ plan' = [plan EXCEPT !.grace = g] /\ UNCHANGED <<alone, grace, graceAt>>
\* Some days from now, or the end; not into the past.
PatchTrial(t) ==
  /\ Counted /\ (t > now \/ t = 0) /\ plan' = [plan EXCEPT !.trial = t] /\ UNCHANGED <<alone, grace, graceAt>>
\* On this server, which then forgets what it knew, or on another.
PatchDefaultGrace(g, here) ==
  /\ Counted /\ g # grace /\ grace' = g /\ graceAt' = now
  /\ known' = IF here THEN [days |-> None, at |-> 0] ELSE known
  /\ UNCHANGED <<now, plan, cache, job, switched, redated, torn>>

\* The subscriptions: all at once, or one with its date.
Read(r, place, set, m, until) ==
  /\ Counted /\ job[r].at \in {"idle", "told"}
  /\ Become(r, [Idle EXCEPT !.at = place, !.plan = plan, !.set = set, !.module = m, !.until = until])
  /\ UNCHANGED <<now, plan, grace, known, cache, switched, redated, torn, graceAt>>
PatchModules(r, set)     == Read(r, "modules", set, None, None)
PatchExpiry(r, m, until) == Read(r, "expiry", {}, m, until)

Write(r, on, until) ==
  LET seen == job[r].plan IN
  /\ plan' = [plan EXCEPT !.on = on, !.until = until]
  /\ switched' = [m \in Modules |-> IF m \in on /\ m \notin plan.on THEN now ELSE switched[m]]
  /\ torn' = torn \cup {m \in Modules : seen.until[m] # plan.until[m] \/ (m \in seen.on) # (m \in plan.on)}
  /\ Become(r, Idle) /\ UNCHANGED <<now, grace, known, cache, changes, graceAt>>

\* Switched off: its date goes.  Switched on after its date: without one.
Cleared(seen, set) ==
  [m \in Modules |-> IF m \notin set \/ (m \notin seen.on /\ seen.until[m] # None /\ seen.until[m] <= now)
                     THEN None ELSE seen.until[m]]
datesAfter(seen, set) == Cleared(seen, set)
ModulesWritten(r) ==
  /\ job[r].at = "modules" /\ Write(r, job[r].set, datesAfter(job[r].plan, job[r].set))
  /\ redated' = redated \cap plan.on \cap job[r].set
ExpiryWritten(r) ==
  LET seen == job[r].plan  m == job[r].module IN
  /\ job[r].at = "expiry" /\ Write(r, seen.on \cup {m}, [seen.until EXCEPT ![m] = job[r].until])
  /\ redated' = redated \cup {m}

Tick ==
  /\ now < MaxTime /\ \A r \in Requests : job[r].at \in {"idle", "told"}
  /\ now' = now + 1 /\ job' = [r \in Requests |-> Idle]
  /\ UNCHANGED <<plan, grace, known, cache, changes, switched, redated, torn, graceAt>>

\* What the company has paid for or been given, said once more.
Entitled(m) ==
  plan.open /\ (\/ plan.trial > now
                \/ m \in plan.on /\ (\/ plan.until[m] = None
                                     \/ now < plan.until[m] + (IF plan.grace = None THEN grace ELSE plan.grace)))
Watch ==
  /\ lastYes' = [m \in Modules |-> IF Entitled(m)' THEN now' ELSE lastYes[m]]
  /\ lastNo'  = [m \in Modules |-> IF Entitled(m)' THEN lastNo[m] ELSE now']

Step ==
  \/ \E r \in Requests :
       \/ \E m \in Modules : hasModuleAccess(r, m) \/ (\E t \in Times \cup {None} : PatchExpiry(r, m, t))
       \/ tenantGraceDays(r) \/ Answer(r) \/ ModulesWritten(r) \/ ExpiryWritten(r)
       \/ \E set \in SUBSET Modules : PatchModules(r, set)
  \/ \E o \in BOOLEAN : PatchStatus(o)
  \/ \E g \in Graces \cup {None} : PatchGrace(g)
  \/ \E t \in Times : PatchTrial(t)
  \/ \E g \in Graces, here \in BOOLEAN : PatchDefaultGrace(g, here)
  \/ Tick
Next == Step /\ Watch

Spec == Init /\ [][Next]_vars

-----------------------------------------------------------------------------
\* A service answers as the company was entitled to it less than TTL before:
\* what is paid for opens, and what ends closes, that fast.  Only a change of
\* the default grace may take the time that setting is kept longer.
AccessFollowsPlan ==
  \A r \in Requests : job[r].at = "told" =>
    \/ now - (IF job[r].ok THEN lastYes ELSE lastNo)[job[r].module] < TTL
    \/ now - graceAt < TTL + ConfigTTL

\* A service switched on again does not come back with an old date that has
\* passed: it runs until it is dated anew, unless two changes of the
\* subscriptions crossed.
OnAgainRuns ==
  \A m \in plan.on : (plan.until[m] # None /\ plan.until[m] <= switched[m]) => m \in redated \cup torn
-----------------------------------------------------------------------------
(* Why: what is kept of a plan, of a grace and of an answer was so when it *)
(* was read, or the default grace has changed since.                       *)

Plan == [on : SUBSET Modules, until : [Modules -> Times \cup {None}], trial : Nat, grace : Graces \cup {None}, open : BOOLEAN]
Days == Graces \cup {0}
Job == [at : {"idle", "grace", "answer", "told", "modules", "expiry"}, module : Modules \cup {None}, plan : Plan \cup {None},
        set : SUBSET Modules, until : Times \cup {None}, days : Days, ok : BOOLEAN]
TypeOK ==
  /\ now \in Nat /\ plan \in Plan /\ grace \in Days /\ changes \in Nat
  /\ known \in [days : Days \cup {None}, at : 0..now]
  /\ cache \in [Modules -> [ok : BOOLEAN \cup {None}, at : 0..now]]
  /\ job \in [Requests -> Job]
  /\ switched \in [Modules -> Nat] /\ redated \subseteq Modules /\ torn \subseteq Modules
  /\ lastYes \in [Modules -> Int] /\ lastNo \in [Modules -> Int] /\ graceAt \in Int

Regraced(t) == graceAt >= t \/ t - graceAt < ConfigTTL
\* An answer "ok" about m was right at time t or since.
Right(ok, m, t) == (IF ok THEN lastYes[m] >= t ELSE lastNo[m] >= t) \/ Regraced(t)
KnownInv == known.days # None => known.days = grace \/ graceAt >= known.at
JobInv(j) ==
  /\ j.at \in {"grace", "answer", "modules", "expiry"} => j.plan \in Plan
  /\ j.at \in {"grace", "answer", "told", "expiry"} => j.module \in Modules
  /\ j.at = "grace" => j.plan.grace = None /\ Right(j.module \in getEffectiveModules(j.plan, grace), j.module, now)
  /\ j.at = "answer" => Right(j.module \in getEffectiveModules(j.plan, j.days), j.module, now)
AccessInv ==
  /\ TypeOK /\ KnownInv /\ AccessFollowsPlan /\ OnAgainRuns
  /\ \A m \in Modules : /\ lastYes[m] <= now /\ lastNo[m] <= now
                        /\ IF Entitled(m) THEN lastYes[m] = now ELSE lastNo[m] = now
  /\ \A m \in Modules : cache[m].ok # None => Right(cache[m].ok, m, cache[m].at)
  /\ \A r \in Requests : JobInv(job[r])
=============================================================================
