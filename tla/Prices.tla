-------------------------------- MODULE Prices --------------------------------
(***************************************************************************)
(* The prices of the services: the super admin's table and its discounts,  *)
(* the exchange rate, and what an order is charged.                        *)
(*                                                                         *)
(* Each server keeps the settings it has read for TTL, and the rates for   *)
(* RateTTL; it forgets them when it changes them itself, but not when      *)
(* another server does.  A change of one price writes the whole table, the *)
(* other prices as this server knows them.                                 *)
(*                                                                         *)
(* Time is counted in ticks that no request outlives, to MaxTime, changes  *)
(* to MaxChanges.  An order is of one service.  Amounts are exact, in      *)
(* hundredths: roundings, and the price lists some countries have in their *)
(* own currency, are left out.                                             *)
(***************************************************************************)
EXTENDS Integers, FiniteSets, FiniteSetsExt

CONSTANTS Servers, Requests,
          Modules, PriceTags,  \* services, and what one may cost
          Rules, RuleLists,    \* discounts, and the lists that are saved
          Buys,                \* what is ordered: module, cycle and country
          YearlyDiscount,
          RatesSeen, Fallback, \* rates of the internet or the super admin, and the built-in one
          TTL, RateTTL, MaxTime, MaxChanges,
          None

VARIABLES
  now,
  config,    \* platform_settings: the prices and the discounts
  rates,     \* exchange_rates: the automatic and the manual rate, 0 if none
  memory,    \* memory[s]: the settings in server s, and when it read them
  rateMemory,
  job,       \* job[r]: what request r is doing
  changes,   \* changes so far
  said,      \* said[m]: the price asked for last, by which server and when
  lateFill,  \* servers that kept settings they had read before their own change
  blurred    \* prices overwritten by a change near another one

vars == <<now, config, rates, memory, rateMemory, job, changes, said, lateFill, blurred>>

Idle == [kind |-> None, server |-> None, at |-> "idle", base |-> None, read |-> 0,
         change |-> None, rate |-> 0, rateRead |-> 0, crossed |-> FALSE, amount |-> 0]
Nothing == [value |-> None, at |-> 0]
Change(prices, list, old) == [prices |-> prices, list |-> list, old |-> old]

CheapestFirst == [m \in Modules |-> Min(PriceTags)]
Init ==
  /\ now = 0 /\ config = [prices |-> CheapestFirst, rules |-> {}]
  /\ rates = [auto |-> 0, manual |-> 0]
  /\ memory = [s \in Servers |-> Nothing] /\ rateMemory = [s \in Servers |-> Nothing]
  /\ job = [r \in Requests |-> Idle] /\ changes = 0
  /\ said = [m \in Modules |-> [price |-> CheapestFirst[m], server |-> None, at |-> 0]]
  /\ lateFill = {} /\ blurred = {}

Busy(r) == job[r].at \notin {"idle", "sold"}
Fresh(kept, ttl) == kept.value # None /\ now - kept.at < ttl
Usable(kept, ttl) == Fresh(kept, ttl)

-----------------------------------------------------------------------------
(* What an order costs.                                                    *)

Active(d) == d.ends = None \/ d.ends > now
Applies(d, b) ==
  /\ Active(d) /\ (d.modules = {} \/ b.module \in d.modules)
  /\ d.cycle \in {"both", b.cycle} /\ (d.countries = {} \/ b.country \in d.countries)
Largest(pcts)  == Max(pcts \cup {0})
bestDiscount(pcts) == Largest(pcts)

rateFor(b, rate) == IF b.country = "US" THEN 1 ELSE rate
\* Per month, in hundredths.
ModulePrice(cfg, b, rate) ==
  cfg.prices[b.module] * rateFor(b, rate) * (100 - bestDiscount({d.pct : d \in {x \in cfg.rules : Applies(x, b)}}))
applyBilling(monthly, cycle) ==
  IF cycle = "yearly" THEN (monthly * 12 * (100 - YearlyDiscount)) \div 100 ELSE monthly
OrderAmount(cfg, b, rate) == applyBilling(ModulePrice(cfg, b, rate), b.cycle)

\* Manual before automatic before built-in.
Effective(x) == IF x.manual > 0 THEN x.manual ELSE IF x.auto > 0 THEN x.auto ELSE Fallback

-----------------------------------------------------------------------------
(* Reading, through the server's memory.                                   *)

Goto(r, j) == job' = [job EXCEPT ![r] = j]
stay == <<now, config, rates, changes, said, blurred>>

Start(r, s, kind, change) ==
  /\ ~Busy(r)
  /\ Goto(r, [Idle EXCEPT !.kind = kind, !.server = s, !.at = "get", !.change = change])
  /\ UNCHANGED <<now, config, rates, memory, rateMemory, said, lateFill, blurred>>
\* Any page that asks for the settings.
Look(r, s) == Start(r, s, "look", None) /\ UNCHANGED changes
Order(r, s, b) == Start(r, s, "order", b) /\ UNCHANGED changes
PatchPlatformConfig(r, s, change) ==
  /\ changes < MaxChanges /\ changes' = changes + 1 /\ Start(r, s, "patch", change)

With(j) == IF j.kind = "look" THEN Idle
           ELSE IF j.kind = "patch" THEN [j EXCEPT !.at = "write"] ELSE [j EXCEPT !.at = "rate"]
getPlatformConfig(r) ==
  LET s == job[r].server IN
  /\ job[r].at = "get"
  /\ IF Usable(memory[s], TTL)
     THEN Goto(r, With([job[r] EXCEPT !.base = memory[s].value, !.read = memory[s].at, !.crossed = s \in lateFill]))
     ELSE Goto(r, [job[r] EXCEPT !.at = "fill", !.base = config, !.read = now])
  /\ UNCHANGED <<stay, memory, rateMemory, lateFill>>
FillConfig(r) ==
  LET s == job[r].server IN
  /\ job[r].at = "fill"
  /\ memory' = [memory EXCEPT ![s] = [value |-> job[r].base, at |-> now]]
  /\ lateFill' = IF job[r].crossed THEN lateFill \cup {s} ELSE lateFill \ {s}
  /\ Goto(r, With(job[r]))
  /\ UNCHANGED <<stay, rateMemory>>

getRates(r) ==
  LET s == job[r].server IN
  /\ job[r].at = "rate"
  /\ IF Usable(rateMemory[s], RateTTL)
     THEN Goto(r, [job[r] EXCEPT !.at = "charge", !.rate = rateMemory[s].value, !.rateRead = rateMemory[s].at])
     ELSE Goto(r, [job[r] EXCEPT !.at = "fillRate", !.rate = Effective(rates), !.rateRead = now])
  /\ UNCHANGED <<stay, memory, rateMemory, lateFill>>
FillRates(r) ==
  /\ job[r].at = "fillRate"
  /\ rateMemory' = [rateMemory EXCEPT ![job[r].server] = [value |-> job[r].rate, at |-> now]]
  /\ Goto(r, [job[r] EXCEPT !.at = "charge"]) /\ UNCHANGED <<stay, memory, lateFill>>
CreateOrder(r) ==
  /\ job[r].at = "charge"
  /\ Goto(r, [job[r] EXCEPT !.at = "sold", !.amount = OrderAmount(job[r].base, job[r].change, job[r].rate)])
  /\ UNCHANGED <<stay, memory, rateMemory, lateFill>>

-----------------------------------------------------------------------------
(* Changing.                                                               *)

\* The row is written field by field: prices are merged into those this
\* server knows, a list of discounts replaces all, the old form one service's.
Written(cfg, base, c) ==
  [prices |-> IF c.prices = <<>> THEN cfg.prices
              ELSE [m \in Modules |-> IF m \in DOMAIN c.prices THEN c.prices[m] ELSE base.prices[m]],
   rules  |-> IF c.list # None THEN c.list
              ELSE IF c.old # None THEN {d \in base.rules : d.modules # c.old.modules} \cup {c.old}
              ELSE cfg.rules]
\* Another change of this server was under way, or another server's was seen
\* too late.
Near(r, m) ==
  \/ job[r].crossed
  \/ \E q \in Requests \ {r} : job[q].at = "clear"
  \/ said[m].server # job[r].server /\ now - said[m].at < TTL
UpdateConfig(r) ==
  LET c == job[r].change  set == DOMAIN c.prices IN
  /\ job[r].at = "write" /\ config' = Written(config, job[r].base, c)
  /\ IF set = {} THEN UNCHANGED <<said, blurred>>
     ELSE /\ said' = [m \in Modules |->
                        IF m \in set THEN [price |-> c.prices[m], server |-> job[r].server, at |-> now] ELSE said[m]]
          /\ blurred' = (blurred \cup {m \in Modules : Near(r, m)}) \ set
  /\ Goto(r, [job[r] EXCEPT !.at = "clear"])
  /\ UNCHANGED <<now, rates, memory, rateMemory, changes, lateFill>>

Nowhere(s, kept) == [kept EXCEPT ![s] = Nothing]
Everything(s, kept) == kept   \* mutant: what was kept stays
Forget(s, kept) == Nowhere(s, kept)
\* The answer to the change is then read like any other.
clearPlatformConfigCache(r) ==
  LET s == job[r].server IN
  /\ job[r].at = "clear" /\ memory' = Forget(s, memory) /\ lateFill' = lateFill \ {s}
  /\ job' = [q \in Requests |->
               IF q = r THEN [Idle EXCEPT !.kind = "look", !.server = s, !.at = "get"]
               ELSE IF job[q].server = s /\ job[q].at \in {"fill", "write"} THEN [job[q] EXCEPT !.crossed = TRUE]
               ELSE job[q]]
  /\ UNCHANGED <<stay, rateMemory>>

\* The super admin pins a rate or lets it go; the internet gives one.
SetRate(s, x) ==
  /\ changes < MaxChanges /\ changes' = changes + 1 /\ rates' = x /\ rateMemory' = Nowhere(s, rateMemory)
  /\ UNCHANGED <<now, config, memory, job, said, lateFill, blurred>>
PatchRate(s, v) == v # rates.manual /\ SetRate(s, [rates EXCEPT !.manual = v])
refreshRatesFromInternet(s, v) == v # rates.auto /\ v > 0 /\ SetRate(s, [rates EXCEPT !.auto = v])

Tick ==
  /\ now < MaxTime /\ \A r \in Requests : ~Busy(r)
  /\ now' = now + 1 /\ job' = [r \in Requests |-> Idle]
  /\ UNCHANGED <<config, rates, memory, rateMemory, changes, said, lateFill, blurred>>

PriceChanges == {Change(p, None, None) : p \in UNION {[{x} -> PriceTags] : x \in Modules}}
ListChanges  == {Change(<<>>, l, None) : l \in RuleLists}
OldChanges   == {Change(<<>>, None, d) : d \in {x \in Rules : Cardinality(x.modules) = 1}}
Next ==
  \/ \E r \in Requests :
       \/ \E s \in Servers :
            \/ Look(r, s)
            \/ \E b \in Buys : Order(r, s, b)
            \/ \E c \in PriceChanges \cup ListChanges \cup OldChanges : PatchPlatformConfig(r, s, c)
       \/ getPlatformConfig(r) \/ FillConfig(r) \/ getRates(r) \/ FillRates(r) \/ CreateOrder(r)
       \/ UpdateConfig(r) \/ clearPlatformConfigCache(r)
  \/ \E s \in Servers : \E v \in RatesSeen \cup {0} : PatchRate(s, v) \/ refreshRatesFromInternet(s, v)
  \/ Tick

Spec == Init /\ [][Next]_vars

-----------------------------------------------------------------------------
\* A price stays what the super admin made it until he changes it again,
\* whatever else he changes: only changes that overlap, that follow a late
\* read of the old table, or that reach another server within TTL undo it.
PricesKept == \A m \in Modules : config.prices[m] = said[m].price \/ m \in blurred

\* An order is charged the least that the discounts in force allow, by prices
\* and rates that were not older than their time in memory.
OrderIsFair ==
  \A r \in Requests : job[r].at = "sold" =>
    LET cfg == job[r].base  b == job[r].change
        full == cfg.prices[b.module] * rateFor(b, job[r].rate) IN
    /\ now - job[r].read < TTL /\ now - job[r].rateRead < RateTTL
    /\ job[r].amount <= applyBilling(full * 100, b.cycle)
    /\ \A d \in cfg.rules : Applies(d, b) => job[r].amount <= applyBilling(full * (100 - d.pct), b.cycle)
-----------------------------------------------------------------------------
(* Why: what a server remembers, and what a request holds of it, is what   *)
(* was said of every price, or the price is one of those a change undoes.  *)

Configs == [prices : [Modules -> PriceTags], rules : SUBSET Rules]
Patches == PriceChanges \cup ListChanges \cup OldChanges
Held    == {"fill", "write", "rate", "fillRate", "charge", "sold"}
Job == [kind : {None, "look", "order", "patch"}, server : Servers \cup {None}, at : {"idle", "get", "clear"} \cup Held,
        base : Configs \cup {None}, read : Nat, change : Patches \cup Buys \cup {None},
        rate : Nat, rateRead : Nat, crossed : BOOLEAN, amount : Int]
TypeOK ==
  /\ now \in Nat /\ changes \in Nat /\ config \in Configs
  /\ rates \in [auto : RatesSeen \cup {0}, manual : RatesSeen \cup {0}]
  /\ memory \in [Servers -> [value : Configs \cup {None}, at : 0..now]]
  /\ rateMemory \in [Servers -> [value : Nat \cup {None}, at : 0..now]]
  /\ job \in [Requests -> Job]
  /\ said \in [Modules -> [price : PriceTags, server : Servers \cup {None}, at : 0..now]]
  /\ lateFill \subseteq Servers /\ blurred \subseteq Modules
JobType(j) ==
  /\ j.at # "idle" => j.kind \in {"look", "order", "patch"} /\ j.server \in Servers
  /\ j.at # "idle" /\ j.kind = "order" => j.change \in Buys
  /\ j.at # "idle" /\ j.kind = "patch" => j.change \in Patches
  /\ j.at \in {"rate", "fillRate", "charge", "sold"} => j.kind = "order"
  /\ j.at = "write" => j.kind = "patch"
  /\ j.at \in Held => j.base \in Configs /\ j.read \in 0..now /\ now - j.read < TTL
  /\ j.at \in {"fillRate", "charge", "sold"} => j.rateRead \in 0..now /\ now - j.rateRead < RateTTL
  /\ j.at = "fill" => j.read = now
  /\ j.at = "fillRate" => j.rateRead = now

\* What server s read at time t is out of date in the price of m.
Clearing(s) == \E q \in Requests : job[q].at = "clear" /\ job[q].server = s
Elsewhere(s, m, t) == said[m].server # s /\ said[m].at >= t
Known(base, s, t) ==
  \A m \in Modules : base.prices[m] = said[m].price \/ m \in blurred \/ Clearing(s) \/ Elsewhere(s, m, t)
MemoryInv(s) == memory[s].value # None => s \in lateFill \/ Known(memory[s].value, s, memory[s].at)
JobInv(j)    == j.at \in {"fill", "write"} => j.crossed \/ Known(j.base, j.server, j.read)
PricesInv ==
  /\ TypeOK /\ PricesKept /\ OrderIsFair
  /\ \A s \in Servers : MemoryInv(s)
  /\ \A r \in Requests : JobType(job[r]) /\ JobInv(job[r])
=============================================================================
