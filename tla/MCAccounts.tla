------------------------------ MODULE MCAccounts ------------------------------
(* A behaviour is one of the components' and the others stand still, so that *)
(* their states add up.  The prices are changed by overlapping requests in   *)
(* one part, and sold in another by one request at a time, where one service *)
(* has a price, discounts and a rate that change.                            *)
EXTENDS Accounts, TLC

CONSTANTS LessTime
Half    == [modules |-> {"erp"}, cycle |-> "both", countries |-> {}, pct |-> 50, ends |-> None]
Local   == [modules |-> {}, cycle |-> "yearly", countries |-> {"QA"}, pct |-> 20, ends |-> 1]
MCRules == {Half, Local}
MCLists == {{Half, Local}}
MCBuys  == {[module |-> "erp", cycle |-> "yearly", country |-> "QA"]}

VARIABLE part
Patched(r) == IF buy'[r].kind = "patch" THEN buy'[r].change ELSE Pricing!Change(<<>>, None, None)
MCInit == part \in {"companies", "sessions", "changing", "buying", "access"} /\ AccountsInit
MCNext == UNCHANGED part /\
  \/ part = "companies" /\ FirmStep
  \/ part = "sessions" /\ SessionStep
  \/ /\ part = "changing" /\ PriceStep /\ UNCHANGED rates
     /\ \A r \in Requests : buy'[r].kind # "order" /\ Patched(r).list = None /\ Patched(r).old = None
  \/ /\ part = "buying" /\ PriceStep /\ now' <= LessTime
     /\ Cardinality({r \in Requests : buy'[r] # Pricing!Idle}) <= 1
     /\ \A r \in Requests : DOMAIN Patched(r).prices \subseteq {"erp"}
  \/ part = "access" /\ ServiceStep
MCSpec == MCInit /\ [][MCNext]_<<part, vars, sessions, prices, plans>>

Sym == Permutations(Requests)
=============================================================================
