-------------------------------- MODULE MCShop --------------------------------
(* A behaviour is one of the four components' and the others stand still, so *)
(* that their states add up.                                                 *)
EXTENDS Shop, TLC

UpAndDown == {-1, 1}
MCCost    == [copy |-> 1, reply |-> 1, audit |-> 4, image |-> 3]
MCModels  == [copy |-> 2, reply |-> 2, audit |-> 2, image |-> 1]
MCGrants  == {-2, 1, 3}

VARIABLE part
MCInit == part \in {"cards", "orders", "hooks", "studio"} /\ ShopInit /\ (owner => part = "studio")
MCNext == UNCHANGED part /\
  \/ part = "cards"  /\ CardStep
  \/ part = "orders" /\ MenuStep
  \/ part = "hooks"  /\ HookStep
  \/ part = "studio" /\ StudioStep
MCSpec == MCInit /\ [][MCNext]_<<part, cards, orders, hooks, studio>>

Sym == Permutations(Calls) \cup Permutations(Members) \cup Permutations(Orders)
=============================================================================
