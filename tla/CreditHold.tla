------------------------------ MODULE CreditHold ------------------------------
(***************************************************************************)
(* What paid background work promises a company about its credits: each    *)
(* charge is taken once, and is then either kept, for work that was        *)
(* delivered, or returned, and never both.  The balance moves with the     *)
(* charges and with the super admin's grants, and with nothing else.       *)
(***************************************************************************)
EXTENDS Integers, FiniteSets

CONSTANTS Refs,   \* the refId of a charge
          Price

VARIABLES balance, granted, charge
vars == <<balance, granted, charge>>

Init == balance = 0 /\ granted = 0 /\ charge = [r \in Refs |-> "none"]

Move(r, from, to) == charge[r] = from /\ charge' = [charge EXCEPT ![r] = to]

Hold(r)   == Move(r, "none", "held") /\ balance >= Price
               /\ balance' = balance - Price /\ UNCHANGED granted
Keep(r)   == Move(r, "held", "kept") /\ UNCHANGED <<balance, granted>>
Return(r) == Move(r, "held", "returned")
               /\ balance' = balance + Price /\ UNCHANGED granted
Adjust    == balance' \in Nat /\ granted' = granted + (balance' - balance) /\ UNCHANGED charge

Next == Adjust \/ \E r \in Refs : Hold(r) \/ Keep(r) \/ Return(r)
Spec == Init /\ [][Next]_vars
=============================================================================
