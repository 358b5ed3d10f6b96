----------------------------- MODULE Receivables ------------------------------
(***************************************************************************)
(* What the books promise a customer about his invoices: one is billed     *)
(* once, for an amount that never changes; each payment is at most what is *)
(* still owed; an invoice is settled by the payment that leaves nothing    *)
(* owed, and taking a payment back opens it again.  The one exception is   *)
(* an invoice issued twice at once, which counts as open though settled.   *)
(***************************************************************************)
EXTENDS Integers

CONSTANT Invoices

VARIABLES billed,    \* what each invoice asks for, or NotBilled
          received,  \* what was paid of it
          settled    \* invoices marked paid
vars == <<billed, received, settled>>

NotBilled == -1
Init == billed = [i \in Invoices |-> NotBilled] /\ received = [i \in Invoices |-> 0] /\ settled = {}

Only(i, f, g) == g = [f EXCEPT ![i] = g[i]]

Bill(i) ==
  /\ billed[i] = NotBilled /\ billed'[i] \in Nat /\ Only(i, billed, billed')
  /\ UNCHANGED <<received, settled>>
Collect(i) ==
  /\ billed[i] # NotBilled /\ received'[i] \in (received[i] + 1)..billed[i]
  /\ Only(i, received, received')
  /\ settled' = IF received'[i] = billed[i] THEN settled \cup {i} ELSE settled \ {i}
  /\ UNCHANGED billed
GiveBack(i) ==
  /\ received'[i] \in 0..(received[i] - 1) /\ Only(i, received, received')
  /\ settled' = settled \ {i}
  /\ UNCHANGED billed
Reopen(i) == i \in settled /\ settled' = settled \ {i} /\ UNCHANGED <<billed, received>>

Next == \E i \in Invoices : Bill(i) \/ Collect(i) \/ GiveBack(i) \/ Reopen(i)
Spec == Init /\ [][Next]_vars
=============================================================================
