------------------------------- MODULE MCBooks --------------------------------
(* One customer's invoice with two payments, and a bill.                     *)
EXTENDS Books, TLC

Sym == Permutations(Requests) \cup Permutations(Invoices) \cup Permutations(Payments)
=============================================================================
