------------------------ MODULE MCPaymentTransaction ------------------------
(* Instances of PaymentTransaction for TLC. *)
EXTENDS PaymentTransaction, TLC

CONSTANTS i1, lo, hi, r1, r2, job

\* Another order may be of less, or of more.
SomeAmounts == [o \in Orders |-> IF o = lo THEN 1 ELSE IF o = hi THEN 3 ELSE 2]

\* Requests do the same things.
Symmetry == Permutations(Requests)
=============================================================================
