----------------------------- MODULE MCEFTTask -----------------------------
(* Instances of EFTTask for TLC. *)
EXTENDS EFTTask

CONSTANTS sn1, sn2, a1, a2, s1

\* Invoice 1 needs both of the first two deposits.
OneShortName == [c \in 1..NumCredits |-> sn1]
TwoShortNames == [c \in 1..NumCredits |-> IF c = 1 THEN sn1 ELSE sn2]
UnitDeposits == [c \in 1..NumCredits |-> 1]
Deposits12 == [c \in 1..NumCredits |-> IF c = 1 THEN 1 ELSE 2]
OneAccount == [i \in 1..NumInvoices |-> a1]
Totals2 == [i \in 1..NumInvoices |-> 2]
\* Each deposit pays for everything.
ThreeEach == [c \in 1..NumCredits |-> 3]
Totals21 == [i \in 1..NumInvoices |-> IF i = 1 THEN 2 ELSE 1]
OneStatement == [i \in 1..NumInvoices |-> s1]
=============================================================================
