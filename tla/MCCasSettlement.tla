--------------------------- MODULE MCCasSettlement ---------------------------
(* Instances of CasSettlement for TLC.                                     *)
EXTENDS CasSettlement

CONSTANTS a1, a2

OneAccount == [i \in Invoices |-> a1]
=============================================================================
