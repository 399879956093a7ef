--------------------------- MODULE MCDisbursement ---------------------------
(* Instances of Disbursement for TLC.                                      *)
EXTENDS Disbursement, TLC

CONSTANTS i1, i2

\* One invoice goes through every bound of the cfg; two of them, which meet in files,
\* in stop_ejv and in the worker, through two files without losses.
TwoInvoices == \A i \in Invoices : inv[i] # "NONE"
TwoInvoicesBound ==
    TwoInvoices => /\ Len(files) <= 2
                   /\ lost = {}
                   /\ \A i \in Invoices : Len(rows[i]) <= 2

MCSpec == Init /\ [][Next /\ TwoInvoicesBound']_vars
Symmetry == Permutations(Invoices)
=============================================================================
