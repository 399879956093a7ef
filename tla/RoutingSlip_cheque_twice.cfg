SPECIFICATION Spec
CONSTANTS
    rs1 = rs1
    rs2 = rs2
    NoSlip = NoSlip
    Slips = {rs1, rs2}
    MaxInvoices = 0
    SlipTotals = {2}
    Corrections = {1, 3}
    InvoiceTotals = {1, 2}
    NsfFee = 1
    MaxSuffix = 2
    MaxFailures = 1
    MaxEvents = 4
\* Does not hold: a job that dies after the upload sends the cheque again.
INVARIANTS
    OneCheque
SYMMETRY Symmetry
CHECK_DEADLOCK FALSE
