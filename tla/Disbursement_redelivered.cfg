\* Does not hold: the feedback of a failed AP line, delivered again after the line was
\* sent again and posted, makes the invoice due and the partner is paid twice.
SPECIFICATION Spec
CONSTANTS
    i1 = i1
    i2 = i2
    Invoices = {i1}
    LineItems = 2
    MaxRows = 4
    MaxFiles = 4
    MaxFailures = 1
    MaxLost = 1
INVARIANTS
    PaidOnceWhateverIsRedelivered
CHECK_DEADLOCK FALSE
