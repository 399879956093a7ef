SPECIFICATION MCSpec
CONSTANTS
    i1 = i1
    i2 = i2
    Invoices = {i1, i2}
    LineItems = 2
    MaxRows = 4
    MaxFiles = 4
    MaxFailures = 1
    MaxLost = 1
INVARIANTS
    TypeOK
    MoneyFollowsInvoices
    PaymentsAndReversalsAlternate
PROPERTIES
    SentIsOnRecord
SYMMETRY Symmetry
CHECK_DEADLOCK FALSE
