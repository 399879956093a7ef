SPECIFICATION Spec
CONSTANTS
    i1 = i1
    i2 = i2
    Invoices = {i1, i2}
    Lines = 2
    MaxFiles = 4
    MaxFailures = 0
    MaxLost = 0
PROPERTIES
    RefundedByReversal
CHECK_DEADLOCK FALSE
