SPECIFICATION Spec
CONSTANTS
    i1 = i1
    i2 = i2
    Invoices = {i1, i2}
    Lines = 2
    MaxFiles = 4
    MaxFailures = 1
    MaxLost = 1
PROPERTIES
    ReversedIsCompleted
CHECK_DEADLOCK FALSE
