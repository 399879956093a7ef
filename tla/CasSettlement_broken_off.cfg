\* Does not hold: when CFS refuses a call after the first reversal, the same
\* number is reversed again at every attempt.
SPECIFICATION Spec
CONSTANTS
    a1 = a1
    a2 = a2
    NumInvoices = 2
    Accounts = {a1}
    AccountOf <- OneAccount
    Methods = {"PAD"}
    MaxRows = 2
    MaxRestarts = 0
    MaxLost = 1
INVARIANTS
    AlwaysPayable
CHECK_DEADLOCK FALSE
