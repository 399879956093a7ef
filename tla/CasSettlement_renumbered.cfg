\* Does not hold: once two returned debits are consolidated and a third is
\* returned, CFS has an invoice of the number with another total.
SPECIFICATION Spec
CONSTANTS
    a1 = a1
    a2 = a2
    NumInvoices = 3
    Accounts = {a1}
    AccountOf <- OneAccount
    Methods = {"PAD"}
    MaxRows = 3
    MaxRestarts = 0
    MaxLost = 0
INVARIANTS
    AlwaysPayable
CHECK_DEADLOCK FALSE
