SPECIFICATION Spec
CONSTANTS
    a1 = a1
    a2 = a2
    NumInvoices = 2
    Accounts = {a1}
    AccountOf <- OneAccount
    Methods = {"PAD", "ONLINE_BANKING"}
    MaxRows = 4
    MaxRestarts = 1
    MaxLost = 1
INVARIANTS
    TypeOK
    InvoicesAgree
    CfsOwesOnce
    ReturnsAreSettled
    FileFinishes
PROPERTIES
    PaymentsStand
CHECK_DEADLOCK FALSE
