SPECIFICATION Spec
CONSTANTS
    sn1 = sn1
    sn2 = sn2
    a1 = a1
    a2 = a2
    s1 = s1
    ShortNames = {sn1}
    Accounts = {a1}
    NumCredits = 2
    DepositedBy <- OneShortName
    Amount <- Deposits12
    NumInvoices = 2
    AccountOf <- OneAccount
    Total <- Totals21
    Statements = {s1}
    StatementOf <- OneStatement
    PartnerInvoices = {1}
    PartialAmounts = {}
    NumRefunds = 1
    RefundAmounts = {1}
    MaxGroup = 3
    Overlap = FALSE
    CfsMayFail = FALSE
    MayBreakOff = {}
    JobsMayDie = FALSE
INVARIANTS
    TypeOK
    CreditBounds
    PaidIsFunded
    RefundReachesCfs
    LockedOwes
PROPERTIES
    ImplementsLedger
CHECK_DEADLOCK FALSE
