SPECIFICATION Spec
CONSTANTS
    sn1 = sn1
    sn2 = sn2
    a1 = a1
    a2 = a2
    s1 = s1
    ShortNames = {sn1}
    Accounts = {a1}
    NumCredits = 2
    DepositedBy <- OneShortName
    Amount <- Deposits12
    NumInvoices = 1
    AccountOf <- OneAccount
    Total <- Totals2
    Statements = {s1}
    StatementOf <- OneStatement
    PartnerInvoices = {}
    PartialAmounts = {1, 2}
    NumRefunds = 1
    RefundAmounts = {1}
    MaxGroup = 4
    Overlap = TRUE
    CfsMayFail = TRUE
    MayBreakOff = {1}
    JobsMayDie = TRUE
INVARIANTS
    MoneyConserved
    NoDoubleReturn
    RefundReleasesCredits
CHECK_DEADLOCK FALSE
