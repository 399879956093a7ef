SPECIFICATION FairSpec
CONSTANTS
    sn1 = sn1
    sn2 = sn2
    a1 = a1
    a2 = a2
    s1 = s1
    ShortNames = {sn1}
    Accounts = {a1}
    NumCredits = 2
    DepositedBy <- OneShortName
    Amount <- Deposits12
    NumInvoices = 1
    AccountOf <- OneAccount
    Total <- Totals2
    Statements = {s1}
    StatementOf <- OneStatement
    PartnerInvoices = {1}
    PartialAmounts = {}
    NumRefunds = 0
    RefundAmounts = {1}
    MaxGroup = 3
    Overlap = FALSE
    CfsMayFail = FALSE
    MayBreakOff = {1}
    JobsMayDie = FALSE
PROPERTIES
    StepRegained
CHECK_DEADLOCK FALSE
