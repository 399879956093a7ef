SPECIFICATION Spec
CONSTANTS
    i1 = i1
    lo = lo
    hi = hi
    r1 = r1
    r2 = r2
    job = job
    Invoices = {i1}
    Others = {hi}
    Amount <- SomeAmounts
    NumPayments = 1
    NumTxns = 1
    Requests = {r1}
    StaleJob = job
    PayBCMayFail = FALSE
    QueueMayFail = FALSE
INVARIANTS
    PaidByItself
CHECK_DEADLOCK FALSE
