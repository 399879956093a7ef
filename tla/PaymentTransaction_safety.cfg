SPECIFICATION Spec
CONSTANTS
    i1 = i1
    lo = lo
    hi = hi
    r1 = r1
    r2 = r2
    job = job
    Invoices = {i1}
    Others = {lo, hi}
    Amount <- SomeAmounts
    NumPayments = 2
    NumTxns = 2
    Requests = {r1, r2}
    StaleJob = job
    PayBCMayFail = FALSE
    QueueMayFail = TRUE
SYMMETRY Symmetry
INVARIANTS
    TypeOK
    PaidIsBacked
    CompletedIsPaid
    ReleasedOnce
CHECK_DEADLOCK FALSE
