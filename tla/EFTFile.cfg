SPECIFICATION FairSpec
CONSTANTS
    sn1 = sn1
    a1 = a1
    w1 = w1
    w2 = w2
    Refs = {"f", "g"}
    Names = {sn1}
    Contents <- SomeContents
    Accounts = {a1}
    LinkedTo <- EftOnly
    AmountsOwing = {2}
    Workers = {w1, w2}
    Racing = FALSE
    MaxSent = 2
    MaxCrashes = 1
    MaxBills = 1
INVARIANTS
    TypeOK
    BooksKept
    CreditedAsWhole
PROPERTIES
    SentIsSettled
CHECK_DEADLOCK FALSE
