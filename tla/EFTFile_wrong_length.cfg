SPECIFICATION FairSpec
CONSTANTS
    sn1 = sn1
    a1 = a1
    w1 = w1
    w2 = w2
    Refs = {"f"}
    Names = {sn1}
    Contents <- SomeContents
    Accounts = {a1}
    LinkedTo <- EftOnly
    AmountsOwing = {2}
    Workers = {w1, w2}
    Racing = FALSE
    MaxSent = 1
    MaxCrashes = 0
    MaxBills = 1
\* Does not hold: a line of another length raises in the handler, whose message is answered,
\* and the file stays IN_PROGRESS.
PROPERTIES
    WhateverIsSent
CHECK_DEADLOCK FALSE
