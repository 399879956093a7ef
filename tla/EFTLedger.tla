----------------------------- MODULE EFTLedger -----------------------------
(***************************************************************************)
(* What EFT accounting promises: an account book with a page for each      *)
(* short name.  What a short name deposited is free, or held by invoices,  *)
(* or out as refunds of the short name.  An invoice is paid in full or not *)
(* at all: a request moves the whole total of the invoices it covers, and  *)
(* nobody ever sees an invoice paid in part.                               *)
(***************************************************************************)
EXTENDS Integers, Functions

CONSTANTS
    ShortNames,
    Invoices,
    Total,          \* the total of each invoice
    MaxAmount       \* bound on the amount of a deposit or refund

VARIABLES
    free,           \* the credit balance of each short name
    held,           \* what each invoice holds of it
    out             \* what has been, or may be, refunded to the short name

vars == <<free, held, out>>

Init ==
    /\ free = [sn \in ShortNames |-> 0]
    /\ held = [sn \in ShortNames |-> [i \in Invoices |-> 0]]
    /\ out = [sn \in ShortNames |-> 0]

Cost(I) == SumFunctionOnSet(Total, I)

Deposit(sn, x) ==
    /\ free' = [free EXCEPT ![sn] = @ + x]
    /\ UNCHANGED <<held, out>>

Pay(sn, I) ==
    /\ \A i \in I : held[sn][i] = 0
    /\ Cost(I) <= free[sn]
    /\ free' = [free EXCEPT ![sn] = @ - Cost(I)]
    /\ held' = [held EXCEPT ![sn] = [i \in Invoices |->
                                       IF i \in I THEN Total[i] ELSE @[i]]]
    /\ UNCHANGED out

Return(sn, I) ==
    /\ \A i \in I : held[sn][i] = Total[i]
    /\ free' = [free EXCEPT ![sn] = @ + Cost(I)]
    /\ held' = [held EXCEPT ![sn] = [i \in Invoices |->
                                       IF i \in I THEN 0 ELSE @[i]]]
    /\ UNCHANGED out

PayOut(sn, x) ==
    /\ x <= free[sn]
    /\ free' = [free EXCEPT ![sn] = @ - x]
    /\ out' = [out EXCEPT ![sn] = @ + x]
    /\ UNCHANGED held

PutBack(sn, x) ==
    /\ x <= out[sn]
    /\ free' = [free EXCEPT ![sn] = @ + x]
    /\ out' = [out EXCEPT ![sn] = @ - x]
    /\ UNCHANGED held

Next == \E sn \in ShortNames :
          \/ \E x \in 1..MaxAmount : \/ Deposit(sn, x) \/ PayOut(sn, x)
                                     \/ PutBack(sn, x)
          \/ \E I \in SUBSET Invoices : Pay(sn, I) \/ Return(sn, I)

Spec == Init /\ [][Next]_vars
=============================================================================
