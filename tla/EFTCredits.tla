----------------------------- MODULE EFTCredits -----------------------------
(***************************************************************************)
(* Electronic funds transfer (EFT) credits and the invoices they pay:      *)
(* pay_api/services/eft_service.py, eft_refund.py, eft_short_name_links.py *)
(* and the EFT part of refund.py.                                          *)
(*                                                                         *)
(* A deposit becomes a credit of the short name that sent it.  A short     *)
(* name is linked to an account; its credits are then applied to the       *)
(* account's invoices by rows of eft_credit_invoice_links ("cils").        *)
(*                                                                         *)
(* Every request runs in one database transaction.  The requests loop over *)
(* links and credits, so the transaction is a variable: "txn" holds the    *)
(* work still to do and the uncommitted copies of the tables it changes;   *)
(* each iteration of a loop is one step; Commit publishes the copies and   *)
(* Rollback (a BusinessException) drops them.                              *)
(***************************************************************************)
EXTENDS Integers, FiniteSets, Functions

CONSTANTS
    ShortNames,     \* eft_short_names
    Accounts,       \* payment accounts that pay by EFT
    NumCredits,     \* how many deposits may arrive
    DepositedBy,    \* the short name of each deposit
    Amount,         \* the amount of each deposit
    NumInvoices,    \* how many invoices may be created
    AccountOf,      \* the account of each invoice
    Total,          \* the total of each invoice
    Statements,     \* statements that may be generated
    StatementOf,    \* the statement that lists each invoice
    PartnerInvoices,\* invoices of a corp type with partner disbursements
    PartialAmounts, \* amounts a partial refund may ask for
    NumRefunds,     \* how many short name refunds may be requested
    RefundAmounts,  \* amounts a short name refund may ask for
    MaxGroup        \* bound on the sequence eft_group_link_seq

Credits  == 1..NumCredits       \* in the order of created_on
Invoices == 1..NumInvoices      \* in the order of created_on
Refunds  == 1..NumRefunds

ASSUME EFTConstants ==
    /\ ShortNames # {}
    /\ NumCredits \in Nat
    /\ NumInvoices \in Nat
    /\ NumRefunds \in Nat
    /\ MaxGroup \in Nat
    /\ DepositedBy \in [Credits -> ShortNames]
    /\ Amount \in [Credits -> Nat]
    /\ AccountOf \in [Invoices -> Accounts]
    /\ Total \in [Invoices -> Nat]
    /\ StatementOf \in [Invoices -> Statements]
    /\ PartialAmounts \subseteq Nat
    /\ RefundAmounts \subseteq Nat

VARIABLES
    deposits,   \* number of credits created so far
    remaining,  \* eft_credits.remaining_amount
    active,     \* active rows of eft_short_name_links
    cils,       \* rows of eft_credit_invoice_links
    lastGroup,  \* last value of eft_group_link_seq
    lastCil,    \* last id given to a row of cils
    inv,        \* invoices, their paid and refund columns and refund row
    ref,        \* status of the invoice's reference, the invoice in CFS
    statements, \* statements generated
    locked,     \* accounts with has_overdue_invoices set
    refunds,    \* rows of eft_refunds: refunds of a short name's credits
    txn         \* the request in progress

tables == <<deposits, remaining, active, cils, lastGroup, lastCil, inv, ref,
            statements, locked, refunds>>
eftVars == <<deposits, remaining, active, cils, lastGroup, lastCil, inv, ref,
             statements, locked, refunds, txn>>

-----------------------------------------------------------------------------
(* The tables.                                                             *)

CilStatus     == {"PENDING", "COMPLETED", "CANCELLED", "PENDING_REFUND",
                  "REFUNDED"}
InvoiceStatus == {"NOT_CREATED", "APPROVED", "OVERDUE", "PAID", "CANCELLED",
                  "REFUND_REQUESTED", "REFUNDED", "CREDITED"}
RefStatus     == {"NONE", "ACTIVE", "COMPLETED", "CANCELLED"}
RefundStatus  == {"NONE", "PENDING_APPROVAL", "APPROVED", "DECLINED"}

NoReceipt == 0

\* "receipt" is the number of the CFS receipt EFTCIL<n>.
Cil == [id : Nat, invoice : Invoices, credit : Credits, amount : Nat,
        group : Nat, receipt : Nat, status : CilStatus]

\* "paid" is the column of that name as the ids of the links whose amounts it
\* adds up; "requested" stands for a refund row that rules out another one;
\* "memo" is the amount of the credit memo that a partial refund creates.
Invoice == [status : InvoiceStatus, paid : SUBSET Nat, refund : Nat,
            memo : Nat, requested : BOOLEAN]

EftRefund == [sn : ShortNames, amount : Nat, status : RefundStatus]

NoInvoice == 0
ReturnMode == {"CANCEL", "REGROUP", "PENDING_REFUND", "REFUNDED"}
NoTxn == [open |-> FALSE]

\* todo: links whose amount must still be returned to their credit, and
\* mode, what is recorded for each; due: invoices still to be paid; cur and
\* need: the invoice being paid (NoInvoice when credits are deducted for a
\* short name refund) and what is still to be taken; refill: the amount of a
\* declined refund still to be put back.
Txn == [open : {TRUE}, sn : ShortNames, group : Nat, todo : SUBSET Cil,
        mode : ReturnMode, due : SUBSET Invoices,
        cur : Invoices \cup {NoInvoice}, need : Nat, refill : Nat,
        rem : [Credits -> Nat], cils : SUBSET Cil, lastCil : Nat,
        active : SUBSET (ShortNames \X Accounts),
        inv : [Invoices -> Invoice], refunds : [Refunds -> EftRefund]]

Init ==
    /\ deposits = 0
    /\ remaining = [c \in Credits |-> 0]
    /\ active = {}
    /\ cils = {}
    /\ lastGroup = 0
    /\ lastCil = 0
    /\ inv = [i \in Invoices |->
                [status |-> "NOT_CREATED", paid |-> {}, refund |-> 0,
                 memo |-> 0, requested |-> FALSE]]
    /\ ref = [i \in Invoices |-> "NONE"]
    /\ statements = {}
    /\ locked = {}
    /\ refunds = [r \in Refunds |->
                    [sn |-> CHOOSE s \in ShortNames : TRUE, amount |-> 0,
                     status |-> "NONE"]]
    /\ txn = NoTxn

-----------------------------------------------------------------------------
(* Queries.                                                                *)

CreditsOf(sn) == {c \in Credits : DepositedBy[c] = sn}
\* Mutant: the larger one.
LesserIsGreater(m, n) == IF m >= n THEN m ELSE n
Lesser(m, n) == IF m <= n THEN m ELSE n
Balance(rem, sn) == SumFunctionOnSet(rem, CreditsOf(sn))

LinksOf(i) == {l \in cils : l.invoice = i}
LinkSum(L) == SumFunctionOnSet([l \in L |-> l.amount], L)

\* Mutant: the rows come in the order of their ids.
IsLatestIfFirst(l) == \A k \in LinksOf(l.invoice) : k.id >= l.id

\* find_by_invoice_id orders by id, descending: its first row is the latest.
IsLatest(l) == \A k \in LinksOf(l.invoice) : k.id <= l.id

Unpaid(i) == inv[i].status \in {"APPROVED", "OVERDUE"}
Due(i) == IF inv[i].paid = {} THEN Total[i]
          ELSE Total[i] - LinkSum({l \in cils : l.id \in inv[i].paid})

\* Unpaid invoices of the account on the chosen statements.
Owing(a, S) == {i \in Invoices : /\ AccountOf[i] = a
                                 /\ StatementOf[i] \in S \cap statements
                                 /\ Unpaid(i)}
TotalDue(a, S) == SumFunctionOnSet([i \in Invoices |-> Due(i)], Owing(a, S))

PendingLinks(L, sn, i) == {l \in L : /\ l.status = "PENDING"
                                     /\ l.invoice = i
                                     /\ DepositedBy[l.credit] = sn}

-----------------------------------------------------------------------------
(* Beginning and ending a transaction.                                     *)

NewTxn(sn) ==
    [open |-> TRUE, sn |-> sn, group |-> lastGroup + 1, todo |-> {},
     mode |-> "CANCEL", due |-> {}, cur |-> NoInvoice, need |-> 0,
     refill |-> 0, rem |-> remaining, cils |-> cils, lastCil |-> lastCil,
     active |-> active, inv |-> inv, refunds |-> refunds]

Idle == txn = NoTxn

Begin(t) == /\ txn' = t
            /\ UNCHANGED tables

\* A transaction that draws a number from eft_group_link_seq, which a
\* rollback does not give back.
BeginGroup(t) ==
    /\ lastGroup < MaxGroup
    /\ lastGroup' = lastGroup + 1
    /\ txn' = t
    /\ UNCHANGED <<deposits, remaining, active, cils, lastCil, inv, ref,
                   statements, locked, refunds>>

\* Mutant: each credit taken is committed on its own.
FinishedWithOneCredit == txn.open /\ txn.todo = {} /\ txn.refill = 0

Finished == /\ txn.open
            /\ txn.todo = {} /\ txn.due = {}
            /\ txn.need = 0 /\ txn.refill = 0

Commit ==
    /\ Finished
    /\ remaining' = txn.rem
    /\ cils' = txn.cils
    /\ lastCil' = txn.lastCil
    /\ active' = txn.active
    /\ inv' = txn.inv
    /\ refunds' = txn.refunds
    /\ txn' = NoTxn
    /\ UNCHANGED <<deposits, lastGroup, ref, statements, locked>>

Rollback == /\ txn' = NoTxn
            /\ UNCHANGED tables

-----------------------------------------------------------------------------
(* The loops of the requests, one iteration a step.                        *)

\* A partial refund takes at most invoice.refund from each link.
ReturnAmount(l) ==
    IF txn.mode = "REFUNDED" THEN Lesser(l.amount, txn.inv[l.invoice].refund)
                             ELSE l.amount

\* A request of these modes adds a link to undo another; others change it.
AddsReturn == txn.mode \in {"PENDING_REFUND", "REFUNDED"}

\* Mutant: the link keeps its status.
RecordedNowhere(l, x) == txn.cils

\* What is recorded once the amount x of link l is back on its credit.
Recorded(l, x) ==
    CASE txn.mode = "CANCEL" ->
           (txn.cils \ {l}) \cup {[l EXCEPT !.status = "CANCELLED"]}
      [] txn.mode = "REGROUP" ->
           (txn.cils \ {l}) \cup {[l EXCEPT !.status = "CANCELLED",
                                            !.group = txn.group]}
      [] AddsReturn ->
           txn.cils \cup {[l EXCEPT !.id = txn.lastCil + 1, !.amount = x,
                                    !.group = txn.group,
                                    !.status = txn.mode]}

\* Mutant: the credit is not checked.
FitsCreditAlways(c, amount) == TRUE

FitsCredit(c, amount) == amount <= Amount[c]

\* return_eft_credit: EFT_CREDIT_AMOUNT_UNEXPECTED ends the request.
ReturnCredit ==
    \E l \in txn.todo :
      /\ \A k \in txn.todo : l.id <= k.id
      /\ LET x == ReturnAmount(l)
             amount == txn.rem[l.credit] + x
         IN  IF FitsCredit(l.credit, amount)
             THEN /\ txn' = [txn EXCEPT !.todo = @ \ {l},
                                        !.rem[l.credit] = amount,
                                        !.cils = Recorded(l, x),
                                        !.lastCil = IF AddsReturn THEN @ + 1
                                                    ELSE @]
                  /\ UNCHANGED tables
             ELSE Rollback

\* process_owing_statements pays the invoices one after the other, and
\* apply_eft_credit first cancels this short name's pending links.
NextInvoice ==
    /\ txn.todo = {} /\ txn.need = 0
    /\ \E i \in txn.due :
         /\ \A j \in txn.due : i <= j
         /\ txn' = [txn EXCEPT !.due = @ \ {i}, !.cur = i, !.need = Due(i),
                               !.todo = PendingLinks(txn.cils, txn.sn, i)]
    /\ UNCHANGED tables

Oldest(c, C) == c \in C /\ \A d \in C : c <= d

\* One credit pays what it can, oldest first; the invoice it pays gets a
\* PENDING link, a short name refund only deducts.  An invoice that the
\* balance does not cover is left alone: the balance and the need fall by the
\* same amounts, so comparing them again does not change the answer.
TakeCredit ==
    /\ txn.todo = {} /\ txn.need > 0
    /\ IF Balance(txn.rem, txn.sn) < txn.need
       THEN txn' = [txn EXCEPT !.need = 0]
       ELSE \E c \in Credits :
         /\ Oldest(c, {d \in CreditsOf(txn.sn) : txn.rem[d] > 0})
         /\ LET x == Lesser(txn.rem[c], txn.need)
                link == [id |-> txn.lastCil + 1, invoice |-> txn.cur,
                         credit |-> c, amount |-> x, group |-> txn.group,
                         receipt |-> NoReceipt, status |-> "PENDING"]
                taken == [txn EXCEPT !.rem[c] = @ - x, !.need = @ - x]
            IN  txn' = IF txn.cur = NoInvoice THEN taken
                       ELSE [taken EXCEPT !.lastCil = @ + 1,
                                          !.cils = @ \cup {link}]
    /\ UNCHANGED tables

Spent(sn) == {c \in CreditsOf(sn) : c <= deposits /\ txn.rem[c] < Amount[c]}

\* reverse_eft_credits: a declined refund goes back to the oldest credits
\* that are not whole, whichever request used them up.
RefillCredit ==
    /\ txn.refill > 0
    /\ IF Spent(txn.sn) = {} THEN Rollback
       ELSE \E c \in Credits :
              /\ Oldest(c, Spent(txn.sn))
              /\ LET x == Lesser(txn.refill, Amount[c] - txn.rem[c])
                 IN  txn' = [txn EXCEPT !.rem[c] = @ + x, !.refill = @ - x]
              /\ UNCHANGED tables

TxnStep == /\ txn.open
           /\ \/ ReturnCredit \/ NextInvoice \/ TakeCredit
              \/ RefillCredit \/ Commit

-----------------------------------------------------------------------------
(* Short name links and payment actions.                                   *)

\* A new link pays what the account owes, but only if the credits cover it.
CreateShortNameLink(sn, a) ==
    LET linked == [NewTxn(sn) EXCEPT !.active = @ \cup {<<sn, a>>}]
        owing  == Owing(a, Statements)
    IN  /\ ~ \E s \in ShortNames : <<s, a>> \in active
        /\ IF owing = {} \/ Balance(remaining, sn) < TotalDue(a, Statements)
           THEN Begin(linked)
           ELSE BeginGroup([linked EXCEPT !.due = owing])

\* Deactivating a link leaves the pending payments of its short name alone.
PatchShortNameLink(sn, a) ==
    /\ <<sn, a>> \in active
    /\ active' = active \ {<<sn, a>>}
    /\ UNCHANGED <<deposits, remaining, cils, lastGroup, lastCil, inv, ref,
                   statements, locked, refunds, txn>>

\* apply_payment_action, for one statement or for all.
ApplyPayment(sn, a, S) ==
    /\ <<sn, a>> \in active
    /\ Owing(a, S) # {}
    /\ Balance(remaining, sn) >= TotalDue(a, S)
    /\ BeginGroup([NewTxn(sn) EXCEPT !.due = Owing(a, S)])

\* cancel_payment_action asks for no active link.
CancelPayment(sn, a, S) ==
    LET links == {l \in cils :
                    /\ l.status = "PENDING"
                    /\ DepositedBy[l.credit] = sn
                    /\ AccountOf[l.invoice] = a
                    /\ StatementOf[l.invoice] \in S \cap statements}
    IN  /\ links # {}
        /\ Begin([NewTxn(sn) EXCEPT !.todo = links])

\* get_statement_credit_invoice_links: the latest group of each invoice.
ReversibleLinks(sn, s) ==
    {l \in cils : /\ StatementOf[l.invoice] = s
                  /\ DepositedBy[l.credit] = sn
                  /\ \A k \in LinksOf(l.invoice) : k.group <= l.group
                  /\ l.status # "CANCELLED"}

\* reverse_payment_action.  Invoices that a refund has taken over are left
\* out; any other invoice that is not PAID refuses the whole reversal.
ReversePayment(sn, s) ==
    LET links == ReversibleLinks(sn, s)
        takenOver == {"REFUND_REQUESTED", "REFUNDED", "CANCELLED"}
        todo == {l \in links : inv[l.invoice].status \notin takenOver}
    IN  /\ s \in statements
        /\ \A l \in links : l.status = "COMPLETED"
        /\ \E i \in Invoices : StatementOf[i] = s /\ inv[i].paid # {}
        /\ todo # {}
        /\ \A l \in todo :
             /\ inv[l.invoice].status = "PAID"
             /\ l.invoice \in PartnerInvoices =>
                  LinkSum({k \in todo : k.invoice = l.invoice})
                    = Total[l.invoice]
        /\ BeginGroup([NewTxn(sn) EXCEPT !.todo = todo,
                                         !.mode = "PENDING_REFUND"])

-----------------------------------------------------------------------------
(* Invoice refunds: create_refund, process_cfs_refund,                     *)
(* handle_invoice_refund.                                                  *)

SetInvoice(i, row) ==
    /\ inv' = [inv EXCEPT ![i] = row]
    /\ UNCHANGED <<deposits, remaining, active, cils, lastGroup, lastCil, ref,
                   statements, locked, refunds, txn>>

Refundable(i) == /\ inv[i].status \in {"APPROVED", "PAID"}
                 /\ ~ inv[i].requested

\* Mutant: an APPROVED invoice is cancelled although it is in CFS.
UnlinkedStatusIgnoresCfs(i) ==
    IF inv[i].status = "APPROVED" THEN "CANCELLED" ELSE "REFUND_REQUESTED"

\* An invoice that CFS has never seen is cancelled at once, and any other is
\* left to the EFT job.
UnlinkedStatus(i) ==
    IF inv[i].status = "APPROVED" /\ ref[i] # "ACTIVE" THEN "CANCELLED"
    ELSE "REFUND_REQUESTED"

\* Without credit links there is nothing to return.
RefundUnlinkedInvoice(i) ==
    /\ Refundable(i)
    /\ LinksOf(i) = {}
    /\ SetInvoice(i, [inv[i] EXCEPT
         !.requested = TRUE, !.refund = Total[i],
         !.status = UnlinkedStatus(i)])

\* The latest group of links decides: PENDING links are cancelled and moved
\* to a new group, COMPLETED links are returned by PENDING_REFUND links, and
\* links in any other status are left alone.
RefundLinkedInvoice(i) ==
    /\ Refundable(i)
    /\ \E latest \in LinksOf(i) :
         LET siblings == {l \in LinksOf(i) : l.group = latest.group}
         IN  /\ IsLatest(latest)
             /\ BeginGroup([NewTxn(DepositedBy[latest.credit]) EXCEPT
                  !.inv[i].requested = TRUE,
                  !.inv[i].refund = Total[i],
                  !.inv[i].status = "REFUND_REQUESTED",
                  !.mode = IF latest.status = "PENDING" THEN "REGROUP"
                           ELSE "PENDING_REFUND",
                  !.todo = IF latest.status \in {"PENDING", "COMPLETED"}
                           THEN siblings ELSE {}])

\* Part of a PAID invoice goes back to the short name, and the account gets a
\* credit memo for it.  Every link of the invoice must be COMPLETED.
PartialRefund(i, x) ==
    /\ Refundable(i)
    /\ inv[i].status = "PAID"
    /\ x > 0 /\ x <= Total[i]
    /\ ref[i] = "COMPLETED"
    /\ \A l \in LinksOf(i) : l.status = "COMPLETED"
    /\ \E latest \in LinksOf(i) :
         /\ IsLatest(latest)
         /\ BeginGroup([NewTxn(DepositedBy[latest.credit]) EXCEPT
              !.inv[i].requested = TRUE,
              !.inv[i].refund = x,
              !.inv[i].memo = x,
              !.inv[i].status = IF x = Total[i] THEN "CREDITED" ELSE "PAID",
              !.mode = "REFUNDED",
              !.todo = {l \in LinksOf(i) : l.group = latest.group}])

-----------------------------------------------------------------------------
(* Refunds of a short name's credits.                                      *)

CreateShortNameRefund(r, sn, x) ==
    /\ refunds[r].status = "NONE"
    /\ \A q \in Refunds : q < r => refunds[q].status # "NONE"
    /\ x > 0 /\ x <= Balance(remaining, sn)
    /\ Begin([NewTxn(sn) EXCEPT
         !.need = x,
         !.refunds[r] = [sn |-> sn, amount |-> x,
                         status |-> "PENDING_APPROVAL"]])

ApproveShortNameRefund(r) ==
    /\ refunds[r].status = "PENDING_APPROVAL"
    /\ refunds' = [refunds EXCEPT ![r].status = "APPROVED"]
    /\ UNCHANGED <<deposits, remaining, active, cils, lastGroup, lastCil, inv,
                   ref, statements, locked, txn>>

DeclineShortNameRefund(r) ==
    /\ refunds[r].status = "PENDING_APPROVAL"
    /\ Begin([NewTxn(refunds[r].sn) EXCEPT
         !.refill = refunds[r].amount,
         !.refunds[r].status = "DECLINED"])

-----------------------------------------------------------------------------
(* Deposits, invoices and statements.                                      *)

\* _process_eft_credits: the next deposit becomes a credit.
CreateCredit ==
    /\ deposits < NumCredits
    /\ deposits' = deposits + 1
    /\ remaining' = [remaining EXCEPT ![deposits + 1] = Amount[deposits + 1]]
    /\ UNCHANGED <<active, cils, lastGroup, lastCil, inv, ref, statements,
                   locked, refunds, txn>>

\* create_invoice: an account with overdue invoices is refused.
CreateInvoice(i) ==
    /\ inv[i].status = "NOT_CREATED"
    /\ \A j \in Invoices : j < i => inv[j].status # "NOT_CREATED"
    /\ StatementOf[i] \notin statements
    /\ AccountOf[i] \notin locked
    /\ SetInvoice(i, [inv[i] EXCEPT !.status = "APPROVED"])

GenerateStatement(s) ==
    /\ s \notin statements
    /\ statements' = statements \cup {s}
    /\ UNCHANGED <<deposits, remaining, active, cils, lastGroup, lastCil, inv,
                   ref, locked, refunds, txn>>

StatementChoice == {{s} : s \in Statements} \cup {Statements}

\* The requests of the API, and of the queue worker that reads deposits.
Request ==
    /\ Idle
    /\ \/ CreateCredit
       \/ \E i \in Invoices : \/ CreateInvoice(i)
                              \/ RefundUnlinkedInvoice(i)
                              \/ RefundLinkedInvoice(i)
                              \/ \E x \in PartialAmounts : PartialRefund(i, x)
       \/ \E s \in Statements : GenerateStatement(s)
       \/ \E sn \in ShortNames, a \in Accounts :
            \/ CreateShortNameLink(sn, a)
            \/ PatchShortNameLink(sn, a)
            \/ \E S \in StatementChoice : \/ ApplyPayment(sn, a, S)
                                          \/ CancelPayment(sn, a, S)
       \/ \E sn \in ShortNames, s \in Statements : ReversePayment(sn, s)
       \/ \E r \in Refunds :
            \/ \E sn \in ShortNames, x \in RefundAmounts :
                 CreateShortNameRefund(r, sn, x)
            \/ ApproveShortNameRefund(r)
            \/ DeclineShortNameRefund(r)
=============================================================================
