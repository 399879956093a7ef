------------------------------ MODULE EFTTask ------------------------------
(***************************************************************************)
(* The scheduled jobs that move EFT invoices between SBC Pay and CFS, the  *)
(* provincial accounting system, composed with the requests of EFTCredits: *)
(*   tasks/cfs_create_invoice_task.py  creates the invoices in CFS,        *)
(*   tasks/eft_task.py                 replicates credit links as receipts *)
(*                                     and undoes them,                    *)
(*   tasks/eft_statement_due_task.py   marks invoices overdue and locks    *)
(*                                     their accounts.                     *)
(*                                                                         *)
(* A job queries a list once and then handles one item at a time, each     *)
(* with calls to CFS that take seconds and a commit of its own.  An item   *)
(* is therefore two steps: the start reads the tables and calls CFS, the   *)
(* end writes what it decided and commits.  An item that raises in between *)
(* is rolled back here and not in CFS, and CFS refuses to do a thing       *)
(* twice: to create a receipt with a number it has had, to apply one to an *)
(* invoice that is settled, to reverse what is reversed.                   *)
(***************************************************************************)
EXTENDS EFTCredits

CONSTANTS
    Overlap,    \* requests and jobs may run while a job is running
    CfsMayFail, \* the first call of an item to CFS may raise
    MayBreakOff,\* invoices whose items may raise after that
    JobsMayDie  \* a job's process may be killed

ASSUME JobConstants == /\ {Overlap, CfsMayFail, JobsMayDie} \subseteq BOOLEAN
                       /\ MayBreakOff \subseteq Invoices

VARIABLES
    job,        \* the run of EFTTask
    cfsTodo,    \* invoices the CFS invoice job has still to create
    cfs,        \* each invoice in CFS
    receipts,   \* the numbers of the receipts issued and reversed in CFS
    brokenOff,  \* invoices of which an item was given up when CFS had
                \* carried out a part of it (not in the program)
    pastDue,    \* invoices whose overdue date has passed
    notified    \* statements with an overdue_notification_date

jobVars == <<job, cfsTodo, cfs, receipts, brokenOff, pastDue, notified>>
vars == <<eftVars, jobVars>>

Phases == {"IDLE", "LINK", "REVERSE", "UNLINKED"}
CfsStatus == {"NONE", "OPEN", "PAID", "REVERSED"}

\* A row of the query that rolls up the links of an invoice.
RollupKey == [invoice : Invoices, status : CilStatus, receipt : Nat]

NoItem == [started |-> FALSE]

\* What an item has decided when it called CFS: the ids of the links rolled
\* up, whether it refunds the invoice, and the reference of the invoice that
\* it found.
Item == [started : {TRUE}, key : RollupKey, ids : SUBSET Nat,
         refunding : BOOLEAN, found : RefStatus]

\* "fresh" holds from a query until its first item, which follows at once.
Job == [phase : Phases, todo : SUBSET RollupKey, cur : Item \cup {NoItem},
        overdue : SUBSET Accounts, fresh : BOOLEAN]

IdleJob == [phase |-> "IDLE", todo |-> {}, cur |-> NoItem, overdue |-> {},
            fresh |-> FALSE]

\* The job after the query of a phase.
Queried(phase, todo) == [IdleJob EXCEPT !.phase = phase, !.todo = todo,
                                        !.fresh = todo # {}]

TaskInit ==
    /\ Init
    /\ job = IdleJob
    /\ cfsTodo = {}
    /\ cfs = [i \in Invoices |-> "NONE"]
    /\ receipts = [issued |-> {}, reversed |-> {}]
    /\ brokenOff = {}
    /\ pastDue = {}
    /\ notified = {}

JobsIdle == job = IdleJob /\ cfsTodo = {}

-----------------------------------------------------------------------------
(* Invoices are created in CFS.                                            *)

CfsInvoiceJobStart ==
    /\ cfsTodo = {}
    /\ Overlap \/ JobsIdle
    /\ cfsTodo' = {i \in Invoices : inv[i].status = "APPROVED"
                                      /\ ref[i] # "ACTIVE"}
    /\ cfsTodo' # {}
    /\ UNCHANGED <<eftVars, job, cfs, receipts, brokenOff, pastDue, notified>>

\* The invoice is read when the list is; what has become of it is not asked.
\* If CFS has the number already, the job finds it there.
CfsInvoiceItem(i) ==
    /\ i \in cfsTodo
    /\ cfsTodo' = cfsTodo \ {i}
    /\ ref' = [ref EXCEPT ![i] = "ACTIVE"]
    /\ cfs' = [cfs EXCEPT ![i] = "OPEN"]
    /\ UNCHANGED <<deposits, remaining, active, cils, lastGroup, lastCil, inv,
                   statements, locked, refunds, txn, job, receipts, brokenOff,
                   pastDue, notified>>

CfsInvoiceItemFails(i) ==
    /\ CfsMayFail
    /\ i \in cfsTodo
    /\ cfsTodo' = cfsTodo \ {i}
    /\ UNCHANGED <<eftVars, job, cfs, receipts, brokenOff, pastDue, notified>>

\* CFS creates the invoice, and neither its answer nor that of the query for
\* the invoice arrives.
CfsInvoiceItemLost(i) ==
    /\ i \in MayBreakOff \cap cfsTodo
    /\ cfsTodo' = cfsTodo \ {i}
    /\ cfs' = [cfs EXCEPT ![i] = "OPEN"]
    /\ brokenOff' = brokenOff \cup {i}
    /\ UNCHANGED <<eftVars, job, receipts, pastDue, notified>>

-----------------------------------------------------------------------------
(* The rollup: the links of an invoice with one status and one receipt,    *)
(* whose amounts add up to the invoice, for an invoice that has an active  *)
(* or completed reference.                                                 *)

RolledUp(k) == {l \in cils : /\ l.invoice = k.invoice
                             /\ l.status = k.status
                             /\ l.receipt = k.receipt}
InRollup(k) == RolledUp(k) # {} /\ ref[k.invoice] \in {"ACTIVE", "COMPLETED"}

Rollups(status, invoiceStatuses) ==
    {k \in {[invoice |-> l.invoice, status |-> l.status,
             receipt |-> l.receipt] : l \in cils} :
        /\ k.status = status
        /\ InRollup(k)
        /\ LinkSum(RolledUp(k)) = Total[k.invoice]
        /\ inv[k.invoice].status \in invoiceStatuses}

\* Mutant: overdue invoices are not asked for.
ToLinkNotOverdue == Rollups("PENDING", {"APPROVED"})
ToLink == Rollups("PENDING", {"APPROVED", "OVERDUE"})

\* Mutant: invoices refunded after a reversal are not asked for.
ToReverseOnlyPaid == Rollups("PENDING_REFUND", {"PAID"})
                       \cup Rollups("CANCELLED", {"REFUND_REQUESTED"})
ToReverse == Rollups("PENDING_REFUND", {"PAID", "REFUND_REQUESTED"})
               \cup Rollups("CANCELLED", {"REFUND_REQUESTED"})

RefundKey(i) == [invoice |-> i, status |-> "CANCELLED", receipt |-> NoReceipt]

\* Mutant: an inner join where the query has an outer one.
UnlinkedInnerJoin ==
    {RefundKey(i) : i \in {j \in Invoices : LinksOf(j) # {}
                              /\ inv[j].status = "REFUND_REQUESTED"}}
Unlinked == {RefundKey(i) : i \in {j \in Invoices : LinksOf(j) = {}
                              /\ inv[j].status = "REFUND_REQUESTED"}}

\* The job once it has looked at an item: it notes the accounts of overdue
\* invoices that are being paid.
Noted(k) ==
    [job EXCEPT !.todo = @ \ {k},
                !.fresh = FALSE,
                !.overdue = IF job.phase = "LINK"
                               /\ inv[k.invoice].status = "OVERDUE"
                            THEN @ \cup {AccountOf[k.invoice]} ELSE @]

\* An item that is refused is left to the next run.
Skip(k) == job' = Noted(k)

\* The session expires the rollup row at every commit and reads it again; if
\* it is gone the error handler, which logs its id, raises too and ends the
\* process.
JobAborts == job' = IdleJob

WithinJob == UNCHANGED <<eftVars, cfsTodo, pastDue, notified>>

CfsUntouched == UNCHANGED <<cfs, receipts, brokenOff>>

EftJobStart ==
    /\ job = IdleJob
    /\ Overlap \/ JobsIdle
    /\ ToLink \cup ToReverse \cup Unlinked # {}
    /\ job' = Queried("LINK", ToLink)
    /\ CfsUntouched /\ WithinJob

\* Links in PENDING_REFUND need a COMPLETED reference, others an ACTIVE one.
FoundRef(k) ==
    LET wanted ==
          IF k.status = "PENDING_REFUND" THEN "COMPLETED" ELSE "ACTIVE"
    IN  IF ref[k.invoice] = wanted THEN wanted ELSE "NONE"

ItemOf(k) ==
    [started |-> TRUE, key |-> k, ids |-> {l.id : l \in RolledUp(k)},
     refunding |-> inv[k.invoice].status = "REFUND_REQUESTED",
     found |-> FoundRef(k)]

-----------------------------------------------------------------------------
(* link_electronic_funds_transfers_cfs                                     *)

MinId(ids) == CHOOSE n \in ids : \A m \in ids : n <= m

\* The number of the receipt for a rollup.
ReceiptNumber(k) == MinId({l.id : l \in RolledUp(k)})

IssueReceipt(k) ==
    receipts' = [receipts EXCEPT !.issued = @ \cup {ReceiptNumber(k)}]

\* A receipt is created in CFS and applied to the invoice.  The application
\* raises if the invoice is not open, and the receipt is there.
LinkItemStart(k) ==
    /\ job.phase = "LINK" /\ job.cur = NoItem /\ k \in job.todo
    /\ IF ~ InRollup(k) THEN JobAborts /\ CfsUntouched
       ELSE IF \/ FoundRef(k) = "NONE"
               \/ ReceiptNumber(k) \in receipts.issued
       THEN Skip(k) /\ CfsUntouched
       ELSE /\ IssueReceipt(k)
            /\ IF cfs[k.invoice] # "OPEN" THEN Skip(k) /\ UNCHANGED cfs
               ELSE /\ job' = [Noted(k) EXCEPT !.cur = ItemOf(k)]
                    /\ cfs' = [cfs EXCEPT ![k.invoice] = "PAID"]
            /\ UNCHANGED brokenOff
    /\ WithinJob

\* The application raises for another reason.
LinkItemBreaksOff(k) ==
    /\ k.invoice \in MayBreakOff
    /\ job.phase = "LINK" /\ job.cur = NoItem /\ k \in job.todo
    /\ InRollup(k) /\ FoundRef(k) # "NONE"
    /\ ReceiptNumber(k) \notin receipts.issued
    /\ IssueReceipt(k)
    /\ Skip(k)
    /\ brokenOff' = brokenOff \cup {k.invoice}
    /\ UNCHANGED cfs /\ WithinJob

\* The first call to CFS raises, in any of the three loops.
ItemFails(k) ==
    /\ CfsMayFail
    /\ job.phase # "IDLE" /\ job.cur = NoItem /\ k \in job.todo
    /\ Skip(k)
    /\ CfsUntouched /\ WithinJob

\* An item raises when CFS has done all that was asked of it, or its commit
\* fails: of the item only CFS remembers.
ItemRollsBack ==
    /\ job.cur # NoItem
    /\ job.cur.key.invoice \in MayBreakOff
    /\ job' = [job EXCEPT !.cur = NoItem]
    /\ brokenOff' = brokenOff \cup {job.cur.key.invoice}
    /\ UNCHANGED <<cfs, receipts>> /\ WithinJob

\* Mutant: the links do not keep the receipt.
UpdateLinksOnlyStatus(item, status, receipt) ==
    {IF l.id \in item.ids /\ l.status # "CANCELLED"
     THEN [l EXCEPT !.status = status] ELSE l : l \in cils}

\* Mutant: links cancelled in the meantime are updated too.
UpdateLinksEvenCancelled(item, status, receipt) ==
    {IF l.id \in item.ids
     THEN [l EXCEPT !.status = status, !.receipt = receipt] ELSE l :
       l \in cils}

\* _update_cil_and_shortname_history
UpdateLinks(item, status, receipt) ==
    {IF l.id \in item.ids /\ l.status # "CANCELLED"
     THEN [l EXCEPT !.status = status, !.receipt = receipt] ELSE l :
       l \in cils}

LinkItemEnd ==
    LET item == job.cur
        i == item.key.invoice
    IN  /\ job.phase = "LINK" /\ item # NoItem
        /\ ref' = [ref EXCEPT ![i] = "COMPLETED"]
        /\ inv' = [inv EXCEPT ![i].status = "PAID", ![i].paid = item.ids]
        /\ cils' = UpdateLinks(item, "COMPLETED", MinId(item.ids))
        /\ job' = [job EXCEPT !.cur = NoItem]
        /\ UNCHANGED <<deposits, remaining, active, lastGroup, lastCil,
                       statements, locked, refunds, txn, cfsTodo, cfs,
                       receipts, brokenOff, pastDue, notified>>

\* Mutant: any unpaid invoice counts as overdue.
HasUnpaidInvoices(a) == \E i \in Invoices : AccountOf[i] = a /\ Unpaid(i)

HasOverdueInvoices(a) ==
    \E i \in Invoices : AccountOf[i] = a /\ inv[i].status = "OVERDUE"

\* unlock_overdue_accounts, and the query of the next function.
UnlockOverdueAccounts ==
    /\ job.phase = "LINK" /\ job.cur = NoItem /\ job.todo = {}
    /\ locked' = locked \ {a \in job.overdue : ~ HasOverdueInvoices(a)}
    /\ job' = Queried("REVERSE", ToReverse)
    /\ UNCHANGED <<deposits, remaining, active, cils, lastGroup, lastCil, inv,
                   ref, statements, refunds, txn, cfsTodo, cfs, receipts,
                   brokenOff, pastDue, notified>>

-----------------------------------------------------------------------------
(* reverse_electronic_funds_transfers_cfs                                  *)

AtReverseItem(k) ==
    /\ job.phase = "REVERSE" /\ job.cur = NoItem /\ k \in job.todo
    /\ \A j \in job.todo : j.status = "PENDING_REFUND"
                             => k.status = "PENDING_REFUND"

ReversesInvoice(k) == ItemOf(k).refunding /\ FoundRef(k) # "NONE"

\* Only the refund of cancelled links goes on without a reference.
LacksRef(k) ==
    FoundRef(k) = "NONE" /\ ~ (k.status = "CANCELLED" /\ ItemOf(k).refunding)

\* A receipt is reversed once, and an invoice if nothing is applied to it.
RefusedByCfs(k) ==
    IF k.receipt # NoReceipt
    THEN k.receipt \notin receipts.issued \ receipts.reversed
    ELSE ReversesInvoice(k) /\ cfs[k.invoice] # "OPEN"

ReverseReceipt(k) ==
    receipts' = [receipts EXCEPT !.reversed = @ \cup ({k.receipt}
                                                       \ {NoReceipt})]

\* The receipt is reversed in CFS, and so is the invoice if it is refunded.
ReverseItemStart(k) ==
    /\ AtReverseItem(k)
    /\ IF ~ InRollup(k) THEN JobAborts /\ CfsUntouched
       ELSE IF LacksRef(k) \/ RefusedByCfs(k) THEN Skip(k) /\ CfsUntouched
       ELSE /\ job' = [Noted(k) EXCEPT !.cur = ItemOf(k)]
            /\ ReverseReceipt(k)
            /\ cfs' = [cfs EXCEPT ![k.invoice] =
                 IF ReversesInvoice(k) THEN "REVERSED"
                 ELSE IF k.receipt # NoReceipt THEN "OPEN" ELSE @]
            /\ UNCHANGED brokenOff
    /\ WithinJob

\* The receipt is reversed, and the reversal of the invoice raises.
ReverseItemBreaksOff(k) ==
    /\ k.invoice \in MayBreakOff
    /\ AtReverseItem(k)
    /\ InRollup(k) /\ k.receipt # NoReceipt /\ ReversesInvoice(k)
    /\ ~ RefusedByCfs(k)
    /\ ReverseReceipt(k)
    /\ cfs' = [cfs EXCEPT ![k.invoice] = "OPEN"]
    /\ Skip(k)
    /\ brokenOff' = brokenOff \cup {k.invoice}
    /\ WithinJob

\* _handle_invoice_refund
RefundedStatus(item) ==
    IF item.found = "ACTIVE" THEN "CANCELLED" ELSE "REFUNDED"

\* Mutant: the invoice stays PAID.
ReversedInvoiceStaysPaid(row) == [row EXCEPT !.paid = {}]
ReversedInvoice(row) == [row EXCEPT !.status = "APPROVED", !.paid = {}]

ReverseItemEnd ==
    LET item == job.cur
        i == item.key.invoice
    IN  /\ job.phase \in {"REVERSE", "UNLINKED"} /\ item # NoItem
        /\ inv' = [inv EXCEPT ![i] =
             IF item.refunding
             THEN [@ EXCEPT !.status = RefundedStatus(item),
                            !.refund = Total[i]]
             ELSE ReversedInvoice(@)]
        /\ ref' = [ref EXCEPT ![i] =
             IF ~ item.refunding THEN "ACTIVE"
             ELSE IF item.found # "NONE" THEN "CANCELLED" ELSE @]
        /\ cils' = UpdateLinks(item, "REFUNDED", item.key.receipt)
        /\ job' = [job EXCEPT !.cur = NoItem]
        /\ UNCHANGED <<deposits, remaining, active, lastGroup, lastCil,
                       statements, locked, refunds, txn, cfsTodo, cfs,
                       receipts, brokenOff, pastDue, notified>>

\* handle_unlinked_refund_requested_invoices
UnlinkedJobStart ==
    /\ job.phase = "REVERSE" /\ job.cur = NoItem /\ job.todo = {}
    /\ job' = Queried("UNLINKED", Unlinked)
    /\ CfsUntouched /\ WithinJob

UnlinkedItemStart(k) ==
    /\ job.phase = "UNLINKED" /\ job.cur = NoItem /\ k \in job.todo
    /\ IF ref[k.invoice] = "ACTIVE" /\ cfs[k.invoice] = "OPEN"
       THEN /\ job' = [Noted(k) EXCEPT
                         !.cur = [ItemOf(k) EXCEPT !.refunding = TRUE,
                                                   !.ids = {}]]
            /\ cfs' = [cfs EXCEPT ![k.invoice] = "REVERSED"]
            /\ UNCHANGED <<receipts, brokenOff>>
       ELSE Skip(k) /\ CfsUntouched
    /\ WithinJob

EftJobEnd ==
    /\ job.phase = "UNLINKED" /\ job.cur = NoItem /\ job.todo = {}
    /\ job' = IdleJob
    /\ CfsUntouched /\ WithinJob

\* What was not committed is lost; what CFS was told is not.
JobDies ==
    /\ JobsMayDie
    /\ job # IdleJob
    /\ job' = IdleJob
    /\ brokenOff' = IF job.cur = NoItem THEN brokenOff
                    ELSE brokenOff \cup {job.cur.key.invoice}
    /\ UNCHANGED <<cfs, receipts>> /\ WithinJob

-----------------------------------------------------------------------------
(* Overdue invoices.                                                       *)

OverdueDatePasses(i) ==
    /\ i \notin pastDue
    /\ StatementOf[i] \in statements
    /\ Unpaid(i)
    /\ pastDue' = pastDue \cup {i}
    /\ UNCHANGED <<eftVars, job, cfsTodo, cfs, receipts, brokenOff, notified>>

NowOverdue == {i \in pastDue : Unpaid(i)}

\* Invoices past their date become OVERDUE; each account that has one on a
\* statement not yet notified is locked.
StatementDueJob ==
    /\ Overlap \/ JobsIdle
    /\ LET fresh == {i \in NowOverdue : StatementOf[i] \in statements
                                          /\ StatementOf[i] \notin notified}
       IN  /\ \E i \in NowOverdue : inv[i].status = "APPROVED" \/ i \in fresh
           /\ inv' = [i \in Invoices |->
                        IF i \in NowOverdue
                        THEN [inv[i] EXCEPT !.status = "OVERDUE"] ELSE inv[i]]
           /\ notified' = notified \cup {StatementOf[i] : i \in fresh}
           /\ locked' = locked \cup {AccountOf[i] : i \in fresh}
    /\ UNCHANGED <<deposits, remaining, active, cils, lastGroup, lastCil, ref,
                   statements, refunds, txn, job, cfsTodo, cfs, receipts,
                   brokenOff, pastDue>>

-----------------------------------------------------------------------------
EftJob ==
    \/ EftJobStart
    \/ \E k \in job.todo : \/ LinkItemStart(k) \/ ReverseItemStart(k)
                           \/ UnlinkedItemStart(k)
    \/ LinkItemEnd \/ UnlockOverdueAccounts
    \/ ReverseItemEnd \/ UnlinkedJobStart \/ EftJobEnd

CfsInvoiceJob == CfsInvoiceJobStart \/ \E i \in cfsTodo : CfsInvoiceItem(i)

JobFailure == \/ \E k \in job.todo : \/ ItemFails(k)
                                      \/ LinkItemBreaksOff(k)
                                      \/ ReverseItemBreaksOff(k)
              \/ \E i \in cfsTodo : CfsInvoiceItemFails(i)
                                      \/ CfsInvoiceItemLost(i)
              \/ ItemRollsBack
              \/ JobDies

Next ==
    \/ TxnStep /\ UNCHANGED jobVars
    \/ Idle /\ EftJob
    \/ Idle /\ JobFailure
    \/ Idle /\ ~ job.fresh /\ CfsInvoiceJob
    \/ Idle /\ ~ job.fresh /\ StatementDueJob
    \/ Idle /\ ~ job.fresh /\ \E i \in Invoices : OverdueDatePasses(i)
    \/ /\ Overlap \/ JobsIdle
       /\ ~ job.fresh
       /\ Request
       /\ UNCHANGED jobVars

Spec == TaskInit /\ [][Next]_vars

InFlight(i) == job.cur # NoItem /\ job.cur.key.invoice = i

StartItem(i) ==
    \E k \in job.todo :
      /\ k.invoice = i
      /\ LinkItemStart(k) \/ ReverseItemStart(k) \/ UnlinkedItemStart(k)
EndItem(i) == InFlight(i) /\ (LinkItemEnd \/ ReverseItemEnd)

\* Jobs run again every day, so an item that stays in the list is retried,
\* and it is not forever that CFS refuses it or the database its commit.
Fairness ==
    /\ WF_vars(TxnStep /\ UNCHANGED jobVars)
    /\ SF_vars(Idle /\ EftJob)
    /\ SF_vars(Idle /\ ~ job.fresh /\ CfsInvoiceJob)
    /\ \A i \in Invoices :
         /\ SF_vars(Idle /\ ~ job.fresh /\ CfsInvoiceItem(i))
         /\ SF_vars(Idle /\ StartItem(i))
         /\ SF_vars(Idle /\ EndItem(i))

FairSpec == Spec /\ Fairness

-----------------------------------------------------------------------------
(* Properties.                                                             *)

TypeOK ==
    /\ deposits \in 0..NumCredits
    /\ remaining \in [Credits -> Nat]
    /\ active \subseteq ShortNames \X Accounts
    /\ cils \subseteq Cil
    /\ lastGroup \in 0..MaxGroup
    /\ lastCil \in Nat
    /\ inv \in [Invoices -> Invoice]
    /\ ref \in [Invoices -> RefStatus]
    /\ statements \subseteq Statements
    /\ locked \subseteq Accounts
    /\ refunds \in [Refunds -> EftRefund]
    /\ txn \in Txn \cup {NoTxn}
    /\ job \in Job
    /\ cfsTodo \subseteq Invoices
    /\ cfs \in [Invoices -> CfsStatus]
    /\ receipts \in [issued : SUBSET Nat, reversed : SUBSET Nat]
    /\ brokenOff \subseteq Invoices
    /\ pastDue \subseteq Invoices
    /\ notified \subseteq Statements

\* A credit never holds more than was deposited, whatever sequence of
\* applications, cancellations, reversals, refunds and declined refunds moved
\* its amount about, and holds nothing before its deposit.
CreditBounds ==
    \A c \in Credits : remaining[c] <= Amount[c]
                         /\ (c > deposits => remaining[c] = 0)

InStatus(L, S) == LinkSum({l \in L : l.status \in S})
\* What a set of links takes from its credits.
Held(L) == InStatus(L, {"PENDING", "COMPLETED"})
             - InStatus(L, {"PENDING_REFUND", "REFUNDED"})
Refunded(sn) ==
    SumFunctionOnSet([r \in Refunds |-> refunds[r].amount],
      {r \in Refunds : refunds[r].sn = sn
                         /\ refunds[r].status \in {"PENDING_APPROVAL",
                                                   "APPROVED"}})
Deposited(sn) ==
    SumFunctionOnSet(Amount, {c \in CreditsOf(sn) : c <= deposits})

\* No money of a short name appears or disappears: what is left on its
\* credits, what its links hold and what its refunds took are its deposits.
MoneyConserved ==
    \A sn \in ShortNames :
      Balance(remaining, sn) + Refunded(sn)
        + Held({l \in cils : DepositedBy[l.credit] = sn}) = Deposited(sn)

IsReturn(l) == l.status \in {"PENDING_REFUND", "REFUNDED"}

\* The amount a completed link took goes back to its credit at most once,
\* though reversals, refunds and partial refunds can each return it.
NoDoubleReturn ==
    \A l, m \in cils : /\ IsReturn(l) /\ IsReturn(m)
                       /\ l.invoice = m.invoice /\ l.credit = m.credit
                       /\ l.receipt = m.receipt
                       => l = m

\* An invoice that counts as paid is paid: its completed links amount to its
\* total, unless a reversal of them is waiting for the job.
PaidIsFunded ==
    \A i \in Invoices :
      inv[i].status = "PAID" =>
        Held(LinksOf(i)) =
          IF \E l \in LinksOf(i) : l.status = "PENDING_REFUND"
          THEN 0 ELSE Total[i] - inv[i].memo

\* A refund gives back everything: once it is accepted no link of the invoice
\* holds any credit.
RefundReleasesCredits ==
    \A i \in Invoices :
      inv[i].status \in {"REFUND_REQUESTED", "REFUNDED", "CANCELLED"}
        => /\ Held(LinksOf(i)) = 0
           /\ \A l \in LinksOf(i) : l.status # "PENDING"

\* eft_credit_invoice_links reflects what is in CFS: an invoice is paid in CFS
\* exactly when completed links pay for it.  Items that break off spoil this
\* for their own invoice, and for no other.
LinksReflectCfs ==
    \A i \in Invoices :
      ~ InFlight(i) /\ i \notin brokenOff =>
        (cfs[i] = "PAID" <=> \E l \in LinksOf(i) :
           /\ l.status = "COMPLETED"
           /\ ~ \E m \in LinksOf(i) : /\ m.status = "REFUNDED"
                                      /\ m.receipt = l.receipt
                                      /\ inv[i].memo = 0)

\* A refunded or cancelled invoice is not owed in CFS, nor will be, unless an
\* item of it broke off: CFS may have an invoice that the job does not know.
RefundReachesCfs ==
    \A i \in Invoices : /\ inv[i].status \in {"REFUNDED", "CANCELLED"}
                        /\ i \notin brokenOff
                        => cfs[i] \in {"NONE", "REVERSED"}

\* Between jobs, an account that is locked has an overdue invoice: paying the
\* last one unlocks it.
LockedOwes ==
    JobsIdle => \A a \in locked : HasOverdueInvoices(a)

\* The requests and the jobs implement the account book: at every commit a
\* short name's balance and the invoices it pays change as one of its entries.
HeldBy(sn, i) == Held({l \in LinksOf(i) : DepositedBy[l.credit] = sn})

Ledger == INSTANCE EFTLedger WITH
    MaxAmount <- SumFunctionOnSet(Amount, Credits),
    free <- [sn \in ShortNames |-> Balance(remaining, sn)],
    held <- [sn \in ShortNames |-> [i \in Invoices |-> HeldBy(sn, i)]],
    out <- [sn \in ShortNames |-> Refunded(sn)]

ImplementsLedger == Ledger!Spec

\* A partial refund gives the short name what the credit memo says.
PartialRefundMatchesMemo ==
    \A i \in Invoices :
      inv[i].memo > 0 => InStatus(LinksOf(i), {"REFUNDED"}) = inv[i].memo

HasLink(i, status) == \E l \in LinksOf(i) : l.status = status

\* CFS has what the tables do not say: an item of the invoice broke off, and
\* CFS refuses it when it is tried again.
OutOfStep(i) ==
    /\ i \in brokenOff
    /\ ~ InFlight(i)
    /\ \/ ref[i] = "ACTIVE" /\ cfs[i] # "OPEN"
       \/ ref[i] = "COMPLETED" /\ cfs[i] # "PAID"
       \/ \E l \in LinksOf(i) : l.status = "PENDING"
                                  /\ l.id \in receipts.issued

\* The job brings back in step what an item that broke off left behind.
StepRegained == \A i \in Invoices : OutOfStep(i) ~> ~ OutOfStep(i)

\* A payment of an invoice that CFS has is made, or withdrawn: its pending
\* links do not stay, though CFS refuses items again and again, unless an item
\* of the invoice broke off and left CFS out of step.
PaymentCompletes ==
    \A i \in Invoices :
      HasLink(i, "PENDING") /\ ref[i] = "ACTIVE"
        ~> ~ HasLink(i, "PENDING") \/ OutOfStep(i)

\* A reversal does not stay half done unless an item broke off: the job undoes
\* the receipt, even if the invoice is refunded in the meantime.  (If earlier
\* links of the invoice were cancelled it may: see RefundReachesCfs.)
ReversalCompletes ==
    \A i \in Invoices :
      HasLink(i, "PENDING_REFUND") /\ ~ HasLink(i, "CANCELLED")
        ~> ~ HasLink(i, "PENDING_REFUND") \/ OutOfStep(i)

\* The refund of a paid invoice, or of one without links, is concluded unless
\* an item broke off.
PaidRefundCompletes ==
    \A i \in Invoices :
      /\ inv[i].status = "REFUND_REQUESTED"
      /\ LinksOf(i) = {} \/ HasLink(i, "PENDING_REFUND")
      ~> inv[i].status \in {"REFUNDED", "CANCELLED"} \/ OutOfStep(i)

\* So is every other: an invoice does not stay in REFUND_REQUESTED.
RefundCompletes ==
    \A i \in Invoices : inv[i].status = "REFUND_REQUESTED"
                          ~> inv[i].status \in {"REFUNDED", "CANCELLED"}
=============================================================================
