# sbc-pay in TLA+

SBC Pay is the payment service of the Province of British Columbia's online
registries. It creates invoices for other programs, collects the money in
many ways (credit card, pre-authorized debit, online banking, electronic funds
transfer, journal vouchers, routing slips), tells the programs when an
invoice is paid, and keeps its tables in step with CFS, the provincial
accounting system, and with PayBC, the provincial payment portal.

This directory holds specifications of its core, the TLC configurations that
check them and proofs that TLAPS checks. Source files are named relative to
`src/`; `pay_api/` is short for `pay-api/src/pay_api/`, `tasks/` for
`jobs/payment-jobs/tasks/` and `pay_queue/` for `pay-queue/src/pay_queue/`.

    tlc -config EFTTask_core.cfg MCEFTTask
    tlc -config PaymentTransaction_safety.cfg MCPaymentTransaction
    tlc -config CasSettlement.cfg MCCasSettlement
    tlapm EFTTaskProofs.tla
    tlapm EFTLedgerProofs.tla
    tlapm CasSettlementProofs.tla

Each component has a section: its state, its actions, its properties, what the
code does that they do not allow for, and the bounds. What does not hold has a configuration of its
own, whose counterexample can be reproduced (section 11).

## 1. Inventory

| component | state it keeps | operations | with whom it interacts | what is hard | what makes it correct |
|---|---|---|---|---|---|
| EFT credits (`pay_api/services/eft_service.py`, `eft_refund.py`, `eft_short_name_links.py`) | credits and what remains of them, links credit-invoice (cils), short name links, refunds | link and unlink a short name, apply, cancel, reverse a payment, refund an invoice or a short name | staff requests; the EFT job through `eft_credit_invoice_links` | four requests put amounts back on credits, knowing nothing of each other; groups of links | no amount appears, disappears or comes back twice; a paid invoice is funded |
| EFT job (`tasks/eft_task.py`) | lists read once, accounts to unlock in a class attribute | replicate links as receipts in CFS, reverse them, conclude refunds | CFS; the requests, which run meanwhile | seconds pass between read and write; an item that fails is rolled back here, not in CFS | links reflect CFS; everything asked for is concluded |
| CFS invoice job, EFT part (`tasks/cfs_create_invoice_task.py`) | a list read once | create the invoice in CFS, make the reference ACTIVE | CFS, the refund requests | an invoice refunded before its turn | a refunded invoice is not owed in CFS |
| Statement due job (`tasks/eft_statement_due_task.py`) | overdue and notification dates | mark overdue, lock accounts | unlocking by the EFT job | an account locked, or unlocked, for good | a locked account owes |
| Payment transactions (`pay_api/services/payment_transaction.py`, `payment_service.py`, `tasks/stale_payment_task.py`) | payments, transactions, references, receipts | create, update after PayBC, delete an invoice, catch up by job | PayBC; the queue that releases an invoice to its program; a thread per deletion | read, ask PayBC, write, by many at once; the browser that does not return; publishing that fails | released once; what PayBC was paid is recorded |
| EFT deposit files (`jobs/ftp-poller/tasks/eft_poller_ftp.py`, `pay_queue/services/eft/`) | files and their status, transactions | copy, move and announce a file; turn its lines into credits; pay what linked accounts owe | the bank, the queue, EFT credits | redelivery, workers and pollers that die between commits, files sent again | a deposit becomes one credit, once |
| CFS billing and CAS settlement (`tasks/cfs_create_invoice_task.py`, `pay_queue/services/payment_reconciliations.py`, `pay_api/services/payment.py`, `payment_account.py`) | references, receipts, payments, NSF rows, frozen accounts, rows that claim a file | bill, settle rows, freeze, pay by card, unlock | CFS, the bank, card payments | rows in any order, several commits per row, a file half done | nothing is lost or asked for twice; a frozen account has a way out |
| Journal vouchers (`tasks/ejv_payment_task.py`, `pay_queue/services/cgi_reconciliations.py`, `pay_api/services/ejv_pay_service.py`) | files, links, references | write a file, read its feedback, refund | CGI, which posts it | upload before commit; refunds while a file is on its way | an account is charged once, and what is refunded is reversed |
| Partner disbursements (`pay_api/services/partner_disbursements.py`, `tasks/ejv_partner_distribution_task.py`, `tasks/ap_task.py`, `cgi_reconciliations.py`) | disbursement status, rows of `partner_disbursements` | send the share of a partner, take it back | CGI, EFT payments and refunds | an EFT invoice is paid, unpaid and paid again; lines that fail | the partner has its share of what is paid, once |
| Routing slips (`pay_api/services/fas/`, `tasks/routing_slip_task.py`, `internal_pay_service.py`) | status, parent and children, remaining amount, CFS account | create, spend, link, correct, NSF, void, refund, write off | CFS, invoices, AP cheques | asked for by day, carried out at night, with several CFS calls per slip | the remaining amount is right and in CFS |
| PAD and CFS accounts (`pay_api/services/payment_account.py`, `tasks/cfs_create_account_task.py`, `activate_pad_account_task.py`) | status of a CFS account, activation date | create, activate, freeze | CFS, settlement | activation racing a bank change | never debit an inactive account |
| Refund approval (`pay_api/services/refund.py`, `refund_request.py`, `tasks/direct_sale_automated_refund_task.py`) | refund requests, partial refunds | ask, approve, decline, have PayBC refund a card | every payment method | approval of what was refunded meanwhile; PayBC refunds before the commit | one refund per invoice |
| Statements (`pay_api/services/statement.py`, `tasks/statement_task.py`) | statements, which invoices they list | generate, notify | EFT payments | interval boundaries | each invoice on one statement |
| The rest | fees, distribution codes, reports, e-mail, identity, searches, administration, `bcol-api`, migrations | | | adapters and tables | not modelled, see section 13 |

`PROJECT.json` lists every component with its status, and the hazards at the
lines where they bite.

## 2. Plan

Written in this order, because EFT is the part where SBC Pay itself is the
book of account; for the other methods CFS or PayBC holds the money.

1. `EFTCredits`: the requests about credits, links and refunds. **Done.**
2. `EFTTask`: the jobs, composed with the requests and an external CFS. **Done.**
3. `EFTLedger`: the abstract account book they implement. **Done.**
4. `EFTTaskProofs`: type correctness and the bounds of credits. **Done.**
5. `PaymentTransaction`: credit card payments, deletion, the stale job.
   **Done** for one invoice per payment, with `PaymentTransactionProofs`: its
   safety properties.
6. `EFTFile`: the life of a deposit file. **Done.**
7. `CasSettlement`: billing, settlement rows, returned debits, frozen accounts.
   **Done.**
8. `EjvPayment`: journal vouchers, their feedback, refunds. **Done.**
9. `Disbursement`: the share of partners by status and by row. **Done.**
10. `RoutingSlip`: slips, their receipts in CFS, the passes of the jobs. **Done.**
11. Type correctness and the inductive invariants of items 6 to 9. **Done** in
    `EFTFileProofs`, `EjvPaymentProofs`, `DisbursementProofs` and
    `CasSettlementProofs`, on `SumTheorems`; `RoutingSlip` is left.
12. `NoDoubleReturn`, `MoneyConserved`, `LockedOwes`, and `RefundReleasesCredits`
    for one short name. **Done** in `EFTTaskProofs`. That `EFTLedger` is
    implemented, `PaidIsFunded` and `LinksReflectCfs`. **Done** in `EFTLedgerProofs`.
13. Not begun: refunds of card payments with their approval
    (`DirectSaleRefund`), `return_eft_credit` and `apply_eft_credit` as
    steps of two transactions of which one locks the row, and the statement due job
    split into its two loops.

Modules to be proved about declare no RECURSIVE operator; sums in them use
`SumFunctionOnSet`, about which `SumTheorems` proves what is needed.

## 3. EFT: `EFTCredits` and `EFTTask`

### State

| variable | in the program |
|---|---|
| `deposits`, `remaining` | rows of `eft_credits`, in the order of `created_on`; `remaining_amount` |
| `active` | active rows of `eft_short_name_links` |
| `cils`, `lastGroup`, `lastCil` | rows of `eft_credit_invoice_links`, the sequences of their group and id |
| `inv`, `ref` | an EFT invoice: status, links that paid it, refund and credit memo; its reference |
| `statements`, `locked` | statements generated; accounts with `has_overdue_invoices` |
| `refunds` | rows of `eft_refunds` |
| `txn` | the request in progress: loop variables and uncommitted copies of tables |
| `job`, `cfsTodo` | the runs of the EFT job and the CFS invoice job: what they listed, the item being handled |
| `cfs`, `receipts` | external: each invoice in CFS; the numbers of receipts issued and reversed |
| `brokenOff` | not in the program: invoices of which an item was given up when CFS had done a part of it |
| `pastDue`, `notified` | the clock: overdue dates that passed; `overdue_notification_date` |

### Requests

Each request is an action that checks what the code checks and begins a
transaction (`txn`); each iteration of a loop over links or credits is a step
(`ReturnCredit`, `NextInvoice`, `TakeCredit`, `RefillCredit`); `Commit`
publishes the copies and `Rollback`, a BusinessException, drops them.
`CreateShortNameLink`, `PatchShortNameLink`, `ApplyPayment`, `CancelPayment`,
`ReversePayment`, `RefundUnlinkedInvoice` and `RefundLinkedInvoice` (the two
branches of `process_cfs_refund`), `PartialRefund`, `CreateShortNameRefund`,
`ApproveShortNameRefund`, `DeclineShortNameRefund`; and what comes from
elsewhere: `CreateCredit` (a deposit file), `CreateInvoice`,
`GenerateStatement`.

Decisions: requests are atomic with respect to each other (item 13 of the plan
would take that apart). All links a request makes share one group id. Each invoice is on one
statement. The 60 days within which a payment may be reversed have not passed.
The rule that a refund is approved by someone else than its creator, history
rows, e-mails, consolidated references and the partner's disbursement rows are
left out; of the last, the check that a reversal covers the whole invoice stays.

### Jobs

`invoke_jobs.py:146-148` runs the passes of the EFT job in the order
link, unlock, reverse, unlinked; so does `EFTTask`. A pass reads its
list once (the two lists of the reverse pass together); an item is two steps:
its start reads the tables and calls CFS, its end writes and commits. Between
them, and between items, requests and the other jobs run when `Overlap` holds.
An item whose links vanished raises outside of the handler
(`eft_task.py:171-177`) and ends the job. The statement due job is one step.

An item that raises is rolled back here and not in CFS, and CFS does nothing
twice: it refuses a receipt number it has had (`EFTCIL<id>`, line 166), to apply
a receipt to an invoice that is not open, and to reverse what is reversed. So
the failures differ by how far the item had come:

| action | what CFS did | what the code keeps |
|---|---|---|
| `ItemFails` (`CfsMayFail`) | nothing: its first call raises | nothing, the item is tried again |
| `LinkItemBreaksOff` | created the receipt (362), the application (370) raises | nothing; the number is used up |
| `ReverseItemBreaksOff` | reversed the receipt (418), the reversal of the invoice (445) raises | nothing; the receipt is gone |
| `ItemRollsBack` | all that was asked | nothing: the answer was lost or the commit failed |
| `CfsInvoiceItemLost` | created the invoice | nothing: neither the answer nor the query for it arrived |
| `JobDies` (`JobsMayDie`) | what it was asked up to then | nothing, the accounts it noted neither |

The four in the middle happen to the invoices of `MayBreakOff`, which then are in
`brokenOff`: properties about CFS say what holds for the others, and that one
invoice's trouble does not reach the next.

### Properties

* `CreditBounds`: no sequence of requests leaves more on a credit than its deposit.
* `MoneyConserved`: what remains, what links hold and what was refunded are the deposits.
* `NoDoubleReturn`: an amount a completed link took comes back once.
* `PaidIsFunded`: the completed links of a PAID invoice amount to its total.
* `RefundReleasesCredits`: an accepted refund leaves no link holding anything,
  if one short name pays (with two it may: section 12).
* `LinksReflectCfs`: an invoice has a receipt in CFS exactly when links pay it,
  unless an item of it broke off.
* `RefundReachesCfs`: a refunded invoice is not owed in CFS, nor will be, unless
  an item of it broke off.
* `LockedOwes`: between jobs, a locked account has an overdue invoice.
* `PaymentCompletes`, `ReversalCompletes`, `PaidRefundCompletes`: what was
  asked for is concluded by a job, or withdrawn, however often CFS refuses the
  first call of an item, and if an item breaks off unless that left CFS out of
  step (`OutOfStep`: what CFS has is not what the tables say).
* `ImplementsLedger`: section 4.

### Runs

| run | instance | distinct states | question |
|---|---|---|---|
| `eft_core` | two invoices of 2 and 1 on a statement, deposits of 1 and 2, one short name refund, 3 groups, jobs undisturbed | 356 thousand | all orders of requests and jobs; refinement of `EFTLedger` |
| `eft_overlap` | one invoice, partial refunds, 4 groups, `Overlap`, `CfsMayFail`, `MayBreakOff`, `JobsMayDie` | 938 thousand | what survives interruption |
| `eft_liveness` | one invoice, no short name refund, 5 groups, `CfsMayFail`, `MayBreakOff`, fairness | 32 thousand | everything is concluded, or CFS is out of step; links and CFS |
| `eft_refund_stuck` | one invoice, fairness | | a counterexample, section 11 |

Why these bounds: an invoice of 2 and deposits of 1 and 2 give payments from
one credit, from two, and credits left over in part. Four groups allow
pay, reverse, pay again, refund; each group is one request that makes links. With two
invoices and three groups one is paid and the other not, and one overdue and the other not. The
three-invoice and three-credit cases add no new branch: loops have a first, a
middle and a last iteration with two. Requests that make no links are not
bounded. `CHECK_DEADLOCK FALSE`: when the sequence of groups is used up and
everything is settled the instance stops; the program does not.

`PaidIsFunded` and `RefundReachesCfs` hold only if no request comes between the
steps of a job, so they are checked in `eft_core`; `EFTTask_cancel_race.cfg` and
`EFTTask_stale_list.cfg` show why. `LinksReflectCfs` and the liveness properties
need the same, but not that jobs are undisturbed, so they are checked with items
that fail and break off (`eft_liveness`); `EFTTask_refund_race.cfg` shows why
`Overlap` is excluded. Section 12 proves `PaidIsFunded` and `LinksReflectCfs`
for all constants. `RefundReachesCfs` is checked with one short name: with two,
of which the account is linked to one after the other, it does not hold.

### Where the code does not do what one expects

An item that broke off is not repaired: each later run of the job is refused by
CFS at the same call, and what is owed or paid in CFS stays different from the
tables until someone intervenes (`EFTTask_half_done.cfg` finds that
`StepRegained` fails). This and four other counterexamples are in section 11. Also in the model, without a statement in the repository that they contradict:
a declined short name refund refills the oldest credit that is not full,
which may be one an invoice holds, and that invoice's cancellation then raises
for ever (`EFT_CREDIT_AMOUNT_UNEXPECTED`, which is why `CreditBounds` holds);
two short names linked one after the other may both have links pending on an invoice, which then
rolls up to more than its total; when CFS refuses the refund of an invoice
whose cancelled links roll up twice in different ways, one item succeeds for
the other; a job killed before `unlock_overdue_accounts` leaves an account
locked that owes nothing (so `LockedOwes` is not checked with `JobsMayDie`);
an invoice that becomes overdue again after its statement was
notified does not lock the account.

### Fairness

Weak fairness of the steps of a transaction: a request runs to its end.
Strong fairness of the job's steps and, for each invoice, of the start and of
the end of its items: cron starts the jobs every day (CFS invoices 19:00, EFT
20:00, statement due 02:00), an item that failed is listed again, and neither
are the first calls lost for ever nor does every commit fail. That a call is not
lost does not mean that CFS does what it asks: it refuses what it has done
before, and the start of the item is then to skip it. Nothing is assumed of
requests.

## 4. The account book: `EFTLedger`

The abstract specification has a page per short name: what is `free`, what each
invoice `held`, what is `out` as refunds. Its entries are `Deposit`, `Pay` (the whole
total of a set of invoices, or nothing), `Return` (the whole of a set of invoices),
`PayOut`, `PutBack`. The refinement mapping takes `free` from `remaining`,
`held` from the links and `out` from the refunds. `eft_core` checks that every
step of the requests, their loops, rollbacks and the jobs is an entry or a
stutter: in particular no commit leaves an invoice paid in part,
and the jobs, which move statuses, move no money.

## 5. Credit cards: `PaymentTransaction`

### State and actions

| variable | in the program |
|---|---|
| `inv`, `refs` | a DIRECT_PAY invoice's status; the statuses of its references |
| `payments`, `txns` | rows of `payments` and `payment_transactions` |
| `receipts` | the orders whose receipts are saved for the invoice |
| `order` | external: the orders in PayBC, one per invoice and some of other invoices |
| `released` | how often the queue was told that the invoice is paid |
| `task` | what each request, deleting thread and the job is doing, with the row it read |
| `pass`, `stale`, `unverified` | the pass the stale job is in, and its lists |

`CreateTransaction` looks up the payment and the active transaction,
`CreateEnd` cancels that one and inserts a new one, so two requests can insert two
(and two payments). `Update` begins `update_transaction`; `GetReceipt` and
`PayBCUnavailable` are PayBC's answer; `UpdateWithReceipt`, `UpdateUnderpaid` and
`UpdateWithoutReceipt` write. Which order PayBC is asked for depends on the
request: without a URL it is that of the invoice's reference; a URL names the
order it came back from, and nothing compares the two (`direct_sale_service.py:316`),
so `PatchTransaction` may ask for the invoice's own order, for one of `Others`
(paid orders of other invoices), or, when the URL names none or its hash is
wrong (310, 323), for none at all. The receipt is that of the order asked for,
with its amount: if that is less than is owed, only the transaction becomes
COMPLETED. Columns are written as SQLAlchemy writes them: if
the new value differs from the one read (`Written`). The write of a receipt is
atomic because its first flush locks the rows of the payment and the invoice, and
the query for the reference comes after it. `AcceptDelete`, `DeleteStart`, `DeleteCheck` and `DeleteEnd`
are the DELETE request and its thread; `StaleStart`, `StaleItem`, `VerifyStart`,
`VerifyPaid`, `VerifyNothing` and `VerifyEnd` are `StalePaymentTask`. The job
takes any transaction, not only those 30 minutes old, and any CREATED invoice,
not only those of the last days. An order is paid in full or not at all.
Unlocking the account after a payment and line items are left out.

### Properties and runs

* `ReleasedOnce`: however many tasks find the same receipt, one publishes.
* `PaidIsBacked`: a PAID invoice has a receipt of a paid order (its own or
  one that a URL named) of at least its amount, a COMPLETED payment and a
  COMPLETED reference, whatever wrote over what. That the order is its own
  (`PaidByItself`) is so only while URLs name their own orders.
* `CompletedIsPaid`: no payment is COMPLETED for an invoice that waits.
* `PaidIsRecorded`: a paid order does not leave its invoice CREATED. Checked
  without other orders: the receipt of a smaller one completes the
  transaction, and the job passes over it from then on
  (`PaymentTransaction_underpaid.cfg`).

| run | instance | distinct states |
|---|---|---|
| `txn_safety` | two requests and the job, two payments, two transactions, URLs of a smaller and of a larger order, a queue that may fail | 2.1 million |
| `txn_liveness` | one request and the job, two transactions, PayBC and the queue may fail, no other orders, fairness | 55 thousand |

Two transactions and two payments are what the lookups for one row distinguish;
two requests and the job are three writers of one row. Requests are symmetric. PayBC fails in `txn_liveness` only, where it
matters. `CHECK_DEADLOCK FALSE` for the bounds on rows, as above.

Fairness: a task that began goes on; cron starts the job again and again; PayBC
is not down whenever it is asked (strong fairness of its answers).

Also in the model: the deleting thread checks, then writes; a request
that records the receipt in between leaves an invoice that was paid and
released DELETED, with its payment DELETED. `PaidIsBacked` says what still
holds then. The opposite order, a receipt recorded after the deletion, makes the invoice
PAID with a new reference, which `UpdateWithReceipt` is written for.

## 6. EFT deposit files: `EFTFile`

### State and actions

| variable | in the program |
|---|---|
| `sftp`, `bucket` | external: files on the bank's server and in the bucket; a file has lines, and may be malformed |
| `poll` | what `poll_ftp` does next, with the files it listed |
| `messages` | messages that no worker has answered |
| `files` | rows of `eft_files`, each with its `eft_transactions` |
| `credits`, `spent` | `eft_credits` by file and line; what was paid from each short name |
| `accounts` | what an account owes on statements; whether a payment of it is pending |
| `worker` | per worker: the file it read, the row, the next line, the short names it goes through |

`PollCopy`, `PollMove` and `PollPublish` are the three steps of the poller, and
`PollerDies` comes between any two. `Receive` reads the file and its row,
`Claim` commits it as IN_PROGRESS, `SaveTransaction` commits a line,
`CompleteTransactions` the transactions with their credits, `Finalize` the
file; `Reject` and `Fail` are a malformed file, a line that cannot be parsed
and an error with a credit. After that come the automatic payments: `PassOver`,
`AutoPay`, `ApplyRaises`, `Finish`. `WorkerDies` loses what is not committed
and leaves the message. `Bill`, `StaffPays` and `EftJob` are the rest of the
system, as far as the credits see it (section 3 has it in full).

### Properties and run

* `BooksKept`: the credits of a short name are what remains of them and what
  was paid from them; no delivery gives back what was spent.
* `CreditedAsWhole`: a line has a credit of its amount exactly if its
  transaction is COMPLETED; a file that failed, and may be sent again, has
  credited nothing; the deposits of a file are credited once.
* `SentIsSettled`: a file that arrives becomes COMPLETED or FAILED, also with
  lines that cannot be parsed, unless the poller or a worker died, the bucket
  could not be read, or the content is one that raises in the handler
  (`WellFormed`): no text, or with a line of another length.

`eft_file` (256 thousand states): two files, two transmissions, two workers, one
death or failed read, one statement; a file has one or two good lines, a line that
cannot be parsed, a description without pattern, a line of another length, no
trailer, or is no text. Two
transmissions are one file that failed and comes back corrected, or two files
of the same short name. With two workers one message is redelivered while the first
worker still has it. `CHECK_DEADLOCK FALSE`: after the last transmission
everything is done.

Fairness: the poller runs every day (weak fairness of its steps), and a message
is pushed until somebody answers (weak fairness of the workers' steps: some worker
goes on, which is enough, as there is an end to what there is to do).

### What the code does

* The poller moves a file away before it announces it (`eft_poller_ftp.py:72-92`):
  if it dies in between, the file is never announced.
* The row is IN_PROGRESS before anything else is done
  (`eft_reconciliation.py:130`) and redelivery skips such files (117): a worker
  that dies leaves the file IN_PROGRESS for good, and if it dies after 461 its
  credits are there.
* A line of another length is left without its dates (`eft_record.py:72-74`), and
  `eft_reconciliation.py:433` raises on it (`SaveRaises`). The worker logs what is raised and
  answers 200 (`worker.py:63-66`): the file stays IN_PROGRESS for good with nobody dead (section 11).
  A content that does not decode (107) and a bucket that cannot be read (106,
  `ReadFails`) lose the message in the same way, before there is a row.
* There is no unique constraint on the name of a file: two deliveries that
  read at the same instant make two rows. `Racing` allows that; the run excludes it.
* A pending payment (232-235) and a payment that fails (251) both raise in the
  handler of the exception, which reads `.id` of a dictionary or passes an argument that
  does not exist. The remaining short names of the file get no automatic payment (`ApplyRaises`).
* Lines of an EFT and a WIRE short name with the same name share a credit's
  short name (524; section 11).

## 7. CAS settlement: `CasSettlement`

### State and actions

| variable | in the program |
|---|---|
| `inv`, `refs`, `receipts`, `refunded` | invoices, those for fees of returned debits included; their references by CFS number; receipts; `refund_date` |
| `account` | status of the CFS account and `has_nsf_invoices` |
| `payments`, `nsf` | rows of `payments`; numbers with a row in `non_sufficient_funds` |
| `cfs`, `site` | external: invoices of CFS with what they bill, fee adjustments; the receipt method of an account |
| `files`, `settlement` | the files and their rows; rows of `cas_settlements` |
| `work`, `bill`, `paying` | where the worker, the invoice job and `update_transaction` of a card payment are |

`BillPad`/`BillPadEnd` and `BillOnlineBanking` are the CFS invoice job;
`BillLost` is the case where CFS creates the invoice and the answer does not arrive.
`Debit`, `Return`, `RepeatReturn` and `Deposit` are CFS and the bank, which
write rows into files. The worker claims a file (`Receive`) and handles a row
per step: `ProcessConsolidatedPaid`, `ProcessUnconsolidated`, `ProcessFailed`,
`ProcessDuplicate`; a returned debit takes
three more commits, `SaveNsf`, `SaveNsfReference` and `AdjustNsf`; then
`CreatePaymentRecords`. `WorkerDies` between any two, `Restart` when somebody
removes the row of `cas_settlements`.

A frozen account retries what failed. One number is paid by card as it is
(`RetryPayment`); several are reversed in CFS one by one, then billed as one under
`<id>-C`, where id is that of the last invoice of a query without order
(`CreateRetryPayment`; `ConsNumber`). The request commits at its end only, so that its
calls of CFS are what can come apart: `RetryBreaksOff` reverses some of the numbers, any
set of them, and the tables stay as they were, either because CFS refuses a call
(loss "call") or because it must (`Refused`: a number has no balance left to reverse, or
the new number is taken by an invoice of another total, `CFS_INVOICES_MISMATCH`).
`RetryLost` is the case where CFS bills them again and the answer is lost. Then
`PayByCard` pays, `UnlockFlag` and `UnlockStatus` are the two commits that
unlock the account, and `RequestDies` comes between them. That CFS refuses to reverse an invoice
without balance is an assumption about CFS, which is not in the repository.

### Properties and run

* `InvoicesAgree`: status, receipts and active references of an invoice agree,
  however often its row is processed.
* `CfsOwesOnce`: an invoice is billed by one CFS invoice in force, a return costs one fee.
* `ReturnsAreSettled`: when the files are settled, a frozen account has a
  payment that it can pay by card, and what a returned debit had paid is owed again.
  "Can pay" (`CanPayByCard`) asks CFS as well: it must have a balance under every number to be
  retried, and no other invoice of the new number. It leaves out refused calls and a
  consolidation that is to be consolidated with others again; for
  both there is a counterexample to `AlwaysPayable` (section 11).
* `FileFinishes`: no row makes the worker give up the file when nothing was lost.
* `PaymentsStand`: PAID invoices and card payments are changed by nothing but a
  refund and a return.

`cas_settlement` (1.55 million states): one account, two invoices, PAD and
online banking, four rows in files, one restart, one
loss out of six kinds (`Losses`). Consolidations are not bounded: each invoice has a
consolidated number of its own, and a second one meets the first. Four rows are a debit and a
return for each invoice. With one account everything that the account shares is
contended; accounts share nothing but files. One loss at a time: each property names
the losses that it does not survive, and two add none.
`CHECK_DEADLOCK FALSE`: the files end.

### What the code does

What the exceptions of the properties stand for:

* A second return on an account that is frozen already is dropped
  (`payment_reconciliations.py:727-735`); what it paid stays paid.
* A return that is repeated, or restarted with its file, overwrites a completed
  card payment with FAILED; the restart may leave two failed records for a number.
* A worker that dies between the commits for the fee, the reference and the adjustment
  leaves an account without its lock event or CFS without the fee.
* A return for a number with no active references raises, and aborts the file.
* A card payment between a return's row and the recording of payments
  unlocks an account which still owes; files out of order leave a frozen account nothing to pay.
* A request that dies between the two unlocking commits leaves the account FREEZE without its flag.
* A consolidation that ends after its first reversal (`payment.py:548`) leaves CFS with reversed
  invoices and the tables as before; each later attempt begins by reversing the same number again.
* The number of a consolidation is made of an invoice id without a time (`payment.py:427,554`): when it is
  consolidated with a later return and the same invoice comes last, the new number is its
  own, with another total, and the request raises after its reversals.
* If CFS creates an invoice but its answer is lost, the next billing makes another
  one when an invoice was cancelled in between; an online banking invoice stays CREATED for ever.
* A second partial deposit has no payment record; a partial row processed again adds another receipt.
* The refund of an APPROVED invoice whose reference is ACTIVE makes it CREDITED, and
  the row of its debit PAID.

Left out: rows of wires, credit memos, adjustments and on-account
receipts, a second worker, and the request that pays the outstanding balance of an account
without failed payments (`_consolidate_invoices_and_pay`, which does add the time to its number).

## 8. Journal vouchers: `EjvPayment`

### State and actions

| variable | in the program |
|---|---|
| `inv`, `refunded`, `refs`, `receipt` | invoices of a government account, `refund_date`, references in order of creation, lines that the receipt adds up |
| `stopped` | `stop_ejv` of the distribution code |
| `job` | what `EjvPaymentTask` has read and not yet committed |
| `files`, `worker` | `ejv_files`, `ejv_links`, their feedback; the feedback being processed |
| `gl` | external: what CGI has posted |

`ReadInvoices`, then `UploadAndCommit` or `UploadAndDie`: the file is in CGI's
folder before the commit (`ejv_payment_task.py:237`). `Post` is CGI, which may post any
part. `ReceiveFeedback` commits that the feedback arrived, `ProcessFeedback`
the rest. `Refund` and `RefundPartially` come at any time.

### Properties and run

* `LedgerMatchesInvoices`: charged once at most; a PAID invoice is charged and
  its receipt is for all of it; the charge of a REFUNDED one is reversed; a
  CANCELLED one is not charged.
* `ActiveIsInFlight`: an ACTIVE reference, which keeps an invoice out of further
  files, is that of a file whose feedback is to come.

`ejv_payment` (235 thousand states): two invoices of two lines, four files, two of which
may fail in part, one loss. Four files are a charge, its failure, another
charge and a reversal. `CHECK_DEADLOCK FALSE` for these bounds.

### What the code does

* The lines of a reversal are written (140-173) before it is known whether
  there is anything to reverse (197). A charge that was never posted is
  credited, and a reversal without a reference is in every file from then on (section 11).
* The feedback of a charge whose invoice was meanwhile refunded is read as that
  of a reversal (`cgi_reconciliations.py:376`, 407; section 11).
* A partial refund is REFUND_PROCESSED from the start (`refund.py:480`: a
  substring test, `in` a string); no file takes it up.
* Without the commit, CGI posts a file whose number is unknown, and the next run sends it all again.
* An invoice refunded between read and commit is CANCELLED, charged, and then PAID.
* If the worker dies after the feedback's name is committed, the feedback is skipped for ever.

## 9. Partner disbursements: `Disbursement`

### State and actions

`kind` (payment method, and whether the partner has a GL of another ministry,
one of the same, or none), `inv`, `eft` (links to credits), `partial` (its partial refund),
`recent` (receipt too new), `disb` (the `disbursement_status_code` of
invoices not paid by EFT), `rows` (`partner_disbursements`, in order), `stopped`,
`job`, `files`, `worker` as in section 8, `money` (external: what the partner has got).

`ApplyCredits`, `UnapplyCredits`, `Pay`, `UndoPayment`, `Refund`,
`RequestPartialRefund` and `DecidePartialRefund` write rows as
`PartnerDisbursements` does; `ReadDue`, `UploadAndCommit`, `UploadAndDie` are
the distribution task and the AP task; `Post` is CGI; `ReceiveFeedback`, `ProcessFeedback`,
`FeedbackRaises`, `WorkerDies` the worker on the feedback of journals, which is marked
before it is processed and skipped when it comes again (`cgi_reconciliations.py:89`).
`ProcessApFeedback` is the worker on that of AP files, which has neither mark nor check:
it is processed in one commit each time it is delivered, and may be delivered again at any
time. A file that holds both is one of each.

### Properties and run

* `MoneyFollowsInvoices`: when nothing is left to send, the partner has its
  share of a PAID invoice, and nothing of one that was refunded or is unpaid again; never two shares.
* `PaymentsAndReversalsAlternate`: the rows in force of an invoice are payment,
  reversal, payment, ...
* `SentIsOnRecord`: a line is in a second file only if the first failed, and
  no row that was sent is cancelled.

The first and the last name what was `lost`: an upload without its commit, a worker that
died over a journal's feedback, a row cancelled under the job, and `redelivery`: an AP
feedback that comes again *and overwrites a status that came later*. It can only be one
with a failed line that was sent again since. Every other repetition is covered; this one
pays the partner twice (section 11).

`disbursement` (1.1 million states): one invoice with up to four rows
and four files, one failing, one loss; and two invoices that meet in files, in
`stop_ejv` and in the worker, in two files with no loss (`TwoInvoicesBound`). Four rows are paid,
unpaid, paid, unpaid. `CHECK_DEADLOCK FALSE` for these bounds. Decision: the
statuses of refunded invoices are one, as the code treats them alike.

### What the code does

* An ERRORED reversal overwrites the disbursement status and is never picked up
  again. A row of `partner_disbursements` that is ERRORED is never sent again, but its reversal is
  made (`partner_disbursements.py:77`).
* The query for rows joins the line items (`ejv_partner_distribution_task.py:443-457`):
  an EFT invoice with n line items is disbursed n times (`SentByRow`).
* For partners under client code 112 the credit line passes for a reversal:
  REVERSED instead of COMPLETED (`cgi_reconciliations.py:450`). The message for
  an unknown row calls `current_app.logging.error` (436), which does not exist: the feedback is aborted.
* Refunds are not taken back from partners without a GL; their EFT invoices are not disbursed at all.
* `stop_ejv` matters only where partners are selected. A declined partial refund's row waits for ever.
* A row that the job has read and a request cancels is overwritten with UPLOADED, and never reversed.

## 10. Routing slips: `RoutingSlip`

### State and actions

`slip` (status, parent, total, remaining amount, `cas_version_suffix`, status of
its CFS account, refund), `inv`, `receipts` (rows by invoice), `cas` (external:
receipts, what is applied to which invoice), `cheques` (external: what CGI pays out).

Requests: `Create`, `CreateInvoice`, `RefundInvoice`, `Link`, `UpdateStatus`,
`ReportNsf`, `Void`, `Correct`, `RequestRefund`. Jobs: `CreateCfsAccount`,
`CreateCfsInvoice`, `CancelInvoice`, and one pass per status: `LinkInCfs`,
`VoidInCfs`, `NsfInCfs`, `CorrectInCfs`, `Adjust`; `UploadRefunds`, `RefundFeedback`.
A pass calls CFS several times and commits last. Where it breaks off (`failures`),
what CFS has done stays done, and what the handler has set on the session is
lost (the job died, or nothing was committed after it) or goes to the database
with the next slip's commit. Modelled are, for each pass:

| pass | where it may break off |
|---|---|
| `CreateCfsAccount` | after the receipt was created (the rollback forgets the account) |
| `CreateCfsInvoice` | at any receipt: the others are applied; at the end |
| `CancelInvoice` | after any of the receipts was unapplied |
| `LinkInCfs` | after the reversal, after the new receipt; for an NSF parent after any part of its payment |
| `VoidInCfs`, `NsfInCfs` | after the slip's receipt and any of those of its children were reversed; for an NSF also around the fee |
| `CorrectInCfs` | after the reversal, after the new receipt, each with the suffix committed or not; after any part of the payment, with the invoices reset or not |
| `Adjust` | after any of the receipts was adjusted |
| `UploadRefunds` | after the upload: `UploadRefundsAndDie` |

A call to apply a receipt that fails is only logged: the pass then goes on and
commits with that receipt left out (`failed`), and this is counted in `failures`
too. A break-off before the first call, or in one that CFS did not carry out,
is a pass that did not happen. CFS is not modelled to answer one call twice.

### Properties and run

* `ReceiptsFollowSlips`: the money of a slip is in CFS once; a void takes back the family's receipts.
* `AmountsFollowStatus`: what a slip offers is in CFS; one with NSF owes all that it had paid; a refund is
  final and one cheque, and one more for each pass that died after its upload.
* `PaidCanBeCancelled`: the receipts of a paid invoice are what CFS has applied, so that
  its refund can go through.
* `BalanceKept`: no step makes the remaining amount drift from what came in less what was spent and refunded.

`routing_slip` (240 thousand states): two slips of 2 (symmetric), invoices of 1 and
2, of which two (NSF fees included), corrections down to 1 and up to 3, one pass that breaks off, four events. Two
slips are a parent and a child, and four events two invoices and two changes of status. `CHECK_DEADLOCK FALSE` for these bounds.

Assumed of CFS: it refuses to reverse a receipt that does not exist or is
reversed, to create a number twice, and to unapply from a reversed receipt. Left
out: invoices of zero, the completion of write-offs, and requests that read and write the
remaining amount at once (no lock protects it).

### What the code does

* A parent that is NSF when the job handles a child's link becomes ACTIVE
  (`routing_slip_task.py:98-103`), and its NSF is never processed.
* A slip that was corrected, then linked, keeps its receipt (section 11).
* The refund endpoint takes slips of any status: it turns an NSF into ACTIVE and drops a
  correction. An approval without a request leaves a `refunds` row with no slip, on which the AP job breaks off.
  Slips with such rows (`asked`) are exempt in the properties.
* A slip whose refund was sent can be linked: its total is created again on the parent.
* The fee of an NSF is committed before CFS is called; after a failure it is not tried again.
* A correction that breaks off after the reversal never gets through: the receipt cannot be reversed again,
  and invoices that were reset wait as CREATED for a job that takes only APPROVED ones (`_create_rs_invoices`).
  A void that breaks off or has a child that was not moved yet, and a refund that CGI rejected, never complete either.
* The cheques are uploaded before the slips are committed (`ap_task.py:430-432`); a job that dies in between
  sends them again (section 11).
* `_process_ap_header_routing_slips` has no check for a file that is delivered again. It repeats the status, which
  matters only if the slip was linked to in between; this is not modelled.
* A correction deletes the `receipts` rows of the children too.

## 11. Counterexamples

Two contradict a statement of the repository and are findings in `PROJECT.json`:

| configuration | property | what happens |
|---|---|---|
| `EFTTask_refund_stuck.cfg` (run `eft_refund_stuck`) | `RefundCompletes` | Pay, cancel, pay again before the job runs, then refund: two cancelled groups roll up to twice the total, and the filter of `eft_task.py:132` drops them. The invoice is not among those without links either, and stays REFUND_REQUESTED. |
| `EjvPayment_refund_in_flight.cfg` (run `ejv_refund_in_flight`) | `RefundedByReversal` | An invoice is refunded while the file that charges it is with CGI: the feedback of the charge makes it REFUNDED, and no reversal is ever sent. |

The others show why a property is stated as it is. Each of these runs ends with the violation:

| configuration | property | what happens |
|---|---|---|
| `EFTTask_partial.cfg` | `PartialRefundMatchesMemo` | An invoice paid from two credits: a partial refund of 1 returns 1 to each, as `remaining_refund_amount` (`eft_refund.py:128`) is never reduced; the memo in CFS is for 1. |
| `EFTTask_cancel_race.cfg` | `PaidIsFunded` | A cancellation commits while the job creates the receipt; the job reads the links again, skips the cancelled one and marks the invoice PAID: a receipt in CFS, the credit given back. |
| `EFTTask_refund_race.cfg` | `PaidRefundCompletes` | A refund commits while the job reverses the receipt of the same invoice in CFS; the job then writes APPROVED over REFUND_REQUESTED (`eft_task.py:424`), and the invoice is owed again. |
| `EFTTask_stale_list.cfg` | `RefundReachesCfs` | An invoice is refunded between the query of the CFS invoice job and its turn (`cfs_create_invoice_task.py:432-438`): it is created in CFS, and nothing takes it back. |
| `EFTTask_half_done.cfg` | `StepRegained` | The job issues a receipt in CFS and its commit fails. Each later run is refused, as the number exists, and the invoice stays paid in CFS and unpaid here. |
| `PaymentTransaction_lost_release.cfg` | `ReleaseEventually` | Publishing fails; EVENT_FAILED and the COMPLETED reference are committed together, and the retry looks for ACTIVE references: it finds none, publishes nothing and marks the transaction COMPLETED. `test_payment_transaction.py:531` looks only at the status. |
| `PaymentTransaction_other_order.cfg` | `PaidByItself` | The URL of a paid order of another invoice comes with a transaction of this one: it becomes PAID with that receipt. The hash says that PayBC made the URL, not whose it is, and is looked at only if the URL says approved. |
| `PaymentTransaction_underpaid.cfg` | `PaidIsRecorded` | The same with a smaller order: the transaction is COMPLETED and the payment is not. The invoice's own order is paid, but neither the job nor a PATCH looks at a COMPLETED transaction again. |
| `PaymentTransaction_delete_forgotten.cfg` | `DeleteConcludes` | `accept_delete` marks `payment_status_code` of an invoice, which is no column; `_delete_marked_payments` never finds anything. |
| `CasSettlement_broken_off.cfg` | `AlwaysPayable` | Two returned debits; CFS refuses a call after it reversed the first. The request is rolled back here only, and no later one gets past the number that is reversed. |
| `CasSettlement_renumbered.cfg` | `AlwaysPayable` | Two returned debits are consolidated, a third one comes: the consolidation of all may get the number of the first, whose total differs. |
| `EjvPayment_never_posted.cfg` | `ReversedIsCompleted` | A reversal is sent for a charge that has no completed reference, against the comment at `ejv_payment_task.py:197`. |
| `Disbursement_redelivered.cfg` | `PaidOnceWhateverIsRedelivered` | An AP line fails, is sent again, and the feedback of the failure is delivered a second time: `cgi_reconciliations.py:608` writes ERRORED over UPLOADED or COMPLETED, the invoice is due again (`ap_task.py:284`), and the partner is paid twice. |
| `RoutingSlip_linked.cfg` | `LinkedIsReversed` | `routing_slip_task.py:77-79` reverses the receipt with the slip's number; that of a corrected slip has a suffix and stays, beside the one of the parent. |
| `RoutingSlip_cheque_twice.cfg` | `OneCheque` | The file of refunds is uploaded and the job dies before the commit of `ap_task.py:432`: the slips are still REFUND_AUTHORIZED with a refund amount (`ap_task.py:215-216`), and the next run sends the cheques again. |
| `EFTFile_wrong_length.cfg` | `WhateverIsSent` | A line of another length, or a content that does not decode, raises in the handler and the message is answered: the file stays IN_PROGRESS, or gets no row, and nobody looks at it again. |
| `EFTFile_shared_name.cfg` | `CreditedToPayer` | An EFT and a WIRE line of one name: both credits go to the short name of the last line. |

## 12. Mutants and proofs

Each property is checked to fail when the code is changed: the definitions
named `...Always`, `...Never`, `...Kept` and so on, marked "Mutant", are the
changed forms. They are used in no specification. A property that is a
conjunction has a mutant for each of its parts.

### Proofs of EFT: `EFTTaskProofs`

For any number of short names, accounts, credits, invoices, statements and
refunds, any amounts, and with or without overlap, failing CFS and dying jobs:

* `TypeCorrect`: `Spec => []TypeOK`
* `CreditsBounded`: `Spec => []CreditBounds`

Assumptions: `EFTConstants` and `JobConstants`, which TLC evaluates on each run.

`CreditBounds` is not inductive. A request works on copies of the tables and
commits them, so the copies must be bounded too; the amount that a return
adds is checked against the deposit (`FitsCredit`), but a take is bounded only
if the link's amount is a number and no more than what the credit holds; and a
credit that has not arrived must not be touched by the loops. The inductive invariant `IInv`
adds to `TypeOK`: invoices with no links are not paid by any; what remains is
within bounds (`Bounded`), links are of credits that were deposited
(`OnDeposits`), the same for the copies in an open transaction (`GoodTxn`), and
the job's item has links. There is a lemma per action (`...Good`), `InitGood`
and `NextGood` gather them, and `Invariance` is the induction. TLC checked
`IInv` as an invariant first.

### Proofs of credits and links: `EFTTaskProofs`

From the same assumptions:

* `NoDoubleReturns`: `Spec => []NoDoubleReturn`
* `MoneyIsConserved`: `Spec => []MoneyConserved`
* `LocksAreOwed`: `Spec => []LockedOwes`, assuming `~Overlap` and `~JobsMayDie`
* `RefundsReleaseCredits`: `Spec => []RefundReleasesCredits`, assuming that all
  deposits come from one short name

Nothing in the code asks, when a link is returned, whether it was returned
before: a request looks only at the latest group of links of an invoice. That
this is enough follows from the order of the links (`LinksInv`). The links one
request makes for one invoice have a group of their own, and share status and
receipt (`Siblings`, `Alike`) also when the job updates them; later groups have
larger ids. COMPLETED links differ in invoice, credit or receipt; a return
comes in a later group than the COMPLETED link whose receipt it carries; PENDING
links have no receipt, and no receipt is the id of a PENDING link, so the
receipt that the job gives to links is new. A request keeps all this on its own copy of
the links: what is in `txn.todo` is of one receipt for each invoice, of latest
groups, and has no return yet. The item of the job may be older than the links
it updates: `JobLinks` says what may have happened to them since, which is that they
were cancelled, and as a whole group.

For the money, `MoneyInv` states the sum over credits, refunds and links for the tables
and for the copies of the open request, to which it adds what this request has
still to deduct or to put back (`Rest`), and says that what it has to take is there
(`need` is at most the balance while no invoice is being paid). Each
loop step moves an amount from one term to another (`MoneyMoves`), the job changes the
status of links and not their weight in the sum (`HeldUpdated`). That a sum
changes as one of its terms does is by the lemmas of `SumTheorems`.

Without its hypotheses `LockedOwes` is false: a job that is killed forgets the
accounts it noted; and with overlap the statement due job can make an invoice
overdue, and lock its account, after the EFT job looked at the invoice and before
it writes PAID, so that the account is not among those to unlock. CFS may refuse
any call. The invariant (`LocksInv`) says, while the job links, that a locked
account owes or is noted, that the account of the item in hand is noted if its
invoice is overdue, and that every item on the list is still a rollup, since one
that vanished would end the job before it unlocks. The last holds because
each invoice is on the list once: the links of the list are PENDING, and PENDING
links have no receipt, so no two items of an invoice differ. In the other
passes no item has an overdue invoice; and no request makes an invoice cease to be
overdue, as a refund refuses one.

The last part of the module is about refunds, with requests between the steps of the job,
partial refunds, calls to CFS that fail and jobs that die, but deposits of one short name.
That hypothesis is needed, even without overlap. If the short name of an account is unlinked
and another one linked while the payment of an invoice is pending, paying it again cancels no
links of the first (`apply_eft_credit` cancels those of its own short name), and
a refund, which undoes only the group of the latest link, leaves these pending. TLC finds this within
seconds for two short names with one deposit each.

The invariant (`ReleaseInv`, with `IInv` and `LinksInv`) says of every copy of the links
that the latest group of an invoice decides. A link is in force if it is of that
group and PENDING or COMPLETED (`InForce`); all others have given back what
they took (`Nets`, a sum, but for an invoice with a credit memo, from which a
partial refund returned less than it took), and what waits for the job is of the latest group (`Waits`).
An invoice that is gone has no link in force, and one that is owed none
that was completed (`RowSays`). For a request in progress all this is meant
but for the links it has still to undo, and it undoes the latest group as a whole
(`WholeWork`). What makes it hold with overlap is that the job's late writes agree with
it. The item in hand may be older than the links, but a reversal that is to return its
invoice to those owed started when nothing completed was left of it, and no request
changes that (`LeavesQuiet`), for an invoice that is neither owed nor has
a completed payment can be neither paid nor reversed; and every return that
waited was rolled up, as the latest group has one receipt (`ReturnsTogether`). An item of cancelled links,
whose invoice may by then have been refunded, is the last of its invoice on the list
(`LastKey`), because the job takes the returns first. The
lemmas `...Release` take the actions one by one; the end of an item is a change of status and receipt
under which weights and forces are kept (`Renewed`).

### Proofs of the account book: `EFTLedgerProofs`

For any number of short names, accounts, credits, invoices and statements, whatever CFS
refuses and whenever a job is killed, assuming `~Overlap` and `PartialAmounts = {}`:

* `LedgerIsImplemented`: `Spec => ImplementsLedger`, the refinement of section 4
* `PaidIsAlwaysFunded`: `Spec => []PaidIsFunded`

Both hypotheses are needed. With overlap a cancellation may commit while the job
creates the receipt (`EFTTask_cancel_race.cfg`); a partial refund leaves an
invoice paid in part, which the book has no entry for. `eft_core` checks one short
name, undisturbed; the theorems also hold for several that pay the same invoice, for failing
CFS and for dying jobs.

The invariant (`BookInv`, with `IInv`, `LinksInv` and `MoneyInv`) reads the links of
an invoice as a page of the book. What the pending links ask of a short name (`Asked`)
and what the other links took and did not return (`Done`) are each the whole total or
nothing (`AllOrNothing`, `Wanted`), at most one short name has paid (`OneHolder`), the
latest completed group is a whole payment (`Stands`) and a return that waits
for the job comes last (`Reversing`); `Books` adds what the status of the invoice
says of its page. It is inductive only with what a request still has to do. Its
copy of the links may be half changed, so `TxnBook` says how it differs from the table: by links of
its short name only (`Frame`), and, for each of the three kinds of request, what is
missing. One that pays has enough for all invoices still due, because
`apply_payment_action` compares the balance with their sum first (`Paying`);
one that undoes has each invoice either untouched or all its links
to do (`Undoing`); one that refunds a short name changes no link (`Refunding`). The job's
lists are older than the tables, but with `~Overlap` only the job itself has changed these
since (`LinkBook`, `ReverseBook`). The lemmas `...Book` take the actions one by
one.

For the refinement, the entry of a commit is found by comparing the working copies with the tables
(`CommitPays`, `CommitReturns`): every invoice stays as it is, or its page goes from
nothing to the total, or from the total to nothing. The invoices of the second
or third kind are the set `I` of the entry `Pay` or `Return`, `HeldMoved` turns their
pages into a sum, and `MoneyInv` gives from it what the balance fell or rose by, and that
it was there. Of a request for a refund what goes out or comes back follows from the sum alone.
A deposit is an entry of its own; every other step leaves the three mapped
values as they are (`LedgerKept`, `ValuesKept`).

The last part of the module is about receipts in CFS. For any number of short names, accounts, credits,
invoices and statements, with items that fail or break off at any of their calls and jobs that are killed,
assuming `~Overlap` and `PartialAmounts = {}`:

* `LinksAlwaysReflectCfs`: `Spec => []LinksReflectCfs`

The property makes an exception of an invoice of which an item broke off: CFS is told at the start of
an item and the tables change at its end, so an item that ends in between, by
an exception, a failed commit or a killed process, leaves a receipt without a completed link or the reverse.
What the theorem adds is that nothing else does: no order of payments, reversals, refunds and
payments again, no call that CFS refuses outright, and no item that broke off for another
invoice. With overlap a cancellation may
commit while the job creates the receipt, for links that then stay CANCELLED, and TLC finds a counterexample.
After a partial refund the property says less (its `memo = 0`), and the
theorem leaves it out, as `BookInv` does.

The property compares CFS with the links, and the code compares neither: both passes of the job go by the
reference of the invoice. The invariant (`CfsInv`, with `IInv`, `LinksInv` and `BookInv`)
therefore goes through the reference: it is COMPLETED exactly when CFS holds a receipt,
but for the item in hand and for an invoice in `brokenOff` (`Agreed`), and exactly when a completed link stands (`Referenced`), that is, no link was
refunded from its receipt (`Standing`). The second is a matter of the history of the links. The links of an
invoice that stand have one receipt, and neither its latest payment nor anything that waits to
be returned carries a receipt returned before (`Receipts`). Then refunding one receipt
leaves none (`ReversedReceipts`): the completed links it was for had the only one that
stood, and a payment later than they does not exist, as what is returned comes last
(`Reversing` of `BookInv`). A payment gets a receipt that no completed link has, and each return carries the
receipt of a completed link, so it stands at once (`LinkedReceipts`). `ItemReceipt` keeps between start and end
of an item what CFS was told and which links will be refunded: all of the
receipt, or only cancelled ones, which stay as they are. For a request, `TxnReceipts` says that what it will mark as
PENDING_REFUND was not returned before. The lemmas `...Cfs` take the actions one by one. TLC
checked the invariant with two short names, failing calls and items that break off.

### Proofs of credit cards: `PaymentTransactionProofs`

For any number of invoices, payments, transactions and requests, whether or not
PayBC and the queue may fail, and assuming only `TransactionConstants`:

* `TypeCorrect`: `Spec => []TypeOK`
* `ReleaseOnce`: `Spec => []ReleasedOnce`
* `PaidBacked`: `Spec => []PaidIsBacked`
* `PaidByOwnOrder`: with `Others = {}`, `Spec => []PaidByItself`
* `CompletedPaid`: `Spec => []CompletedIsPaid`

None of the three properties is inductive, because a task writes what it decided
from rows that others may have changed since. `IInv` adds what makes the late
writes harmless. A task works on rows that exist, and on a payment of its
invoice; it asks for the order of that invoice or one of the others, and if it
carries a receipt that order is paid (`GoodTask`). An invoice is
CREATED exactly as long as it has an active reference, and one that was released
has a completed reference and no active one (`InvoicesAgree`): this is why the
duplicate check of `_update_receipt_details` lets only one release through, and
also why the retry of `PaymentTransaction_lost_release.cfg` has nothing to publish. Payments
and transactions that have a row refer to rows (`RowsAgree`).

That the tasks of other processes stay good is shown once, from `Grow`: rows do
not vanish, a payment keeps its invoice, receipts are not lost and a paid order
stays paid (`OthersGood`). Steps that only move a task share `StepGood`, steps that write
one transaction `TxnWriteGood`; the two that write several tables
(`CreateEnd`, `UpdateWithReceipt`) and `DeleteEnd` are proved conjunct by conjunct.

### Least members and sums: `SumTheorems`

`SumFunctionOnSet(f, S)` is defined by a recursive function on the subsets of
`S`. The induction theorems of the library take an operator as a
parameter and cannot be used for it, but `WFMin` takes a set: `LeastMember`
follows from it, and from that `SmallestSet`, that of a set of finite sets one is
smallest. Whatever is claimed of a sum is proved by the smallest counterexample: that the
recursive function exists (`SumDef`), that any element may be taken out
first (`SumOut`), and from these the sums of unions, of parts, of two functions
and of a function changed at one element.

### Proofs of deposit files: `EFTFileProofs`

For any files, lines, accounts, workers, deaths and bills, assuming `EFTFileConstants`:

* `TypeCorrect`: `Spec => []TypeOK`; with `Racing` too
* `BooksAreKept`: `Spec => []BooksKept`, assuming `~Racing`
* `CreditedWhole`: `Spec => []CreditedAsWhole`, assuming `~Racing`

`~Racing` says that no two deliveries of a file read its row at the same instant. It
is what the model has in place of the missing unique constraint (section 6), and
`EFTFile.cfg` has it too. The invariant follows the row of a file: a file has one row
(`RowsAgree`); a worker that has read a file that may be written is the only one
(`Reading`), and so is one that writes it (`Writing`); the lines before the next
one have transactions, those after it are left of a failure, and no
credit is of this row (`Saving`). This is why `CompleteTransactions` makes each credit once.
For the books, a payment takes from the credits what it adds to `spent`: credits are taken in order,
`SumAlong` says what remains after each.

### Proofs of journal vouchers: `EjvPaymentProofs`

For any finite set of invoices, any number of lines, files, failures and losses,
assuming `EjvConstants`:

* `TypeCorrect`: `Spec => []TypeOK`
* `ActiveInFlight`: `Spec => []ActiveIsInFlight`
* `LedgerMatches`: `Spec => []LedgerMatchesInvoices`

Each property names in its premise the losses it does not survive. The
invariant says for each status of an invoice in which phase it is (`Phase`):
in no file and not charged, its charge in flight, charged, its reversal in flight, settled.
It is inductive because an invoice is in one file at a time as long as none of its
journals failed. A failed one takes away the completed reference, from then on every
file reverses the invoice again, and all that can be said (`Closing`) is that
nothing charges it any more.

### Proofs of partner disbursements: `DisbursementProofs`

For any finite set of invoices, any number of line items, rows, files, failures and losses,
assuming `DisbursementConstants`:

* `TypeCorrect`: `Spec => []TypeOK`
* `Alternating`: `Spec => []PaymentsAndReversalsAlternate`
* `MoneyFollows`: `Spec => []MoneyFollowsInvoices`

Again the properties name their losses: `race` is a row that is cancelled while the job
has it, `redelivery` an AP feedback that comes again and overwrites a later status; one
that overwrites nothing is a step of the theorem. `ProcessApFeedback` needs an invariant of
its own (`ApSends`): a line of AP is never a reversal. The money of a partner is counted along two paths (`MoneyOf`): the
payment of an invoice by its status and perhaps its reversal (`StatusAgrees`, `LinesAgree`),
and the rows that were posted (`RowsSent`). The rows in force come to one payment
if the latest of them is a payment, and to nothing otherwise (`Proper`); which of them it is
follows the status of the invoice and its links (`RowsAgree`). When nothing is left
to send and nothing failed, what is in force was posted, and the two agree.

### Proofs of settlement: `CasSettlementProofs`

For any invoices, accounts, rows, restarts and losses, assuming `SettlementConstants`:

* `TypeCorrect`: `Spec => []TypeOK`
* `InvoicesAlwaysAgree`: `Spec => []InvoicesAgree`
* `CfsAlwaysOwesOnce`: `Spec => []CfsOwesOnce`
* `PaidInvoicesStand`: `Spec => [][PaidStays]_vars`, the half of `PaymentsStand`
  about invoices

The invariant is about numbers. An item has one number at most under which it is owed or
paid (`OneLive`), and the rest hangs on that: receipts and status follow the
completed reference; an invoice that waits for a number has none
(`Unbilled`, `BillWaits`); a number is that of items of its kind
(`NumbersKept`, `RowsKept`), so that the row of a deposit finds no debits; the row
in `non_sufficient_funds` is there before the fee has a number or CFS its
amount (`FeesKept`, `Returning`), which is why a row that is processed again adds no second
fee; and what CFS asks for is live, or the billing job is about to make it so
(`Referred`), unless an answer of CFS was lost. A consolidation that breaks off only
reverses, which takes nothing from what is live; one that finds its number taken by an invoice
of the same total gives that number to items it may not bill, which is why `Referred` goes from
CFS to the references and not back.

### What is only model-checked

* Liveness under fairness (`SentIsSettled`, `RefundCompletes` and the like), which is beyond the prover.
* Of EFT, `RefundReachesCfs`. It holds with one short name, when requests wait for the jobs and
  CFS refuses nothing: its invariant would join those of `LinksReflectCfs` and of
  `RefundReleasesCredits`, and say besides what each list of the job still owes CFS.
* Of settlement, `ReturnsAreSettled`, `FileFinishes` and the half of `PaymentsStand` about card
  payments. The invariants these need count the rows of a number that are yet to be processed.
* `SentIsOnRecord` of `Disbursement` and the other action properties.
* `RoutingSlip`: its passes fold over slips in an order the database chooses, and
  facts about folds need an induction of their own.

## 13. What is not modelled

* Refunds of card payments with their approval, credit memos and on-account
  credits, the activation of PAD accounts, cheques for refunds of EFT credits:
  they keep state and could be modelled (plan, item 13, begins with the first).
* The generation of statements: interval arithmetic in one process.
* Reports, e-mail, searches, identity and flags (no state of their own), fee and
  distribution arithmetic (sequential lookups), BC Online's adapter, the
  administration tables, migrations, and the pollers of CAS and CGI
  files, which do as the EFT poller does.
