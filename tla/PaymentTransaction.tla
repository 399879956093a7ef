------------------------- MODULE PaymentTransaction -------------------------
(***************************************************************************)
(* Credit card payments through PayBC direct sale:                         *)
(*   pay_api/services/payment_transaction.py  transactions of a payment,   *)
(*   pay_api/services/payment_service.py      deletion of an invoice,      *)
(*   tasks/stale_payment_task.py              the job that catches up.     *)
(*                                                                         *)
(* A browser goes to PayBC with the URL of a transaction and comes back    *)
(* to PATCH it, or does not.  Whoever updates a transaction reads the      *)
(* tables, asks PayBC whether the order was paid, and then writes what it  *)
(* decided; requests, the thread that deletes an invoice and the job do    *)
(* this at the same time, so these are three steps of a task.  The write   *)
(* locks the payment's row and publishes the release of the invoice before *)
(* it commits.                                                             *)
(***************************************************************************)
EXTENDS Integers, FiniteSets

CONSTANTS
    Invoices,       \* DIRECT_PAY invoices, created with a reference
    Others,         \* paid orders of other invoices that a URL may name
    Amount,         \* the amount of each order, that of its invoice
    NumPayments,    \* bound on the rows of payments
    NumTxns,        \* bound on the rows of payment_transactions
    Requests,       \* the requests that may be served at the same time
    StaleJob,       \* the process of StalePaymentTask
    PayBCMayFail,   \* PayBC may be unavailable
    QueueMayFail    \* publishing may raise

ASSUME TransactionConstants ==
    /\ Others \cap Invoices = {}
    /\ Amount \in [Invoices \cup Others -> Nat]
    /\ NumPayments \in Nat
    /\ NumTxns \in Nat
    /\ StaleJob \notin Requests
    /\ {PayBCMayFail, QueueMayFail} \subseteq BOOLEAN

Orders    == Invoices \cup Others
Payments  == 1..NumPayments
Txns      == 1..NumTxns
Processes == Requests \cup {StaleJob}

VARIABLES
    inv,        \* the status of each invoice
    refs,       \* the statuses of its references
    payments,   \* rows of payments
    txns,       \* rows of payment_transactions
    receipts,   \* the orders of the receipts saved for each invoice
    order,      \* the orders in PayBC, one for each invoice and the others
    released,   \* how often the release of an invoice was published
    task,       \* what each process is doing
    pass,       \* the pass the job is in
    stale,      \* transactions the job has still to update
    unverified  \* invoices the job has still to verify

tables == <<inv, refs, payments, txns, receipts, released>>
lists == <<pass, stale, unverified>>
vars == <<tables, order, task, lists>>

-----------------------------------------------------------------------------
(* The tables.                                                             *)

InvoiceStatus == {"CREATED", "PAID", "DELETED"}
RefStatus     == {"ACTIVE", "COMPLETED", "CANCELLED"}
PaymentStatus == {"NONE", "CREATED", "COMPLETED", "DELETED"}
TxnStatus     == {"NONE", "CREATED", "COMPLETED", "FAILED", "CANCELLED",
                  "EVENT_FAILED"}
OrderStatus   == {"NONE", "OPEN", "PAID"}

None == "none"
Payment == [invoice : Invoices \cup {None}, status : PaymentStatus]
\* unavailable: pay_system_reason_code is SERVICE_UNAVAILABLE.
Txn == [payment : 0..NumPayments, status : TxnStatus, unavailable : BOOLEAN]

\* A task. "then" is what follows an update of a transaction; row is the
\* transaction as it was read; asks is the order that PayBC is asked for, and
\* declined what its URL says; listed, whether the invoice was found by its
\* active reference; receipt (the order that is paid) and unavailable are
\* PayBC's answer.
Steps == {"IDLE", "CREATING", "ASKING", "WRITING", "ACCEPTED", "CHECKING",
          "DELETING"}
Task == [step : Steps, invoice : Invoices \cup {None}, payment : 0..NumPayments,
         txn : 0..NumTxns, row : Txn, asks : Orders \cup {None},
         declined : BOOLEAN, then : {"DONE", "CANCEL", "CHECK"},
         listed : BOOLEAN, receipt : Orders \cup {None},
         unavailable : BOOLEAN]

NoTxn == [payment |-> 0, status |-> "NONE", unavailable |-> FALSE]
IdleTask == [step |-> "IDLE", invoice |-> None, payment |-> 0, txn |-> 0,
             row |-> NoTxn, asks |-> None, declined |-> FALSE,
             then |-> "DONE", listed |-> FALSE, receipt |-> None,
             unavailable |-> FALSE]

Init ==
    /\ inv = [i \in Invoices |-> "CREATED"]
    /\ refs = [i \in Invoices |-> {"ACTIVE"}]
    /\ payments = [p \in Payments |-> [invoice |-> None, status |-> "NONE"]]
    /\ txns = [t \in Txns |-> NoTxn]
    /\ receipts = [i \in Invoices |-> {}]
    /\ order = [o \in Orders |-> IF o \in Others THEN "PAID" ELSE "NONE"]
    /\ released = [i \in Invoices |-> 0]
    /\ task = [h \in Processes |-> IdleTask]
    /\ pass = "IDLE"
    /\ stale = {}
    /\ unverified = {}

TypeOK ==
    /\ inv \in [Invoices -> InvoiceStatus]
    /\ refs \in [Invoices -> SUBSET RefStatus]
    /\ payments \in [Payments -> Payment]
    /\ txns \in [Txns -> Txn]
    /\ receipts \in [Invoices -> SUBSET Orders]
    /\ order \in [Orders -> OrderStatus]
    /\ released \in [Invoices -> 0..2]
    /\ task \in [Processes -> Task]
    /\ pass \in {"IDLE", "STALE", "VERIFY"}
    /\ stale \subseteq Txns
    /\ unverified \subseteq Invoices

-----------------------------------------------------------------------------
(* Queries.                                                                *)

InvoiceOf(t) == payments[txns[t].payment].invoice

\* The reference shares its number with the payments of the invoice.
PaymentsOf(i) ==
    {p \in Payments : payments[p].invoice = i
                        /\ refs[i] \cap {"ACTIVE", "COMPLETED"} # {}}

TxnsOf(i, status) ==
    {t \in Txns : /\ txns[t].status = status
                  /\ InvoiceOf(t) = i
                  /\ "ACTIVE" \in refs[i]}

Open(t) == payments[txns[t].payment].status # "COMPLETED"

\* The query for a CREATED transaction raises when it finds two.
Ambiguous(i) == Cardinality(TxnsOf(i, "CREATED")) > 1
Processable(i) ==
    LET created == {t \in TxnsOf(i, "CREATED") : Open(t)}
    IN  IF created # {} THEN created
        ELSE {t \in TxnsOf(i, "FAILED") : Open(t)}

IsIdle(h) == task[h].step = "IDLE"
Finish(h) == task' = [task EXCEPT ![h] = IdleTask]

Quiet == UNCHANGED <<order, lists>>

-----------------------------------------------------------------------------
(* Creating a transaction.                                                 *)

ActiveOn(p) == {t \in Txns : txns[t].payment = p /\ txns[t].status = "CREATED"}
TheOne(S) == IF S = {} THEN 0 ELSE CHOOSE n \in S : TRUE

\* The payment of the invoice and the transaction that is active on it are
\* looked up; a completed payment is refused, and so are two rows of either.
CreateTransaction(h, i) ==
    LET p == TheOne(PaymentsOf(i))
    IN  /\ IsIdle(h)
        /\ Cardinality(PaymentsOf(i)) <= 1
        /\ IF p = 0 THEN "ACTIVE" \in refs[i]
           ELSE payments[p].status = "CREATED" /\ Cardinality(ActiveOn(p)) <= 1
        /\ task' = [task EXCEPT ![h] =
                      [IdleTask EXCEPT !.step = "CREATING", !.invoice = i,
                         !.payment = p,
                         !.txn = IF p = 0 THEN 0 ELSE TheOne(ActiveOn(p))]]
        /\ Quiet /\ UNCHANGED tables

FreePayments == {p \in Payments : payments[p].status = "NONE"}
FreeTxns == {t \in Txns : txns[t].status = "NONE"}
FirstOf(S) == CHOOSE n \in S : \A m \in S : n <= m

\* A payment is inserted if there was none, the transaction that was active
\* is cancelled and a new one inserted, whatever others inserted meanwhile.
CreateEnd(h) ==
    LET p == task[h].payment
        new == IF p = 0 THEN FirstOf(FreePayments) ELSE p
    IN  /\ task[h].step = "CREATING"
        /\ FreeTxns # {} /\ (p = 0 => FreePayments # {})    \* bounds
        /\ payments' = IF p # 0 THEN payments
                       ELSE [payments EXCEPT ![new] =
                               [invoice |-> task[h].invoice, status |-> "CREATED"]]
        /\ txns' = [t \in Txns |->
               IF t = FirstOf(FreeTxns)
               THEN [payment |-> new, status |-> "CREATED", unavailable |-> FALSE]
               ELSE IF t = task[h].txn
               THEN [txns[t] EXCEPT !.status = "CANCELLED"] ELSE txns[t]]
        /\ Finish(h)
        /\ Quiet /\ UNCHANGED <<inv, refs, receipts, released>>

\* At a bound the request fails.
CreateFails(h) ==
    /\ task[h].step = "CREATING"
    /\ FreeTxns = {} \/ (task[h].payment = 0 /\ FreePayments = {})
    /\ Finish(h)
    /\ Quiet /\ UNCHANGED tables

-----------------------------------------------------------------------------
(* PayBC.                                                                  *)

\* The user follows the URL of some transaction of the invoice.
OpenOrder(i) ==
    /\ order[i] = "NONE"
    /\ \E t \in Txns : txns[t].status # "NONE" /\ InvoiceOf(t) = i
    /\ order' = [order EXCEPT ![i] = "OPEN"]
    /\ UNCHANGED <<tables, task, lists>>

PayOrder(i) ==
    /\ order[i] = "OPEN"
    /\ order' = [order EXCEPT ![i] = "PAID"]
    /\ UNCHANGED <<tables, task, lists>>

-----------------------------------------------------------------------------
(* Updating a transaction.  An order is paid in full or not at all, but    *)
(* the order whose receipt is found need not be that of the invoice.       *)

\* Publishing may raise, which makes the transaction EVENT_FAILED.
Outcomes == IF QueueMayFail THEN {TRUE, FALSE} ELSE {TRUE}
Count(n) == IF n = 2 THEN 2 ELSE n + 1
Publish(i, sent) ==
    released' = IF sent THEN [released EXCEPT ![i] = Count(@)] ELSE released

\* update_transaction begins.  A completed payment is an error, which makes
\* the job cancel the transaction, unless only its event is missing: then
\* the invoices of the payment's active references are published.
Republish(h, t, then) ==
    LET i == InvoiceOf(t)
        listed == "ACTIVE" \in refs[i] /\ inv[i] = "PAID"
    IN  /\ ~ Open(t)
        /\ Finish(h)
        /\ IF txns[t].status = "EVENT_FAILED"
           THEN \E sent \in Outcomes :
                  /\ Publish(i, listed /\ sent)
                  /\ txns' = [txns EXCEPT ![t].status =
                               IF listed /\ ~ sent THEN @ ELSE "COMPLETED"]
           ELSE /\ txns' = [txns EXCEPT ![t].status =
                               IF then = "CANCEL" THEN "CANCELLED" ELSE @]
                /\ UNCHANGED released
        /\ UNCHANGED <<inv, refs, payments, receipts>>

Ask(h, t, asks, declined, then) ==
    /\ Open(t)
    /\ task' = [task EXCEPT ![h] =
                  [IdleTask EXCEPT !.step = "ASKING", !.invoice = InvoiceOf(t),
                     !.payment = txns[t].payment, !.txn = t, !.row = txns[t],
                     !.asks = asks, !.declined = declined, !.then = then,
                     !.listed = "ACTIVE" \in refs[InvoiceOf(t)]]]
    /\ UNCHANGED tables

Update(h, t, asks, declined, then) ==
    /\ txns[t].status \notin {"NONE", "COMPLETED"}
    /\ Republish(h, t, then) \/ Ask(h, t, asks, declined, then)

\* Without a URL the order asked for is that of the reference.
UpdateOwn(h, t, then) == Update(h, t, InvoiceOf(t), FALSE, then)

\* A URL names the order it came back from, and nothing compares that with
\* the reference of the invoice.  If it names none, or says approved and its
\* hash is wrong, there is no order to ask for.
NamedByUrl(i) == {None} \cup {o \in {i} \cup Others : order[o] # "NONE"}

\* The browser is back from PayBC, or anyone asks for the state.
PatchTransaction(h, t, asks, declined) ==
    /\ IsIdle(h)
    /\ txns[t].status # "NONE"
    /\ \/ asks = InvoiceOf(t) /\ ~ declined
       \/ asks \in NamedByUrl(InvoiceOf(t))
    /\ declined => asks # None /\ PayBCMayFail  \* else it does not matter
    /\ Update(h, t, asks, declined, "DONE")
    /\ Quiet

Answered(h, receipt, unavailable) ==
    /\ task[h].step = "ASKING"
    /\ task' = [task EXCEPT ![h].step = "WRITING", ![h].asks = None,
                  ![h].declined = FALSE, ![h].listed = FALSE,
                  ![h].receipt = receipt, ![h].unavailable = unavailable]
    /\ Quiet /\ UNCHANGED tables

\* Without an active reference get_receipt raises before it asks, and without
\* an order it does not ask.
Asks(h) == task[h].listed /\ task[h].asks # None

GetReceipt(h) ==
    LET asks == task[h].asks
    IN  Answered(h, IF Asks(h) /\ order[asks] = "PAID" THEN asks ELSE None, FALSE)

PayBCUnavailable(h) ==
    /\ PayBCMayFail
    /\ Asks(h)
    /\ Answered(h, None, ~ task[h].declined)

\* A column is written if it was changed, whatever it holds by now.
Written(now, was, new) == IF new = was THEN now ELSE new

\* Mutants: a duplicate is not recognised; no reference is ever made.
MakesReferenceAlways(i) == TRUE
MakesReferenceNever(i) == "ACTIVE" \in refs[i]
\* The active reference is completed.  If there is none (the invoice was
\* deleted meanwhile, or paid by another task) a new one is made, unless one
\* is completed.
MakesReference(i) == "ACTIVE" \in refs[i] \/ "COMPLETED" \notin refs[i]

WriteTxn(h, status) ==
    LET k == task[h]
    IN  txns' = [txns EXCEPT
           ![k.txn].status = Written(@, k.row.status, status),
           ![k.txn].unavailable = Written(@, k.row.unavailable, k.unavailable)]

AfterUpdate(h) ==
    task' = [task EXCEPT ![h] =
               IF task[h].then = "CHECK"
               THEN [IdleTask EXCEPT !.step = "CHECKING",
                                     !.invoice = task[h].invoice]
               ELSE IdleTask]

\* Mutant: a completed payment does not reach the invoice.
PaidInvoiceKept(h) == inv
PaidInvoice(h) == [inv EXCEPT ![task[h].invoice] = "PAID"]

\* Mutant: the amounts are not compared.
CoversAlways(o, i) == TRUE
Covers(o, i) == Amount[o] >= Amount[i]

UpdateWithReceipt(h) ==
    LET k == task[h]
        made == MakesReference(k.invoice)
    IN  /\ k.step = "WRITING"
        /\ k.receipt # None /\ Covers(k.receipt, k.invoice)
        /\ receipts' = [receipts EXCEPT ![k.invoice] = @ \cup {k.receipt}]
        /\ payments' = [payments EXCEPT ![k.payment].status = "COMPLETED"]
        /\ inv' = PaidInvoice(h)
        /\ refs' = IF made
                   THEN [refs EXCEPT ![k.invoice] =
                           (@ \ {"ACTIVE"}) \cup {"COMPLETED"}]
                   ELSE refs
        /\ \E sent \in Outcomes :
             /\ Publish(k.invoice, made /\ sent)
             /\ WriteTxn(h, IF made /\ ~ sent THEN "EVENT_FAILED"
                                               ELSE "COMPLETED")
        /\ AfterUpdate(h)
        /\ Quiet

\* Less was paid than is owed: that is logged, and only the transaction is
\* COMPLETED.
UpdateUnderpaid(h) ==
    /\ task[h].step = "WRITING"
    /\ task[h].receipt # None /\ ~ Covers(task[h].receipt, task[h].invoice)
    /\ WriteTxn(h, "COMPLETED")
    /\ AfterUpdate(h)
    /\ Quiet /\ UNCHANGED <<inv, refs, payments, receipts, released>>

\* Mutants: the transaction is given up; it gets the status of a payment.
FailedStatusCancelled == "CANCELLED"
FailedStatusOfPayment == "DELETED"
FailedStatus == "FAILED"

UpdateWithoutReceipt(h) ==
    /\ task[h].step = "WRITING" /\ task[h].receipt = None
    /\ WriteTxn(h, FailedStatus)
    /\ AfterUpdate(h)
    /\ Quiet /\ UNCHANGED <<inv, refs, payments, receipts, released>>

-----------------------------------------------------------------------------
(* Deleting an invoice.                                                    *)

\* The transaction that can still get the receipt of a paid order.
Paid(i) == order[i] = "PAID" /\ Processable(i) # {}

\* PayBC knows the order (404 is an error like any other) and the queries
\* for the transaction do not raise.
CanBeChecked(i) ==
    /\ "ACTIVE" \in refs[i]
    /\ order[i] # "NONE"
    /\ order[i] = "PAID" => ~ Ambiguous(i)

\* DELETE of an invoice.  Of a paid order the receipt is fetched and the
\* request refused; else it is accepted and a thread deletes the invoice.
\* (The mark DELETE_ACCEPTED goes to an attribute that is no column.)
AcceptDelete(h, i) ==
    /\ IsIdle(h)
    /\ inv[i] = "CREATED"
    /\ CanBeChecked(i)
    /\ \/ /\ Paid(i)
          /\ \E t \in Processable(i) : UpdateOwn(h, t, "DONE")
       \/ /\ ~ Paid(i)
          /\ task' = [task EXCEPT ![h] =
                        [IdleTask EXCEPT !.step = "ACCEPTED", !.invoice = i]]
          /\ UNCHANGED tables
    /\ Quiet

\* The thread first updates the transaction that is still CREATED.
DeleteStart(h) ==
    LET created == TxnsOf(task[h].invoice, "CREATED")
    IN  /\ task[h].step = "ACCEPTED"
        /\ \/ /\ Ambiguous(task[h].invoice)
              /\ Finish(h) /\ UNCHANGED tables
           \/ /\ ~ Ambiguous(task[h].invoice)
              /\ \E t \in created : UpdateOwn(h, t, "CHECK")
           \/ /\ created = {}
              /\ task' = [task EXCEPT ![h].step = "CHECKING"]
              /\ UNCHANGED tables
        /\ Quiet

\* An exception ends the thread.
DeleteStops(h) == Finish(h) /\ UNCHANGED tables

Deletable(i) ==
    /\ inv[i] = "CREATED"
    /\ Cardinality(PaymentsOf(i)) <= 1
    /\ \A p \in PaymentsOf(i) : payments[p].status = "CREATED"

DeleteCheck(h) ==
    LET i == task[h].invoice
    IN  /\ task[h].step = "CHECKING"
        /\ \/ /\ ~ (Deletable(i) /\ CanBeChecked(i))
              /\ DeleteStops(h)
           \/ /\ Deletable(i) /\ CanBeChecked(i) /\ Paid(i)
              /\ \E t \in Processable(i) : UpdateOwn(h, t, "DONE")
           \/ /\ Deletable(i) /\ CanBeChecked(i) /\ ~ Paid(i)
              /\ task' = [task EXCEPT ![h].step = "DELETING",
                     ![h].payment = TheOne(PaymentsOf(i))]
              /\ UNCHANGED tables
        /\ Quiet

DeleteCheckFails(h) ==
    /\ PayBCMayFail
    /\ task[h].step = "CHECKING"
    /\ DeleteStops(h)
    /\ Quiet

\* What the check has read is written over.
DeleteEnd(h) ==
    LET i == task[h].invoice
        p == task[h].payment
    IN  /\ task[h].step = "DELETING"
        /\ payments' = IF p = 0 THEN payments
                       ELSE [payments EXCEPT ![p].status = "DELETED"]
        /\ refs' = IF "ACTIVE" \in refs[i]
                   THEN [refs EXCEPT ![i] = (@ \ {"ACTIVE"}) \cup {"CANCELLED"}]
                   ELSE refs
        /\ inv' = [inv EXCEPT ![i] = "DELETED"]
        /\ Finish(h)
        /\ Quiet /\ UNCHANGED <<txns, receipts, released>>

-----------------------------------------------------------------------------
(* StalePaymentTask.  Its second pass deletes the invoices marked          *)
(* DELETE_ACCEPTED; there are none.                                        *)

StaleStart ==
    /\ pass = "IDLE"
    /\ pass' = "STALE"
    /\ stale' = {t \in Txns :
                   \/ txns[t].status \in {"CREATED", "EVENT_FAILED"}
                   \/ /\ txns[t].unavailable
                      /\ payments[txns[t].payment].status = "CREATED"}
    /\ UNCHANGED <<tables, order, task, unverified>>

StaleItem(t) ==
    /\ IsIdle(StaleJob)
    /\ t \in stale
    /\ stale' = stale \ {t}
    /\ \/ UpdateOwn(StaleJob, t, "CANCEL")
       \/ txns[t].status = "COMPLETED" /\ UNCHANGED <<tables, task>>
    /\ UNCHANGED <<order, pass, unverified>>

VerifyStart ==
    /\ pass = "STALE" /\ stale = {} /\ IsIdle(StaleJob)
    /\ pass' = "VERIFY"
    /\ unverified' = {i \in Invoices : inv[i] = "CREATED"}
    /\ UNCHANGED <<tables, order, task, stale>>

VerifyItem(i) ==
    /\ IsIdle(StaleJob)
    /\ i \in unverified
    /\ unverified' = unverified \ {i}
    /\ UNCHANGED <<order, pass, stale>>

VerifyPaid(i) ==
    /\ CanBeChecked(i) /\ Paid(i)
    /\ \E t \in Processable(i) : UpdateOwn(StaleJob, t, "DONE")
    /\ VerifyItem(i)

\* There is nothing to do, or an exception is caught.
VerifyNothing(i) ==
    /\ PayBCMayFail \/ ~ CanBeChecked(i) \/ ~ Paid(i)
    /\ UNCHANGED <<tables, task>>
    /\ VerifyItem(i)

VerifyEnd ==
    /\ pass = "VERIFY" /\ unverified = {} /\ IsIdle(StaleJob)
    /\ pass' = "IDLE"
    /\ UNCHANGED <<tables, order, task, stale, unverified>>

-----------------------------------------------------------------------------
Next ==
    \/ \E h \in Requests, i \in Invoices :
          CreateTransaction(h, i) \/ AcceptDelete(h, i)
    \/ \E h \in Requests, t \in Txns, asks \in Orders \cup {None},
          declined \in BOOLEAN : PatchTransaction(h, t, asks, declined)
    \/ \E h \in Requests :
          \/ CreateEnd(h) \/ CreateFails(h)
          \/ DeleteStart(h) \/ DeleteCheck(h) \/ DeleteCheckFails(h)
          \/ DeleteEnd(h)
    \/ \E h \in Processes :
          \/ GetReceipt(h) \/ PayBCUnavailable(h)
          \/ UpdateWithReceipt(h) \/ UpdateUnderpaid(h)
          \/ UpdateWithoutReceipt(h)
    \/ \E i \in Invoices : 
          \/ OpenOrder(i) \/ PayOrder(i)
          \/ VerifyPaid(i) \/ VerifyNothing(i)
    \/ \E t \in Txns : StaleItem(t)
    \/ StaleStart \/ VerifyStart \/ VerifyEnd

Spec == Init /\ [][Next]_vars

\* A process that has begun goes on; the job is started by cron, again and
\* again; and PayBC is not down whenever it is asked.
TaskSteps(h) ==
    \/ GetReceipt(h) \/ PayBCUnavailable(h)
    \/ UpdateWithReceipt(h) \/ UpdateUnderpaid(h) \/ UpdateWithoutReceipt(h)
    \/ CreateEnd(h) \/ CreateFails(h)
    \/ DeleteStart(h) \/ DeleteCheck(h) \/ DeleteCheckFails(h)
    \/ DeleteEnd(h)

JobSteps ==
    \/ StaleStart \/ VerifyStart \/ VerifyEnd
    \/ \E t \in Txns : StaleItem(t)
    \/ \E i \in Invoices : VerifyPaid(i) \/ VerifyNothing(i)

Fairness ==
    /\ \A h \in Processes : /\ WF_vars(TaskSteps(h))
                            /\ SF_vars(GetReceipt(h))
                            /\ SF_vars(DeleteCheck(h))
    /\ WF_vars(JobSteps)
    /\ \A i \in Invoices : SF_vars(VerifyPaid(i))

FairSpec == Spec /\ Fairness

-----------------------------------------------------------------------------
(* Properties.                                                             *)

HasPaidReceipt(i) ==
    \E o \in receipts[i] : /\ o \in {i} \cup Others
                          /\ order[o] = "PAID"
                          /\ Amount[o] >= Amount[i]

\* An invoice is PAID only if it has the receipt of a paid order, its own or
\* one that a URL named, of at least its amount, and a payment of it is
\* COMPLETED and so is a reference: the late write of a request that was
\* overtaken, or the deletion that wrote over a payment, never leaves an
\* invoice that is paid without them (_update_receipt_details).
PaidIsBacked ==
    \A i \in Invoices : inv[i] = "PAID" =>
        /\ HasPaidReceipt(i)
        /\ "COMPLETED" \in refs[i]
        /\ \E p \in Payments : payments[p].invoice = i
                                   /\ payments[p].status = "COMPLETED"

\* A PAID invoice was paid by its own order.  That is so while no URL of
\* another order comes with its transactions; get_receipt takes the number
\* from the URL (direct_sale_service.py:316) and does not compare it.
PaidByItself == \A i \in Invoices : inv[i] = "PAID" => order[i] = "PAID"

\* A payment is COMPLETED only if its invoice no longer waits for one.
CompletedIsPaid ==
    \A p \in Payments : payments[p].status = "COMPLETED" =>
        inv[payments[p].invoice] # "CREATED"

\* However many requests and jobs find the same receipt at the same time, on
\* one payment of the invoice or on two, one of them releases the invoice to
\* the program that sent it (the duplicate check of _update_receipt_details).
ReleasedOnce == \A i \in Invoices : released[i] <= 1

\* What was paid in PayBC is recorded, though the browser never comes back,
\* another transaction took the place of its own, or PayBC was down: that is
\* what StalePaymentTask is for.
PaidIsRecorded ==
    \A i \in Invoices :
        order[i] = "PAID" /\ inv[i] = "CREATED" ~> inv[i] # "CREATED"

\* "if the transaction status is EVENT_FAILED then publish to queue and
\* return" (payment_transaction.py:426): an invoice that is paid is released,
\* if not at once then by the retry.
ReleaseEventually ==
    \A i \in Invoices : inv[i] = "PAID" ~> released[i] > 0

\* Its deletion was answered with 202 Accepted, and the thread begins.
Accepted(i) ==
    \E h \in Requests : task[h].step = "ACCEPTED" /\ task[h].invoice = i

\* An accepted deletion "marks payment related records to be deleted"
\* (payment_service.py:378), and the job deletes what is marked: the invoice
\* ends as deleted, or as paid.
DeleteConcludes ==
    \A i \in Invoices : Accepted(i) ~> inv[i] # "CREATED"

=============================================================================
