----------------------------- MODULE Disbursement -----------------------------
(***************************************************************************)
(* The share of its invoices that a partner gets from BC Registries.       *)
(*   pay_api/services/partner_disbursements.py   rows for EFT invoices and *)
(*                                               for partial refunds,      *)
(*   tasks/ejv_partner_distribution_task.py      journal vouchers,         *)
(*   tasks/ap_task.py                            partners without a GL,    *)
(*   pay_queue/services/cgi_reconciliations.py   the feedback.             *)
(*                                                                         *)
(* Invoices paid by EFT can be paid, unpaid and paid again, and have a row *)
(* of partner_disbursements for each; all others have one status.  The job *)
(* reads what is due, writes and uploads a file and only then commits.     *)
(*                                                                         *)
(* The statuses of a refunded invoice (REFUND_REQUESTED, CREDITED,         *)
(* REFUNDED, MANUALLY_REFUNDED) are one here: the code treats them alike.  *)
(***************************************************************************)
EXTENDS Integers, FiniteSets, Sequences, SequencesExt, FiniteSetsExt, Functions

CONSTANTS
    Invoices,       \* the invoices
    LineItems,      \* line items of each
    MaxRows,        \* bound on partner_disbursements rows of an invoice
    MaxFiles,       \* bound on files
    MaxFailures,    \* bound on files with lines that CGI does not post
    MaxLost         \* bound on what is lost

ASSUME DisbursementConstants ==
    /\ IsFiniteSet(Invoices)
    /\ LineItems \in Nat \ {0}
    /\ {MaxRows, MaxFiles, MaxFailures, MaxLost} \subseteq Nat

VARIABLES
    kind,       \* how each invoice is paid and whose it is
    inv,        \* its status
    eft,        \* links of an EFT invoice to credits
    partial,    \* its partial refund
    recent,     \* invoices whose receipt is too new to be disbursed
    disb,       \* disbursement_status_code of invoices not paid by EFT
    rows,       \* partner_disbursements of each, in the order of their creation
    stopped,    \* partners whose distribution code has stop_ejv
    job,        \* what the job has read
    files,      \* ejv_files and their feedback
    worker,     \* the file whose feedback the worker is processing
    money,      \* what partners have got for each invoice
    lost        \* what was lost so far

request == <<kind, inv, eft, partial, recent>>
vars == <<request, disb, rows, stopped, job, files, worker, money, lost>>

-----------------------------------------------------------------------------

\* A partner has a GL of another ministry (GI), one under the client code of BC
\* Registries (GA), or none (AP).
Batches == {"GI", "GA", "AP"}
Kinds == [method : {"EFT"}, batch : {"GI", "GA"}]
            \cup [method : {"OTHER"}, batch : Batches]
NoKind == [method |-> "NONE", batch |-> "NONE"]

InvoiceStatus == {"NONE", "APPROVED", "PAID", "REFUNDED"}
DisbursementStatus == {"NONE", "WAITING_FOR_JOB", "UPLOADED", "COMPLETED",
                       "REVERSED", "ERRORED", "CANCELLED"}
Row == [target : {"INVOICE", "PARTIAL_REFUND"}, is_reversal : BOOLEAN,
        status : DisbursementStatus]

\* row is 0 for an invoice that is disbursed by its own status.
Line == [inv : Invoices, row : Nat, is_reversal : BOOLEAN]
File == [batch : Batches, lines : SUBSET Line, failed : SUBSET Line,
         known : BOOLEAN, feedback : {"NONE", "SENT", "RECEIVED", "PROCESSED"}]
IdleJob == [reading |-> FALSE, batch |-> "GI", lines |-> {}]
Losses == {"commit",    \* the job dies after its upload
           "worker",    \* the worker dies between its commits
           "race",      \* a row that the job has read is cancelled
           "redelivery"}  \* an old feedback of AP overwrites a later status

Init ==
    /\ kind = [i \in Invoices |-> NoKind]
    /\ inv = [i \in Invoices |-> "NONE"]
    /\ eft = [i \in Invoices |-> "NONE"]
    /\ partial = [i \in Invoices |-> "NONE"]
    /\ recent = {}
    /\ disb = [i \in Invoices |-> "NONE"]
    /\ rows = [i \in Invoices |-> <<>>]
    /\ stopped = {}
    /\ job = IdleJob
    /\ files = <<>>
    /\ worker = 0
    /\ money = [i \in Invoices |-> 0]
    /\ lost = {}

TypeOK ==
    /\ kind \in [Invoices -> Kinds \cup {NoKind}]
    /\ inv \in [Invoices -> InvoiceStatus]
    /\ eft \in [Invoices -> {"NONE", "LINKED", "UNAPPLIED"}]
    /\ partial \in [Invoices -> {"NONE", "PENDING", "APPROVED"}]
    /\ recent \subseteq Invoices
    /\ disb \in [Invoices -> DisbursementStatus]
    /\ \A i \in Invoices : rows[i] \in Seq(Row) /\ Len(rows[i]) <= MaxRows
    /\ stopped \subseteq Batches
    /\ job.lines \subseteq Line /\ job.batch \in Batches
    /\ \A f \in DOMAIN files : /\ files[f].batch \in Batches
                               /\ files[f].failed \subseteq files[f].lines
                               /\ files[f].lines \subseteq Line
    /\ worker \in 0..Len(files)
    /\ money \in [Invoices -> Int]
    /\ lost \subseteq Losses

Lose(what) ==
    /\ what \notin lost /\ Cardinality(lost) < MaxLost
    /\ lost' = lost \cup {what}

-----------------------------------------------------------------------------
(* Rows of partner_disbursements.                                          *)

\* The latest row of an invoice that is not cancelled, or 0.
IsActive(r) == r.target = "INVOICE" /\ r.status # "CANCELLED"
LatestActive(s) == SelectLastInSeq(s, IsActive)

NewRow(target, is_reversal) ==
    [target |-> target, is_reversal |-> is_reversal, status |-> "WAITING_FOR_JOB"]

\* Mutants: a row for every call, or one row for ever.
AlwaysPayment(s) == Append(s, NewRow("INVOICE", FALSE))
FirstPayment(s) ==
    IF LatestActive(s) = 0 THEN Append(s, NewRow("INVOICE", FALSE)) ELSE s

\* Called when an invoice is created, and whenever credits cover it.
HandlePayment(s) ==
    LET latest == LatestActive(s)
    IN IF latest = 0 \/ s[latest].is_reversal
       THEN Append(s, NewRow("INVOICE", FALSE)) ELSE s

\* Mutant: what was sent is cancelled too.
CancelAlways(s) ==
    LET latest == LatestActive(s)
    IN IF latest = 0 \/ s[latest].is_reversal THEN s
       ELSE [s EXCEPT ![latest].status = "CANCELLED"]

\* What waits for the job is cancelled, what was sent (even with an error) is
\* reversed.
HandleReversal(s) ==
    LET latest == LatestActive(s)
    IN IF latest = 0 \/ s[latest].is_reversal THEN s
       ELSE IF s[latest].status = "WAITING_FOR_JOB"
       THEN [s EXCEPT ![latest].status = "CANCELLED"]
       ELSE Append(s, NewRow("INVOICE", TRUE))

HandlePartialRefund(s) == Append(s, NewRow("PARTIAL_REFUND", TRUE))

\* The change of i's rows, which the job may overwrite if it has read them.
ChangeRows(i, s) ==
    /\ Len(s) <= MaxRows
    /\ rows' = [rows EXCEPT ![i] = s]
    /\ IF \E l \in job.lines : /\ l.inv = i /\ l.row # 0
                               /\ s[l.row] # rows[i][l.row]
       THEN Lose("race") ELSE UNCHANGED lost

-----------------------------------------------------------------------------
(* Requests, and the jobs that settle an invoice.                          *)

IsEft(i) == kind[i].method = "EFT"

CreateInvoice(i, k) ==
    /\ inv[i] = "NONE"
    /\ kind' = [kind EXCEPT ![i] = k]
    /\ inv' = [inv EXCEPT ![i] = "APPROVED"]
    /\ ChangeRows(i, IF k.method = "EFT" THEN HandlePayment(rows[i]) ELSE rows[i])
    /\ UNCHANGED <<eft, partial, recent, disb, stopped, job, files, worker,
                   money>>

\* Credits are linked to an EFT invoice, perhaps again.
ApplyCredits(i) ==
    /\ IsEft(i) /\ inv[i] = "APPROVED"
    /\ eft' = [eft EXCEPT ![i] = "LINKED"]
    /\ ChangeRows(i, HandlePayment(rows[i]))
    /\ UNCHANGED <<kind, inv, partial, recent, disb, stopped, job, files, worker,
                   money>>

\* The invoice is PAID, and its receipt is new.
Pay(i) ==
    /\ inv[i] = "APPROVED"
    /\ IsEft(i) => eft[i] = "LINKED"
    /\ inv' = [inv EXCEPT ![i] = "PAID"]
    /\ recent' = recent \cup {i}
    /\ UNCHANGED <<kind, eft, partial, disb, rows, stopped, job, files, worker,
                   money, lost>>

\* DISBURSEMENT_DELAY_IN_DAYS later.
ReceiptAges(i) ==
    /\ i \in recent
    /\ recent' = recent \ {i}
    /\ UNCHANGED <<kind, inv, eft, partial, disb, rows, stopped, job, files, worker,
                   money, lost>>

\* The payment of a statement is reversed; links of a partial refund are REFUNDED
\* and refuse it.
UnapplyCredits(i) ==
    /\ IsEft(i) /\ inv[i] = "PAID" /\ eft[i] = "LINKED" /\ partial[i] # "APPROVED"
    /\ eft' = [eft EXCEPT ![i] = "UNAPPLIED"]
    /\ ChangeRows(i, HandleReversal(rows[i]))
    /\ UNCHANGED <<kind, inv, partial, recent, disb, stopped, job, files, worker,
                   money>>

\* The EFT job takes the payment back and deletes the receipts.
UndoPayment(i) ==
    /\ inv[i] = "PAID" /\ eft[i] = "UNAPPLIED"
    /\ inv' = [inv EXCEPT ![i] = "APPROVED"]
    /\ eft' = [eft EXCEPT ![i] = "NONE"]
    /\ recent' = recent \ {i}
    /\ UNCHANGED <<kind, partial, disb, rows, stopped, job, files, worker, money,
                   lost>>

\* A refund of the whole invoice, by the payment system or by hand.
Refund(i) ==
    /\ inv[i] = "PAID" \/ (IsEft(i) /\ inv[i] = "APPROVED")
    /\ partial[i] = "NONE"
    /\ inv' = [inv EXCEPT ![i] = "REFUNDED"]
    /\ ChangeRows(i, IF IsEft(i) THEN HandleReversal(rows[i]) ELSE rows[i])
    /\ UNCHANGED <<kind, eft, partial, recent, disb, stopped, job, files, worker,
                   money>>

\* The row is there before the refund is approved.
RequestPartialRefund(i) ==
    /\ inv[i] = "PAID" /\ partial[i] = "NONE" /\ kind[i].batch # "AP"
    /\ eft[i] # "UNAPPLIED"
    /\ \E status \in {"PENDING", "APPROVED"} :
          partial' = [partial EXCEPT ![i] = status]
    /\ ChangeRows(i, HandlePartialRefund(rows[i]))
    /\ UNCHANGED <<kind, inv, eft, recent, disb, stopped, job, files, worker, money>>

\* A declined one leaves its row to wait for ever.
DecidePartialRefund(i, status) ==
    /\ partial[i] = "PENDING" /\ inv[i] = "PAID" /\ eft[i] # "UNAPPLIED"
    /\ status \in {"APPROVED", "NONE"}
    /\ partial' = [partial EXCEPT ![i] = status]
    /\ UNCHANGED <<kind, inv, eft, recent, disb, rows, stopped, job, files, worker,
                   money, lost>>

CorrectDistribution ==
    /\ stopped # {}
    /\ stopped' = {}
    /\ UNCHANGED <<request, disb, rows, job, files, worker, money, lost>>

-----------------------------------------------------------------------------
(* The jobs.                                                               *)

\* Mutant: an invoice that is with CGI is sent again.
DueWhileUploaded(i) == {r \in BOOLEAN :
    IF r THEN inv[i] = "REFUNDED" /\ disb[i] = "COMPLETED" /\ kind[i].batch # "AP"
         ELSE inv[i] = "PAID" /\ disb[i] \in {"NONE", "ERRORED", "UPLOADED"}}

\* What the status of an invoice asks for: its payment or its reversal.  AP does not
\* send reversals.
DueByStatus(i) == {r \in BOOLEAN :
    IF r THEN inv[i] = "REFUNDED" /\ disb[i] = "COMPLETED" /\ kind[i].batch # "AP"
         ELSE inv[i] = "PAID" /\ disb[i] \in {"NONE", "ERRORED"}}

\* Rows of earlier partial refunds are those of declined ones.
IsLatestPartial(i, r) ==
    r = SelectLastInSeq(rows[i], LAMBDA x : x.target = "PARTIAL_REFUND")

\* Mutant: rows that are with CGI are sent again.
DueRowsUploaded(i) == {r \in DOMAIN rows[i] :
    /\ rows[i][r].status \in {"WAITING_FOR_JOB", "UPLOADED"}
    /\ rows[i][r].target = "INVOICE"
    /\ rows[i][r].is_reversal \/ inv[i] = "PAID"}

DueRows(i) == {r \in DOMAIN rows[i] :
    /\ rows[i][r].status = "WAITING_FOR_JOB"
    /\ IF rows[i][r].target = "INVOICE"
       THEN rows[i][r].is_reversal \/ inv[i] = "PAID"
       ELSE inv[i] = "PAID" /\ partial[i] = "APPROVED" /\ IsLatestPartial(i, r)}

\* The delay holds back everything but the reversal of an invoice by its status.
LinesByStatus(i) ==
    {[inv |-> i, row |-> 0, is_reversal |-> r] : r \in
        IF IsEft(i) THEN {} ELSE {r \in DueByStatus(i) : r \/ i \notin recent}}
LinesByRow(i) ==
    {[inv |-> i, row |-> r, is_reversal |-> rows[i][r].is_reversal] : r \in
        IF i \in recent THEN {} ELSE DueRows(i)}

LinesDue(batch) ==
    UNION {LinesByStatus(i) \cup LinesByRow(i) :
             i \in {i \in Invoices : kind[i].batch = batch}}

ReadDue(batch) ==
    /\ ~job.reading
    /\ batch \notin stopped
    /\ Len(files) < MaxFiles
    /\ LinesDue(batch) # {}
    /\ job' = [reading |-> TRUE, batch |-> batch, lines |-> LinesDue(batch)]
    /\ UNCHANGED <<request, disb, rows, stopped, files, worker, money, lost>>

NewFile(known) ==
    [batch |-> job.batch, lines |-> job.lines, failed |-> {}, known |-> known,
     feedback |-> "NONE"]

HasLine(lines, i, r) == \E l \in lines : l.inv = i /\ l.row = r

\* Statuses of what has a line in lines become status.
DisbWith(lines, status) ==
    [i \in Invoices |-> IF HasLine(lines, i, 0) THEN status ELSE disb[i]]
RowsWith(lines, status) ==
    [i \in Invoices |-> [r \in DOMAIN rows[i] |->
        IF HasLine(lines, i, r) THEN [rows[i][r] EXCEPT !.status = status]
                                ELSE rows[i][r]]]

UploadAndCommit ==
    /\ job.reading
    /\ files' = Append(files, NewFile(TRUE))
    /\ disb' = DisbWith(job.lines, "UPLOADED")
    /\ rows' = RowsWith(job.lines, "UPLOADED")
    /\ job' = IdleJob
    /\ UNCHANGED <<request, stopped, worker, money, lost>>

UploadAndDie ==
    /\ Lose("commit")
    /\ job.reading
    /\ files' = Append(files, NewFile(FALSE))
    /\ job' = IdleJob
    /\ UNCHANGED <<request, disb, rows, stopped, worker, money>>

-----------------------------------------------------------------------------
(* CGI.                                                                    *)

\* A line item is worth 2, and a partial refund gives back 1.
Share == 2 * LineItems

\* A row is joined with every line item of its invoice and sent in full each time.
SentByRow == LineItems * Share

Amount(l) ==
    LET sent == IF l.row = 0 THEN Share
                ELSE IF rows[l.inv][l.row].target = "INVOICE" THEN SentByRow ELSE 1
    IN IF l.is_reversal THEN -sent ELSE sent

\* At most three lines of a file are about one invoice: a payment, a reversal and a
\* partial refund.
Posted(lines, i) ==
    LET mine == {l \in lines : l.inv = i}
    IN SumFunctionOnSet([l \in mine |-> Amount(l)], mine)

Post(f, failed) ==
    /\ files[f].feedback = "NONE"
    /\ failed \subseteq files[f].lines
    /\ failed # {} =>
         Cardinality({g \in DOMAIN files : files[g].failed # {}}) < MaxFailures
    /\ files' = [files EXCEPT ![f].feedback = "SENT", ![f].failed = failed]
    /\ money' = [i \in Invoices |->
                   money[i] + Posted(files[f].lines \ failed, i)]
    /\ UNCHANGED <<request, disb, rows, stopped, job, worker, lost>>

-----------------------------------------------------------------------------
(* The worker.                                                             *)

\* The feedback of a journal voucher: the file is marked as processed first.  One
\* that is delivered again meets the mark and is skipped.
ReceiveFeedback(f) ==
    /\ worker = 0
    /\ files[f].batch # "AP"
    /\ files[f].feedback = "SENT" /\ files[f].known
    /\ files' = [files EXCEPT ![f].feedback = "RECEIVED"]
    /\ worker' = f
    /\ UNCHANGED <<request, disb, rows, stopped, job, money, lost>>

\* The credit line of l is one of BC Registries: it is a reversal, or the GL of the
\* partner is under the same client code.
CreditsRegistry(l) == l.is_reversal \/ kind[l.inv].batch = "GA"

\* The log of such a row raises: the file is marked, and never processed.
Raises(l) == l.row # 0 /\ CreditsRegistry(l) /\ ~l.is_reversal

Reversed(posted) == {l \in posted : CreditsRegistry(l)}
Completed(posted) == {l \in posted : ~CreditsRegistry(l)}

\* Mutant: a status that the table of statuses does not have.
FailedStatusOther == "FAILED"
FailedStatus == "ERRORED"

StatusOf(f, l, old) ==
    LET posted == files[f].lines \ files[f].failed
    IN CASE l \in files[f].failed -> FailedStatus
         [] l \in Reversed(posted) -> "REVERSED"
         [] l \in Completed(posted) -> "COMPLETED"
         [] OTHER -> old

ProcessFeedback ==
    LET f == worker
        posted == files[f].lines \ files[f].failed
        LineOf(i, r) == CHOOSE l \in files[f].lines : l.inv = i /\ l.row = r
    IN /\ f # 0
       /\ ~\E l \in posted : Raises(l)
       /\ disb' = [i \in Invoices |-> IF HasLine(files[f].lines, i, 0)
                                      THEN StatusOf(f, LineOf(i, 0), disb[i])
                                      ELSE disb[i]]
       /\ rows' = [i \in Invoices |-> [r \in DOMAIN rows[i] |->
                     IF HasLine(files[f].lines, i, r)
                     THEN [rows[i][r] EXCEPT !.status =
                              StatusOf(f, LineOf(i, r), rows[i][r].status)]
                     ELSE rows[i][r]]]
       /\ stopped' = IF files[f].failed = {} THEN stopped
                     ELSE stopped \cup {files[f].batch}
       /\ files' = [files EXCEPT ![f].feedback = "PROCESSED"]
       /\ worker' = 0
       /\ UNCHANGED <<request, job, money, lost>>

FeedbackRaises ==
    /\ worker # 0
    /\ \E l \in files[worker].lines \ files[worker].failed : Raises(l)
    /\ worker' = 0
    /\ UNCHANGED <<request, disb, rows, stopped, job, files, money, lost>>

WorkerDies ==
    /\ Lose("worker")
    /\ worker # 0
    /\ worker' = 0
    /\ UNCHANGED <<request, disb, rows, stopped, job, files, money>>

\* Mutant: the return codes are mixed up.
ApStatusSwapped(f, i) ==
    CASE HasLine(files[f].failed, i, 0) -> "COMPLETED"
      [] HasLine(files[f].lines \ files[f].failed, i, 0) -> FailedStatus
      [] OTHER -> disb[i]

ApStatus(f, i) ==
    CASE HasLine(files[f].failed, i, 0) -> FailedStatus
      [] HasLine(files[f].lines \ files[f].failed, i, 0) -> "COMPLETED"
      [] OTHER -> disb[i]

\* The feedback of an AP file has neither mark nor check: all of it is processed and
\* committed whenever it is delivered, over whatever the statuses are by then.  A
\* worker that dies before leaves no trace.
ProcessApFeedback(f) ==
    /\ worker = 0
    /\ files[f].batch = "AP" /\ files[f].known
    /\ files[f].feedback \in {"SENT", "PROCESSED"}
    /\ disb' = [i \in Invoices |-> ApStatus(f, i)]
    /\ files' = [files EXCEPT ![f].feedback = "PROCESSED"]
    /\ IF files[f].feedback = "PROCESSED" /\ disb' # disb
       THEN Lose("redelivery") ELSE UNCHANGED lost
    /\ UNCHANGED <<request, rows, stopped, job, worker, money>>

-----------------------------------------------------------------------------

Next ==
    \/ \E i \in Invoices :
          \/ \E k \in Kinds : CreateInvoice(i, k)
          \/ ApplyCredits(i) \/ Pay(i) \/ ReceiptAges(i)
          \/ UnapplyCredits(i) \/ UndoPayment(i) \/ Refund(i)
          \/ RequestPartialRefund(i)
          \/ \E status \in {"APPROVED", "NONE"} : DecidePartialRefund(i, status)
    \/ CorrectDistribution
    \/ \E batch \in Batches : ReadDue(batch)
    \/ UploadAndCommit \/ UploadAndDie
    \/ \E f \in DOMAIN files : \/ \E failed \in SUBSET files[f].lines : Post(f, failed)
                               \/ ReceiveFeedback(f) \/ ProcessApFeedback(f)
    \/ ProcessFeedback \/ FeedbackRaises \/ WorkerDies

Spec == Init /\ [][Next]_vars

-----------------------------------------------------------------------------
(* Properties.                                                             *)

LinesOf(i, lines) == {l \in lines : l.inv = i}
HasFailed(i) == \E f \in DOMAIN files : LinesOf(i, files[f].failed) # {}

\* Nothing about i is due, in the hands of the job, or awaits its feedback.
Settled(i) ==
    /\ (IF IsEft(i) THEN {} ELSE DueByStatus(i)) = {} /\ DueRows(i) = {}
    /\ LinesOf(i, job.lines) = {}
    /\ \A f \in DOMAIN files :
          LinesOf(i, files[f].lines) # {} => files[f].feedback = "PROCESSED"

Payment(i) == IF IsEft(i) THEN SentByRow ELSE Share

\* The partner has what its invoices are worth: when nothing is left to send, the
\* payment of a PAID invoice less its partial refund.
PaidIsPassedOn ==
    lost = {} => \A i \in Invoices :
        inv[i] = "PAID" /\ eft[i] # "UNAPPLIED" /\ Settled(i) /\ ~HasFailed(i) =>
            money[i] = Payment(i) - (IF partial[i] = "APPROVED" THEN 1 ELSE 0)

\* What it got for an invoice that was refunded, or is unpaid again, was taken back,
\* wherever the refund came between two steps of the jobs.
RefundedIsTakenBack ==
    lost = {} => \A i \in Invoices :
        inv[i] # "PAID" /\ kind[i].batch = "GI" /\ Settled(i) /\ ~HasFailed(i) =>
            money[i] = 0

\* An invoice that is disbursed by its status is never paid to the partner twice and
\* never taken back before it was paid, even when journals fail and are sent again.
NeverPaidTwice ==
    lost = {} => \A i \in Invoices : ~IsEft(i) =>
        /\ money[i] <= Share
        /\ partial[i] = "NONE" => money[i] >= 0

\* What NeverPaidTwice says, but whatever feedback of AP is delivered again.  It does
\* not hold: the failure of a line that was sent again since makes it due once more.
PaidOnceWhateverIsRedelivered ==
    lost \subseteq {"redelivery"} =>
        \A i \in Invoices : ~IsEft(i) => money[i] <= Share

\* The partner has for each invoice what it is to have, by whatever path.
MoneyFollowsInvoices == PaidIsPassedOn /\ RefundedIsTakenBack /\ NeverPaidTwice

\* A reversal comes after a payment, and a payment first or after a reversal.
Alternates(s) ==
    \A r \in DOMAIN s : IsActive(s[r]) =>
        LET before == {q \in 1..(r - 1) : IsActive(s[q])}
        IN s[r].is_reversal =
             (\E q \in before : ~s[q].is_reversal /\ \A p \in before : p <= q)

\* The rows of an invoice that are not cancelled are payments and reversals in turn:
\* no sequence of requests has a payment sent, or taken back, twice in a row.
PaymentsAndReversalsAlternate ==
    "race" \notin lost => \A i \in Invoices : Alternates(rows[i])

\* No line is in two files, unless the first one failed.
SentOnce ==
    lost = {} /\ Len(files') > Len(files) /\ lost' = {} =>
        \A l \in files'[Len(files')].lines : \A f \in DOMAIN files :
            l \in files[f].lines => /\ l.row = 0
                                    /\ l \in files[f].failed

\* What was sent stays on record: a row is cancelled only before the job has it.
CancelledWasNeverSent ==
    \A i \in Invoices : \A r \in DOMAIN rows[i] :
        rows'[i][r].status = "CANCELLED" /\ rows[i][r].status # "CANCELLED" =>
            \A f \in DOMAIN files : files[f].known => ~HasLine(files[f].lines, i, r)

\* A line is sent once, and the books say that it was.
SentIsOnRecord == [][SentOnce /\ CancelledWasNeverSent]_vars
=============================================================================
