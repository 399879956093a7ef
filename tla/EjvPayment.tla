------------------------------ MODULE EjvPayment ------------------------------
(***************************************************************************)
(* Journal vouchers of a government account: what it owes is debited from  *)
(* its GL, and refunds are credited to it, in files that go to CGI.        *)
(*   tasks/ejv_payment_task.py                      writes the files,      *)
(*   pay_queue/services/cgi_reconciliations.py      reads the feedback,    *)
(*   pay_api/services/ejv_pay_service.py, refund.py take the refunds.      *)
(*                                                                         *)
(* The job reads the invoices of the account, writes and uploads a file    *)
(* and only then commits.  The worker commits that it has a feedback file  *)
(* and, after that, what the file says.  Requests for refunds come at any  *)
(* time.  One account is modelled: accounts share nothing but the files.   *)
(***************************************************************************)
EXTENDS Integers, FiniteSets, Sequences, SequencesExt

CONSTANTS
    Invoices,       \* the invoices of the account
    Lines,          \* lines a journal has for each of them
    MaxFiles,       \* bound on files
    MaxFailures,    \* bound on files with invoices that CGI does not post
    MaxLost         \* bound on what is lost

Losses == {"commit",    \* the job dies after its upload
           "worker",    \* the worker dies between its commits
           "refund"}    \* an invoice that the job has read is refunded

ASSUME EjvConstants ==
    /\ IsFiniteSet(Invoices)
    /\ Lines \in Nat \ {0}
    /\ {MaxFiles, MaxFailures, MaxLost} \subseteq Nat

VARIABLES
    inv,        \* status of each invoice
    refunded,   \* invoices with a refund_date
    refs,       \* invoice_references of each, in the order of their creation
    receipt,    \* lines that the receipt of each adds up
    stopped,    \* stop_ejv of the account's distribution code
    job,        \* what the job has read
    files,      \* ejv_files and their feedback
    worker,     \* the file whose feedback the worker is processing
    gl,         \* CGI: debits minus credits posted to the account
    lost        \* what was lost so far

vars == <<inv, refunded, refs, receipt, stopped, job, files, worker, gl, lost>>

-----------------------------------------------------------------------------

RefStatus == {"ACTIVE", "COMPLETED", "CANCELLED"}
InvoiceStatus == {"NONE", "APPROVED", "PAID", "CANCELLED", "REFUND_REQUESTED",
                  "REFUNDED"}
LinkStatus == {"NONE", "UPLOADED", "COMPLETED", "ERRORED"}

\* known is FALSE for a file whose row was never committed; links are the rows
\* of ejv_links; failed is what CGI did not post.
File == [charges : SUBSET Invoices, reversals : SUBSET Invoices,
         known : BOOLEAN, links : [Invoices -> LinkStatus],
         failed : SUBSET Invoices,
         feedback : {"NONE", "SENT", "RECEIVED", "PROCESSED"}]

IdleJob == [reading |-> FALSE, charges |-> {}, reversals |-> {}]

Init ==
    /\ inv = [i \in Invoices |-> "NONE"]
    /\ refunded = {}
    /\ refs = [i \in Invoices |-> <<>>]
    /\ receipt = [i \in Invoices |-> 0]
    /\ stopped = FALSE
    /\ job = IdleJob
    /\ files = <<>>
    /\ worker = 0
    /\ gl = [i \in Invoices |-> 0]
    /\ lost = {}

TypeOK ==
    /\ inv \in [Invoices -> InvoiceStatus]
    /\ refunded \subseteq Invoices
    /\ refs \in [Invoices -> Seq(RefStatus)]
    /\ receipt \in [Invoices -> Nat]
    /\ stopped \in BOOLEAN
    /\ job \in [reading : BOOLEAN, charges : SUBSET Invoices,
                reversals : SUBSET Invoices]
    /\ files \in Seq(File)
    /\ worker \in 0..Len(files)
    /\ gl \in [Invoices -> Int]
    /\ lost \subseteq Losses

Lose(what) ==
    /\ what \notin lost /\ Cardinality(lost) < MaxLost
    /\ lost' = lost \cup {what}

HasRef(i, status) == status \in ToSet(refs[i])

-----------------------------------------------------------------------------
(* Requests.                                                               *)

CreateInvoice(i) ==
    /\ inv[i] = "NONE"
    /\ inv' = [inv EXCEPT ![i] = "APPROVED"]
    /\ UNCHANGED <<refunded, refs, receipt, stopped, job, files, worker, gl, lost>>

\* Mutants: the journal of a paid invoice is not reversed, or an invoice is
\* cancelled although it is in a journal.
RefundStatusAtOnce(i) ==
    IF inv[i] = "PAID" THEN "REFUNDED"
    ELSE IF HasRef(i, "ACTIVE") THEN "REFUND_REQUESTED" ELSE "CANCELLED"
RefundStatusCancelled(i) ==
    IF inv[i] = "PAID" THEN "REFUND_REQUESTED" ELSE "CANCELLED"

\* An invoice that is in no journal is cancelled, another one is to be reversed.
RefundStatus(i) ==
    IF inv[i] = "PAID" \/ HasRef(i, "ACTIVE") THEN "REFUND_REQUESTED" ELSE "CANCELLED"

Refund(i) ==
    /\ inv[i] \in {"APPROVED", "PAID"}
    /\ i \notin refunded
    /\ inv' = [inv EXCEPT ![i] = RefundStatus(i)]
    /\ refunded' = IF RefundStatus(i) = "REFUND_REQUESTED" THEN refunded
                                                           ELSE refunded \cup {i}
    /\ IF i \in job.charges THEN Lose("refund") ELSE UNCHANGED lost
    /\ UNCHANGED <<refs, receipt, stopped, job, files, worker, gl>>

\* The lines of a partial refund are REFUND_PROCESSED from the start, and the job
\* looks for REFUND_REQUESTED ones: nothing is left to do but the refund_date.
RefundPartially(i) ==
    /\ inv[i] = "PAID"
    /\ i \notin refunded
    /\ refunded' = refunded \cup {i}
    /\ UNCHANGED <<inv, refs, receipt, stopped, job, files, worker, gl, lost>>

\* Staff corrects the distribution code.
CorrectDistribution ==
    /\ stopped
    /\ stopped' = FALSE
    /\ UNCHANGED <<inv, refunded, refs, receipt, job, files, worker, gl, lost>>

-----------------------------------------------------------------------------
(* The job.                                                                *)

\* Mutants: references are not looked at.
ApprovedInvoices == {i \in Invoices : inv[i] = "APPROVED"}
RequestedInvoices == {i \in Invoices : inv[i] = "REFUND_REQUESTED"}

InvoicesToCharge ==
    {i \in Invoices : inv[i] = "APPROVED" /\ ~HasRef(i, "ACTIVE")}
InvoicesToReverse ==
    {i \in Invoices : inv[i] = "REFUND_REQUESTED" /\ ~HasRef(i, "ACTIVE")}

ReadInvoices ==
    /\ ~job.reading
    /\ ~stopped
    /\ Len(files) < MaxFiles
    /\ InvoicesToCharge \cup InvoicesToReverse # {}
    /\ job' = [reading |-> TRUE, charges |-> InvoicesToCharge,
               reversals |-> InvoicesToReverse]
    /\ UNCHANGED <<inv, refunded, refs, receipt, stopped, files, worker, gl, lost>>

NewFile(known) ==
    [charges |-> job.charges, reversals |-> job.reversals, known |-> known,
     links |-> [i \in Invoices |-> IF i \in job.charges \cup job.reversals
                                   THEN "UPLOADED" ELSE "NONE"],
     failed |-> {}, feedback |-> "NONE"]

Activated(s) == IF "ACTIVE" \in ToSet(s) THEN s ELSE Append(s, "ACTIVE")

\* A reversal replaces the latest completed reference.  Without one there is
\* nothing to replace, but the lines are in the file all the same.
Reactivated(s) ==
    LET last == SelectLastInSeq(s, LAMBDA r : r = "COMPLETED")
    IN IF last = 0 THEN s ELSE Activated([s EXCEPT ![last] = "CANCELLED"])

UploadAndCommit ==
    /\ job.reading
    /\ files' = Append(files, NewFile(TRUE))
    /\ refs' = [i \in Invoices |-> CASE i \in job.charges -> Activated(refs[i])
                                     [] i \in job.reversals -> Reactivated(refs[i])
                                     [] OTHER -> refs[i]]
    /\ job' = IdleJob
    /\ UNCHANGED <<inv, refunded, receipt, stopped, worker, gl, lost>>

\* The file is in CGI's folder and the transaction is rolled back.
UploadAndDie ==
    /\ Lose("commit")
    /\ job.reading
    /\ files' = Append(files, NewFile(FALSE))
    /\ job' = IdleJob
    /\ UNCHANGED <<inv, refunded, refs, receipt, stopped, worker, gl>>

-----------------------------------------------------------------------------
(* CGI.                                                                    *)

\* Each invoice has a return code of its own; what does not fail is posted.
Post(f, failed) ==
    LET charged == files[f].charges \ failed
        reversed == files[f].reversals \ failed
    IN /\ files[f].feedback = "NONE"
       /\ failed \subseteq files[f].charges \cup files[f].reversals
       /\ failed # {} =>
            Cardinality({g \in DOMAIN files : files[g].failed # {}}) < MaxFailures
       /\ gl' = [i \in Invoices |->
                   gl[i] + (IF i \in charged THEN 1 ELSE 0)
                         - (IF i \in reversed THEN 1 ELSE 0)]
       /\ files' = [files EXCEPT ![f].feedback = "SENT", ![f].failed = failed]
       /\ UNCHANGED <<inv, refunded, refs, receipt, stopped, job, worker, lost>>

-----------------------------------------------------------------------------
(* The worker.                                                             *)

\* A file that is marked is skipped, so that repeated messages change nothing; a
\* file without a row raises.
ReceiveFeedback(f) ==
    /\ worker = 0
    /\ files[f].feedback = "SENT" /\ files[f].known
    /\ files' = [files EXCEPT ![f].feedback = "RECEIVED"]
    /\ worker' = f
    /\ UNCHANGED <<inv, refunded, refs, receipt, stopped, job, gl, lost>>

\* What a line is about is told by the status of its invoice.
IsReversal(i) == inv[i] \in {"REFUNDED", "REFUND_REQUESTED"}

\* Mutants: the status of the link; the reference is kept.
FailedRefErrored == "ERRORED"
FailedRefKept == "ACTIVE"
FailedRef == "CANCELLED"

\* Mutant: return codes are not looked at.
NotPostedNever(f) == {}

NotPosted(f) == files[f].failed

RefsWith(i, status) ==
    [r \in DOMAIN refs[i] |-> IF refs[i][r] = "ACTIVE" THEN status ELSE refs[i][r]]

StatusAfter(i) == IF IsReversal(i) THEN "REFUNDED" ELSE "PAID"

\* One receipt adds up the lines of an invoice.
ReceiptAfter(i) == receipt[i] + (IF IsReversal(i) THEN 0 ELSE Lines)

\* All lines of a file are committed together.
ProcessFeedback ==
    LET f == worker
        failed == NotPosted(f)
        posted == (files[f].charges \cup files[f].reversals) \ failed
    IN /\ f # 0
       /\ inv' = [i \in Invoices |-> IF i \in posted THEN StatusAfter(i) ELSE inv[i]]
       /\ refunded' = refunded \cup {i \in posted : IsReversal(i)}
       /\ refs' = [i \in Invoices |-> CASE i \in failed -> RefsWith(i, FailedRef)
                                        [] i \in posted -> RefsWith(i, "COMPLETED")
                                        [] OTHER -> refs[i]]
       /\ receipt' = [i \in Invoices |-> IF i \in posted THEN ReceiptAfter(i)
                                                          ELSE receipt[i]]
       /\ stopped' = (stopped \/ failed # {})
       /\ files' = [files EXCEPT
                      ![f].feedback = "PROCESSED",
                      ![f].links = [i \in Invoices |->
                                      CASE i \in failed -> "ERRORED"
                                        [] i \in posted -> "COMPLETED"
                                        [] OTHER -> "NONE"]]
       /\ worker' = 0
       /\ UNCHANGED <<job, gl, lost>>

WorkerDies ==
    /\ Lose("worker")
    /\ worker # 0
    /\ worker' = 0
    /\ UNCHANGED <<inv, refunded, refs, receipt, stopped, job, files, gl>>

-----------------------------------------------------------------------------

Next ==
    \/ \E i \in Invoices : CreateInvoice(i) \/ Refund(i) \/ RefundPartially(i)
    \/ CorrectDistribution
    \/ ReadInvoices \/ UploadAndCommit \/ UploadAndDie
    \/ \E f \in DOMAIN files : \/ \E failed \in SUBSET Invoices : Post(f, failed)
                               \/ ReceiveFeedback(f)
    \/ ProcessFeedback \/ WorkerDies

Spec == Init /\ [][Next]_vars

-----------------------------------------------------------------------------
(* Properties.                                                             *)

\* A journal of invoice i was not posted.
HasFailed(i) == \E f \in DOMAIN files : i \in files[f].failed

\* An account is charged at most once for an invoice, however its journals, their
\* feedback and refunds follow each other, and it is never credited what it did
\* not pay: unless a journal of the invoice had failed before, when a reversal is
\* sent without a completed reference, and again with every file.
ChargedOnce ==
    lost = {} => \A i \in Invoices :
        /\ gl[i] <= 1
        /\ ~HasFailed(i) => gl[i] >= 0

\* A PAID invoice was charged and has a receipt for all of it.
PaidIsCharged ==
    lost = {} => \A i \in Invoices :
        inv[i] = "PAID" => gl[i] = 1 /\ receipt[i] = Lines

\* The charge of an invoice that was PAID and is REFUNDED was reversed.
RefundedIsReversed ==
    lost = {} => \A i \in Invoices :
        inv[i] = "REFUNDED" /\ receipt[i] > 0 /\ ~HasFailed(i) => gl[i] = 0

\* A CANCELLED invoice is never charged.
CancelledIsNotCharged ==
    lost = {} => \A i \in Invoices : inv[i] = "CANCELLED" => gl[i] = 0

\* What CGI has posted to the account for an invoice is what its status says.
LedgerMatchesInvoices ==
    ChargedOnce /\ PaidIsCharged /\ RefundedIsReversed /\ CancelledIsNotCharged

\* An active reference, which keeps an invoice out of further files, is that of one
\* file whose feedback is yet to be processed: no invoice is kept out for ever.
ActiveIsInFlight ==
    lost \subseteq {"refund"} => \A i \in Invoices :
        /\ Cardinality({r \in DOMAIN refs[i] : refs[i][r] = "ACTIVE"}) <= 1
        /\ HasRef(i, "ACTIVE") =>
             \E f \in DOMAIN files : /\ files[f].feedback # "PROCESSED"
                                     /\ files[f].links[i] = "UPLOADED"

\* What the job says of a reversal: "If there is no COMPLETED invoice reference,
\* then no need to reverse it".
ReversedIsCompleted ==
    [][Len(files') > Len(files) =>
          \A i \in files'[Len(files')].reversals : HasRef(i, "COMPLETED")]_vars

\* What the feedback is to do: "Set the invoice status as REFUNDED if it's a JV
\* reversal, else mark as PAID".
RefundedByReversal ==
    [][\A i \in Invoices : inv[i] # "REFUNDED" /\ inv'[i] = "REFUNDED" =>
          i \in files[worker].reversals]_vars
=============================================================================
