----------------------------- MODULE RoutingSlip -----------------------------
(***************************************************************************)
(* Routing slips: cash and cheques that staff take in and spend on         *)
(* invoices.                                                               *)
(*   services/fas/routing_slip.py      create, link, change of status,     *)
(*   services/internal_pay_service.py  invoices and their refunds,         *)
(*   services/refund.py                refund of what is left on a slip,   *)
(*   tasks/routing_slip_task.py        links, voids, NSFs, corrections and *)
(*                                     adjustments carried out in CFS,     *)
(*   tasks/cfs_create_invoice_task.py  invoices created and cancelled,     *)
(*   tasks/ap_task.py                  cheques for refunds.                *)
(*                                                                         *)
(* A slip is a CFS account with one receipt; the receipt of a linked slip  *)
(* is moved to the account of its parent.  A job handles one slip at a     *)
(* time, calls CFS several times and commits last: CFS may stop answering  *)
(* (or the job may die) between two calls, and what CFS has done stays     *)
(* done.  The session is not rolled back then, so what the handler has set *)
(* is either lost or committed with the next slip.                         *)
(***************************************************************************)
EXTENDS Integers, FiniteSets, Sequences, SequencesExt, FiniteSetsExt

CONSTANTS
    Slips,          \* numbers of routing slips
    NoSlip,
    MaxInvoices,    \* bound on invoices, those for NSF fees included
    SlipTotals,     \* amounts of slips
    Corrections,    \* what they are corrected to
    InvoiceTotals,  \* amounts of invoices
    NsfFee,         \* the fee for a dishonoured cheque
    MaxSuffix,      \* bound on cas_version_suffix
    MaxFailures,    \* bound on passes that CFS breaks off
    MaxEvents       \* bound on those, invoices, links, and changes of status together

ASSUME RoutingSlipConstants ==
    /\ IsFiniteSet(Slips)
    /\ NoSlip \notin Slips
    /\ SlipTotals \cup Corrections \cup InvoiceTotals \cup {NsfFee} \subseteq Nat \ {0}
    /\ MaxSuffix \in Nat \ {0}
    /\ {MaxInvoices, MaxFailures, MaxEvents} \subseteq Nat

VARIABLES
    slip,       \* routing_slips, each with the status of its CFS account
    inv,        \* invoices paid from slips, each with the status of its reference
    receipts,   \* numbers of the receipts rows of each invoice
    cas,        \* CFS: receipts, what is applied to what, invoices
    cheques,    \* what CGI was told to refund for each slip
    changes,    \* links, changes of status and refund requests so far
    failures    \* passes broken off so far

vars == <<slip, inv, receipts, cas, cheques, changes, failures>>

-----------------------------------------------------------------------------

Invoices == 1..MaxInvoices

RoutingSlipStatus ==
    {"ACTIVE", "COMPLETE", "NSF", "LINKED", "REFUND_REQUESTED", "REFUND_AUTHORIZED",
     "REFUND_UPLOADED", "REFUND_REJECTED", "REFUND_PROCESSED", "WRITE_OFF_REQUESTED",
     "WRITE_OFF_AUTHORIZED", "HOLD", "VOID", "CORRECTION"}
InvoiceStatus == {"NONE", "APPROVED", "CREATED", "PAID", "REFUND_REQUESTED", "REFUNDED"}

\* A receipt number in CFS: the number of the slip, "L" once it is linked, the version.
Receipt == [slip : Slips, linked : BOOLEAN, version : 1..MaxSuffix]

\* generate_cas_receipt_number
ReceiptOf(s) ==
    [slip |-> s, linked |-> slip[s].parent # NoSlip, version |-> slip[s].suffix]

NewSlip(t) ==
    [status |-> "ACTIVE", parent |-> NoSlip, total |-> t, remaining |-> t, suffix |-> 1,
     account |-> "PENDING", asked |-> "NO", refund |-> 0, mismatch |-> FALSE]

\* account "NONE": there is no such slip yet.  asked: it has a row in refunds, "YES", or
\* one that does not name it, "ORPHAN".
Init ==
    /\ slip = [s \in Slips |-> [NewSlip(0) EXCEPT !.account = "NONE"]]
    /\ inv = [i \in Invoices |-> [status |-> "NONE", slip |-> NoSlip, total |-> 0,
                                  paid |-> 0, ref |-> "NONE"]]
    /\ receipts = [i \in Invoices |-> {}]
    /\ cas = <<>>
    /\ cheques = [s \in Slips |-> 0]
    /\ changes = 0 /\ failures = 0

Exists(s) == slip[s].account # "NONE"
Children(s) == {c \in Slips : slip[c].parent = s}
Family(s) == {s} \cup Children(s)
InvoicesOf(s) == {i \in Invoices : inv[i].slip = s}
Having(s, statuses) == {i \in InvoicesOf(s) : inv[i].status \in statuses}
IsNext(i) == inv[i].status = "NONE" /\ \A j \in 1..(i - 1) : inv[j].status # "NONE"
Total(I) == MapThenSumSet(LAMBDA i : inv[i].total, I)

-----------------------------------------------------------------------------
(* CFS.  Receipts that are reversed let go of the invoices they were       *)
(* applied to and have nothing left to apply.                              *)

Unapplied(c, r) ==
    IF c[r].status = "REVERSED" THEN 0
    ELSE c[r].amount - c[r].given - MapThenSumSet(LAMBDA i : c[r].applied[i], Invoices)

AmountDue(c, i) == inv[i].total - MapThenSumSet(LAMBDA r : c[r].applied[i], DOMAIN c)

IsNew(c, r) == r \notin DOMAIN c
Live(c, r) == ~IsNew(c, r) /\ c[r].status = "LIVE"

NothingApplied == [i \in Invoices |-> 0]

\* reverse_rs_receipt_in_cfs, which CFS refuses for a receipt that is not there or is
\* reversed already.
ReverseReceipt(c, r) ==
    [c EXCEPT ![r].status = "REVERSED", ![r].applied = NothingApplied]

\* create_cfs_receipt; the number must be new.
Issue(c, r, amount) ==
    r :> [status |-> "LIVE", amount |-> amount, given |-> 0, applied |-> NothingApplied] @@ c

\* A receipt is replaced by one under another number.
\* Mutant: the old one is left.
IssueOnly(c, old, new, amount) == Issue(c, new, amount)
Recreate(c, old, new, amount) == Issue(ReverseReceipt(c, old), new, amount)

ReverseAll(c, R) == FoldSet(LAMBDA r, d : ReverseReceipt(d, r), c, R)

Min2(a, b) == IF a <= b THEN a ELSE b

\* CFS gives up or applies no more than a receipt has.
TypeOK ==
    /\ \A s \in Slips :
        /\ slip[s].status \in RoutingSlipStatus
        /\ slip[s].parent \in Slips \cup {NoSlip}
        /\ slip[s].account \in {"NONE", "PENDING", "ACTIVE", "FREEZE", "INACTIVE"}
        /\ slip[s].total \in Nat /\ slip[s].remaining \in Int /\ slip[s].refund \in Nat
        /\ slip[s].suffix \in 1..MaxSuffix
        /\ slip[s].asked \in {"NO", "YES", "ORPHAN"}
    /\ \A i \in Invoices :
        /\ inv[i].status \in InvoiceStatus
        /\ inv[i].ref \in {"NONE", "ACTIVE", "COMPLETED", "CANCELLED"}
        /\ (inv[i].status = "NONE") = (inv[i].slip = NoSlip)
        /\ receipts[i] \subseteq Receipt
    /\ DOMAIN cas \subseteq Receipt
    /\ \A r \in DOMAIN cas : /\ cas[r].status \in {"LIVE", "REVERSED"}
                             /\ cas[r].given \in Nat
                             /\ cas[r].applied \in [Invoices -> Nat]
                             /\ Unapplied(cas, r) >= 0
    /\ cheques \in [Slips -> Nat]
    /\ changes \in 0..MaxEvents /\ failures \in 0..MaxFailures

-----------------------------------------------------------------------------
(* Requests.                                                               *)

Billed == {i \in Invoices : inv[i].status # "NONE"}
WithinBound == Cardinality(Billed) + changes + failures < MaxEvents
Change == WithinBound /\ changes' = changes + 1

\* Staff takes in a slip.
Create(s, t) ==
    /\ ~Exists(s)
    /\ slip' = [slip EXCEPT ![s] = NewSlip(t)]
    /\ UNCHANGED <<inv, receipts, cas, cheques, changes, failures>>

\* An invoice is paid from slip s.
CreateInvoice(i, s, t) ==
    LET left == slip[s].remaining - t IN
    /\ WithinBound /\ IsNext(i) /\ Exists(s)
    /\ slip[s].status \in {"ACTIVE", "LINKED", "NSF", "CORRECTION"}
    /\ slip[s].parent = NoSlip
    /\ left >= 0
    /\ inv' = [inv EXCEPT ![i] = [status |-> "APPROVED", slip |-> s, total |-> t,
                                  paid |-> 0, ref |-> "NONE"]]
    /\ slip' = [slip EXCEPT ![s].remaining = left,
                            ![s].status = IF @ = "ACTIVE" /\ left = 0 THEN "COMPLETE" ELSE @]
    /\ UNCHANGED <<receipts, cas, cheques, changes, failures>>

\* A full refund of an invoice, which full_refund_statuses allows for PAID ones.
RefundInvoice(i) ==
    LET s == inv[i].slip IN
    /\ inv[i].status = "PAID"
    /\ slip[s].status \in {"ACTIVE", "COMPLETE"}
    /\ inv' = [inv EXCEPT ![i].status = "REFUND_REQUESTED"]
    /\ slip' = [slip EXCEPT ![s].remaining = @ + inv[i].total, ![s].status = "ACTIVE"]
    /\ UNCHANGED <<receipts, cas, cheques, changes, failures>>

\* Statuses that neither slip of a link may have.
NotLinkable == {"REFUND_REQUESTED", "REFUND_AUTHORIZED", "REFUND_PROCESSED",
                "WRITE_OFF_REQUESTED", "WRITE_OFF_AUTHORIZED", "COMPLETE", "VOID",
                "CORRECTION"}

Linkable(s, p) == {slip[s].status, slip[p].status} \cap NotLinkable = {}

\* What is left on slip s is moved to slip p.
\* Mutant: the total is moved.
MovedTotal(s) == slip[s].total
MovedAmount(s) == slip[s].remaining

Link(s, p) ==
    /\ Exists(s) /\ Exists(p) /\ s # p
    /\ \A q \in {s, p} : slip[q].parent = NoSlip /\ slip[q].status # "LINKED"
    /\ Children(s) = {} /\ InvoicesOf(s) = {}
    /\ slip[s].status # "NSF"
    /\ Linkable(s, p)
    /\ slip' = [slip EXCEPT ![s].parent = p, ![s].status = "LINKED", ![s].remaining = 0,
                            ![p].remaining = @ + MovedAmount(s)]
    /\ Change
    /\ UNCHANGED <<inv, receipts, cas, cheques, failures>>

\* STATUS_TRANSITIONS, the two custom statuses of a cancelled request being ACTIVE.
StatusTransitions(status) ==
    CASE status = "ACTIVE" -> {"HOLD", "NSF", "REFUND_REQUESTED", "WRITE_OFF_REQUESTED",
                               "VOID", "CORRECTION"}
      [] status = "COMPLETE" -> {"NSF", "VOID", "CORRECTION"}
      [] status = "HOLD" -> {"ACTIVE", "NSF", "VOID"}
      [] status = "REFUND_REQUESTED" -> {"REFUND_AUTHORIZED", "ACTIVE"}
      [] status = "WRITE_OFF_REQUESTED" -> {"WRITE_OFF_AUTHORIZED", "ACTIVE"}
      [] status = "CORRECTION" -> {"CORRECTION"}
      [] OTHER -> {}

\* The row of refunds tells who requested one; without it the request fails.
MayBecome(s, status) ==
    /\ Exists(s)
    /\ status \in StatusTransitions(slip[s].status)
    /\ slip[s].status = "REFUND_REQUESTED" => slip[s].asked = "YES"

\* Changes of status that change nothing else.
UpdateStatus(s, status) ==
    /\ MayBecome(s, status)
    /\ status \notin {"NSF", "VOID", "CORRECTION"}
    /\ slip' = [slip EXCEPT ![s].status = status]
    /\ Change
    /\ UNCHANGED <<inv, receipts, cas, cheques, failures>>

FamilyTotal(s) == MapThenSumSet(LAMBDA r : slip[r].total, Family(s))

\* A cheque was dishonoured: all slips of the family count as NSF.
\* Mutant: what was spent is not owed.
NothingLeft(s) == 0
LeftAfterNsf(s) == slip[s].remaining - FamilyTotal(s)

ReportNsf(s) ==
    /\ MayBecome(s, "NSF")
    /\ slip' = [slip EXCEPT ![s].status = "NSF", ![s].remaining = LeftAfterNsf(s)]
    /\ Change
    /\ UNCHANGED <<inv, receipts, cas, cheques, failures>>

Void(s) ==
    /\ MayBecome(s, "VOID")
    /\ InvoicesOf(s) = {}
    /\ slip' = [slip EXCEPT ![s].status = "VOID", ![s].remaining = 0]
    /\ Change
    /\ UNCHANGED <<inv, receipts, cas, cheques, failures>>

\* The job has nothing to correct for a slip that is not in CFS yet.
\* Mutant: no slip is left to the job.
CorrectedAtOnce(s, left) == IF left = 0 THEN "COMPLETE" ELSE "ACTIVE"
CorrectedStatus(s, left) ==
    IF slip[s].account \in {"ACTIVE", "FREEZE"} THEN "CORRECTION"
    ELSE IF left = 0 THEN "COMPLETE" ELSE "ACTIVE"

\* The payments of a slip are corrected to t in all.
Correct(s, t) ==
    LET left == slip[s].remaining + t - slip[s].total
        status == CorrectedStatus(s, left)
    IN
    /\ MayBecome(s, "CORRECTION")
    /\ slip' = [slip EXCEPT ![s].total = t, ![s].remaining = left, ![s].status = status]
    /\ Change
    /\ UNCHANGED <<inv, receipts, cas, cheques, failures>>

\* create_routing_slip_refund looks at what is left, not at the status.  A decision that
\* nobody requested leaves a row that does not name the slip.
RequestRefund(s, status) ==
    /\ Exists(s) /\ slip[s].remaining # 0
    /\ slip' = [slip EXCEPT ![s].status = IF status = "REFUND_REJECTED" THEN "ACTIVE"
                                          ELSE status,
                            ![s].asked = IF status = "REFUND_REQUESTED" THEN "YES"
                                         ELSE IF @ = "NO" THEN "ORPHAN" ELSE @]
    /\ Change
    /\ UNCHANGED <<inv, receipts, cas, cheques, failures>>

-----------------------------------------------------------------------------
(* Receipts applied to invoices.                                           *)

\* The receipts of a slip and of those that are linked to it.
\* Mutant: the children are forgotten.
OwnReceipt(s) == {ReceiptOf(s)}
FamilyReceipts(s) == {ReceiptOf(r) : r \in Family(s)}

\* apply_routing_slips_to_invoice: the receipts of the slip and then of its children
\* until nothing is due.  A receipt that CFS does not know is an error, one without a
\* balance is passed over.  failed: the receipts with a call that CFS does not answer,
\* which is logged and passed over too.
ApplyReceipt(acc, r, i, failed) ==
    LET balance == IF IsNew(acc.cas, r) THEN 0 ELSE Unapplied(acc.cas, r)
        amount  == Min2(balance, AmountDue(acc.cas, i))
        applied == [acc.cas EXCEPT ![r].applied[i] = @ + amount]
    IN
    IF acc.done \/ (r \notin failed /\ ~IsNew(acc.cas, r) /\ balance = 0) THEN acc
    ELSE IF r \in failed \/ IsNew(acc.cas, r) THEN [acc EXCEPT !.errors = TRUE]
    ELSE [acc EXCEPT !.cas = applied, !.rows = @ \cup {r}, !.done = AmountDue(applied, i) = 0]

ApplySlips(c, s, own, i, failed) ==
    FoldLeft(LAMBDA acc, r : ApplyReceipt(acc, r, i, failed),
             [cas |-> c, rows |-> {}, errors |-> FALSE, done |-> FALSE],
             <<own>> \o SetToSeq({ReceiptOf(r) : r \in Children(s)}))

\* _apply_routing_slips_to_pending_invoices for the invoices I of s: the result has the
\* invoices that are covered now.  failed[i]: the receipts that fail for invoice i.
ApplyToPending(c, s, own, I, failed) ==
    FoldSet(LAMBDA i, acc :
                LET a == ApplySlips(acc.cas, s, own, i, failed[i]) IN
                [cas |-> a.cas,
                 rows |-> [acc.rows EXCEPT ![i] = a.rows],
                 covered |-> IF AmountDue(a.cas, i) = 0 THEN acc.covered \cup {i}
                             ELSE acc.covered],
            [cas |-> c, rows |-> [i \in Invoices |-> {}], covered |-> {}], I)

\* Which calls may fail, with own for the receipt of s.
NoneFails == [i \in Invoices |-> {}]
Failures(s, own, I) ==
    LET receiptsOf == {own} \cup {ReceiptOf(r) : r \in Children(s)} IN
    {f \in [Invoices -> SUBSET receiptsOf] : \A i \in Invoices \ I : f[i] = {}}

\* Where get_invoice raises: not all of the invoices are reached, and one that CFS has
\* paid is not noticed.
Interrupted(c, s, own, I) ==
    LET reached == {ApplyToPending(c, s, own, I, f) : f \in Failures(s, own, I)} IN
    reached \cup {[a EXCEPT !.covered = @ \ {i}] : a \in reached, i \in I}

\* The invoices after it; those of reset were PAID until now.
Applied(applied, reset) ==
    [i \in Invoices |->
        IF i \in applied.covered
        THEN [inv[i] EXCEPT !.status = "PAID", !.ref = "COMPLETED"]
        ELSE IF i \in reset THEN [inv[i] EXCEPT !.status = "CREATED", !.ref = "ACTIVE"]
        ELSE inv[i]]

Pending == {"APPROVED", "CREATED"}

-----------------------------------------------------------------------------
(* Jobs.                                                                   *)

BreakOff == WithinBound /\ failures < MaxFailures /\ failures' = failures + 1

\* create_cfs_account
CreateCfsAccount(s) ==
    LET r == [slip |-> s, linked |-> FALSE, version |-> 1] IN
    /\ slip[s].account = "PENDING" /\ IsNew(cas, r)
    /\ cas' = Issue(cas, r, slip[s].total)
    /\ \/ slip' = [slip EXCEPT ![s].account = "ACTIVE"] /\ UNCHANGED failures
       \/ BreakOff /\ UNCHANGED slip
    /\ UNCHANGED <<inv, receipts, cheques, changes>>

\* _cancel_rs_invoices.  CFS unapplies receipts that are live and reverses an invoice
\* that nothing is applied to.
Unapply(i, R) ==
    [r \in DOMAIN cas |-> IF r \in R THEN [cas[r] EXCEPT !.applied[i] = 0] ELSE cas[r]]
WithoutRows(i) == Unapply(i, receipts[i])
CanBeCancelled(i) ==
    /\ \A r \in receipts[i] : Live(cas, r)
    /\ AmountDue(WithoutRows(i), i) = inv[i].total

\* The receipts are unapplied one after the other, up to a call that CFS refuses or does
\* not answer; then the invoice stays as it is.
CancelInvoice(i) ==
    LET created == inv[i].ref = "COMPLETED" IN
    /\ inv[i].status = "REFUND_REQUESTED"
    /\ \/ /\ created => CanBeCancelled(i)
          /\ inv' = [inv EXCEPT ![i].status = "REFUNDED",
                                ![i].ref = IF created THEN "CANCELLED" ELSE @]
          /\ cas' = IF created THEN WithoutRows(i) ELSE cas
          /\ UNCHANGED failures
       \/ /\ created
          /\ IF CanBeCancelled(i) THEN BreakOff ELSE UNCHANGED failures
          /\ cas' \in {Unapply(i, R) : R \in SUBSET {r \in receipts[i] : Live(cas, r)}}
          /\ UNCHANGED inv
    /\ UNCHANGED <<slip, receipts, cheques, changes>>

\* _create_rs_invoices: the invoice is created in CFS, or found there, the receipts are
\* applied, and unless one of them is an error the invoice is PAID.  Rows of receipts are
\* lost with the job, or are committed with the next invoice.
CreateCfsInvoice(i) ==
    LET s == inv[i].slip
        a == ApplySlips(cas, s, ReceiptOf(s), i, {})
    IN
    /\ inv[i].status = "APPROVED"
    /\ slip[s].account \in {"ACTIVE", "FREEZE"}
    /\ \/ /\ ~a.errors
          /\ cas' = a.cas
          /\ receipts' = [receipts EXCEPT ![i] = @ \cup a.rows]
          /\ inv' = [inv EXCEPT ![i].status = "PAID", ![i].ref = "COMPLETED",
                                ![i].paid = inv[i].total]
          /\ UNCHANGED failures
       \/ /\ a.errors
          /\ cas' = a.cas
          /\ receipts' = [receipts EXCEPT ![i] = @ \cup a.rows]
          /\ UNCHANGED <<inv, failures>>
       \/ \E failed \in SUBSET FamilyReceipts(s) :
             LET part == ApplySlips(cas, s, ReceiptOf(s), i, failed) IN
             /\ BreakOff
             /\ cas' = part.cas
             /\ receipts' \in {receipts, [receipts EXCEPT ![i] = @ \cup part.rows]}
             /\ UNCHANGED inv
    /\ UNCHANGED <<slip, cheques, changes>>

\* _get_routing_slip_by_status
Picked(s, status) == slip[s].status = status /\ slip[s].account = "ACTIVE"

\* link_routing_slips: the receipt under the plain number is reversed, unless it is
\* already, and one is created for the parent.
LinkInCfs(s) ==
    LET p        == slip[s].parent
        first    == [slip |-> s, linked |-> FALSE, version |-> 1]
        reversed == ReverseReceipt(cas, first)
        issued   == Recreate(cas, first, ReceiptOf(s), slip[s].total)
        moved    == [slip EXCEPT ![s].account = "INACTIVE"]
        possible == slip[p].account \in {"ACTIVE", "FREEZE"} /\ IsNew(reversed, ReceiptOf(s))
        nsf      == slip[p].status = "NSF"
        billed   == {i \in Having(p, Pending) : inv[i].ref = "ACTIVE"}
        unbilled == nsf /\ Having(p, Pending) # billed
    IN
    /\ Picked(s, "LINKED") /\ ~IsNew(cas, first)
    /\ \/ /\ possible /\ ~nsf
          /\ slip' = moved /\ cas' = issued
          /\ UNCHANGED <<inv, receipts, failures>>
       \/ \* An NSF parent is paid for: what is due is paid now.
          /\ possible /\ nsf /\ ~unbilled
          /\ \E failed \in Failures(p, ReceiptOf(p), billed) :
                LET a == ApplyToPending(issued, p, ReceiptOf(p), billed, failed) IN
                /\ slip' = [moved EXCEPT ![p].status = "ACTIVE",
                                         ![p].remaining = slip[s].total - Total(a.covered)]
                /\ cas' = a.cas
                /\ inv' = Applied(a, {})
                /\ receipts' = [i \in Invoices |-> receipts[i] \cup a.rows[i]]
                /\ IF failed = NoneFails THEN UNCHANGED failures ELSE BreakOff
       \/ \* There is no account of the parent or the number is taken.
          /\ ~possible
          /\ slip' \in {slip, moved} /\ cas' = reversed
          /\ UNCHANGED <<inv, receipts, failures>>
       \/ /\ possible /\ BreakOff
          /\ slip' \in {slip, moved} /\ cas' \in {reversed, issued}
          /\ UNCHANGED <<inv, receipts>>
       \/ \* An invoice is not in CFS, or CFS breaks off while the parent is paid for.
          /\ possible /\ nsf
          /\ IF unbilled THEN UNCHANGED failures ELSE BreakOff
          /\ \E a \in Interrupted(issued, p, ReceiptOf(p), billed) :
                /\ cas' = a.cas
                /\ \/ UNCHANGED <<slip, inv, receipts>>
                   \/ /\ slip' = moved
                      /\ inv' = Applied(a, {})
                      /\ receipts' = [i \in Invoices |-> receipts[i] \cup a.rows[i]]
    /\ UNCHANGED <<cheques, changes>>

\* process_void and process_nsf reverse the receipt of the slip and then those of its
\* children, up to one that CFS refuses or does not answer for.
Refused(s) == \E r \in FamilyReceipts(s) : ~Live(cas, r)
ReversedInPart(s) ==
    {ReverseAll(cas, Q \cup {ReceiptOf(s)}) :
        Q \in SUBSET {r \in FamilyReceipts(s) : Live(cas, r)}}

ReversalIsRefused(s, status) ==
    /\ Picked(s, status) /\ Refused(s) /\ Live(cas, ReceiptOf(s))
    /\ status = "VOID" => InvoicesOf(s) = {}
    /\ cas' \in ReversedInPart(s)
    /\ UNCHANGED <<slip, inv, receipts, cheques, changes, failures>>

\* process_void
VoidInCfs(s) ==
    /\ Picked(s, "VOID") /\ InvoicesOf(s) = {} /\ ~Refused(s)
    /\ \/ /\ slip[s].suffix < MaxSuffix
          /\ cas' = ReverseAll(cas, FamilyReceipts(s))
          /\ slip' = [slip EXCEPT ![s].account = "INACTIVE", ![s].remaining = 0,
                                  ![s].suffix = @ + 1]
          /\ UNCHANGED failures
       \/ BreakOff /\ cas' \in ReversedInPart(s) /\ UNCHANGED slip
    /\ UNCHANGED <<inv, receipts, cheques, changes>>

\* _reset_invoices_and_references_to_created: the invoices and their receipts rows.
PaidInvoices(s) == Having(s, {"PAID"})

\* Mutant: the rows are left.
RowsLeft(reset, rows) == [i \in Invoices |-> receipts[i] \cup rows[i]]
RowsReset(reset, rows) ==
    [i \in Invoices |-> IF i \in reset THEN rows[i] ELSE receipts[i]]

\* process_nsf: the receipts are reversed, the account is frozen, the invoices are due
\* again and so is a fee.
NsfInCfs(s, fee) ==
    LET reset  == PaidInvoices(s)
        frozen == [slip EXCEPT ![s].account = "FREEZE"]
        nsf    == [status |-> "CREATED", slip |-> s, total |-> NsfFee, paid |-> 0,
                   ref |-> "NONE"]
        due    == [Applied([covered |-> {}], reset) EXCEPT ![fee] = nsf]
        billed == [due EXCEPT ![fee].ref = "ACTIVE"]
        unpaid == RowsReset(reset, [i \in Invoices |-> {}])
        done   == ReverseAll(cas, FamilyReceipts(s))
    IN
    /\ Picked(s, "NSF") /\ IsNext(fee) /\ ~Refused(s)
    /\ \/ /\ cas' = done
          /\ inv' = billed
          /\ receipts' = unpaid
          /\ slip' = [frozen EXCEPT ![s].remaining = @ - NsfFee]
          /\ UNCHANGED failures
       \/ BreakOff /\ cas' \in ReversedInPart(s) /\ UNCHANGED <<inv, receipts, slip>>
       \/ \* The fee is committed before it is created in CFS, its reference before the slip.
          /\ BreakOff /\ cas' = done
          /\ inv' \in {due, billed} /\ receipts' = unpaid /\ slip' = frozen
    /\ UNCHANGED <<cheques, changes>>

\* process_correction: the receipt is reversed and created again with the new total
\* under the next number, and the invoices are paid again.
CorrectInCfs(s) ==
    LET old      == ReceiptOf(s)
        new      == [old EXCEPT !.version = @ + 1]
        reversed == ReverseReceipt(cas, old)
        issued   == Recreate(cas, old, new, slip[s].total)
        reset    == PaidInvoices(s)
        next     == [slip EXCEPT ![s].suffix = @ + 1]
    IN
    /\ Picked(s, "CORRECTION") /\ Having(s, Pending) = {}
    /\ Live(cas, old) /\ slip[s].suffix < MaxSuffix /\ IsNew(cas, new)
    /\ \/ \E failed \in Failures(s, new, reset) :
             LET a == ApplyToPending(issued, s, new, reset, failed) IN
             /\ cas' = a.cas
             /\ inv' = Applied(a, reset)
             /\ receipts' = RowsReset(reset, a.rows)
             /\ slip' = [next EXCEPT ![s].status = IF slip[s].remaining = 0 THEN "COMPLETE"
                                                   ELSE "ACTIVE"]
             /\ IF failed = NoneFails THEN UNCHANGED failures ELSE BreakOff
       \/ /\ BreakOff
          /\ cas' \in {reversed, issued} /\ slip' \in {slip, next}
          /\ UNCHANGED <<inv, receipts>>
       \/ /\ BreakOff
          /\ \E a \in Interrupted(issued, s, new, reset) :
                /\ cas' = a.cas
                /\ \/ UNCHANGED <<slip, inv, receipts>>
                   \/ /\ slip' = next
                      /\ inv' = Applied(a, reset)
                      /\ receipts' = RowsReset(reset, a.rows)
    /\ UNCHANGED <<cheques, changes>>

\* adjust_routing_slips: what CFS has left must be what the slip has not spent.
AppliedAmount(s) ==
    MapThenSumSet(LAMBDA i : inv[i].paid, UNION {Having(r, {"PAID"}) : r \in Family(s)})

\* Mutant: the amounts are not compared.
SkipsAmounts(s) == TRUE
AmountsAgree(s) ==
    MapThenSumSet(LAMBDA r : Unapplied(cas, r), FamilyReceipts(s))
        = FamilyTotal(s) - AppliedAmount(s)
Consistent(s) ==
    /\ (AppliedAmount(s) > 0)
            = (\E r \in FamilyReceipts(s) : cas[r].applied # NothingApplied)
    /\ AmountsAgree(s)

\* Mutant: the whole receipt is given up.
AdjustAll(c, R) ==
    [r \in DOMAIN c |-> IF r \in R THEN [c[r] EXCEPT !.given = c[r].amount] ELSE c[r]]
AdjustToZero(c, R) ==
    [r \in DOMAIN c |-> IF r \in R THEN [c[r] EXCEPT !.given = @ + Unapplied(c, r)]
                        ELSE c[r]]

Adjust(s) ==
    LET R == FamilyReceipts(s) IN
    /\ slip[s].status \in {"REFUND_AUTHORIZED", "WRITE_OFF_AUTHORIZED"}
    /\ slip[s].remaining > 0 /\ ~slip[s].mismatch
    /\ \A r \in Family(s) : Having(r, Pending) = {}
    /\ slip[s].account \in {"ACTIVE", "FREEZE"}
    /\ \A r \in R : ~IsNew(cas, r)
    /\ \/ /\ Consistent(s)
          /\ cas' = AdjustToZero(cas, R)
          /\ slip' = [slip EXCEPT ![s].refund = slip[s].remaining, ![s].remaining = 0]
          /\ UNCHANGED failures
       \/ /\ ~Consistent(s)
          /\ slip' = [slip EXCEPT ![s].mismatch = TRUE]
          /\ UNCHANGED <<cas, failures>>
       \/ /\ Consistent(s) /\ BreakOff
          /\ \E Q \in SUBSET R : cas' = AdjustToZero(cas, Q)
          /\ UNCHANGED slip
    /\ UNCHANGED <<inv, receipts, cheques, changes>>

\* _create_routing_slip_refund_file: one file for all of them, uploaded and then
\* committed.  A slip without a row in refunds breaks it off before the upload.
\* Mutant: the slip stays as it is.
ToBeRefunded == {s \in Slips : slip[s].status = "REFUND_AUTHORIZED" /\ slip[s].refund > 0}
StillAuthorized == "REFUND_AUTHORIZED"
AfterUpload == "REFUND_UPLOADED"

Upload ==
    /\ ToBeRefunded # {}
    /\ \A s \in ToBeRefunded : slip[s].asked = "YES"
    /\ cheques' = [s \in Slips |->
                    cheques[s] + IF s \in ToBeRefunded THEN slip[s].refund ELSE 0]
    /\ UNCHANGED <<inv, receipts, cas, changes>>

UploadRefunds ==
    /\ Upload
    /\ slip' = [s \in Slips |-> IF s \in ToBeRefunded
                               THEN [slip[s] EXCEPT !.status = AfterUpload] ELSE slip[s]]
    /\ UNCHANGED failures

\* The job dies, or the commit fails, when CGI has the file.
UploadRefundsAndDie == Upload /\ BreakOff /\ UNCHANGED slip

\* _process_ap_header_routing_slips
RefundFeedback(s, status) ==
    /\ slip[s].status = "REFUND_UPLOADED"
    /\ status \in {"REFUND_PROCESSED", "REFUND_REJECTED"}
    /\ slip' = [slip EXCEPT ![s].status = status]
    /\ UNCHANGED <<inv, receipts, cas, cheques, changes, failures>>

-----------------------------------------------------------------------------

Request(s) ==
    \/ \E t \in SlipTotals : Create(s, t)
    \/ \E t \in Corrections : Correct(s, t)
    \/ \E i \in Invoices, t \in InvoiceTotals : CreateInvoice(i, s, t)
    \/ \E p \in Slips : Link(s, p)
    \/ \E status \in RoutingSlipStatus : UpdateStatus(s, status)
    \/ ReportNsf(s) \/ Void(s)
    \/ \E status \in {"REFUND_REQUESTED", "REFUND_AUTHORIZED", "REFUND_REJECTED"} :
            RequestRefund(s, status)

Job(s) ==
    \/ CreateCfsAccount(s) \/ LinkInCfs(s) \/ VoidInCfs(s) \/ CorrectInCfs(s) \/ Adjust(s)
    \/ \E fee \in Invoices : NsfInCfs(s, fee)
    \/ \E status \in {"VOID", "NSF"} : ReversalIsRefused(s, status)
    \/ \E status \in RoutingSlipStatus : RefundFeedback(s, status)

Next ==
    \/ \E s \in Slips : Request(s) \/ Job(s)
    \/ \E i \in Invoices : RefundInvoice(i) \/ CreateCfsInvoice(i) \/ CancelInvoice(i)
    \/ UploadRefunds \/ UploadRefundsAndDie

Spec == Init /\ [][Next]_vars

-----------------------------------------------------------------------------
(* Properties.                                                             *)

Spent(s) == Total(Having(s, {"APPROVED", "CREATED", "PAID"}))

\* What the books of a slip are off by.
FamilyRefund(s) == MapThenSumSet(LAMBDA r : slip[r].refund, Family(s))
Drift(s) == slip[s].remaining + Spent(s) + FamilyRefund(s) - FamilyTotal(s)

\* No request and no job makes the remaining amount of a slip drift from what its family
\* brought in less what was spent and refunded: invoices, refunds, links, corrections and
\* adjustments keep the books.  A dishonoured cheque, its payment by a link and a void are
\* meant to change them; the pass for an NSF may break off between the fee and the books.
BalanceKept ==
    [][\A s \in Slips :
        \/ ~Exists(s)
        \/ slip'[s].parent # NoSlip
        \/ "NSF" \in {slip[s].status, slip'[s].status} /\ slip[s].status # slip'[s].status
        \/ slip'[s].status = "VOID"
        \/ failures' # failures
        \/ Drift(s)' = Drift(s)]_vars

\* The money of a slip is in CFS once: of its receipts, old and new, at most one is live,
\* wherever a link or a correction was broken off.  (A slip that was corrected before it
\* was linked is an exception: see LinkedIsReversed.)
Issued(s) == {r \in DOMAIN cas : r.slip = s}

OneLiveReceipt ==
    \A s \in Slips :
        slip[s].parent = NoSlip \/ (\A r \in Issued(s) : r.version = 1) =>
            Cardinality({r \in Issued(s) : Live(cas, r)}) <= 1

\* The refund or write-off of a slip is what CFS gave up for it, nothing is left to spend
\* afterwards, and at most one cheque is written, and another for each pass that dies
\* after its upload.  (Slips linked after their refund are an exception: their total is
\* created again for the parent.)
Given(R) == MapThenSumSet(LAMBDA r : cas[r].given, R \cap DOMAIN cas)

RefundIsFinal ==
    \A s \in Slips :
        slip[s].refund > 0 /\ slip[s].parent = NoSlip /\ Children(s) = {} =>
            /\ slip[s].remaining = 0
            /\ Given({ReceiptOf(s)}) = slip[s].refund
            /\ cheques[s] <= slip[s].refund * (1 + failures)

\* Not true: the file is uploaded before the slips are committed.
OneCheque == \A s \in Slips : cheques[s] <= slip[s].refund

\* What a slip offers to be spent is in CFS: when the jobs are done with a slip whose
\* books are kept, its receipts have at least the remaining amount to be applied.
JobsAreDone(s) ==
    /\ slip[s].account = "ACTIVE" /\ slip[s].parent = NoSlip /\ slip[s].asked = "NO"
    /\ slip[s].status \notin {"NSF", "VOID", "CORRECTION"}
    /\ Having(s, Pending \cup {"REFUND_REQUESTED"}) = {}
    /\ Live(cas, ReceiptOf(s)) /\ FamilyReceipts(s) \subseteq DOMAIN cas

OfferedIsInCfs ==
    \A s \in Slips :
        JobsAreDone(s) /\ Drift(s) = 0 /\ failures = 0 =>
            MapThenSumSet(LAMBDA r : Unapplied(cas, r), FamilyReceipts(s)) >= slip[s].remaining

\* The refund of a paid invoice will not get stuck: its receipts rows are what CFS has
\* applied to it, so that it can be unapplied and the invoice be reversed.  (A correction
\* deletes the rows of the children, whose receipts it does not touch; a pass that breaks
\* off loses rows.)
PaidCanBeCancelled ==
    \A i \in Invoices :
        inv[i].status = "PAID" /\ failures = 0 /\ Children(inv[i].slip) = {} =>
            CanBeCancelled(i)

\* A dishonoured slip owes all that it had paid for, and the fee.
NsfOwesAll ==
    \A s \in Slips :
        slip[s].status = "NSF" /\ Children(s) = {} /\ slip[s].asked = "NO" /\ failures = 0 =>
            slip[s].remaining = - Spent(s)

\* A void that the job has carried out takes back the receipts of the whole family.
VoidTakesBack ==
    \A s \in Slips :
        slip[s].status = "VOID" /\ slip[s].account = "INACTIVE" =>
            \A r \in DOMAIN cas :
                r.slip = s \/ (r.slip \in Children(s) /\ r.linked) => ~Live(cas, r)

\* CFS has the receipts that the slips of a family stand for, each once, and none of a
\* slip that is void.
ReceiptsFollowSlips == OneLiveReceipt /\ VoidTakesBack

\* The amounts of a slip are what its status promises: left to spend, owed, refunded.
AmountsFollowStatus == OfferedIsInCfs /\ NsfOwesAll /\ RefundIsFinal

\* Not true: link_routing_slips reverses the receipt of the child.
LinkedIsReversed ==
    \A s \in Slips :
        slip[s].status = "LINKED" /\ slip[s].account = "INACTIVE" =>
            \A r \in DOMAIN cas : r.slip = s /\ ~r.linked => ~Live(cas, r)
=============================================================================
