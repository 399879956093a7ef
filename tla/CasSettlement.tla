---------------------------- MODULE CasSettlement ----------------------------
(***************************************************************************)
(* Pre-authorized debit and online banking, and the settlement files that  *)
(* say what became of them:                                                *)
(*   tasks/cfs_create_invoice_task.py    invoices are billed in CFS,       *)
(*   pay_queue/services/payment_reconciliations.py  a file is settled,     *)
(*   pay_api/services/payment.py         a frozen account pays by card,    *)
(*   pay_api/services/payment_account.py and is unlocked.                  *)
(*                                                                         *)
(* CFS debits what is billed, and a bank returns a debit days later for    *)
(* want of funds.  CFS writes both in files; the worker commits after each *)
(* row, several times within a row about a returned debit, and again when  *)
(* it records the payments of the file.  It may die between any two        *)
(* commits; the row of cas_settlements then keeps the file from being      *)
(* processed again until somebody removes it.                              *)
(***************************************************************************)
EXTENDS Integers, FiniteSets, Sequences, FiniteSetsExt, SequencesExt

CONSTANTS
    NumInvoices,        \* invoices, in the order of their creation
    Accounts,
    AccountOf,          \* the account of each invoice
    Methods,            \* the payment methods invoices may have
    MaxRows,            \* bound on the rows CFS writes in files
    MaxRestarts,        \* bound on how often a file is processed again
    MaxLost             \* bound on what is lost

Losses == {"answer",    \* CFS creates an invoice, its answers do not arrive
           "call",      \* CFS refuses a call of a consolidation
           "worker",    \* the worker dies between two commits
           "request",   \* a request dies between two commits
           "row",       \* CFS repeats a row of a returned debit
           "order"}     \* a file is delivered before an earlier one

ASSUME SettlementConstants ==
    /\ {NumInvoices, MaxRows, MaxRestarts, MaxLost} \subseteq Nat
    /\ AccountOf \in [1..NumInvoices -> Accounts]
    /\ Methods \subseteq {"PAD", "ONLINE_BANKING"}

Invoices == 1..NumInvoices
\* The invoice for the fee of a returned debit of number n.
Fee(n)   == NumInvoices + n
Items    == 1..(2 * NumInvoices)
\* A CFS invoice has the id of its oldest invoice as number; one that
\* consolidates others has that of the last of them, with a "-C".
ConsNumber(x)  == NumInvoices + x
Numbers  == 1..(3 * NumInvoices)
Total    == 2

VARIABLES
    inv,        \* rows of invoices, fees included: method, status, paid
    refs,       \* invoice_references: for each item, the status by number
    receipts,   \* how many receipts each item has
    refunded,   \* items with a refund_date
    account,    \* the effective CFS account's status, has_nsf_invoices
    payments,   \* rows of payments, in the order of their creation
    nsf,        \* numbers with a row in non_sufficient_funds
    cfs,        \* invoices in CFS: status, items billed, fee adjustments
    site,       \* the receipt method of each account in CFS
    files,      \* the files, each a sequence of rows
    settlement, \* cas_settlements: what became of each file
    work,       \* what the worker is doing
    bill,       \* the account the CFS invoice job is billing
    paying,     \* the accounts to be unlocked, as update_transaction goes on
    restarts,   \* how often a file was processed again
    lost        \* what was lost so far

tables == <<inv, refs, receipts, refunded, account, payments, nsf>>
external == <<cfs, site, files>>
faults == <<restarts, lost>>
vars == <<tables, external, settlement, work, bill, paying, faults>>

-----------------------------------------------------------------------------
(* The tables.                                                             *)

InvoiceStatus == {"NONE", "CREATED", "APPROVED", "SETTLEMENT_SCHEDULED",
                  "PARTIAL", "PAID", "CANCELLED", "CREDITED"}
Invoice == [method : {"PAD", "ONLINE_BANKING", "CC"},
            status : InvoiceStatus, paid : 0..Total]
RefStatus == {"NONE", "ACTIVE", "COMPLETED", "CANCELLED"}
\* cons is cons_inv_number.
Payment == [number : Numbers, method : {"PAD", "CC", "ONLINE_BANKING"},
            status : {"CREATED", "COMPLETED", "FAILED", "DELETED"},
            cons : Numbers \cup {0}]
\* PAID is debited or deposited, CARD is paid by card.
CfsInvoice == [status : {"NONE", "OPEN", "PAID", "RETURNED", "REVERSED", "CARD"},
               bills : SUBSET Items, fees : Nat]
Row == [type : {"PAD", "PADR", "BOLP"}, number : Numbers,
        status : {"PAID", "NOT_PAID", "PARTIAL"}]
Phases == {"IDLE", "ROWS", "NSF_ROW", "NSF_REFERENCE", "NSF_ADJUSTMENT",
           "PAYMENTS"}

AccountOfItem(x) == AccountOf[IF x \in Invoices THEN x ELSE x - NumInvoices]
AccountOfNumber(n) ==
    AccountOfItem(CHOOSE x \in cfs[n].bills : TRUE)

IdleWork == [phase |-> "IDLE", file |-> 0, row |-> 0]
NoBill == [items |-> {}, number |-> 0]

Init ==
    /\ inv = [x \in Items |-> [method |-> IF x \in Invoices THEN "PAD" ELSE "CC",
                               status |-> "NONE", paid |-> 0]]
    /\ refs = [x \in Items |-> [n \in Numbers |-> "NONE"]]
    /\ receipts = [x \in Items |-> 0]
    /\ refunded = {}
    /\ account = [a \in Accounts |-> [status |-> "ACTIVE", nsf |-> FALSE]]
    /\ payments = <<>>
    /\ nsf = {}
    /\ cfs = [n \in Numbers |-> [status |-> "NONE", bills |-> {}, fees |-> 0]]
    /\ site = [a \in Accounts |-> "PAD_DAILY"]
    /\ files = <<>>
    /\ settlement = <<>>
    /\ work = IdleWork
    /\ bill = NoBill
    /\ paying = [a \in Accounts |-> "NO"]
    /\ restarts = 0
    /\ lost = {}

TypeOK ==
    /\ inv \in [Items -> Invoice]
    /\ refs \in [Items -> [Numbers -> RefStatus]]
    /\ receipts \in [Items -> Nat]
    /\ refunded \subseteq Invoices
    /\ account \in [Accounts -> [status : {"ACTIVE", "FREEZE"}, nsf : BOOLEAN]]
    /\ payments \in Seq(Payment)
    /\ nsf \subseteq Numbers
    /\ cfs \in [Numbers -> CfsInvoice]
    /\ site \in [Accounts -> {"PAD_DAILY", "PAD_STOP"}]
    /\ files \in Seq(Seq(Row))
    /\ settlement \in Seq({"NONE", "STARTED", "PROCESSED", "REMOVED"})
    /\ Len(settlement) = Len(files)
    /\ work \in [phase : Phases, file : 0..Len(files), row : Nat]
    /\ bill \in [items : SUBSET Invoices, number : Numbers \cup {0}]
    /\ paying \in [Accounts -> {"NO", "COMPLETED", "DAILY"}]
    /\ restarts \in 0..MaxRestarts
    /\ lost \subseteq Losses

-----------------------------------------------------------------------------
(* Queries.                                                                *)

\* References of a number.
Having(status, n) == {x \in Items : refs[x][n] = status}
ActiveRefs(x) == {n \in Numbers : refs[x][n] = "ACTIVE"}

PaymentsWith(method, status, n) ==
    {p \in DOMAIN payments : /\ payments[p].number = n
                             /\ payments[p].method \in method
                             /\ payments[p].status = status}
AnyMethod == {"PAD", "CC", "ONLINE_BANKING"}

\* Failed payments that wait, and payments that consolidated failed ones.
PaymentsToConsolidate(a) ==
    LET consolidated == {payments[p].cons : p \in
                            {q \in DOMAIN payments : /\ payments[q].status = "FAILED"
                                                     /\ payments[q].method = "PAD"}}
    IN {p \in DOMAIN payments :
          /\ \E x \in Having("ACTIVE", payments[p].number) : AccountOfItem(x) = a
          /\ payments[p].status = "FAILED" \/ payments[p].number \in consolidated}

Lose(what) ==
    /\ what \notin lost /\ Cardinality(lost) < MaxLost
    /\ lost' = lost \cup {what}
    /\ UNCHANGED restarts

SetReferences(items, n, status) ==
    [x \in Items |-> IF x \in items THEN [refs[x] EXCEPT ![n] = status] ELSE refs[x]]

\* Mutant: the amounts of several receipts are added up.
PaidInvoiceAdded(x) == [inv[x] EXCEPT !.status = "PAID", !.paid = @ + Total]

PaidInvoice(x) == [inv[x] EXCEPT !.status = "PAID", !.paid = Total]

\* Mutant: the old reference is kept.
ConsolidatedKept(x, new) == [refs[x] EXCEPT ![new] = "ACTIVE"]

\* The active reference is cancelled for one with the new number.
Consolidated(x, new) ==
    [n \in Numbers |-> IF n = new THEN "ACTIVE"
                       ELSE IF refs[x][n] = "ACTIVE" THEN "CANCELLED" ELSE refs[x][n]]

ReversedInCfs(numbers) ==
    [n \in Numbers |->
        IF n \in numbers THEN [cfs[n] EXCEPT !.status = "REVERSED"] ELSE cfs[n]]

\* The CFS invoices of the numbers are reversed and billed again as one, unless
\* CFS has an invoice of that number.
Rebilled(numbers, items, new) ==
    IF cfs[new].status = "NONE"
    THEN [ReversedInCfs(numbers) EXCEPT ![new] =
            [status |-> "OPEN", bills |-> items, fees |-> 0]]
    ELSE ReversedInCfs(numbers)

\* A payment that was itself a consolidation is deleted.
ConsolidatedInto(p, new) ==
    [payments[p] EXCEPT !.cons = new,
                        !.status = IF @ = "CREATED" THEN "DELETED" ELSE @]

-----------------------------------------------------------------------------
(* Requests.                                                               *)

\* A frozen account creates no invoice.
CreateInvoice(i, m) ==
    /\ inv[i].status = "NONE"
    /\ \A j \in 1..(i - 1) : inv[j].status # "NONE"
    /\ ~account[AccountOf[i]].nsf
    /\ inv' = [inv EXCEPT ![i] =
                 [method |-> m, paid |-> 0,
                  status |-> IF m = "PAD" THEN "APPROVED" ELSE "CREATED"]]
    /\ UNCHANGED <<refs, receipts, refunded, account, payments, nsf, external,
                   settlement, work, bill, paying, faults>>

\* An invoice that is not yet in CFS is cancelled; for another, CFS gives a
\* credit memo.
RefundInvoice(i) ==
    /\ inv[i].status \in IF inv[i].method = "PAD" THEN {"APPROVED", "PAID"}
                                                  ELSE {"PAID"}
    /\ i \notin refunded
    /\ inv' = [inv EXCEPT ![i].status =
                 IF @ = "APPROVED" /\ ActiveRefs(i) = {} THEN "CANCELLED"
                                                         ELSE "CREDITED"]
    /\ refunded' = refunded \cup {i}
    /\ UNCHANGED <<refs, receipts, account, payments, nsf, external, settlement,
                   work, bill, paying, faults>>

FailedNumbers(a) == {payments[p].number : p \in PaymentsToConsolidate(a)}
FailedItems(a) == UNION {Having("ACTIVE", n) : n \in FailedNumbers(a)}
CardPayment(n) == [number |-> n, method |-> "CC", status |-> "CREATED", cons |-> 0]

\* One failed payment is paid by card under its own number.
RetryPayment(a) ==
    LET P == PaymentsToConsolidate(a)
        n == CHOOSE m \in FailedNumbers(a) : TRUE
    IN /\ Cardinality(P) = 1
       /\ PaymentsWith(AnyMethod, "CREATED", n) = {}
       /\ \A p \in P : payments[p].status = "FAILED"
       /\ payments' = Append(payments, CardPayment(n))
       /\ UNCHANGED <<inv, refs, receipts, refunded, account, nsf, external,
                      settlement, work, bill, paying, faults>>

\* CFS reverses what has a balance, which a second payment of the number finds
\* reversed.
Reversible(P) ==
    \A p \in P : /\ cfs[payments[p].number].status \in {"OPEN", "RETURNED"}
                 /\ \A q \in P : payments[q].number = payments[p].number => q = p

\* An invoice that CFS has of the number is taken if the totals match
\* (CFS_INVOICES_MISMATCH).
Usable(new, items) ==
    \/ cfs[new].status = "NONE"
    \/ Cardinality(cfs[new].bills) = Cardinality(items)

\* Several are reversed in CFS one by one and billed again as one.  Which of
\* the invoices is the last is not determined: the queries have no order.
CreateRetryPayment(a) ==
    LET P == PaymentsToConsolidate(a)
        items == FailedItems(a)
    IN /\ Cardinality(P) > 1
       /\ Reversible(P)
       /\ \E last \in items :
            LET new == ConsNumber(last)
            IN /\ Usable(new, items)
               /\ cfs' = Rebilled(FailedNumbers(a), items, new)
               /\ refs' = [x \in Items |-> IF x \in items THEN Consolidated(x, new)
                                                          ELSE refs[x]]
               /\ payments' = Append([p \in DOMAIN payments |->
                                        IF p \in P THEN ConsolidatedInto(p, new)
                                                   ELSE payments[p]], CardPayment(new))
       /\ UNCHANGED <<inv, receipts, refunded, account, nsf, site, files,
                      settlement, work, bill, paying, faults>>

\* What makes a consolidation raise when the numbers are reversed.
Refused(a, numbers) ==
    \/ ~Reversible(PaymentsToConsolidate(a))
    \/ /\ numbers = FailedNumbers(a)
       /\ \E last \in FailedItems(a) : ~Usable(ConsNumber(last), FailedItems(a))

\* An exception after some were reversed: CFS keeps that, the tables are rolled
\* back.
RetryBreaksOff(a, numbers) ==
    /\ Cardinality(PaymentsToConsolidate(a)) > 1
    /\ \A n \in numbers : cfs[n].status \in {"OPEN", "RETURNED"}
    /\ \/ Refused(a, numbers) /\ UNCHANGED lost
       \/ ~Refused(a, numbers) /\ Lose("call")
    /\ cfs' = ReversedInCfs(numbers)
    /\ UNCHANGED <<tables, site, files, settlement, work, bill, paying, restarts>>

\* CFS bills them again, but its answer does not arrive.
RetryLost(a) ==
    /\ Lose("answer")
    /\ Cardinality(PaymentsToConsolidate(a)) > 1
    /\ Reversible(PaymentsToConsolidate(a))
    /\ \E last \in FailedItems(a) :
          /\ cfs[ConsNumber(last)].status = "NONE"
          /\ cfs' = Rebilled(FailedNumbers(a), FailedItems(a), ConsNumber(last))
    /\ UNCHANGED <<tables, site, files, settlement, work, bill, paying>>

\* The user pays in PayBC and update_transaction records the receipt.
PayByCard(p) ==
    LET n == payments[p].number
        items == Having("ACTIVE", n)
        a == AccountOfNumber(n)
    IN /\ payments[p].method = "CC" /\ payments[p].status = "CREATED"
       /\ cfs[n].status \in {"OPEN", "RETURNED"}
       /\ items # {}
       /\ paying[a] = "NO"
       /\ inv' = [x \in Items |-> IF x \in items THEN PaidInvoice(x) ELSE inv[x]]
       /\ refs' = SetReferences(items, n, "COMPLETED")
       /\ receipts' = [x \in Items |-> receipts[x] + (IF x \in items THEN 1 ELSE 0)]
       /\ payments' = [payments EXCEPT ![p].status = "COMPLETED"]
       /\ cfs' = [cfs EXCEPT ![n].status = "CARD"]
       /\ paying' = [paying EXCEPT ![a] = "COMPLETED"]
       /\ UNCHANGED <<refunded, account, nsf, site, files, settlement, work,
                      bill, faults>>

\* With nothing left to consolidate the account is unlocked: first its flag,
\* then its CFS account, with a commit each.
UnlockFlag(a) ==
    /\ paying[a] = "COMPLETED"
    /\ IF PaymentsToConsolidate(a) = {} /\ account[a].nsf
       THEN /\ site' = [site EXCEPT ![a] = "PAD_DAILY"]
            /\ account' = [account EXCEPT ![a].nsf = FALSE]
            /\ paying' = [paying EXCEPT ![a] = "DAILY"]
       ELSE /\ paying' = [paying EXCEPT ![a] = "NO"]
            /\ UNCHANGED <<site, account>>
    /\ UNCHANGED <<inv, refs, receipts, refunded, payments, nsf, cfs, files,
                   settlement, work, bill, faults>>

UnlockStatus(a) ==
    /\ paying[a] = "DAILY"
    /\ account' = [account EXCEPT ![a].status = "ACTIVE"]
    /\ paying' = [paying EXCEPT ![a] = "NO"]
    /\ UNCHANGED <<inv, refs, receipts, refunded, payments, nsf, external,
                   settlement, work, bill, faults>>

RequestDies(a) ==
    /\ Lose("request")
    /\ paying[a] # "NO"
    /\ paying' = [paying EXCEPT ![a] = "NO"]
    /\ UNCHANGED <<tables, external, settlement, work, bill>>

-----------------------------------------------------------------------------
(* The CFS invoice job.                                                    *)

\* Mutant: references are not looked at.
PadInvoicesOfAccount(a) ==
    {i \in Invoices : /\ AccountOf[i] = a
                      /\ inv[i].method = "PAD"
                      /\ inv[i].status = "APPROVED"}

PadInvoices(a) ==
    {i \in Invoices : /\ AccountOf[i] = a
                      /\ inv[i].method = "PAD"
                      /\ inv[i].status = "APPROVED"
                      /\ ActiveRefs(i) = {}}

\* The invoices of an account become one CFS invoice.  When CFS refuses,
\* because it has the number, the job takes that invoice if the totals match.
BillPad(a) ==
    LET items == PadInvoices(a)
        n == Min(items)
    IN /\ bill = NoBill
       /\ account[a].status # "FREEZE"
       /\ items # {}
       /\ \/ /\ cfs[n].status = "NONE"
             /\ cfs' = [cfs EXCEPT ![n] = [status |-> "OPEN", bills |-> items, fees |-> 0]]
          \/ /\ cfs[n].status # "NONE"
             /\ Cardinality(cfs[n].bills) = Cardinality(items)
             /\ UNCHANGED cfs
       /\ bill' = [items |-> items, number |-> n]
       /\ UNCHANGED <<tables, site, files, settlement, work, paying, faults>>

BillPadEnd ==
    /\ bill # NoBill
    /\ refs' = SetReferences(bill.items, bill.number, "ACTIVE")
    /\ bill' = NoBill
    /\ UNCHANGED <<inv, receipts, refunded, account, payments, nsf, external,
                   settlement, work, paying, faults>>

\* An online banking invoice is a CFS invoice of its own.
BillOnlineBanking(i) ==
    /\ inv[i].method = "ONLINE_BANKING" /\ inv[i].status = "CREATED"
    /\ cfs[i].status = "NONE"
    /\ cfs' = [cfs EXCEPT ![i] = [status |-> "OPEN", bills |-> {i}, fees |-> 0]]
    /\ refs' = SetReferences({i}, i, "ACTIVE")
    /\ inv' = [inv EXCEPT ![i].status = "SETTLEMENT_SCHEDULED"]
    /\ UNCHANGED <<receipts, refunded, account, payments, nsf, site, files,
                   settlement, work, bill, paying, faults>>

\* CFS creates the invoice, but neither answer arrives.
BillLost(n, items) ==
    /\ Lose("answer")
    /\ bill = NoBill
    /\ cfs[n].status = "NONE"
    /\ \/ \E a \in Accounts : /\ account[a].status # "FREEZE"
                              /\ items = PadInvoices(a) /\ items # {}
                              /\ n = Min(items)
       \/ /\ items = {n} /\ n \in Invoices
          /\ inv[n].method = "ONLINE_BANKING" /\ inv[n].status = "CREATED"
    /\ cfs' = [cfs EXCEPT ![n] = [status |-> "OPEN", bills |-> items, fees |-> 0]]
    /\ UNCHANGED <<tables, site, files, settlement, work, bill, paying>>

-----------------------------------------------------------------------------
(* CFS and the bank.                                                       *)

RowsWritten == Cardinality(UNION {{f} \X DOMAIN files[f] : f \in DOMAIN files})

\* A row goes to a new file, or to the last one if that is not yet delivered.
Write(type, n, status) ==
    LET row == [type |-> type, number |-> n, status |-> status]
        last == Len(files)
    IN /\ RowsWritten < MaxRows
       /\ \/ /\ files' = Append(files, <<row>>)
             /\ settlement' = Append(settlement, "NONE")
          \/ /\ last > 0 /\ settlement[last] = "NONE"
             /\ files' = [files EXCEPT ![last] = Append(@, row)]
             /\ UNCHANGED settlement
       /\ UNCHANGED <<tables, site, work, bill, paying>>

Method(n) == inv[n].method

Debit(n) ==
    /\ cfs[n].status = "OPEN" /\ Method(n) = "PAD" /\ bill.number # n
    /\ site[AccountOfNumber(n)] = "PAD_DAILY"
    /\ cfs' = [cfs EXCEPT ![n].status = "PAID"]
    /\ Write("PAD", n, "PAID")
    /\ UNCHANGED faults

\* A debit is refused at once, or returned later.
Return(n) ==
    /\ Method(n) = "PAD" /\ bill.number # n
    /\ \/ cfs[n].status = "OPEN" /\ site[AccountOfNumber(n)] = "PAD_DAILY"
       \/ cfs[n].status = "PAID"
    /\ cfs' = [cfs EXCEPT ![n].status = "RETURNED"]
    /\ Write("PADR", n, "NOT_PAID")
    /\ UNCHANGED faults

RepeatReturn(n) ==
    /\ Lose("row")
    /\ \E f \in DOMAIN files : \E r \in ToSet(files[f]) :
          r.number = n /\ r.status = "NOT_PAID"
    /\ Write("PADR", n, "NOT_PAID")
    /\ UNCHANGED cfs

\* Money arrives for an online banking invoice, all of it or a part.
Deposit(n) ==
    /\ cfs[n].status = "OPEN" /\ Method(n) = "ONLINE_BANKING"
    /\ \/ /\ cfs' = [cfs EXCEPT ![n].status = "PAID"]
          /\ Write("BOLP", n, "PAID")
       \/ /\ \A f \in DOMAIN files : \A r \in ToSet(files[f]) : r.number # n
          /\ Write("BOLP", n, "PARTIAL")
          /\ UNCHANGED cfs
    /\ UNCHANGED faults

-----------------------------------------------------------------------------
(* The worker.                                                             *)

row == files[work.file][work.row]

\* The file has been processed or processing is in progress: skip it.
Receive(f) ==
    /\ work = IdleWork
    /\ settlement[f] \in {"NONE", "REMOVED"}
    /\ IF \E g \in 1..(f - 1) : settlement[g] = "NONE"
       THEN Lose("order")
       ELSE UNCHANGED faults
    /\ settlement' = [settlement EXCEPT ![f] = "STARTED"]
    /\ work' = [phase |-> "ROWS", file |-> f, row |-> 1]
    /\ UNCHANGED <<tables, external, bill, paying>>

\* The next row; after the last, the payments of the file from the first row on.
NextRow ==
    work' = IF work.row < Len(files[work.file])
            THEN [work EXCEPT !.phase = "ROWS", !.row = @ + 1]
            ELSE [work EXCEPT !.phase = "PAYMENTS", !.row = 1]

\* _process_paid_invoices: nothing if a fee is among the invoices.
ProcessPaid(items) ==
    IF \E x \in items : inv[x].method = "CC"
    THEN UNCHANGED <<inv, refs, receipts>>
    ELSE /\ inv' = [x \in Items |-> IF x \in items THEN PaidInvoice(x) ELSE inv[x]]
         /\ refs' = SetReferences(items, row.number, "COMPLETED")
         /\ receipts' = [x \in Items |-> receipts[x] + (IF x \in items THEN 1 ELSE 0)]

\* Rows for which there is no active reference change nothing, whether that is
\* reported as an error or not.
ProcessConsolidatedPaid ==
    /\ work.phase = "ROWS" /\ row.type \in {"PAD", "PADR"} /\ row.status = "PAID"
    /\ ProcessPaid(Having("ACTIVE", row.number))
    /\ NextRow
    /\ UNCHANGED <<refunded, account, payments, nsf, external, settlement, bill,
                   paying, faults>>

\* Mutant: a deposit is for paid ones as well.
AwaitingAnyDeposit(n) == Having("ACTIVE", n) \cup Having("COMPLETED", n)

\* What a deposit is for.
AwaitingDeposit(n) == Having("ACTIVE", n)

ProcessUnconsolidated ==
    LET items == AwaitingDeposit(row.number)
    IN /\ work.phase = "ROWS" /\ row.type = "BOLP"
       /\ \/ Cardinality(items) # 1 /\ UNCHANGED <<inv, refs, receipts>>
          \/ Cardinality(items) = 1 /\ row.status = "PAID" /\ ProcessPaid(items)
          \/ /\ Cardinality(items) = 1 /\ row.status # "PAID"
             /\ inv' = [x \in Items |->
                          IF x \in items
                          THEN [inv[x] EXCEPT !.status = "PARTIAL", !.paid = Total - 1]
                          ELSE inv[x]]
             /\ receipts' = [x \in Items |->
                               receipts[x] + (IF x \in items THEN 1 ELSE 0)]
             /\ UNCHANGED refs
       /\ NextRow
       /\ UNCHANGED <<refunded, account, payments, nsf, external, settlement,
                      bill, paying, faults>>

\* Mutant: the row of the returned debit is not looked at.
IsDuplicateFailed(n) == PaymentsWith(AnyMethod, "FAILED", n) # {}

IsDuplicate(n) ==
    PaymentsWith(AnyMethod, "FAILED", n) # {} \/ n \in nsf

\* Mutant: what is still owed.
ReopenedActive(n) == Having("ACTIVE", n)

\* What the debit had paid.
Reopened(n) == Having("COMPLETED", n)

\* Mutant: the receipt is kept.
ReceiptsKept(x, isReopened) == receipts[x]

\* The receipt of a debit that was returned is deleted.
ReceiptsLeft(x, isReopened) ==
    IF isReopened /\ receipts[x] > 0 THEN receipts[x] - 1 ELSE receipts[x]

\* A returned debit freezes the account and stops its debits in CFS.  If the
\* account was not frozen, what the debit paid is owed again, and a fee is
\* created: the first of four commits.
ProcessFailed ==
    LET n == row.number
        a == AccountOfNumber(n)
        reopened == Reopened(n)
        frozen == account[a].status = "FREEZE"
    IN /\ work.phase = "ROWS" /\ row.status = "NOT_PAID"
       /\ ~IsDuplicate(n)
       /\ account' = [account EXCEPT ![a] = [status |-> "FREEZE", nsf |-> TRUE]]
       /\ site' = [site EXCEPT ![a] = "PAD_STOP"]
       /\ IF frozen
          THEN /\ NextRow
               /\ UNCHANGED <<inv, refs, receipts>>
          ELSE /\ refs' = SetReferences(reopened, n, "ACTIVE")
               /\ receipts' = [x \in Items |-> ReceiptsLeft(x, x \in reopened)]
               /\ inv' = [x \in Items |->
                            IF x \in reopened
                            THEN [inv[x] EXCEPT !.status = "SETTLEMENT_SCHEDULED", !.paid = 0]
                            ELSE IF x = Fee(n)
                            THEN [method |-> "CC", status |-> "CREATED", paid |-> 0]
                            ELSE inv[x]]
               /\ work' = [work EXCEPT !.phase = "NSF_ROW"]
       /\ UNCHANGED <<refunded, payments, nsf, cfs, files, settlement, bill,
                      paying, faults>>

ProcessDuplicate ==
    /\ work.phase = "ROWS" /\ row.status = "NOT_PAID"
    /\ IsDuplicate(row.number)
    /\ NextRow
    /\ UNCHANGED <<tables, external, settlement, bill, paying, faults>>

SaveNsf ==
    /\ work.phase = "NSF_ROW"
    /\ nsf' = nsf \cup {row.number}
    /\ work' = [work EXCEPT !.phase = "NSF_REFERENCE"]
    /\ UNCHANGED <<inv, refs, receipts, refunded, account, payments, external,
                   settlement, bill, paying, faults>>

\* The fee takes the number of the CFS invoice.  Without any active reference
\* of that number an exception ends the file.
SaveNsfReference ==
    LET n == row.number
    IN /\ work.phase = "NSF_REFERENCE"
       /\ IF Having("ACTIVE", n) = {}
          THEN work' = IdleWork /\ UNCHANGED refs
          ELSE /\ refs' = SetReferences({Fee(n)}, n, "ACTIVE")
               /\ work' = [work EXCEPT !.phase = "NSF_ADJUSTMENT"]
       /\ UNCHANGED <<inv, receipts, refunded, account, payments, nsf, external,
                      settlement, bill, paying, faults>>

AdjustNsf ==
    /\ work.phase = "NSF_ADJUSTMENT"
    /\ cfs' = [cfs EXCEPT ![row.number].fees = @ + 1]
    /\ NextRow
    /\ UNCHANGED <<tables, site, files, settlement, bill, paying, faults>>

\* The method and status that a row gives to a payment.
NewPayment == [number |-> row.number, cons |-> 0,
               method |-> IF row.type = "BOLP" THEN "ONLINE_BANKING" ELSE "PAD",
               status |-> IF row.status = "NOT_PAID" THEN "FAILED" ELSE "COMPLETED"]
Overwritten(p) ==
    [payments EXCEPT ![p].method = NewPayment.method, ![p].status = NewPayment.status]

\* Mutants: a completed payment is always kept; it is always overwritten.
SavedPaymentsKept ==
    IF PaymentsWith(AnyMethod, "COMPLETED", row.number) # {}
    THEN payments ELSE Append(payments, NewPayment)
SavedPaymentsOverwritten ==
    LET completed == PaymentsWith(AnyMethod, "COMPLETED", row.number)
    IN IF completed # {} THEN Overwritten(Max(completed)) ELSE Append(payments, NewPayment)

\* _save_payment: the payments after the row.  A failure overwrites the completed
\* payment of the number, or the last failed one; a completed one is kept.
SavedPayments ==
    LET completed == PaymentsWith(AnyMethod, "COMPLETED", row.number)
        failed == PaymentsWith(AnyMethod, "FAILED", row.number)
    IN IF completed # {}
       THEN IF row.status = "NOT_PAID" THEN Overwritten(Max(completed)) ELSE payments
       ELSE IF row.status = "NOT_PAID" /\ failed # {} THEN Overwritten(Max(failed))
       ELSE Append(payments, NewPayment)

\* One source transaction per row; two completed payments of a number raise, and
\* the file is left as it is.
CreatePaymentRecords ==
    /\ work.phase = "PAYMENTS"
    /\ IF Cardinality(PaymentsWith(AnyMethod, "COMPLETED", row.number)) > 1
       THEN /\ work' = IdleWork
            /\ UNCHANGED <<payments, settlement>>
       ELSE /\ payments' = SavedPayments
            /\ IF work.row < Len(files[work.file])
               THEN work' = [work EXCEPT !.row = @ + 1] /\ UNCHANGED settlement
               ELSE /\ work' = IdleWork
                    /\ settlement' = [settlement EXCEPT ![work.file] = "PROCESSED"]
    /\ UNCHANGED <<inv, refs, receipts, refunded, account, nsf, external, bill,
                   paying, faults>>

WorkerDies ==
    /\ Lose("worker")
    /\ work # IdleWork
    /\ work' = IdleWork
    /\ UNCHANGED <<tables, external, settlement, bill, paying>>

\* Removing the row of a file allows its processing to be restarted.
Restart(f) ==
    /\ work = IdleWork
    /\ settlement[f] = "STARTED"
    /\ restarts < MaxRestarts
    /\ restarts' = restarts + 1
    /\ settlement' = [settlement EXCEPT ![f] = "REMOVED"]
    /\ UNCHANGED <<tables, external, work, bill, paying, lost>>

-----------------------------------------------------------------------------

ProcessRow ==
    ProcessConsolidatedPaid \/ ProcessUnconsolidated \/ ProcessFailed
        \/ ProcessDuplicate \/ SaveNsf \/ SaveNsfReference \/ AdjustNsf

Next ==
    \/ \E i \in Invoices, m \in Methods : CreateInvoice(i, m)
    \/ \E i \in Invoices : RefundInvoice(i) \/ BillOnlineBanking(i)
    \/ \E a \in Accounts : RetryPayment(a) \/ CreateRetryPayment(a) \/ RetryLost(a)
                             \/ UnlockFlag(a) \/ UnlockStatus(a) \/ RequestDies(a)
                             \/ BillPad(a)
    \/ \E a \in Accounts : \E numbers \in SUBSET FailedNumbers(a) : RetryBreaksOff(a, numbers)
    \/ \E p \in DOMAIN payments : PayByCard(p)
    \/ BillPadEnd
    \/ \E n \in Invoices : Debit(n) \/ Return(n) \/ RepeatReturn(n) \/ Deposit(n)
    \/ \E n \in Invoices, items \in SUBSET Invoices : BillLost(n, items)
    \/ \E f \in DOMAIN files : Receive(f) \/ Restart(f)
    \/ ProcessRow \/ CreatePaymentRecords \/ WorkerDies

Spec == Init /\ [][Next]_vars

-----------------------------------------------------------------------------
(* Properties.                                                             *)

Quiet == work = IdleWork /\ \A f \in DOMAIN files : settlement[f] \in {"NONE", "PROCESSED"}

Returned(n) ==
    \E f \in DOMAIN files : /\ settlement[f] = "PROCESSED"
                            /\ \E r \in ToSet(files[f]) :
                                  r.number = n /\ r.status = "NOT_PAID"

\* However often a row is processed, by a file that is restarted or one that
\* repeats it, an invoice that was debited or paid by card has one receipt
\* while it is PAID and none while it is owed again (_process_paid_invoices,
\* _process_failed_payments).
PaidHasReceipt ==
    \A x \in Items : inv[x].method # "ONLINE_BANKING" =>
        /\ inv[x].status = "PAID" => receipts[x] = 1
        /\ inv[x].status = "SETTLEMENT_SCHEDULED" => receipts[x] = 0

\* Billing, returns, consolidation and card payments between them leave an
\* invoice at most one number under which it is owed, and none once it is PAID.
OneActiveReference ==
    \A x \in Items :
        /\ Cardinality(ActiveRefs(x)) <= 1
        /\ inv[x].status = "PAID" => ActiveRefs(x) = {}

\* What an invoice says of itself, the receipts it has and the references under which it
\* is owed agree, after any interruption.
InvoicesAgree == PaidHasReceipt /\ OneActiveReference

\* An invoice is billed by one CFS invoice that is not reversed, unless an answer
\* of CFS was lost.
BilledOnce ==
    "answer" \notin lost => \A x \in Items :
        Cardinality({n \in Numbers : /\ x \in cfs[n].bills
                                     /\ cfs[n].status \notin {"NONE", "REVERSED"}}) <= 1

\* A returned debit costs one fee, whatever is repeated or restarted.
FeeOnce ==
    \A n \in Numbers : cfs[n].fees <= 1

\* CFS asks for nothing twice: neither for an invoice nor for the fee of a return.
CfsOwesOnce == BilledOnce /\ FeeOnce

\* The account can pay by card: CFS still asks for the one number it failed to
\* pay, or reverses all of them and bills them as one.
CanPayByCard(a) ==
    LET P == PaymentsToConsolidate(a)
        items == FailedItems(a)
    IN /\ P # {}
       /\ Reversible(P)
       /\ Cardinality(P) > 1 => \A last \in items : Usable(ConsNumber(last), items)

\* Once its files are settled, a frozen account can pay what it failed to pay by
\* card.  Repeated rows do not change that; a consolidation that breaks off, and
\* one that is to be consolidated with others again, do.
FrozenIsPayable ==
    Quiet /\ lost \subseteq {"row"} => \A a \in Accounts :
        (/\ account[a].status = "FREEZE" /\ paying[a] = "NO"
         /\ FailedNumbers(a) \subseteq Invoices \/ Cardinality(FailedNumbers(a)) = 1)
            => CanPayByCard(a)

\* Even so, and when a call of CFS was refused: this does not hold.
AlwaysPayable ==
    Quiet /\ lost \subseteq {"row", "call"} => \A a \in Accounts :
        account[a].status = "FREEZE" /\ paying[a] = "NO" => CanPayByCard(a)

\* What a returned debit paid is owed again or was paid by card, except if the
\* account was frozen by another return.
ReturnedIsOwed ==
    Quiet /\ lost \subseteq {"row"} => \A n \in Invoices :
        Returned(n) => \/ Having("COMPLETED", n) = {}
                       \/ cfs[n].status = "CARD"
                       \/ /\ n \notin nsf
                          /\ \E m \in nsf : AccountOfNumber(m) = AccountOfNumber(n)

\* No return is lost: what was paid by the debit is owed again and can be paid.
ReturnsAreSettled == FrozenIsPayable /\ ReturnedIsOwed

\* No row makes the worker give a file up, as long as nothing was lost.
FileFinishes ==
    work = IdleWork /\ lost = {} => \A f \in DOMAIN files : settlement[f] # "STARTED"

\* A PAID invoice changes only by a refund or a returned debit: not by a row that
\* comes late, such as that of a deposit for a part.
PaidStays ==
    \A x \in Items : inv[x].status = "PAID" =>
        \/ inv'[x].status \in {"PAID", "CREDITED"}
        \/ /\ inv'[x].status = "SETTLEMENT_SCHEDULED"
           /\ inv[x].method = "PAD"
           /\ row.status = "NOT_PAID"

\* A payment by card stays COMPLETED, unless a row of a returned debit is
\* processed again.
CardPaymentStands ==
    lost' \cap {"row", "worker"} = {} =>
        \A p \in DOMAIN payments :
            payments[p].method = "CC" /\ payments[p].status = "COMPLETED"
                => payments'[p] = payments[p]

\* What was recorded as paid stands, whichever row or file comes late or again.
PaymentsStand == [][PaidStays /\ CardPaymentStands]_vars
=============================================================================
