---------------------- MODULE PaymentTransactionProofs ----------------------
(***************************************************************************)
(* Proofs about PaymentTransaction, for any number of invoices, payments,  *)
(* transactions and concurrent requests: the type invariant, and that an   *)
(* invoice is released at most once and counts as paid only if an order    *)
(* was.                                                                    *)
(*                                                                         *)
(* What a task writes was decided from rows that others may have changed,  *)
(* so the invariant says what stays true of them: a row that exists stays, *)
(* a payment keeps its invoice, a paid order stays paid.  The duplicate    *)
(* check of _update_receipt_details works because an invoice is CREATED    *)
(* exactly as long as it has an active reference, and released only when   *)
(* that is completed.                                                      *)
(***************************************************************************)
EXTENDS PaymentTransaction, WellFoundedInduction, TLAPS

Typed ==
    /\ inv \in [Invoices -> InvoiceStatus]
    /\ refs \in [Invoices -> SUBSET RefStatus]
    /\ payments \in [Payments -> Payment]
    /\ txns \in [Txns -> Txn]
    /\ receipts \in [Invoices -> SUBSET Orders]
    /\ order \in [Orders -> OrderStatus]
    /\ released \in [Invoices -> 0..2]
    /\ task \in [Processes -> Task]

ListsTyped ==
    /\ pass \in {"IDLE", "STALE", "VERIFY"}
    /\ stale \subseteq Txns
    /\ unverified \subseteq Invoices

\* Rows refer to rows.
RowsAgree ==
    /\ \A p \in Payments :
         payments[p].status # "NONE" => payments[p].invoice \in Invoices
    /\ \A t \in Txns : txns[t].status # "NONE" =>
         /\ txns[t].payment \in Payments
         /\ payments[txns[t].payment].status # "NONE"

\* An invoice is CREATED while its reference is active; one that was released
\* has a completed reference.
InvoicesAgree ==
    \A i \in Invoices :
        /\ inv[i] = "CREATED" <=> "ACTIVE" \in refs[i]
        /\ released[i] # 0 => /\ released[i] = 1
                              /\ "COMPLETED" \in refs[i]
                              /\ "ACTIVE" \notin refs[i]

GoodTask(k) ==
    /\ k.step # "IDLE" => k.invoice \in Invoices
    /\ k.payment # 0 => /\ payments[k.payment].status # "NONE"
                        /\ payments[k.payment].invoice = k.invoice
    /\ k.txn # 0 => txns[k.txn].status # "NONE"
    /\ k.step \in {"ASKING", "WRITING"} => k.payment # 0 /\ k.txn # 0
    /\ k.asks # None => k.asks \in {k.invoice} \cup Others
    /\ k.receipt # None => /\ k.receipt \in {k.invoice} \cup Others
                           /\ order[k.receipt] = "PAID"

TasksAgree == \A h \in Processes : GoodTask(task[h])

\* All but the lists of the job.
CInv ==
    /\ Typed
    /\ RowsAgree
    /\ InvoicesAgree
    /\ TasksAgree
    /\ PaidIsBacked
    /\ CompletedIsPaid

IInv == CInv /\ ListsTyped

\* What no task has to fear: rows vanish, payments change their invoice, paid
\* orders are not, receipts are lost.
Grow ==
    /\ \A p \in Payments : payments[p].status # "NONE" =>
         payments'[p].status # "NONE" /\ payments'[p].invoice = payments[p].invoice
    /\ \A t \in Txns : txns[t].status # "NONE" => txns'[t].status # "NONE"
    /\ \A o \in Orders : order[o] = "PAID" => order'[o] = "PAID"
    /\ \A i \in Invoices : receipts[i] \subseteq receipts'[i]

-----------------------------------------------------------------------------
(* Lemmas about the operators.                                             *)

\* A set of natural numbers has a least member.
LEMMA FirstOfMember ==
    ASSUME NEW S, S \subseteq Nat, S # {}
    PROVE  FirstOf(S) \in S
<1> DEFINE R == {mn \in Nat \X Nat : mn[1] < mn[2]}
<1>1. IsWellFoundedOn(R, Nat)
  BY NatLessThanWellFounded DEF OpToRel
<1>2. \A m, n \in Nat : <<m, n>> \in R <=> m < n
  OBVIOUS
<1> HIDE DEF R
<1>3. PICK x \in S : \A y \in S : ~ (<<y, x>> \in R)
  BY <1>1, WFMin
<1>4. \A y \in S : ~ (y < x)
  BY <1>2, <1>3
<1>5. \A y \in S : x <= y
  BY <1>4
<1> QED
  BY <1>5 DEF FirstOf

LEMMA TheOneMember ==
    ASSUME NEW S
    PROVE  TheOne(S) \in S \cup {0}
BY DEF TheOne

\* 0 is no row.
LEMMA RowNumbers ==
    /\ Payments \subseteq Nat \ {0} /\ Payments \subseteq 0..NumPayments
    /\ Txns \subseteq Nat \ {0} /\ Txns \subseteq 0..NumTxns
    /\ 0 \in 0..NumPayments /\ 0 \in 0..NumTxns
    /\ \A p \in 0..NumPayments : p # 0 => p \in Payments
    /\ \A t \in 0..NumTxns : t # 0 => t \in Txns
BY TransactionConstants DEF Payments, Txns

\* A transaction belongs to an invoice.
LEMMA KnownTxn ==
    ASSUME CInv, NEW t \in Txns, txns[t].status # "NONE"
    PROVE  /\ txns[t] \in Txn
           /\ txns[t].payment \in Payments
           /\ payments[txns[t].payment].status # "NONE"
           /\ InvoiceOf(t) \in Invoices
BY DEF CInv, Typed, RowsAgree, InvoiceOf

LEMMA IdleIsGood == IdleTask \in Task /\ GoodTask(IdleTask)
BY RowNumbers DEF IdleTask, Task, GoodTask, NoTxn, Txn, TxnStatus, Steps

LEMMA TaskFields ==
    ASSUME NEW k \in Task
    PROVE  /\ k.step \in Steps /\ k.invoice \in Invoices \cup {None}
           /\ k.payment \in 0..NumPayments /\ k.txn \in 0..NumTxns
           /\ k.row \in Txn /\ k.declined \in BOOLEAN /\ k.listed \in BOOLEAN
           /\ k.then \in {"DONE", "CANCEL", "CHECK"}
           /\ k.asks \in Orders \cup {None} /\ k.receipt \in Orders \cup {None}
           /\ k.unavailable \in BOOLEAN
BY DEF Task

\* A receipt stays one of a paid order.
LEMMA PaidReceiptStays ==
    ASSUME CInv, Grow, NEW i \in Invoices, HasPaidReceipt(i)
    PROVE  HasPaidReceipt(i)'
BY DEF CInv, Typed, Grow, HasPaidReceipt, Orders

-----------------------------------------------------------------------------
(* Steps that write no table.                                              *)

\* A task goes on, or ends.
LEMMA StepGood ==
    ASSUME CInv, NEW h \in Processes, NEW k \in Task, GoodTask(k),
           task' = [task EXCEPT ![h] = k], UNCHANGED tables, UNCHANGED order
    PROVE  CInv'
<1>1. Typed'
  BY DEF CInv, Typed, tables
<1>2. TasksAgree'
  BY DEF CInv, Typed, TasksAgree, GoodTask, tables
<1> QED
  BY <1>1, <1>2 DEF CInv, RowsAgree, InvoicesAgree, PaidIsBacked,
     HasPaidReceipt, CompletedIsPaid, tables

LEMMA FinishGood ==
    ASSUME CInv, NEW h \in Processes, Finish(h), UNCHANGED tables,
           UNCHANGED order
    PROVE  CInv'
BY IdleIsGood, StepGood DEF Finish

\* When a write lets rows and orders grow the other tasks stay good.
LEMMA OthersGood ==
    ASSUME CInv, Grow, NEW h \in Processes, NEW k,
           task' = [task EXCEPT ![h] = k], GoodTask(task[h])'
    PROVE  TasksAgree'
<1> SUFFICES ASSUME NEW g \in Processes, g # h
             PROVE  GoodTask(task[g])'
  BY DEF TasksAgree
<1>1. task'[g] = task[g] /\ task[g] \in Task /\ GoodTask(task[g])
  BY DEF CInv, Typed, TasksAgree
<1> QED
  BY <1>1, TaskFields, RowNumbers DEF Grow, GoodTask, Steps

LEMMA OrderGood ==
    ASSUME CInv, NEW i \in Invoices, OpenOrder(i) \/ PayOrder(i)
    PROVE  CInv'
<1>1. /\ order' \in [Orders -> OrderStatus]
      /\ \A o \in Orders : order[o] = "PAID" => order'[o] = "PAID"
  BY DEF CInv, Typed, OpenOrder, PayOrder, OrderStatus, Orders
<1>2. UNCHANGED tables /\ task' = task
  BY DEF OpenOrder, PayOrder
<1>3. Typed'
  BY <1>1, <1>2 DEF CInv, Typed, tables
<1>4. TasksAgree'
  <2> SUFFICES ASSUME NEW g \in Processes PROVE GoodTask(task[g])'
    BY DEF TasksAgree
  <2>1. task[g] \in Task /\ GoodTask(task[g])
    BY DEF CInv, Typed, TasksAgree
  <2> QED
    BY <1>1, <1>2, <2>1, TaskFields DEF GoodTask, tables
<1>5. PaidIsBacked'
  <2>1. Grow
    BY <1>1, <1>2 DEF CInv, Typed, RowsAgree, Grow, tables
  <2> QED
    BY <1>2, <2>1, PaidReceiptStays DEF CInv, PaidIsBacked, tables
<1> QED
  BY <1>1, <1>2, <1>3, <1>4, <1>5 DEF CInv, RowsAgree, InvoicesAgree,
     CompletedIsPaid, tables

-----------------------------------------------------------------------------
(* Creating a transaction.                                                 *)

LEMMA CreateTransactionGood ==
    ASSUME CInv, NEW h \in Processes, NEW i \in Invoices,
           CreateTransaction(h, i)
    PROVE  CInv'
<1> DEFINE p == TheOne(PaymentsOf(i))
           t == IF p = 0 THEN 0 ELSE TheOne(ActiveOn(p))
           k == [IdleTask EXCEPT !.step = "CREATING", !.invoice = i,
                    !.payment = p, !.txn = t]
<1>1. task' = [task EXCEPT ![h] = k] /\ UNCHANGED tables /\ UNCHANGED order
  BY DEF CreateTransaction, Quiet
<1>2. p \in PaymentsOf(i) \cup {0}
  BY TheOneMember
<1>3. p # 0 => p \in Payments /\ payments[p].invoice = i
                 /\ payments[p].status # "NONE"
  BY <1>2 DEF CreateTransaction, PaymentsOf
<1>4. t # 0 => t \in Txns /\ txns[t].status # "NONE"
  BY TheOneMember DEF ActiveOn
<1> HIDE DEF p, t
<1>5. k \in Task
  BY <1>3, <1>4, RowNumbers, IdleIsGood DEF Task, Steps, IdleTask
<1>6. GoodTask(k)
  BY <1>3, <1>4 DEF GoodTask, IdleTask
<1> QED
  BY <1>1, <1>5, <1>6, StepGood

LEMMA CreateEndGood ==
    ASSUME CInv, NEW h \in Processes, CreateEnd(h)
    PROVE  CInv'
<1> DEFINE p == task[h].payment
           new == IF p = 0 THEN FirstOf(FreePayments) ELSE p
           free == FirstOf(FreeTxns)
           row == [payment |-> new, status |-> "CREATED", unavailable |-> FALSE]
<1>1. task[h] \in Task /\ GoodTask(task[h]) /\ task[h].step = "CREATING"
  BY DEF CInv, Typed, TasksAgree, CreateEnd
<1>2. task[h].invoice \in Invoices
  BY <1>1 DEF GoodTask
<1>3. free \in Txns /\ txns[free].status = "NONE"
  <2>1. FreeTxns \subseteq Nat /\ FreeTxns # {}
    BY RowNumbers DEF CreateEnd, FreeTxns
  <2> QED
    BY <2>1, FirstOfMember DEF FreeTxns
<1>4. /\ new \in Payments
      /\ p = 0 => payments[new].status = "NONE"
      /\ p # 0 => payments[new].status # "NONE"
  <2>1. CASE p = 0
    <3>1. FreePayments \subseteq Nat /\ FreePayments # {}
      BY <2>1, RowNumbers DEF CreateEnd, FreePayments
    <3> QED
      BY <2>1, <3>1, FirstOfMember DEF FreePayments
  <2>2. CASE p # 0
    BY <1>1, <2>2, TaskFields, RowNumbers DEF GoodTask
  <2> QED
    BY <2>1, <2>2
<1>5. /\ payments' = IF p # 0 THEN payments
                    ELSE [payments EXCEPT ![new] =
                           [invoice |-> task[h].invoice, status |-> "CREATED"]]
      /\ txns' = [t \in Txns |->
                   IF t = free THEN row
                   ELSE IF t = task[h].txn
                   THEN [txns[t] EXCEPT !.status = "CANCELLED"] ELSE txns[t]]
      /\ UNCHANGED <<inv, refs, receipts, released, order>>
      /\ task' = [task EXCEPT ![h] = IdleTask]
  BY DEF CreateEnd, Finish, Quiet
<1> HIDE DEF p, new, free
<1>6. payments' \in [Payments -> Payment]
  BY <1>2, <1>4, <1>5 DEF CInv, Typed, Payment, PaymentStatus
<1>7. txns' \in [Txns -> Txn]
  <2>1. row \in Txn
    BY <1>4, RowNumbers DEF Txn, TxnStatus
  <2>2. \A t \in Txns : [txns[t] EXCEPT !.status = "CANCELLED"] \in Txn
    BY DEF CInv, Typed, Txn, TxnStatus
  <2> QED
    BY <1>5, <2>1, <2>2 DEF CInv, Typed
<1>8. Typed'
  BY <1>5, <1>6, <1>7, IdleIsGood DEF CInv, Typed
<1>9. /\ \A q \in Payments : payments[q].status # "NONE" => payments'[q] = payments[q]
      /\ payments'[new].status # "NONE"
      /\ payments'[new].invoice \in Invoices
      /\ \A q \in Payments : q # new => payments'[q] = payments[q]
      /\ \A q \in Payments : payments'[q].status = "COMPLETED"
                               => payments'[q] = payments[q]
  BY <1>2, <1>4, <1>5, <1>6 DEF CInv, Typed, RowsAgree
<1>10. \A t \in Txns : /\ t # free => txns'[t].payment = txns[t].payment
                       /\ t # free /\ t # task[h].txn => txns'[t] = txns[t]
                       /\ t = task[h].txn => txns[t].status # "NONE"
                       /\ t # free /\ t = task[h].txn
                            => txns'[t].status = "CANCELLED"
  BY <1>1, <1>5, RowNumbers DEF CInv, Typed, GoodTask, Txn
<1>11. txns'[free] = row
  BY <1>3, <1>5
<1>12. RowsAgree'
  <2>1. \A q \in Payments :
          payments'[q].status # "NONE" => payments'[q].invoice \in Invoices
    BY <1>9 DEF CInv, RowsAgree
  <2>2. \A t \in Txns : txns'[t].status # "NONE" =>
          /\ txns'[t].payment \in Payments
          /\ payments'[txns'[t].payment].status # "NONE"
    <3> SUFFICES ASSUME NEW t \in Txns, txns'[t].status # "NONE"
                 PROVE  /\ txns'[t].payment \in Payments
                        /\ payments'[txns'[t].payment].status # "NONE"
      OBVIOUS
    <3>1. CASE t = free
      BY <1>4, <1>9, <1>11, <3>1
    <3>2. CASE t # free
      BY <1>9, <1>10, <3>2 DEF CInv, RowsAgree
    <3> QED
      BY <3>1, <3>2
  <2> QED
    BY <2>1, <2>2 DEF RowsAgree
<1>13. Grow
  BY <1>3, <1>5, <1>9, <1>10 DEF Grow
<1>14. TasksAgree'
  <2>1. GoodTask(task[h])'
    BY <1>5 DEF CInv, Typed, IdleTask, GoodTask
  <2> QED
    BY <1>5, <1>13, <2>1, OthersGood
<1>15. PaidIsBacked' /\ CompletedIsPaid'
  <2>1. PaidIsBacked'
    BY <1>5, <1>9, <1>13, PaidReceiptStays DEF CInv, PaidIsBacked
  <2>2. CompletedIsPaid'
    BY <1>5, <1>9 DEF CInv, CompletedIsPaid
  <2> QED
    BY <2>1, <2>2
<1> QED
  BY <1>5, <1>8, <1>12, <1>14, <1>15 DEF CInv, InvoicesAgree

-----------------------------------------------------------------------------
(* Updating a transaction.                                                 *)

\* A write to a row of a transaction that exists, which ends or continues the
\* task of h.
LEMMA TxnWriteGood ==
    ASSUME CInv, NEW h \in Processes, NEW k \in Task, GoodTask(k),
           NEW t \in Txns, txns[t].status # "NONE",
           NEW row \in Txn, row.payment = txns[t].payment, row.status # "NONE",
           txns' = [txns EXCEPT ![t] = row],
           task' = [task EXCEPT ![h] = k],
           UNCHANGED <<inv, refs, payments, receipts, released, order>>
    PROVE  CInv'
<1>1. Typed'
  BY DEF CInv, Typed
<1>2. RowsAgree'
  BY DEF CInv, Typed, RowsAgree
<1>3. Grow
  BY DEF CInv, Typed, Grow
<1>4. GoodTask(task[h])'
  BY <1>3, TaskFields, RowNumbers DEF CInv, Typed, GoodTask, Grow
<1>5. TasksAgree'
  BY <1>3, <1>4, OthersGood
<1> QED
  BY <1>1, <1>2, <1>5 DEF CInv, InvoicesAgree, PaidIsBacked, HasPaidReceipt,
     CompletedIsPaid

LEMMA UpdateGood ==
    ASSUME CInv, NEW h \in Processes, NEW t \in Txns,
           NEW asks \in {None, InvoiceOf(t)} \cup Others, NEW declined \in BOOLEAN,
           NEW then \in {"DONE", "CANCEL", "CHECK"},
           Update(h, t, asks, declined, then), UNCHANGED order
    PROVE  CInv'
<1>1. /\ txns[t].status # "NONE"
      /\ txns[t] \in Txn
      /\ txns[t].payment \in Payments
      /\ payments[txns[t].payment].status # "NONE"
      /\ InvoiceOf(t) \in Invoices
  BY KnownTxn DEF Update
<1>2. CASE Ask(h, t, asks, declined, then)
  <2> DEFINE listed == "ACTIVE" \in refs[InvoiceOf(t)]
             k == [IdleTask EXCEPT !.step = "ASKING", !.invoice = InvoiceOf(t),
                     !.payment = txns[t].payment, !.txn = t, !.row = txns[t],
                     !.asks = asks, !.declined = declined, !.then = then,
                     !.listed = listed]
  <2>1. task' = [task EXCEPT ![h] = k] /\ UNCHANGED tables
    BY <1>2 DEF Ask
  <2>2. listed \in BOOLEAN
    OBVIOUS
  <2> HIDE DEF listed
  <2>3. k \in Task
    BY <1>1, <2>2, RowNumbers, IdleIsGood DEF Task, Steps, Orders
  <2>4. GoodTask(k)
    <3>1. /\ k.step = "ASKING" /\ k.invoice = InvoiceOf(t)
          /\ k.payment = txns[t].payment /\ k.txn = t
          /\ k.asks = asks /\ k.receipt = None
      BY DEF IdleTask
    <3> HIDE DEF k
    <3> QED
      BY <1>1, <3>1, RowNumbers DEF GoodTask, InvoiceOf
  <2> QED
    BY <2>1, <2>3, <2>4, StepGood
<1>3. CASE Republish(h, t, then)
  <2>1. ~ ("ACTIVE" \in refs[InvoiceOf(t)] /\ inv[InvoiceOf(t)] = "PAID")
    BY <1>1 DEF CInv, InvoicesAgree
  <2>2. released' = released
    BY <1>3, <2>1 DEF Republish, Publish
  <2>3. PICK s \in TxnStatus \ {"NONE"} :
          txns' = [txns EXCEPT ![t] = [txns[t] EXCEPT !.status = s]]
    <3>1. CASE txns[t].status = "EVENT_FAILED"
      <4>1. txns' = [txns EXCEPT ![t].status = "COMPLETED"]
        BY <1>3, <2>1, <3>1 DEF Republish
      <4> QED
        BY <4>1 DEF TxnStatus
    <3>2. CASE txns[t].status # "EVENT_FAILED"
      <4>1. txns' = [txns EXCEPT ![t].status =
                       IF then = "CANCEL" THEN "CANCELLED" ELSE txns[t].status]
        BY <1>1, <1>3, <3>2 DEF Republish, CInv, Typed
      <4>2. txns[t].status \in TxnStatus \ {"NONE"}
        BY <1>1 DEF Txn
      <4> QED
        BY <4>1, <4>2 DEF TxnStatus
    <3> QED
      BY <3>1, <3>2
  <2>4. [txns[t] EXCEPT !.status = s] \in Txn
    BY <1>1 DEF Txn
  <2>5. /\ [txns[t] EXCEPT !.status = s].payment = txns[t].payment
        /\ [txns[t] EXCEPT !.status = s].status # "NONE"
    BY <1>1 DEF Txn
  <2>6. /\ task' = [task EXCEPT ![h] = IdleTask]
        /\ UNCHANGED <<inv, refs, payments, receipts>>
    BY <1>3 DEF Republish, Finish
  <2> QED
    BY <1>1, <2>2, <2>3, <2>4, <2>5, <2>6, IdleIsGood, TxnWriteGood
<1> QED
  BY <1>2, <1>3 DEF Update

LEMMA UpdateOwnGood ==
    ASSUME CInv, NEW h \in Processes, NEW t \in Txns,
           NEW then \in {"DONE", "CANCEL", "CHECK"},
           UpdateOwn(h, t, then), UNCHANGED order
    PROVE  CInv'
<1>1. Update(h, t, InvoiceOf(t), FALSE, then)
  BY DEF UpdateOwn
<1> QED
  BY <1>1, UpdateGood

LEMMA AnsweredGood ==
    ASSUME CInv, NEW h \in Processes, NEW receipt \in {None, task[h].asks},
           NEW unavailable \in BOOLEAN, Answered(h, receipt, unavailable),
           receipt # None => order[receipt] = "PAID"
    PROVE  CInv'
<1> DEFINE k == [task[h] EXCEPT !.step = "WRITING", !.asks = None,
                    !.declined = FALSE, !.listed = FALSE,
                    !.receipt = receipt, !.unavailable = unavailable]
<1>1. task[h] \in Task /\ GoodTask(task[h]) /\ task[h].step = "ASKING"
  BY DEF CInv, Typed, TasksAgree, Answered
<1>2. task' = [task EXCEPT ![h] = k] /\ UNCHANGED tables /\ UNCHANGED order
  BY DEF CInv, Typed, Answered, Quiet
<1>3. k \in Task
  BY <1>1, TaskFields DEF Task, Steps
<1>4. GoodTask(k)
  <2>1. receipt # None => receipt \in {task[h].invoice} \cup Others
    BY <1>1 DEF GoodTask
  <2> QED
    BY <1>1, <2>1 DEF GoodTask, Task
<1> QED
  BY <1>2, <1>3, <1>4, StepGood

\* What is left of a task that has written is good.
LEMMA AfterUpdateGood ==
    ASSUME CInv, NEW h \in Processes, task[h].step = "WRITING", AfterUpdate(h)
    PROVE  \E k \in Task : /\ task' = [task EXCEPT ![h] = k]
                           /\ k.payment = 0 /\ k.txn = 0
                           /\ k.asks = None /\ k.receipt = None
                           /\ k.step \in {"IDLE", "CHECKING"}
                           /\ k.step # "IDLE" => k.invoice \in Invoices
<1>1. task[h] \in Task /\ GoodTask(task[h])
  BY DEF CInv, Typed, TasksAgree
<1>2. CASE task[h].then = "CHECK"
  <2> DEFINE k == [IdleTask EXCEPT !.step = "CHECKING", !.invoice = task[h].invoice]
  <2>1. task' = [task EXCEPT ![h] = k]
    BY <1>2 DEF AfterUpdate
  <2>2. /\ k \in Task /\ k.payment = 0 /\ k.txn = 0 /\ k.step = "CHECKING"
        /\ k.asks = None /\ k.receipt = None
        /\ k.invoice \in Invoices
    BY <1>1, IdleIsGood DEF Task, GoodTask, IdleTask, Steps
  <2> QED
    BY <2>1, <2>2
<1>3. CASE task[h].then # "CHECK"
  BY <1>3, IdleIsGood DEF AfterUpdate, IdleTask
<1> QED
  BY <1>2, <1>3

\* The row that a task writes.
LEMMA WriteTxnRow ==
    ASSUME CInv, NEW h \in Processes, task[h].step = "WRITING",
           NEW status \in TxnStatus \ {"NONE"}, WriteTxn(h, status)
    PROVE  /\ task[h].txn \in Txns
           /\ txns[task[h].txn].status # "NONE"
           /\ \E row \in Txn : /\ row.payment = txns[task[h].txn].payment
                               /\ row.status # "NONE"
                               /\ txns' = [txns EXCEPT ![task[h].txn] = row]
<1> DEFINE k == task[h]
           t == k.txn
           row == [txns[t] EXCEPT
                    !.status = Written(@, k.row.status, status),
                    !.unavailable = Written(@, k.row.unavailable, k.unavailable)]
<1>1. k \in Task /\ GoodTask(k)
  BY DEF CInv, Typed, TasksAgree
<1>2. t \in Txns /\ txns[t].status # "NONE" /\ txns[t] \in Txn
  BY <1>1, TaskFields, RowNumbers DEF GoodTask, CInv, Typed
<1>3. txns' = [txns EXCEPT ![t] = row]
  BY <1>2 DEF WriteTxn, CInv, Typed
<1>4. row \in Txn /\ row.payment = txns[t].payment /\ row.status # "NONE"
  BY <1>1, <1>2, TaskFields DEF Written, Txn
<1> QED
  BY <1>2, <1>3, <1>4

LEMMA UpdateWithoutReceiptGood ==
    ASSUME CInv, NEW h \in Processes, UpdateWithoutReceipt(h)
    PROVE  CInv'
<1>1. /\ task[h].step = "WRITING" /\ WriteTxn(h, "FAILED") /\ AfterUpdate(h)
      /\ UNCHANGED <<inv, refs, payments, receipts, released, order>>
  BY DEF UpdateWithoutReceipt, FailedStatus, Quiet
<1>2. PICK k \in Task : /\ task' = [task EXCEPT ![h] = k]
                        /\ k.payment = 0 /\ k.txn = 0
                        /\ k.asks = None /\ k.receipt = None
                        /\ k.step \in {"IDLE", "CHECKING"}
                        /\ k.step # "IDLE" => k.invoice \in Invoices
  BY <1>1, AfterUpdateGood
<1>3. GoodTask(k)
  BY <1>2 DEF GoodTask
<1>4. "FAILED" \in TxnStatus \ {"NONE"}
  BY DEF TxnStatus
<1>5. /\ task[h].txn \in Txns
      /\ txns[task[h].txn].status # "NONE"
      /\ \E row \in Txn : /\ row.payment = txns[task[h].txn].payment
                          /\ row.status # "NONE"
                          /\ txns' = [txns EXCEPT ![task[h].txn] = row]
  BY <1>1, <1>4, WriteTxnRow
<1> QED
  BY <1>1, <1>2, <1>3, <1>5, TxnWriteGood

LEMMA UpdateUnderpaidGood ==
    ASSUME CInv, NEW h \in Processes, UpdateUnderpaid(h)
    PROVE  CInv'
<1>1. /\ task[h].step = "WRITING" /\ WriteTxn(h, "COMPLETED") /\ AfterUpdate(h)
      /\ UNCHANGED <<inv, refs, payments, receipts, released, order>>
  BY DEF UpdateUnderpaid, Quiet
<1>2. PICK k \in Task : /\ task' = [task EXCEPT ![h] = k]
                        /\ k.payment = 0 /\ k.txn = 0
                        /\ k.asks = None /\ k.receipt = None
                        /\ k.step \in {"IDLE", "CHECKING"}
                        /\ k.step # "IDLE" => k.invoice \in Invoices
  BY <1>1, AfterUpdateGood
<1>3. GoodTask(k)
  BY <1>2 DEF GoodTask
<1>4. "COMPLETED" \in TxnStatus \ {"NONE"}
  BY DEF TxnStatus
<1>5. /\ task[h].txn \in Txns
      /\ txns[task[h].txn].status # "NONE"
      /\ \E row \in Txn : /\ row.payment = txns[task[h].txn].payment
                          /\ row.status # "NONE"
                          /\ txns' = [txns EXCEPT ![task[h].txn] = row]
  BY <1>1, <1>4, WriteTxnRow
<1> QED
  BY <1>1, <1>2, <1>3, <1>5, TxnWriteGood

LEMMA UpdateWithReceiptGood ==
    ASSUME CInv, NEW h \in Processes, UpdateWithReceipt(h)
    PROVE  CInv'
<1> DEFINE i == task[h].invoice
           p == task[h].payment
           o == task[h].receipt
           made == MakesReference(i)
<1>1. /\ task[h] \in Task /\ GoodTask(task[h])
      /\ task[h].step = "WRITING"
      /\ o # None /\ Amount[o] >= Amount[i]
  BY DEF CInv, Typed, TasksAgree, UpdateWithReceipt, Covers
<1>2. /\ i \in Invoices /\ p \in Payments
      /\ o \in {i} \cup Others /\ order[o] = "PAID"
      /\ payments[p].status # "NONE" /\ payments[p].invoice = i
  BY <1>1, TaskFields, RowNumbers DEF GoodTask
<1>3. PICK sent \in BOOLEAN :
        /\ Publish(i, made /\ sent)
        /\ WriteTxn(h, IF made /\ ~ sent THEN "EVENT_FAILED" ELSE "COMPLETED")
  BY DEF UpdateWithReceipt, Outcomes
<1>4. /\ payments' = [payments EXCEPT ![p].status = "COMPLETED"]
      /\ inv' = [inv EXCEPT ![i] = "PAID"]
      /\ refs' = IF made THEN [refs EXCEPT ![i] =
                                (refs[i] \ {"ACTIVE"}) \cup {"COMPLETED"}]
                         ELSE refs
      /\ receipts' = [receipts EXCEPT ![i] = receipts[i] \cup {o}]
      /\ UNCHANGED order
  BY <1>2 DEF UpdateWithReceipt, PaidInvoice, Quiet, CInv, Typed
<1>5. PICK k \in Task : /\ task' = [task EXCEPT ![h] = k]
                        /\ k.payment = 0 /\ k.txn = 0
                        /\ k.asks = None /\ k.receipt = None
                        /\ k.step \in {"IDLE", "CHECKING"}
                        /\ k.step # "IDLE" => k.invoice \in Invoices
  BY <1>1, AfterUpdateGood DEF UpdateWithReceipt
<1>6. PICK row \in Txn : /\ task[h].txn \in Txns
                         /\ txns[task[h].txn].status # "NONE"
                         /\ row.payment = txns[task[h].txn].payment
                         /\ row.status # "NONE"
                         /\ txns' = [txns EXCEPT ![task[h].txn] = row]
  <2>1. (IF made /\ ~ sent THEN "EVENT_FAILED" ELSE "COMPLETED")
          \in TxnStatus \ {"NONE"}
    BY DEF TxnStatus
  <2> QED
    BY <1>1, <1>3, <2>1, WriteTxnRow
<1>7. /\ "COMPLETED" \in refs'[i] /\ "ACTIVE" \notin refs'[i]
      /\ refs' \in [Invoices -> SUBSET RefStatus]
      /\ \A j \in Invoices : j # i => refs'[j] = refs[j]
  BY <1>2, <1>4 DEF MakesReference, CInv, Typed, RefStatus
<1>8. released[i] = 0 \/ ~ made
  BY <1>2 DEF MakesReference, CInv, InvoicesAgree
<1>9. /\ released' \in [Invoices -> 0..2]
      /\ \A j \in Invoices : j # i => released'[j] = released[j]
      /\ released'[i] \in {0, 1}
  <2>1. released \in [Invoices -> 0..2] /\ released[i] \in {0, 1}
    BY <1>2 DEF CInv, Typed, InvoicesAgree
  <2>2. CASE made /\ sent
    <3>1. released[i] = 0
      BY <1>8, <2>2
    <3>2. released' = [released EXCEPT ![i] = Count(released[i])]
      BY <1>3, <2>2 DEF Publish
    <3>3. Count(released[i]) = 1
      BY <3>1 DEF Count
    <3> QED
      BY <1>2, <2>1, <3>2, <3>3
  <2>3. CASE ~ (made /\ sent)
    BY <1>3, <2>1, <2>3 DEF Publish
  <2> QED
    BY <2>2, <2>3
<1> HIDE DEF made, i, p, o
<1>10. /\ payments' \in [Payments -> Payment]
       /\ payments'[p].status = "COMPLETED" /\ payments'[p].invoice = i
       /\ \A q \in Payments : q # p => payments'[q] = payments[q]
  BY <1>2, <1>4 DEF CInv, Typed, Payment, PaymentStatus
<1>11. Typed'
  <2>1. inv' \in [Invoices -> InvoiceStatus]
    BY <1>4 DEF CInv, Typed, InvoiceStatus
  <2>2. txns' \in [Txns -> Txn]
    BY <1>6 DEF CInv, Typed
  <2>3. task' \in [Processes -> Task]
    BY <1>5 DEF CInv, Typed
  <2>4. receipts' \in [Invoices -> SUBSET Orders]
    BY <1>2, <1>4 DEF CInv, Typed, Orders
  <2> QED
    BY <1>4, <1>7, <1>9, <1>10, <2>1, <2>2, <2>3, <2>4 DEF CInv, Typed
<1>12. Grow
  BY <1>2, <1>4, <1>6, <1>10 DEF Grow, CInv, Typed
<1>13. RowsAgree'
  <2>1. \A q \in Payments :
          payments'[q].status # "NONE" => payments'[q].invoice \in Invoices
    BY <1>2, <1>10 DEF CInv, RowsAgree
  <2>2. \A t \in Txns : /\ txns'[t].payment = txns[t].payment
                        /\ txns'[t].status # "NONE" => txns[t].status # "NONE"
    BY <1>6 DEF CInv, Typed
  <2>3. \A t \in Txns : txns'[t].status # "NONE" =>
          /\ txns'[t].payment \in Payments
          /\ payments'[txns'[t].payment].status # "NONE"
    BY <1>12, <2>2 DEF CInv, RowsAgree, Grow
  <2> QED
    BY <2>1, <2>3 DEF RowsAgree
<1>14. TasksAgree'
  <2>1. GoodTask(task[h])'
    BY <1>5 DEF CInv, Typed, GoodTask
  <2> QED
    BY <1>5, <1>12, <2>1, OthersGood
<1>15. \A j \in Invoices : j # i => inv'[j] = inv[j]
  BY <1>4 DEF CInv, Typed
<1>16. inv'[i] = "PAID"
  BY <1>2, <1>4 DEF CInv, Typed
<1>17. InvoicesAgree'
  BY <1>7, <1>9, <1>15, <1>16 DEF CInv, InvoicesAgree
<1>18. PaidIsBacked'
  <2> SUFFICES ASSUME NEW j \in Invoices, inv'[j] = "PAID"
               PROVE  /\ HasPaidReceipt(j)'
                      /\ "COMPLETED" \in refs'[j]
                      /\ \E q \in Payments : /\ payments'[q].invoice = j
                                             /\ payments'[q].status = "COMPLETED"
    BY DEF PaidIsBacked
  <2>1. CASE j = i
    <3>1. o \in receipts'[j] /\ o \in {j} \cup Others
          /\ order'[o] = "PAID" /\ Amount[o] >= Amount[j]
      BY <1>1, <1>2, <1>4, <2>1 DEF CInv, Typed
    <3>2. HasPaidReceipt(j)'
      BY <3>1 DEF HasPaidReceipt
    <3> QED
      BY <1>2, <1>4, <1>7, <1>10, <2>1, <3>2
  <2>2. CASE j # i
    <3>1. PICK q \in Payments : payments[q].invoice = j
                                  /\ payments[q].status = "COMPLETED"
      BY <1>15, <2>2 DEF CInv, PaidIsBacked
    <3>2. q # p
      BY <1>2, <2>2, <3>1
    <3>3. HasPaidReceipt(j)'
      BY <1>12, <1>15, <2>2, PaidReceiptStays DEF CInv, PaidIsBacked
    <3> QED
      BY <1>4, <1>7, <1>10, <1>15, <2>2, <3>1, <3>2, <3>3 DEF CInv, PaidIsBacked
  <2> QED
    BY <2>1, <2>2
<1>19. CompletedIsPaid'
  <2> SUFFICES ASSUME NEW q \in Payments, payments'[q].status = "COMPLETED"
               PROVE  inv'[payments'[q].invoice] # "CREATED"
    BY DEF CompletedIsPaid
  <2>1. CASE payments'[q].invoice = i
    BY <1>16, <2>1
  <2>2. CASE payments'[q].invoice # i
    <3>1. payments'[q] = payments[q]
      BY <1>10, <2>2
    <3>2. payments[q].invoice \in Invoices
      BY <3>1 DEF CInv, RowsAgree
    <3> QED
      BY <1>15, <2>2, <3>1, <3>2 DEF CInv, CompletedIsPaid
  <2> QED
    BY <2>1, <2>2
<1> QED
  BY <1>11, <1>13, <1>14, <1>17, <1>18, <1>19 DEF CInv

-----------------------------------------------------------------------------
(* Deleting an invoice.                                                    *)

LEMMA ProcessableTxns ==
    ASSUME NEW i, NEW t \in Processable(i)
    PROVE  t \in Txns
BY DEF Processable, TxnsOf

LEMMA AcceptDeleteGood ==
    ASSUME CInv, NEW h \in Processes, NEW i \in Invoices, AcceptDelete(h, i)
    PROVE  CInv'
<1>1. CASE Paid(i)
  <2>1. PICK t \in Processable(i) : UpdateOwn(h, t, "DONE")
    BY <1>1 DEF AcceptDelete
  <2>2. order' = order
    BY DEF AcceptDelete, Quiet
  <2> QED
    BY <2>1, <2>2, ProcessableTxns, UpdateOwnGood
<1>2. CASE ~ Paid(i)
  <2> DEFINE k == [IdleTask EXCEPT !.step = "ACCEPTED", !.invoice = i]
  <2>1. task' = [task EXCEPT ![h] = k] /\ UNCHANGED tables /\ UNCHANGED order
    BY <1>2 DEF AcceptDelete, Quiet
  <2>2. k \in Task /\ GoodTask(k)
    BY IdleIsGood DEF Task, Steps, GoodTask, IdleTask
  <2> QED
    BY <2>1, <2>2, StepGood
<1> QED
  BY <1>1, <1>2

LEMMA DeleteStartGood ==
    ASSUME CInv, NEW h \in Processes, DeleteStart(h)
    PROVE  CInv'
<1>1. /\ task[h] \in Task /\ GoodTask(task[h]) /\ task[h].step = "ACCEPTED"
      /\ UNCHANGED order
  BY DEF CInv, Typed, TasksAgree, DeleteStart, Quiet
<1>2. CASE Finish(h) /\ UNCHANGED tables
  BY <1>1, <1>2, FinishGood
<1>3. CASE \E t \in TxnsOf(task[h].invoice, "CREATED") :
             UpdateOwn(h, t, "CHECK")
  <2>1. PICK t \in TxnsOf(task[h].invoice, "CREATED") :
          UpdateOwn(h, t, "CHECK")
    BY <1>3
  <2>2. t \in Txns
    BY DEF TxnsOf
  <2> QED
    BY <1>1, <2>1, <2>2, UpdateOwnGood
<1>4. CASE task' = [task EXCEPT ![h].step = "CHECKING"] /\ UNCHANGED tables
  <2> DEFINE k == [task[h] EXCEPT !.step = "CHECKING"]
  <2>1. task' = [task EXCEPT ![h] = k]
    BY <1>4 DEF CInv, Typed
  <2>2. k \in Task /\ GoodTask(k)
    BY <1>1 DEF Task, Steps, GoodTask
  <2> QED
    BY <1>1, <1>4, <2>1, <2>2, StepGood
<1> QED
  BY <1>2, <1>3, <1>4 DEF DeleteStart

LEMMA DeleteCheckGood ==
    ASSUME CInv, NEW h \in Processes, DeleteCheck(h) \/ DeleteCheckFails(h)
    PROVE  CInv'
<1> DEFINE i == task[h].invoice
<1>1. /\ task[h] \in Task /\ GoodTask(task[h]) /\ task[h].step = "CHECKING"
      /\ UNCHANGED order
  BY DEF CInv, Typed, TasksAgree, DeleteCheck, DeleteCheckFails, Quiet
<1>2. CASE DeleteStops(h)
  BY <1>1, <1>2, FinishGood DEF DeleteStops
<1>3. CASE \E t \in Processable(i) : UpdateOwn(h, t, "DONE")
  BY <1>1, <1>3, ProcessableTxns, UpdateOwnGood
<1>4. CASE /\ task' = [task EXCEPT ![h].step = "DELETING",
                                   ![h].payment = TheOne(PaymentsOf(i))]
           /\ UNCHANGED tables /\ Deletable(i)
  <2> DEFINE p == TheOne(PaymentsOf(i))
             k == [task[h] EXCEPT !.step = "DELETING", !.payment = p]
  <2>1. task' = [task EXCEPT ![h] = k]
    BY <1>4 DEF CInv, Typed
  <2>2. p # 0 => p \in Payments /\ payments[p].invoice = i
                   /\ payments[p].status # "NONE"
    BY <1>4, TheOneMember DEF Deletable, PaymentsOf
  <2> HIDE DEF p
  <2>3. k \in Task
    BY <1>1, <2>2, RowNumbers DEF Task, Steps
  <2>4. GoodTask(k)
    BY <1>1, <2>2 DEF Task, GoodTask
  <2> QED
    BY <1>1, <1>4, <2>1, <2>3, <2>4, StepGood
<1> QED
  BY <1>2, <1>3, <1>4 DEF DeleteCheck, DeleteCheckFails

LEMMA DeleteEndGood ==
    ASSUME CInv, NEW h \in Processes, DeleteEnd(h)
    PROVE  CInv'
<1> DEFINE i == task[h].invoice
           p == task[h].payment
<1>1. task[h] \in Task /\ GoodTask(task[h]) /\ task[h].step = "DELETING"
  BY DEF CInv, Typed, TasksAgree, DeleteEnd
<1>2. /\ i \in Invoices
      /\ p # 0 => p \in Payments /\ payments[p].status # "NONE"
                    /\ payments[p].invoice = i
  BY <1>1, TaskFields, RowNumbers DEF GoodTask
<1>3. /\ payments' = IF p = 0 THEN payments
                     ELSE [payments EXCEPT ![p].status = "DELETED"]
      /\ refs' = IF "ACTIVE" \in refs[i]
                 THEN [refs EXCEPT ![i] = (refs[i] \ {"ACTIVE"}) \cup {"CANCELLED"}]
                 ELSE refs
      /\ inv' = [inv EXCEPT ![i] = "DELETED"]
      /\ task' = [task EXCEPT ![h] = IdleTask]
      /\ UNCHANGED <<order, txns, receipts, released>>
  BY <1>2 DEF DeleteEnd, Finish, Quiet, CInv, Typed
<1> HIDE DEF i, p
<1>4. /\ payments' \in [Payments -> Payment]
      /\ \A q \in Payments :
           /\ payments'[q].invoice = payments[q].invoice
           /\ payments[q].status # "NONE" <=> payments'[q].status # "NONE"
           /\ payments[q].invoice # i => payments'[q] = payments[q]
           /\ payments'[q].status = "COMPLETED" => payments'[q] = payments[q]
  BY <1>2, <1>3 DEF CInv, Typed, Payment, PaymentStatus
<1>5. /\ inv' \in [Invoices -> InvoiceStatus]
      /\ inv'[i] = "DELETED"
      /\ \A j \in Invoices : j # i => inv'[j] = inv[j]
  BY <1>2, <1>3 DEF CInv, Typed, InvoiceStatus
<1>6. /\ refs' \in [Invoices -> SUBSET RefStatus]
      /\ "ACTIVE" \notin refs'[i]
      /\ "COMPLETED" \in refs[i] => "COMPLETED" \in refs'[i]
      /\ \A j \in Invoices : j # i => refs'[j] = refs[j]
  BY <1>2, <1>3 DEF CInv, Typed, RefStatus
<1>7. Typed'
  BY <1>3, <1>4, <1>5, <1>6, IdleIsGood DEF CInv, Typed
<1>8. RowsAgree'
  BY <1>3, <1>4 DEF CInv, RowsAgree
<1>9. Grow
  BY <1>3, <1>4 DEF Grow
<1>10. TasksAgree'
  <2>1. GoodTask(task[h])'
    BY <1>3 DEF CInv, Typed, IdleTask, GoodTask
  <2> QED
    BY <1>3, <1>9, <2>1, OthersGood
<1>11. InvoicesAgree'
  BY <1>3, <1>5, <1>6 DEF CInv, InvoicesAgree
<1>12. PaidIsBacked'
  <2> SUFFICES ASSUME NEW j \in Invoices, inv'[j] = "PAID"
               PROVE  /\ HasPaidReceipt(j)'
                      /\ "COMPLETED" \in refs'[j]
                      /\ \E q \in Payments : /\ payments'[q].invoice = j
                                             /\ payments'[q].status = "COMPLETED"
    BY DEF PaidIsBacked
  <2>1. j # i /\ inv[j] = "PAID"
    BY <1>5
  <2>2. PICK q \in Payments : payments[q].invoice = j
                                /\ payments[q].status = "COMPLETED"
    BY <2>1 DEF CInv, PaidIsBacked
  <2>3. HasPaidReceipt(j)' /\ "COMPLETED" \in refs[j]
    BY <1>9, <2>1, PaidReceiptStays DEF CInv, PaidIsBacked
  <2> QED
    BY <1>3, <1>4, <1>6, <2>1, <2>2, <2>3
<1>13. CompletedIsPaid'
  <2> SUFFICES ASSUME NEW q \in Payments, payments'[q].status = "COMPLETED"
               PROVE  inv'[payments'[q].invoice] # "CREATED"
    BY DEF CompletedIsPaid
  <2>1. payments'[q] = payments[q] /\ payments[q].invoice \in Invoices
    BY <1>4 DEF CInv, RowsAgree
  <2> QED
    BY <1>5, <2>1 DEF CInv, CompletedIsPaid
<1> QED
  BY <1>7, <1>8, <1>10, <1>11, <1>12, <1>13 DEF CInv

-----------------------------------------------------------------------------
(* The job.                                                                *)

LEMMA JobGood ==
    ASSUME CInv, JobSteps
    PROVE  CInv'
<1>1. StaleJob \in Processes
  BY DEF Processes
<1>2. CASE StaleStart \/ VerifyStart \/ VerifyEnd
  <2>1. UNCHANGED <<inv, refs, payments, txns, receipts, released, order, task>>
    BY <1>2 DEF StaleStart, VerifyStart, VerifyEnd, tables
  <2> QED
    BY <2>1 DEF CInv, Typed, RowsAgree, InvoicesAgree, TasksAgree, GoodTask,
       PaidIsBacked, HasPaidReceipt,
       CompletedIsPaid
<1>3. CASE \E t \in Txns : StaleItem(t)
  <2>1. PICK t \in Txns : StaleItem(t)
    BY <1>3
  <2>2. order' = order
    BY <2>1 DEF StaleItem
  <2>3. CASE UpdateOwn(StaleJob, t, "CANCEL")
    BY <1>1, <2>2, <2>3, UpdateOwnGood
  <2>4. CASE UNCHANGED <<tables, task>>
    BY <2>2, <2>4 DEF tables, CInv, Typed, RowsAgree, InvoicesAgree,
       TasksAgree, GoodTask, PaidIsBacked, HasPaidReceipt,
       CompletedIsPaid
  <2> QED
    BY <2>1, <2>3, <2>4 DEF StaleItem
<1>4. CASE \E i \in Invoices : VerifyPaid(i) \/ VerifyNothing(i)
  <2>1. PICK i \in Invoices : VerifyPaid(i) \/ VerifyNothing(i)
    BY <1>4
  <2>2. order' = order
    BY <2>1 DEF VerifyPaid, VerifyNothing, VerifyItem
  <2>3. CASE \E t \in Processable(i) : UpdateOwn(StaleJob, t, "DONE")
    BY <1>1, <2>2, <2>3, ProcessableTxns, UpdateOwnGood
  <2>4. CASE UNCHANGED <<tables, task>>
    BY <2>2, <2>4 DEF tables, CInv, Typed, RowsAgree, InvoicesAgree,
       TasksAgree, GoodTask, PaidIsBacked, HasPaidReceipt,
       CompletedIsPaid
  <2> QED
    BY <2>1, <2>3, <2>4 DEF VerifyPaid, VerifyNothing
<1> QED
  BY <1>2, <1>3, <1>4 DEF JobSteps

-----------------------------------------------------------------------------
(* The invariant.                                                          *)

LEMMA InitGood == Init => IInv
<1> SUFFICES ASSUME Init PROVE IInv
  OBVIOUS
<1>1. Typed /\ ListsTyped
  BY IdleIsGood, RowNumbers DEF Init, Typed, ListsTyped, InvoiceStatus, RefStatus,
     Payment, PaymentStatus, Txn, TxnStatus, OrderStatus, NoTxn
<1>2. RowsAgree /\ InvoicesAgree /\ PaidIsBacked /\ CompletedIsPaid
  BY DEF Init, RowsAgree, InvoicesAgree, PaidIsBacked, CompletedIsPaid, NoTxn
<1>3. TasksAgree
  BY IdleIsGood DEF Init, TasksAgree
<1> QED
  BY <1>1, <1>2, <1>3 DEF IInv, CInv

LEMMA NextGood ==
    ASSUME CInv, [Next]_vars
    PROVE  CInv'
<1>1. \A h \in Requests : h \in Processes
  BY DEF Processes
<1>2. CASE \E h \in Requests, i \in Invoices :
             CreateTransaction(h, i) \/ AcceptDelete(h, i)
  BY <1>1, <1>2, CreateTransactionGood, AcceptDeleteGood
<1>3. CASE \E h \in Requests, t \in Txns, asks \in Orders \cup {None},
               declined \in BOOLEAN : PatchTransaction(h, t, asks, declined)
  <2>1. PICK h \in Requests, t \in Txns, asks \in Orders \cup {None},
             declined \in BOOLEAN : PatchTransaction(h, t, asks, declined)
    BY <1>3
  <2>2. /\ Update(h, t, asks, declined, "DONE") /\ UNCHANGED order
        /\ asks \in {None, InvoiceOf(t)} \cup Others
    BY <2>1 DEF PatchTransaction, NamedByUrl, Quiet
  <2> QED
    BY <1>1, <2>2, UpdateGood
<1>4. CASE \E h \in Requests :
             \/ CreateEnd(h) \/ CreateFails(h)
             \/ DeleteStart(h) \/ DeleteCheck(h) \/ DeleteCheckFails(h)
             \/ DeleteEnd(h)
  <2>1. PICK h \in Requests :
             \/ CreateEnd(h) \/ CreateFails(h)
             \/ DeleteStart(h) \/ DeleteCheck(h) \/ DeleteCheckFails(h)
             \/ DeleteEnd(h)
    BY <1>4
  <2>2. CASE CreateFails(h)
    BY <1>1, <2>2, FinishGood DEF CreateFails, Quiet
  <2> QED
    BY <1>1, <2>1, <2>2, CreateEndGood, DeleteStartGood, DeleteCheckGood,
       DeleteEndGood
<1>5. CASE \E h \in Processes :
             \/ GetReceipt(h) \/ PayBCUnavailable(h)
             \/ UpdateWithReceipt(h) \/ UpdateUnderpaid(h)
             \/ UpdateWithoutReceipt(h)
  <2>1. PICK h \in Processes :
             \/ GetReceipt(h) \/ PayBCUnavailable(h)
             \/ UpdateWithReceipt(h) \/ UpdateUnderpaid(h)
             \/ UpdateWithoutReceipt(h)
    BY <1>5
  <2>2. CASE GetReceipt(h)
    <3> DEFINE o == IF Asks(h) /\ order[task[h].asks] = "PAID"
                    THEN task[h].asks ELSE None
    <3>1. Answered(h, o, FALSE)
      BY <2>2 DEF GetReceipt
    <3>2. o \in {None, task[h].asks} /\ (o # None => order[o] = "PAID")
      OBVIOUS
    <3> HIDE DEF o
    <3> QED
      BY <3>1, <3>2, AnsweredGood
  <2>3. CASE PayBCUnavailable(h)
    <3>1. (~ task[h].declined) \in BOOLEAN
      OBVIOUS
    <3>2. Answered(h, None, ~ task[h].declined)
      BY <2>3 DEF PayBCUnavailable
    <3> QED
      BY <3>1, <3>2, AnsweredGood
  <2> QED
    BY <2>1, <2>2, <2>3, UpdateWithReceiptGood, UpdateUnderpaidGood,
       UpdateWithoutReceiptGood
<1>6. CASE \E i \in Invoices : OpenOrder(i) \/ PayOrder(i)
  BY <1>6, OrderGood
<1>7. CASE JobSteps
  BY <1>7, JobGood
<1>8. CASE UNCHANGED vars
  BY <1>8 DEF vars, tables, CInv, Typed, RowsAgree, InvoicesAgree,
     TasksAgree, GoodTask, PaidIsBacked, HasPaidReceipt, CompletedIsPaid
<1> QED
  BY <1>2, <1>3, <1>4, <1>5, <1>6, <1>7, <1>8 DEF Next, JobSteps

\* The lists name invoices and transactions.
LEMMA ListsGood ==
    ASSUME ListsTyped, [Next]_vars
    PROVE  ListsTyped'
<1>1. CASE UNCHANGED lists
  BY <1>1 DEF lists, ListsTyped
<1>2. CASE \E h \in Requests, i \in Invoices : AcceptDelete(h, i)
  BY <1>1, <1>2 DEF AcceptDelete, Quiet
<1>3. CASE JobSteps
  BY <1>3 DEF JobSteps, StaleStart, VerifyStart, VerifyEnd, StaleItem,
     VerifyPaid, VerifyNothing, VerifyItem, ListsTyped
<1>5. CASE UNCHANGED vars
  BY <1>1, <1>5 DEF vars, lists
<1>6. CASE \E h \in Requests, i \in Invoices : CreateTransaction(h, i)
  BY <1>1, <1>6 DEF CreateTransaction, Quiet
<1>7. CASE \E h \in Requests, t \in Txns, asks \in Orders \cup {None},
               declined \in BOOLEAN : PatchTransaction(h, t, asks, declined)
  BY <1>1, <1>7 DEF PatchTransaction, Quiet
<1>8. CASE \E h \in Requests :
             \/ CreateEnd(h) \/ CreateFails(h)
             \/ DeleteStart(h) \/ DeleteCheck(h) \/ DeleteCheckFails(h)
             \/ DeleteEnd(h)
  <2>1. Quiet
    BY <1>8 DEF CreateEnd, CreateFails, DeleteStart, DeleteCheck,
       DeleteCheckFails, DeleteEnd
  <2> QED
    BY <1>1, <2>1 DEF Quiet
<1>9. CASE \E h \in Processes :
             \/ GetReceipt(h) \/ PayBCUnavailable(h)
             \/ UpdateWithReceipt(h) \/ UpdateUnderpaid(h)
             \/ UpdateWithoutReceipt(h)
  <2>1. Quiet
    BY <1>9 DEF GetReceipt, PayBCUnavailable, Answered, UpdateWithReceipt,
       UpdateUnderpaid, UpdateWithoutReceipt
  <2> QED
    BY <1>1, <2>1 DEF Quiet
<1>10. CASE \E i \in Invoices : OpenOrder(i) \/ PayOrder(i)
  BY <1>1, <1>10 DEF OpenOrder, PayOrder
<1> QED
  BY <1>2, <1>3, <1>5, <1>6, <1>7, <1>8, <1>9, <1>10 DEF Next, JobSteps

LEMMA Invariance == Spec => []IInv
<1>1. Init => IInv
  BY InitGood
<1>2. IInv /\ [Next]_vars => IInv'
  BY NextGood, ListsGood DEF IInv
<1> QED
  BY <1>1, <1>2, PTL DEF Spec

\* Every row and every task stays well formed.
THEOREM TypeCorrect == Spec => []TypeOK
<1>1. IInv => TypeOK
  BY DEF IInv, CInv, Typed, ListsTyped, TypeOK
<1> QED
  BY <1>1, Invariance, PTL

\* However many requests, deleting threads and runs of the job update the
\* transactions of an invoice at the same time, its release is published at
\* most once (_update_receipt_details).
THEOREM ReleaseOnce == Spec => []ReleasedOnce
<1>1. IInv => ReleasedOnce
  BY DEF IInv, CInv, Typed, InvoicesAgree, ReleasedOnce
<1> QED
  BY <1>1, Invariance, PTL

\* A PAID invoice has a receipt of a paid order, its own or one that a URL
\* named, of at least its amount, a COMPLETED payment and a COMPLETED
\* reference, whatever order the updates and the deletion of the invoice
\* commit in (_update_receipt_details, get_receipt).
THEOREM PaidBacked == Spec => []PaidIsBacked
<1>1. IInv => PaidIsBacked
  BY DEF IInv, CInv
<1> QED
  BY <1>1, Invariance, PTL

\* That the order is its own follows from what the URLs name: if none names
\* another order than that of its invoice, a PAID invoice was paid itself.
THEOREM PaidByOwnOrder == ASSUME Others = {} PROVE Spec => []PaidByItself
<1>1. IInv => PaidByItself
  BY DEF IInv, CInv, PaidIsBacked, HasPaidReceipt, PaidByItself
<1> QED
  BY <1>1, Invariance, PTL

\* The invoice of a COMPLETED payment waits for no other: the write of the
\* receipt completes both, and the deletion marks both.
THEOREM CompletedPaid == Spec => []CompletedIsPaid
<1>1. IInv => CompletedIsPaid
  BY DEF IInv, CInv
<1> QED
  BY <1>1, Invariance, PTL

=============================================================================
