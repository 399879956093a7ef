--------------------------- MODULE EFTTaskProofs ---------------------------
(***************************************************************************)
(* Proofs about EFTTask, for any number of short names, accounts, deposits *)
(* and invoices, with or without overlap, CFS failures and killed jobs:    *)
(* the type invariant; that no sequence of requests makes a credit hold    *)
(* more than was deposited; that an amount comes back to its credit once;  *)
(* and that no money appears or disappears.  And, where requests and jobs  *)
(* take turns and no job is killed, that a locked account owes.            *)
(*                                                                         *)
(* The first two need to know what the request in progress will commit, so *)
(* the inductive invariant says of its working copies what it says of the  *)
(* tables; and that an invoice that may be paid has nothing paid on it, as *)
(* otherwise what is due need not be a natural number.                     *)
(*                                                                         *)
(* What makes the next two inductive is the order of the links.  The       *)
(* links that one request makes for an invoice have a group of their own;  *)
(* they share status and receipt, and a later group has larger ids.  A     *)
(* return is in a later group than the link that it returns, so a request, *)
(* which takes the latest group only, finds no link there that was         *)
(* returned before.  The money of a short name is a sum over credits,      *)
(* links and refunds, of the tables and, while a request runs, of its copy *)
(* of them with what it has still to deduct or to put back.                *)
(*                                                                         *)
(* A locked account owes because the job notes the account of each overdue *)
(* invoice before it pays it, and comes to every item of its list: the     *)
(* items have different invoices, so none takes away the links of another. *)
(*                                                                         *)
(* The last part proves that a refunded or cancelled invoice holds no      *)
(* credit, with overlap and partial refunds, for deposits of one short     *)
(* name: the latest group of links decides what an invoice holds.          *)
(***************************************************************************)
EXTENDS EFTTask, SumTheorems

\* An invoice that is not, or no longer, paid for has nothing paid on it.
Unfunded(row) ==
    row.status \in {"NOT_CREATED", "APPROVED", "OVERDUE"} => row.paid = {}

\* A copy of eft_credits within the amounts deposited.
Bounded(rem) == \A c \in Credits : /\ rem[c] <= Amount[c]
                                   /\ c > deposits => rem[c] = 0

\* Links to credits that have been deposited.
OnDeposits(L) == \A l \in L : l.credit <= deposits

GoodTxn(t) ==
    /\ t \in Txn
    /\ \A i \in Invoices : Unfunded(t.inv[i])
    /\ \A i \in t.due : inv[i].paid = {}
    /\ Bounded(t.rem)
    /\ OnDeposits(t.cils) /\ OnDeposits(t.todo)

IInv ==
    /\ TypeOK
    /\ \A i \in Invoices : Unfunded(inv[i])
    /\ Bounded(remaining)
    /\ OnDeposits(cils)
    /\ txn = NoTxn \/ GoodTxn(txn)
    /\ job.phase = "LINK" /\ job.cur # NoItem => job.cur.ids # {}

-----------------------------------------------------------------------------
(* Lemmas about the operators.                                             *)

\* The larger part of a credit and of a need is never taken.
LEMMA LesserType ==
    ASSUME NEW m \in Nat, NEW n \in Nat
    PROVE  Lesser(m, n) \in Nat /\ Lesser(m, n) <= m /\ Lesser(m, n) <= n
BY DEF Lesser

\* The receipt of a rollup is numbered after one of its links.
LEMMA MinIdType ==
    ASSUME NEW ids \in SUBSET Nat, ids # {}
    PROVE  MinId(ids) \in Nat /\ MinId(ids) \in ids
<1>1. \E n \in ids : \A m \in ids : n <= m
  BY LeastMember
<1> QED
  BY <1>1 DEF MinId

\* A balance is an amount of money.
LEMMA BalanceType ==
    ASSUME NEW rem \in [Credits -> Nat], NEW sn
    PROVE  /\ IsFiniteSet(Credits) /\ IsFiniteSet(CreditsOf(sn))
           /\ Balance(rem, sn) \in Nat
<1>1. IsFiniteSet(Credits)
  BY FS_Interval, EFTConstants DEF Credits
<1>2. CreditsOf(sn) \subseteq Credits
  BY DEF CreditsOf
<1>3. IsFiniteSet(CreditsOf(sn))
  BY <1>1, <1>2, FS_Subset
<1> QED
  BY <1>1, <1>2, <1>3, SumNat DEF Balance

\* A new transaction starts from the tables.
LEMMA NewTxnGood ==
    ASSUME IInv, NEW sn \in ShortNames
    PROVE  GoodTxn(NewTxn(sn))
<1>1. NewTxn(sn) \in Txn
  BY EFTConstants DEF NewTxn, IInv, TypeOK, Txn, ReturnMode
<1> QED
  BY <1>1 DEF NewTxn, IInv, GoodTxn, OnDeposits

\* Beginning a good transaction keeps the invariant.
LEMMA BeginGood ==
    ASSUME IInv, NEW t, GoodTxn(t), Begin(t) \/ BeginGroup(t),
           UNCHANGED jobVars
    PROVE  IInv'
<1>1. TypeOK'
  BY EFTConstants DEF IInv, TypeOK, GoodTxn, Begin, BeginGroup, tables,
     jobVars
<1> QED
  BY <1>1 DEF IInv, GoodTxn, Begin, BeginGroup, tables, jobVars, Bounded,
     OnDeposits

\* So does a step of the transaction that leads to a good one, or ends it.
LEMMA StepGood ==
    ASSUME IInv, NEW t, t = NoTxn \/ GoodTxn(t), txn' = t,
           UNCHANGED tables, UNCHANGED jobVars
    PROVE  IInv'
<1>1. TypeOK'
  BY DEF IInv, TypeOK, GoodTxn, tables, jobVars
<1> QED
  BY <1>1 DEF IInv, GoodTxn, tables, jobVars, Bounded, OnDeposits

\* Only good transactions are open.
LEMMA OpenIsGood ==
    ASSUME IInv, txn.open
    PROVE  GoodTxn(txn)
BY DEF IInv, NoTxn

-----------------------------------------------------------------------------
(* The steps of a transaction.                                             *)

LEMMA TxnFields ==
    ASSUME NEW t \in Txn
    PROVE  /\ t.open /\ t.sn \in ShortNames /\ t.group \in Nat
           /\ t.todo \in SUBSET Cil /\ t.mode \in ReturnMode
           /\ t.due \in SUBSET Invoices /\ t.cur \in Invoices \cup {NoInvoice}
           /\ t.need \in Nat /\ t.refill \in Nat
           /\ t.rem \in [Credits -> Nat] /\ t.cils \in SUBSET Cil
           /\ t.lastCil \in Nat
           /\ t.active \in SUBSET (ShortNames \X Accounts)
           /\ t.inv \in [Invoices -> Invoice]
           /\ t.refunds \in [Refunds -> EftRefund]
BY DEF Txn

LEMMA CilFields ==
    ASSUME NEW l \in Cil
    PROVE  /\ l.id \in Nat /\ l.invoice \in Invoices /\ l.credit \in Credits
           /\ l.amount \in Nat /\ l.group \in Nat /\ l.receipt \in Nat
           /\ l.status \in CilStatus
BY DEF Cil

\* The transaction after an amount is put back.
PutBack(t, todo, c, amount, L, last) ==
    [t EXCEPT !.todo = todo, !.rem[c] = amount, !.cils = L, !.lastCil = last]

LEMMA PutBackType ==
    ASSUME NEW t \in Txn, NEW todo \in SUBSET Cil, NEW c \in Credits,
           NEW amount \in Nat, NEW L \in SUBSET Cil, NEW last \in Nat,
           NEW u, u = PutBack(t, todo, c, amount, L, last)
    PROVE  /\ u \in Txn
           /\ u.inv = t.inv /\ u.due = t.due /\ u.cils = L
           /\ u.todo = todo
           /\ u.rem = [t.rem EXCEPT ![c] = amount]
           /\ u.lastCil = last /\ u.sn = t.sn /\ u.group = t.group
           /\ u.mode = t.mode /\ u.cur = t.cur /\ u.need = t.need
           /\ u.refill = t.refill /\ u.refunds = t.refunds
<1> DEFINE rem == [t.rem EXCEPT ![c] = amount]
<1>1. rem \in [Credits -> Nat]
  BY TxnFields
<1>2. u = [t EXCEPT !.todo = todo, !.rem = rem, !.cils = L, !.lastCil = last]
  BY DEF Txn, PutBack
<1> HIDE DEF rem
<1>3. u \in Txn
  BY <1>1, <1>2 DEF Txn
<1>4. /\ u.inv = t.inv /\ u.due = t.due /\ u.cils = L
      /\ u.todo = todo /\ u.rem = rem
      /\ u.lastCil = last /\ u.sn = t.sn /\ u.group = t.group
      /\ u.mode = t.mode /\ u.cur = t.cur /\ u.need = t.need
      /\ u.refill = t.refill /\ u.refunds = t.refunds
  BY <1>2 DEF Txn
<1> QED
  BY <1>3, <1>4 DEF rem

\* What is recorded are links of the same credit.
LEMMA RecordedType ==
    ASSUME IInv, GoodTxn(txn), NEW l \in txn.todo, NEW x \in Nat
    PROVE  Recorded(l, x) \in SUBSET Cil /\ OnDeposits(Recorded(l, x))
<1>1. /\ l \in Cil /\ l.credit <= deposits
      /\ txn.cils \subseteq Cil /\ OnDeposits(txn.cils)
      /\ txn.group \in Nat /\ txn.lastCil + 1 \in Nat
      /\ txn.mode \in ReturnMode
  BY TxnFields DEF GoodTxn, OnDeposits
<1>2. {"CANCELLED", "PENDING_REFUND", "REFUNDED"} \subseteq CilStatus
  BY DEF CilStatus
<1>3. CASE txn.mode = "CANCEL"
  <2> DEFINE r == [l EXCEPT !.status = "CANCELLED"]
  <2>1. Recorded(l, x) = (txn.cils \ {l}) \cup {r}
    BY <1>3 DEF Recorded, AddsReturn
  <2>2. r \in Cil /\ r.credit = l.credit
    BY <1>1, <1>2 DEF Cil
  <2> QED
    <3> HIDE DEF r
    <3> QED
      BY <1>1, <2>1, <2>2 DEF OnDeposits
<1>4. CASE txn.mode = "REGROUP"
  <2> DEFINE r == [l EXCEPT !.status = "CANCELLED", !.group = txn.group]
  <2>1. Recorded(l, x) = (txn.cils \ {l}) \cup {r}
    BY <1>4 DEF Recorded, AddsReturn
  <2>2. r \in Cil /\ r.credit = l.credit
    BY <1>1, <1>2 DEF Cil
  <2> QED
    <3> HIDE DEF r
    <3> QED
      BY <1>1, <2>1, <2>2 DEF OnDeposits
<1>5. CASE AddsReturn
  <2> DEFINE r == [l EXCEPT !.id = txn.lastCil + 1, !.amount = x,
                            !.group = txn.group, !.status = txn.mode]
  <2>1. Recorded(l, x) = txn.cils \cup {r}
    BY <1>5 DEF Recorded, AddsReturn
  <2>2. txn.mode \in CilStatus
    BY <1>2, <1>5 DEF AddsReturn
  <2>3. r \in Cil /\ r.credit = l.credit
    BY <1>1, <2>2 DEF Cil
  <2> QED
    <3> HIDE DEF r
    <3> QED
      BY <1>1, <2>1, <2>3 DEF OnDeposits
<1> QED
  BY <1>1, <1>3, <1>4, <1>5 DEF ReturnMode, AddsReturn

\* A copy of eft_credits stays within bounds if one credit does.
LEMMA BoundedUpdate ==
    ASSUME IInv, NEW rem \in [Credits -> Nat], Bounded(rem),
           NEW c \in Credits, c <= deposits, NEW n \in Nat, n <= Amount[c]
    PROVE  Bounded([rem EXCEPT ![c] = n])
BY DEF Bounded, Credits, IInv, TypeOK

\* Putting an amount back on a credit, or giving up.
LEMMA ReturnCreditSteps ==
    ASSUME IInv, txn.open, ReturnCredit
    PROVE  \/ Rollback
           \/ \E t, l, x :
                /\ l \in txn.todo /\ \A k \in txn.todo : l.id <= k.id
                /\ x \in Nat /\ x = ReturnAmount(l)
                /\ txn.rem[l.credit] + x <= Amount[l.credit]
                /\ t = PutBack(txn, txn.todo \ {l}, l.credit,
                               txn.rem[l.credit] + x, Recorded(l, x),
                               IF AddsReturn THEN txn.lastCil + 1
                               ELSE txn.lastCil)
                /\ txn' = t /\ UNCHANGED tables
<1>1. PICK l \in txn.todo :
        /\ \A k \in txn.todo : l.id <= k.id
        /\ LET x == ReturnAmount(l)
               amount == txn.rem[l.credit] + x
           IN  IF FitsCredit(l.credit, amount)
               THEN /\ txn' = [txn EXCEPT !.todo = @ \ {l},
                                          !.rem[l.credit] = amount,
                                          !.cils = Recorded(l, x),
                                          !.lastCil = IF AddsReturn THEN @ + 1
                                                      ELSE @]
                    /\ UNCHANGED tables
               ELSE Rollback
  BY DEF ReturnCredit
<1> DEFINE x == ReturnAmount(l)
           amount == txn.rem[l.credit] + x
<1>2. txn \in Txn /\ txn.inv \in [Invoices -> Invoice] /\ l \in Cil
  BY OpenIsGood, TxnFields DEF GoodTxn
<1>3. l.amount \in Nat /\ txn.inv[l.invoice].refund \in Nat
  BY <1>2, CilFields DEF Invoice
<1>4. x \in Nat
  BY <1>3, LesserType DEF ReturnAmount
<1>5. CASE FitsCredit(l.credit, amount)
  <2>1. /\ txn' = PutBack(txn, txn.todo \ {l}, l.credit, amount,
                          Recorded(l, x), IF AddsReturn THEN txn.lastCil + 1
                                          ELSE txn.lastCil)
        /\ UNCHANGED tables
    BY <1>1, <1>5 DEF PutBack
  <2>2. amount <= Amount[l.credit]
    BY <1>5 DEF FitsCredit
  <2> QED
    BY <1>1, <1>4, <2>1, <2>2
<1>6. CASE ~ FitsCredit(l.credit, amount)
  BY <1>1, <1>6
<1> QED
  BY <1>5, <1>6

LEMMA ReturnCreditGood ==
    ASSUME IInv, txn.open, ReturnCredit, UNCHANGED jobVars
    PROVE  IInv'
<1>1. GoodTxn(txn)
  BY OpenIsGood
<1>2. CASE Rollback
  BY <1>2, StepGood DEF Rollback
<1>3. CASE ~ Rollback
  <2>1. PICK t, l, x :
          /\ l \in txn.todo
          /\ x \in Nat /\ txn.rem[l.credit] + x <= Amount[l.credit]
          /\ t = PutBack(txn, txn.todo \ {l}, l.credit,
                         txn.rem[l.credit] + x, Recorded(l, x),
                         IF AddsReturn THEN txn.lastCil + 1
                         ELSE txn.lastCil)
          /\ txn' = t /\ UNCHANGED tables
    BY <1>3, ReturnCreditSteps
  <2> DEFINE amount == txn.rem[l.credit] + x
             todo == txn.todo \ {l}
             L == Recorded(l, x)
             last == IF AddsReturn THEN txn.lastCil + 1 ELSE txn.lastCil
  <2>2. /\ l \in Cil /\ l.credit \in Credits /\ l.credit <= deposits
        /\ todo \in SUBSET Cil /\ OnDeposits(todo)
    BY <1>1, <2>1, TxnFields, CilFields DEF GoodTxn, OnDeposits
  <2>3. /\ txn \in Txn /\ txn.rem \in [Credits -> Nat] /\ last \in Nat
    BY <1>1, TxnFields DEF GoodTxn
  <2>4. amount \in Nat
    <3>1. txn.rem[l.credit] \in Nat
      BY <2>2, <2>3
    <3> QED
      BY <2>1, <3>1
  <2>5. L \in SUBSET Cil /\ OnDeposits(L)
    BY <1>1, <2>1, RecordedType
  <2>6. /\ t = PutBack(txn, todo, l.credit, amount, L, last)
        /\ amount <= Amount[l.credit]
    BY <2>1
  <2> HIDE DEF amount, todo, L, last
  <2>7. /\ t \in Txn
        /\ t.inv = txn.inv /\ t.due = txn.due /\ t.cils = L
        /\ t.todo = todo
        /\ t.rem = [txn.rem EXCEPT ![l.credit] = amount]
    BY <2>2, <2>3, <2>4, <2>5, <2>6, PutBackType
  <2>8. Bounded(t.rem)
    BY <1>1, <2>2, <2>3, <2>4, <2>6, <2>7, BoundedUpdate DEF GoodTxn
  <2>9. GoodTxn(t)
    BY <1>1, <2>2, <2>5, <2>7, <2>8 DEF GoodTxn
  <2> QED
    BY <2>1, <2>9, StepGood
<1> QED
  BY <1>2, <1>3

\* Turning to the next invoice: nothing has been paid on it, so its total is
\* due.
LEMMA NextInvoiceSteps ==
    ASSUME IInv, txn.open, NextInvoice
    PROVE  \E t, i :
             /\ i \in txn.due /\ Due(i) = Total[i] /\ t \in Txn
             /\ t.due = txn.due \ {i} /\ t.cur = i /\ t.need = Total[i]
             /\ t.todo = PendingLinks(txn.cils, txn.sn, i)
             /\ t.cils = txn.cils /\ t.lastCil = txn.lastCil
             /\ t.sn = txn.sn /\ t.group = txn.group /\ t.mode = txn.mode
             /\ t.refill = txn.refill /\ t.rem = txn.rem
             /\ t.inv = txn.inv /\ t.refunds = txn.refunds
             /\ txn' = t /\ UNCHANGED tables
<1>1. GoodTxn(txn) /\ txn \in Txn
  BY OpenIsGood DEF GoodTxn
<1>2. PICK i \in txn.due :
        /\ txn' = [txn EXCEPT !.due = @ \ {i}, !.cur = i, !.need = Due(i),
                              !.todo = PendingLinks(txn.cils, txn.sn, i)]
        /\ UNCHANGED tables
  BY DEF NextInvoice
<1>3. i \in Invoices /\ txn.due \ {i} \in SUBSET Invoices
  BY <1>1, TxnFields
<1>4. Due(i) = Total[i] /\ Total[i] \in Nat
  BY <1>1, <1>3, EFTConstants DEF GoodTxn, Due
<1> DEFINE due == txn.due \ {i}
           need == Due(i)
           todo == PendingLinks(txn.cils, txn.sn, i)
           t == [txn EXCEPT !.due = due, !.cur = i, !.need = need,
                            !.todo = todo]
<1>5. todo \in SUBSET Cil
  BY <1>1, TxnFields DEF PendingLinks
<1>6. txn' = t
  BY <1>2
<1> HIDE DEF due, need, todo
<1>7. t \in Txn
  BY <1>1, <1>3, <1>4, <1>5 DEF Txn, due, need
<1>8. /\ t.due = due /\ t.cur = i /\ t.need = need /\ t.todo = todo
      /\ t.cils = txn.cils /\ t.lastCil = txn.lastCil
      /\ t.sn = txn.sn /\ t.group = txn.group /\ t.mode = txn.mode
      /\ t.refill = txn.refill /\ t.rem = txn.rem
      /\ t.inv = txn.inv /\ t.refunds = txn.refunds
  BY <1>1 DEF Txn
<1> HIDE DEF t
<1> QED
  BY <1>2, <1>4, <1>6, <1>7, <1>8 DEF due, need, todo

LEMMA NextInvoiceGood ==
    ASSUME IInv, txn.open, NextInvoice, UNCHANGED jobVars
    PROVE  IInv'
<1>1. GoodTxn(txn)
  BY OpenIsGood
<1>2. PICK t, i :
        /\ i \in txn.due /\ t \in Txn
        /\ t.due = txn.due \ {i}
        /\ t.todo = PendingLinks(txn.cils, txn.sn, i)
        /\ t.cils = txn.cils /\ t.rem = txn.rem /\ t.inv = txn.inv
        /\ txn' = t /\ UNCHANGED tables
  BY NextInvoiceSteps
<1>3. t.todo \subseteq txn.cils
  BY <1>2 DEF PendingLinks
<1>4. OnDeposits(t.todo)
  BY <1>1, <1>3 DEF GoodTxn, OnDeposits
<1>5. GoodTxn(t)
  BY <1>1, <1>2, <1>4 DEF GoodTxn
<1> QED
  BY <1>2, <1>5, StepGood

\* The transaction after a credit is lowered or raised to n.
SetCredit(t, c, n, need, refill, L, last) ==
    [t EXCEPT !.rem[c] = n, !.need = need, !.refill = refill, !.cils = L,
              !.lastCil = last]

LEMMA SetCreditType ==
    ASSUME NEW t \in Txn, NEW c \in Credits, NEW n \in Nat, NEW need \in Nat,
           NEW refill \in Nat, NEW L \in SUBSET Cil, NEW last \in Nat,
           NEW u, u = SetCredit(t, c, n, need, refill, L, last)
    PROVE  /\ u \in Txn
           /\ u.inv = t.inv /\ u.due = t.due /\ u.cils = L
           /\ u.todo = t.todo
           /\ u.rem = [t.rem EXCEPT ![c] = n]
           /\ u.lastCil = last /\ u.sn = t.sn /\ u.group = t.group
           /\ u.mode = t.mode /\ u.cur = t.cur /\ u.need = need
           /\ u.refill = refill /\ u.refunds = t.refunds
<1> DEFINE rem == [t.rem EXCEPT ![c] = n]
<1>1. rem \in [Credits -> Nat]
  BY TxnFields
<1>2. u = [t EXCEPT !.rem = rem, !.need = need, !.refill = refill,
                    !.cils = L, !.lastCil = last]
  BY DEF Txn, SetCredit
<1> HIDE DEF rem
<1>3. u \in Txn
  BY <1>1, <1>2 DEF Txn
<1>4. /\ u.inv = t.inv /\ u.due = t.due /\ u.cils = L
      /\ u.todo = t.todo /\ u.rem = rem
      /\ u.lastCil = last /\ u.sn = t.sn /\ u.group = t.group
      /\ u.mode = t.mode /\ u.cur = t.cur /\ u.need = need
      /\ u.refill = refill /\ u.refunds = t.refunds
  BY <1>2 DEF Txn
<1> QED
  BY <1>3, <1>4 DEF rem

LEMMA SetCreditGood ==
    ASSUME IInv, GoodTxn(txn), NEW c \in Credits, c <= deposits,
           NEW n \in Nat, n <= Amount[c], NEW need \in Nat,
           NEW refill \in Nat, NEW L \in SUBSET Cil, OnDeposits(L),
           NEW last \in Nat, NEW u,
           u = SetCredit(txn, c, n, need, refill, L, last)
    PROVE  GoodTxn(u)
<1>1. txn \in Txn /\ txn.rem \in [Credits -> Nat] /\ Bounded(txn.rem)
  BY TxnFields DEF GoodTxn
<1>2. /\ u \in Txn
      /\ u.inv = txn.inv /\ u.due = txn.due /\ u.cils = L
      /\ u.todo = txn.todo
      /\ u.rem = [txn.rem EXCEPT ![c] = n]
  BY <1>1, SetCreditType
<1>3. Bounded(u.rem)
  BY <1>1, <1>2, BoundedUpdate
<1> QED
  BY <1>2, <1>3 DEF GoodTxn

\* Taking from a credit: the oldest that holds something, hence one that has
\* been deposited.
PaidBy(c, x, L, last) ==
    \/ txn.cur = NoInvoice /\ L = txn.cils /\ last = txn.lastCil
    \/ /\ txn.cur # NoInvoice /\ last = txn.lastCil + 1
       /\ \E link \in Cil :
            /\ link.id = last /\ link.invoice = txn.cur
            /\ link.credit = c /\ link.amount = x /\ link.group = txn.group
            /\ link.receipt = NoReceipt /\ link.status = "PENDING"
            /\ L = txn.cils \cup {link}

Takes(c, x, L, last) ==
    /\ c \in CreditsOf(txn.sn) /\ c <= deposits
    /\ txn.rem[c] > 0 /\ x = Lesser(txn.rem[c], txn.need)
    /\ x \in Nat /\ x <= txn.rem[c] /\ x <= txn.need
    /\ PaidBy(c, x, L, last)
    /\ txn' = SetCredit(txn, c, txn.rem[c] - x, txn.need - x, txn.refill,
                        L, last)

LEMMA TakeCreditSteps ==
    ASSUME IInv, txn.open, TakeCredit
    PROVE  /\ txn.todo = {} /\ txn.need > 0 /\ UNCHANGED tables
           /\ \/ /\ Balance(txn.rem, txn.sn) < txn.need
                 /\ txn' = [txn EXCEPT !.need = 0]
              \/ /\ Balance(txn.rem, txn.sn) >= txn.need
                 /\ \E c, x, L, last : Takes(c, x, L, last)
<1>1. /\ txn \in Txn /\ txn.todo = {} /\ txn.need > 0
      /\ UNCHANGED tables
  BY OpenIsGood DEF GoodTxn, TakeCredit
<1>2. CASE Balance(txn.rem, txn.sn) < txn.need
  <2>1. txn' = [txn EXCEPT !.need = 0]
    BY <1>2 DEF TakeCredit
  <2> QED
    BY <1>1, <1>2, <2>1
<1>3. CASE ~ (Balance(txn.rem, txn.sn) < txn.need)
  <2>1. PICK c \in Credits :
          /\ Oldest(c, {d \in CreditsOf(txn.sn) : txn.rem[d] > 0})
          /\ LET x == Lesser(txn.rem[c], txn.need)
                 link == [id |-> txn.lastCil + 1, invoice |-> txn.cur,
                          credit |-> c, amount |-> x, group |-> txn.group,
                          receipt |-> NoReceipt, status |-> "PENDING"]
                 taken == [txn EXCEPT !.rem[c] = @ - x, !.need = @ - x]
             IN  txn' = IF txn.cur = NoInvoice THEN taken
                        ELSE [taken EXCEPT !.lastCil = @ + 1,
                                           !.cils = @ \cup {link}]
    BY <1>3 DEF TakeCredit
  <2> DEFINE x == Lesser(txn.rem[c], txn.need)
             link == [id |-> txn.lastCil + 1, invoice |-> txn.cur,
                      credit |-> c, amount |-> x, group |-> txn.group,
                      receipt |-> NoReceipt, status |-> "PENDING"]
  <2>2. /\ txn.rem \in [Credits -> Nat] /\ txn.need \in Nat
        /\ txn.lastCil \in Nat /\ txn.group \in Nat
        /\ txn.cur \in Invoices \cup {NoInvoice}
        /\ Bounded(txn.rem)
    BY <1>1, TxnFields, OpenIsGood DEF GoodTxn
  <2>3. c \in CreditsOf(txn.sn) /\ txn.rem[c] > 0 /\ txn.rem[c] \in Nat
    BY <2>1, <2>2 DEF Oldest
  <2>4. c <= deposits
    BY <2>2, <2>3 DEF Bounded, IInv, TypeOK, Credits
  <2>5. x \in Nat /\ x <= txn.rem[c] /\ x <= txn.need
    BY <2>2, <2>3, LesserType
  <2>6. Balance(txn.rem, txn.sn) >= txn.need
    <3>1. Balance(txn.rem, txn.sn) \in Int
      BY <2>2, BalanceType
    <3> QED
      BY <1>3, <2>2, <3>1
  <2>7. CASE txn.cur = NoInvoice
    <3>1. txn' = [txn EXCEPT !.rem[c] = @ - x, !.need = @ - x]
      BY <2>1, <2>7
    <3> HIDE DEF x
    <3>2. txn' = SetCredit(txn, c, txn.rem[c] - x, txn.need - x, txn.refill,
                           txn.cils, txn.lastCil)
      BY <1>1, <3>1 DEF SetCredit, Txn
    <3>3. PaidBy(c, x, txn.cils, txn.lastCil)
      BY <2>7 DEF PaidBy
    <3>4. Takes(c, x, txn.cils, txn.lastCil)
      BY <2>3, <2>4, <2>5, <3>2, <3>3 DEF Takes, x
    <3> QED
      BY <1>1, <2>6, <3>4
  <2>8. CASE txn.cur # NoInvoice
    <3>1. txn' = [txn EXCEPT !.rem[c] = @ - x, !.need = @ - x,
                             !.lastCil = @ + 1, !.cils = @ \cup {link}]
      BY <2>1, <2>8
    <3> HIDE DEF x
    <3>2. /\ link \in Cil /\ link.id = txn.lastCil + 1
          /\ link.invoice = txn.cur /\ link.credit = c /\ link.amount = x
          /\ link.group = txn.group /\ link.receipt = NoReceipt
          /\ link.status = "PENDING"
      BY <2>2, <2>5, <2>8 DEF Cil, CilStatus, NoReceipt
    <3> HIDE DEF link
    <3>3. txn' = SetCredit(txn, c, txn.rem[c] - x, txn.need - x, txn.refill,
                           txn.cils \cup {link}, txn.lastCil + 1)
      BY <1>1, <3>1 DEF SetCredit, Txn
    <3>4. PaidBy(c, x, txn.cils \cup {link}, txn.lastCil + 1)
      BY <2>8, <3>2 DEF PaidBy
    <3>5. Takes(c, x, txn.cils \cup {link}, txn.lastCil + 1)
      BY <2>3, <2>4, <2>5, <3>3, <3>4 DEF Takes, x
    <3> QED
      BY <1>1, <2>6, <3>5
  <2> QED
    BY <2>7, <2>8
<1> QED
  BY <1>2, <1>3

LEMMA TakeCreditGood ==
    ASSUME IInv, txn.open, TakeCredit, UNCHANGED jobVars
    PROVE  IInv'
<1>1. GoodTxn(txn) /\ txn \in Txn /\ UNCHANGED tables
  BY OpenIsGood, TakeCreditSteps DEF GoodTxn
<1>2. CASE txn' = [txn EXCEPT !.need = 0]
  <2> DEFINE t == [txn EXCEPT !.need = 0]
  <2>1. t \in Txn
    BY <1>1 DEF Txn
  <2>2. /\ t.inv = txn.inv /\ t.due = txn.due /\ t.cils = txn.cils
        /\ t.todo = txn.todo /\ t.rem = txn.rem
    BY <1>1 DEF Txn
  <2> HIDE DEF t
  <2>3. GoodTxn(t)
    BY <1>1, <2>1, <2>2 DEF GoodTxn
  <2> QED
    BY <1>1, <1>2, <2>3, StepGood DEF t
<1>3. CASE txn' # [txn EXCEPT !.need = 0]
  <2>1. PICK c, x, L, last : Takes(c, x, L, last)
    BY <1>3, TakeCreditSteps
  <2> DEFINE t == txn'
  <2> DEFINE n == txn.rem[c] - x
             need == txn.need - x
  <2>2. /\ txn.rem \in [Credits -> Nat] /\ txn.need \in Nat
        /\ txn.cils \in SUBSET Cil /\ OnDeposits(txn.cils)
        /\ txn.lastCil \in Nat /\ txn.refill \in Nat /\ Bounded(txn.rem)
    BY <1>1, TxnFields DEF GoodTxn
  <2>3. /\ c \in Credits /\ txn.rem[c] \in Nat /\ Amount[c] \in Nat
        /\ txn.rem[c] <= Amount[c]
    BY <2>1, <2>2, EFTConstants DEF Takes, CreditsOf, Bounded
  <2>4. n \in Nat /\ n <= Amount[c] /\ need \in Nat
    BY <2>1, <2>2, <2>3 DEF Takes
  <2>5. L \in SUBSET Cil /\ OnDeposits(L) /\ last \in Nat
    BY <2>1, <2>2 DEF OnDeposits, Takes, PaidBy
  <2>6. t = SetCredit(txn, c, n, need, txn.refill, L, last) /\ c <= deposits
    BY <2>1 DEF Takes
  <2> HIDE DEF n, need, t
  <2>7. GoodTxn(t)
    BY <1>1, <2>2, <2>3, <2>4, <2>5, <2>6, SetCreditGood
  <2> QED
    BY <1>1, <2>7, StepGood DEF t
<1> QED
  BY <1>2, <1>3

\* Putting a declined refund back: no credit is filled above its amount.
LEMMA RefillCreditSteps ==
    ASSUME IInv, txn.open, RefillCredit
    PROVE  \/ Rollback
           \/ /\ txn.refill > 0 /\ UNCHANGED tables
              /\ \E t, c, x :
                   /\ c \in CreditsOf(txn.sn) /\ c <= deposits
                   /\ x \in Nat /\ x <= txn.refill
                   /\ txn.rem[c] + x <= Amount[c]
                   /\ t = SetCredit(txn, c, txn.rem[c] + x, txn.need,
                                    txn.refill - x, txn.cils, txn.lastCil)
                   /\ txn' = t
<1>1. txn \in Txn
  BY OpenIsGood DEF GoodTxn
<1>2. CASE Spent(txn.sn) = {}
  BY <1>2 DEF RefillCredit
<1>3. CASE Spent(txn.sn) # {}
  <2>1. PICK c \in Credits :
          /\ Oldest(c, Spent(txn.sn))
          /\ LET x == Lesser(txn.refill, Amount[c] - txn.rem[c])
             IN  txn' = [txn EXCEPT !.rem[c] = @ + x, !.refill = @ - x]
          /\ UNCHANGED tables
    BY <1>3 DEF RefillCredit
  <2> DEFINE x == Lesser(txn.refill, Amount[c] - txn.rem[c])
  <2>2. txn.rem \in [Credits -> Nat] /\ txn.refill \in Nat
    BY <1>1, TxnFields
  <2>3. txn.rem[c] \in Nat /\ Amount[c] \in Nat
    BY <2>2, EFTConstants
  <2>4. c \in CreditsOf(txn.sn) /\ c <= deposits /\ txn.rem[c] < Amount[c]
    BY <2>1 DEF Oldest, Spent
  <2>5. Amount[c] - txn.rem[c] \in Nat
    BY <2>3, <2>4
  <2>6. x \in Nat /\ x <= Amount[c] - txn.rem[c] /\ x <= txn.refill
    BY <2>2, <2>5, LesserType
  <2> HIDE DEF x
  <2>7. txn.rem[c] + x <= Amount[c]
    BY <2>3, <2>6
  <2>8. txn' = [txn EXCEPT !.rem[c] = @ + x, !.refill = @ - x]
    BY <2>1 DEF x
  <2>9. txn' = SetCredit(txn, c, txn.rem[c] + x, txn.need, txn.refill - x,
                         txn.cils, txn.lastCil)
    BY <1>1, <2>8 DEF SetCredit, Txn
  <2>10. txn.refill > 0
    BY DEF RefillCredit
  <2> QED
    BY <2>1, <2>4, <2>6, <2>7, <2>9, <2>10
<1> QED
  BY <1>2, <1>3

LEMMA RefillCreditGood ==
    ASSUME IInv, txn.open, RefillCredit, UNCHANGED jobVars
    PROVE  IInv'
<1>1. GoodTxn(txn) /\ txn \in Txn
  BY OpenIsGood DEF GoodTxn
<1>2. CASE Rollback
  BY <1>2, StepGood DEF Rollback
<1>3. CASE ~ Rollback
  <2>1. PICK t, c, x :
          /\ c \in CreditsOf(txn.sn) /\ c <= deposits
          /\ x \in Nat /\ x <= txn.refill /\ txn.rem[c] + x <= Amount[c]
          /\ t = SetCredit(txn, c, txn.rem[c] + x, txn.need, txn.refill - x,
                           txn.cils, txn.lastCil)
          /\ txn' = t /\ UNCHANGED tables
    BY <1>3, RefillCreditSteps
  <2> DEFINE n == txn.rem[c] + x
             refill == txn.refill - x
  <2>2. /\ txn.rem \in [Credits -> Nat] /\ txn.refill \in Nat
        /\ txn.cils \in SUBSET Cil /\ OnDeposits(txn.cils)
        /\ txn.lastCil \in Nat /\ txn.need \in Nat
    BY <1>1, TxnFields DEF GoodTxn
  <2>3. c \in Credits /\ txn.rem[c] \in Nat
    BY <2>1, <2>2 DEF CreditsOf
  <2>4. n \in Nat /\ refill \in Nat
    BY <2>1, <2>2, <2>3
  <2>5. /\ t = SetCredit(txn, c, n, txn.need, refill, txn.cils, txn.lastCil)
        /\ n <= Amount[c]
    BY <2>1
  <2> HIDE DEF n, refill
  <2>6. GoodTxn(t)
    BY <1>1, <2>1, <2>2, <2>3, <2>4, <2>5, SetCreditGood
  <2> QED
    BY <2>1, <2>6, StepGood
<1> QED
  BY <1>2, <1>3

\* The copies of a good transaction are good tables.
LEMMA CommitGood ==
    ASSUME IInv, Commit, UNCHANGED jobVars
    PROVE  IInv'
<1>1. GoodTxn(txn) /\ txn \in Txn
  BY OpenIsGood DEF GoodTxn, Commit, Finished
<1>2. TypeOK'
  BY <1>1, TxnFields DEF IInv, TypeOK, Commit, jobVars
<1> QED
  BY <1>1, <1>2 DEF IInv, GoodTxn, Commit, jobVars, Bounded, OnDeposits

LEMMA TxnStepGood ==
    ASSUME IInv, TxnStep, UNCHANGED jobVars
    PROVE  IInv'
BY ReturnCreditGood, NextInvoiceGood, TakeCreditGood, RefillCreditGood,
   CommitGood DEF TxnStep

-----------------------------------------------------------------------------
(* The requests.                                                           *)

\* A transaction with all that a request may put into a new one.
Started(n, act, todo, mode, due, need, refill, rows, refs) ==
    [n EXCEPT !.active = act, !.todo = todo, !.mode = mode, !.due = due,
              !.need = need, !.refill = refill, !.inv = rows,
              !.refunds = refs]

LEMMA StartedGood ==
    ASSUME IInv, NEW sn \in ShortNames,
           NEW act \in SUBSET (ShortNames \X Accounts),
           NEW todo \in SUBSET cils, NEW mode \in ReturnMode,
           NEW due \in SUBSET Invoices, \A i \in due : inv[i].paid = {},
           NEW need \in Nat, NEW refill \in Nat,
           NEW rows \in [Invoices -> Invoice],
           \A i \in Invoices : Unfunded(rows[i]),
           NEW refs \in [Refunds -> EftRefund],
           NEW t, t = Started(NewTxn(sn), act, todo, mode, due, need, refill,
                              rows, refs)
    PROVE  GoodTxn(t)
<1>1. /\ cils \in SUBSET Cil /\ OnDeposits(cils)
      /\ Bounded(remaining)
  BY DEF IInv, TypeOK
<1>2. todo \in SUBSET Cil /\ OnDeposits(todo)
  BY <1>1 DEF OnDeposits
<1>3. PICK n \in Txn : n = NewTxn(sn)
  BY NewTxnGood DEF GoodTxn
<1>4. n.rem = remaining /\ n.cils = cils
  BY <1>3 DEF NewTxn
<1>5. t \in Txn
  BY <1>2, <1>3 DEF Txn, Started
<1>6. /\ t.inv = rows /\ t.due = due /\ t.rem = n.rem
      /\ t.cils = n.cils /\ t.todo = todo
  BY <1>3 DEF Txn, Started
<1> QED
  BY <1>1, <1>2, <1>4, <1>5, <1>6 DEF GoodTxn

\* What a request finds in the tables.
LEMMA TablesType ==
    ASSUME IInv
    PROVE  /\ inv \in [Invoices -> Invoice]
           /\ \A i \in Invoices : Unfunded(inv[i])
           /\ refunds \in [Refunds -> EftRefund]
           /\ active \in SUBSET (ShortNames \X Accounts)
           /\ cils \in SUBSET Cil /\ 0 \in Nat /\ "CANCEL" \in ReturnMode
           /\ {} \in SUBSET cils /\ {} \in SUBSET Invoices
BY DEF IInv, TypeOK, ReturnMode

\* What an account owes are unpaid invoices.
LEMMA OwingGood ==
    ASSUME IInv, NEW a, NEW S
    PROVE  /\ Owing(a, S) \in SUBSET Invoices
           /\ \A i \in Owing(a, S) : inv[i].paid = {}
BY DEF IInv, Unfunded, Owing, Unpaid

\* A new transaction in terms of the tables.
LEMMA NewTxnFields ==
    ASSUME IInv, NEW sn \in ShortNames
    PROVE  LET n == NewTxn(sn)
           IN  /\ n \in Txn /\ n.active = active /\ n.todo = {}
               /\ n.mode = "CANCEL" /\ n.due = {} /\ n.need = 0
               /\ n.refill = 0 /\ n.inv = inv /\ n.refunds = refunds
<1>1. NewTxn(sn) \in Txn
  BY NewTxnGood DEF GoodTxn
<1> QED
  BY <1>1 DEF NewTxn

\* A payment action for what the account owes.
LEMMA ApplyPaymentStarts ==
    ASSUME IInv, NEW sn \in ShortNames, NEW a \in Accounts, NEW S,
           ApplyPayment(sn, a, S)
    PROVE  \E t : /\ t = Started(NewTxn(sn), active, {}, "CANCEL",
                                 Owing(a, S), 0, 0, inv, refunds)
                  /\ BeginGroup(t)
<1> DEFINE owing == Owing(a, S)
           n == NewTxn(sn)
           t == Started(n, active, {}, "CANCEL", owing, 0, 0, inv, refunds)
<1>1. BeginGroup([n EXCEPT !.due = owing])
  BY DEF ApplyPayment
<1>2. /\ n \in Txn /\ n.active = active /\ n.todo = {}
      /\ n.mode = "CANCEL" /\ n.due = {} /\ n.need = 0
      /\ n.refill = 0 /\ n.inv = inv /\ n.refunds = refunds
  BY NewTxnFields
<1> HIDE DEF owing, n
<1>3. [n EXCEPT !.due = owing] = t
  BY <1>2 DEF Started, Txn
<1> QED
  BY <1>1, <1>3 DEF n, owing

LEMMA ApplyPaymentGood ==
    ASSUME IInv, NEW sn \in ShortNames, NEW a \in Accounts, NEW S,
           ApplyPayment(sn, a, S), UNCHANGED jobVars
    PROVE  IInv'
<1>1. PICK t : /\ t = Started(NewTxn(sn), active, {}, "CANCEL",
                              Owing(a, S), 0, 0, inv, refunds)
               /\ BeginGroup(t)
  BY ApplyPaymentStarts
<1>2. GoodTxn(t)
  BY <1>1, OwingGood, TablesType, StartedGood
<1> QED
  BY <1>1, <1>2, BeginGood

\* A new link pays all that the account owes, or nothing.
LEMMA CreateShortNameLinkStarts ==
    ASSUME IInv, NEW sn \in ShortNames, NEW a \in Accounts,
           CreateShortNameLink(sn, a)
    PROVE  \E t, due :
             /\ t = Started(NewTxn(sn), active \cup {<<sn, a>>}, {}, "CANCEL",
                            due, 0, 0, inv, refunds)
             /\ \/ due = {} /\ Begin(t)
                \/ due = Owing(a, Statements) /\ BeginGroup(t)
<1> DEFINE act == active \cup {<<sn, a>>}
           owing == Owing(a, Statements)
           n == NewTxn(sn)
           linked == [n EXCEPT !.active = act]
           t == Started(n, act, {}, "CANCEL", {}, 0, 0, inv, refunds)
           u == Started(n, act, {}, "CANCEL", owing, 0, 0, inv, refunds)
<1>1. /\ n \in Txn /\ n.active = active /\ n.todo = {}
      /\ n.mode = "CANCEL" /\ n.due = {} /\ n.need = 0
      /\ n.refill = 0 /\ n.inv = inv /\ n.refunds = refunds
  BY NewTxnFields
<1>2. Begin(linked) \/ BeginGroup([linked EXCEPT !.due = owing])
  BY <1>1 DEF CreateShortNameLink
<1> HIDE DEF owing, n, act
<1>3. linked = t /\ [linked EXCEPT !.due = owing] = u
  BY <1>1 DEF Started, Txn
<1>4. Begin(t) \/ BeginGroup(u)
  <2> HIDE DEF linked, t, u
  <2> QED
    BY <1>2, <1>3
<1>5. CASE Begin(t)
  BY <1>5 DEF n, act
<1>6. CASE BeginGroup(u)
  BY <1>6 DEF n, act, owing
<1> QED
  BY <1>4, <1>5, <1>6

LEMMA CreateShortNameLinkGood ==
    ASSUME IInv, NEW sn \in ShortNames, NEW a \in Accounts,
           CreateShortNameLink(sn, a), UNCHANGED jobVars
    PROVE  IInv'
<1>1. PICK t, due :
        /\ t = Started(NewTxn(sn), active \cup {<<sn, a>>}, {}, "CANCEL",
                       due, 0, 0, inv, refunds)
        /\ \/ due = {} /\ Begin(t)
           \/ due = Owing(a, Statements) /\ BeginGroup(t)
  BY CreateShortNameLinkStarts
<1>2. due \in SUBSET Invoices /\ \A i \in due : inv[i].paid = {}
  BY <1>1, OwingGood
<1>3. active \cup {<<sn, a>>} \in SUBSET (ShortNames \X Accounts)
  BY TablesType
<1>4. GoodTxn(t)
  BY <1>1, <1>2, <1>3, TablesType, StartedGood
<1> QED
  BY <1>1, <1>4, BeginGood

\* The links that a cancellation undoes.
PendingOf(sn, a, S) ==
    {l \in cils : /\ l.status = "PENDING"
                  /\ DepositedBy[l.credit] = sn
                  /\ AccountOf[l.invoice] = a
                  /\ StatementOf[l.invoice] \in S \cap statements}

LEMMA CancelPaymentStarts ==
    ASSUME IInv, NEW sn \in ShortNames, NEW a \in Accounts, NEW S,
           CancelPayment(sn, a, S)
    PROVE  \E t : /\ t = Started(NewTxn(sn), active, PendingOf(sn, a, S),
                                 "CANCEL", {}, 0, 0, inv, refunds)
                  /\ Begin(t)
<1> DEFINE n == NewTxn(sn)
           links == PendingOf(sn, a, S)
           t == Started(n, active, links, "CANCEL", {}, 0, 0, inv, refunds)
<1>1. Begin([n EXCEPT !.todo = links])
  BY DEF CancelPayment, PendingOf
<1>2. /\ n \in Txn /\ n.active = active /\ n.todo = {}
      /\ n.mode = "CANCEL" /\ n.due = {} /\ n.need = 0
      /\ n.refill = 0 /\ n.inv = inv /\ n.refunds = refunds
  BY NewTxnFields
<1> HIDE DEF n, links
<1>3. [n EXCEPT !.todo = links] = t
  BY <1>2 DEF Started, Txn
<1> QED
  BY <1>1, <1>3 DEF n, links

LEMMA CancelPaymentGood ==
    ASSUME IInv, NEW sn \in ShortNames, NEW a \in Accounts, NEW S,
           CancelPayment(sn, a, S), UNCHANGED jobVars
    PROVE  IInv'
<1>1. PICK t : /\ t = Started(NewTxn(sn), active, PendingOf(sn, a, S),
                              "CANCEL", {}, 0, 0, inv, refunds)
               /\ Begin(t)
  BY CancelPaymentStarts
<1>2. PendingOf(sn, a, S) \in SUBSET cils
  BY DEF PendingOf
<1>3. GoodTxn(t)
  BY <1>1, <1>2, TablesType, StartedGood
<1> QED
  BY <1>1, <1>3, BeginGood

\* A reversal returns completed links of the latest group of each invoice.
LEMMA ReversePaymentStarts ==
    ASSUME IInv, NEW sn \in ShortNames, NEW s \in Statements,
           ReversePayment(sn, s)
    PROVE  \E t, links :
             /\ links \in SUBSET ReversibleLinks(sn, s)
             /\ \A l \in links : l.status = "COMPLETED"
             /\ t = Started(NewTxn(sn), active, links, "PENDING_REFUND",
                            {}, 0, 0, inv, refunds)
             /\ BeginGroup(t)
<1> DEFINE n == NewTxn(sn)
<1>1. PICK links \in SUBSET ReversibleLinks(sn, s) :
        /\ \A l \in links : l.status = "COMPLETED"
        /\ BeginGroup([n EXCEPT !.todo = links, !.mode = "PENDING_REFUND"])
  BY DEF ReversePayment
<1> DEFINE t == Started(n, active, links, "PENDING_REFUND", {}, 0, 0, inv,
                        refunds)
<1>2. /\ n \in Txn /\ n.active = active /\ n.todo = {}
      /\ n.mode = "CANCEL" /\ n.due = {} /\ n.need = 0
      /\ n.refill = 0 /\ n.inv = inv /\ n.refunds = refunds
  BY NewTxnFields
<1> HIDE DEF n
<1>3. [n EXCEPT !.todo = links, !.mode = "PENDING_REFUND"] = t
  BY <1>2 DEF Started, Txn
<1> QED
  BY <1>1, <1>3 DEF n

LEMMA ReversePaymentGood ==
    ASSUME IInv, NEW sn \in ShortNames, NEW s \in Statements,
           ReversePayment(sn, s), UNCHANGED jobVars
    PROVE  IInv'
<1>1. PICK t, links :
        /\ links \in SUBSET ReversibleLinks(sn, s)
        /\ t = Started(NewTxn(sn), active, links, "PENDING_REFUND",
                       {}, 0, 0, inv, refunds)
        /\ BeginGroup(t)
  BY ReversePaymentStarts
<1>2. links \in SUBSET cils /\ "PENDING_REFUND" \in ReturnMode
  BY <1>1 DEF ReversibleLinks, ReturnMode
<1>3. GoodTxn(t)
  BY <1>1, <1>2, TablesType, StartedGood
<1> QED
  BY <1>1, <1>3, BeginGood

\* The short name of a link's credit.
LEMMA DepositorType ==
    ASSUME IInv, NEW l \in cils
    PROVE  DepositedBy[l.credit] \in ShortNames
BY EFTConstants, CilFields DEF IInv, TypeOK

\* An invoice that a refund has taken over.
LEMMA RefundRow ==
    ASSUME IInv, NEW i \in Invoices, NEW row \in Invoice, Unfunded(row)
    PROVE  /\ [inv EXCEPT ![i] = row] \in [Invoices -> Invoice]
           /\ \A j \in Invoices : Unfunded([inv EXCEPT ![i] = row][j])
BY DEF IInv, TypeOK

\* The links of an invoice with the group of one of them.
GroupOf(i, latest) == {l \in LinksOf(i) : l.group = latest.group}

\* The refund of an invoice takes over its latest group, if that is pending or
\* completed.
LEMMA RefundLinkedInvoiceStarts ==
    ASSUME IInv, NEW i \in Invoices, RefundLinkedInvoice(i)
    PROVE  \E t, latest, links, mode, rows :
             /\ latest \in LinksOf(i)
             /\ IsLatest(latest)
             /\ \/ /\ latest.status = "PENDING" /\ mode = "REGROUP"
                   /\ links = GroupOf(i, latest)
                \/ /\ latest.status = "COMPLETED" /\ mode = "PENDING_REFUND"
                   /\ links = GroupOf(i, latest)
                \/ mode = "PENDING_REFUND" /\ links = {}
             /\ rows \in [Invoices -> Invoice]
             /\ \A j \in Invoices : Unfunded(rows[j])
             /\ \A j \in Invoices :
                  inv[j].status = "OVERDUE" => rows[j] = inv[j]
             /\ t = Started(NewTxn(DepositedBy[latest.credit]), active, links,
                            mode, {}, 0, 0, rows, refunds)
             /\ BeginGroup(t)
<1> DEFINE row == [inv[i] EXCEPT !.requested = TRUE, !.refund = Total[i],
                                 !.status = "REFUND_REQUESTED"]
           rows == [inv EXCEPT ![i] = row]
<1>1. PICK latest \in LinksOf(i) :
        /\ IsLatest(latest)
        /\ BeginGroup([NewTxn(DepositedBy[latest.credit]) EXCEPT
              !.inv[i].requested = TRUE,
              !.inv[i].refund = Total[i],
              !.inv[i].status = "REFUND_REQUESTED",
              !.mode = IF latest.status = "PENDING" THEN "REGROUP"
                       ELSE "PENDING_REFUND",
              !.todo = IF latest.status \in {"PENDING", "COMPLETED"}
                       THEN GroupOf(i, latest) ELSE {}])
  BY DEF RefundLinkedInvoice, GroupOf
<1> DEFINE mode == IF latest.status = "PENDING" THEN "REGROUP"
                   ELSE "PENDING_REFUND"
           links == IF latest.status \in {"PENDING", "COMPLETED"}
                    THEN GroupOf(i, latest) ELSE {}
           sn == DepositedBy[latest.credit]
           n == NewTxn(sn)
           t == Started(n, active, links, mode, {}, 0, 0, rows, refunds)
<1>2. sn \in ShortNames
  BY DepositorType DEF LinksOf
<1>3. /\ n \in Txn /\ n.active = active /\ n.todo = {}
      /\ n.mode = "CANCEL" /\ n.due = {} /\ n.need = 0
      /\ n.refill = 0 /\ n.inv = inv /\ n.refunds = refunds
  BY <1>2, NewTxnFields
<1>4. inv[i] \in Invoice /\ Total[i] \in Nat
  BY TablesType, EFTConstants
<1>5. row \in Invoice /\ Unfunded(row)
  BY <1>4 DEF Invoice, InvoiceStatus, Unfunded
<1>6. BeginGroup([n EXCEPT !.inv[i].requested = TRUE,
                           !.inv[i].refund = Total[i],
                           !.inv[i].status = "REFUND_REQUESTED",
                           !.mode = mode, !.todo = links])
  BY <1>1
<1>7. \/ /\ latest.status = "PENDING" /\ mode = "REGROUP"
         /\ links = GroupOf(i, latest)
      \/ /\ latest.status = "COMPLETED" /\ mode = "PENDING_REFUND"
         /\ links = GroupOf(i, latest)
      \/ mode = "PENDING_REFUND" /\ links = {}
  OBVIOUS
<1> HIDE DEF sn, n, mode, links
<1>8. [n EXCEPT !.inv[i].requested = TRUE,
                !.inv[i].refund = Total[i],
                !.inv[i].status = "REFUND_REQUESTED",
                !.mode = mode, !.todo = links] = t
  <2>1. inv \in [Invoices -> Invoice]
    BY TablesType
  <2>2. [inv EXCEPT ![i].requested = TRUE, ![i].refund = Total[i],
                    ![i].status = "REFUND_REQUESTED"] = rows
    BY <1>4, <2>1 DEF Invoice
  <2> HIDE DEF rows
  <2> QED
    BY <1>3, <2>2 DEF Started, Txn
<1> HIDE DEF row
<1>9. rows \in [Invoices -> Invoice] /\ \A j \in Invoices : Unfunded(rows[j])
  BY <1>5, RefundRow
<1>13. ASSUME NEW j \in Invoices, inv[j].status = "OVERDUE"
       PROVE  rows[j] = inv[j]
  BY <1>13, TablesType DEF RefundLinkedInvoice, Refundable
<1> HIDE DEF rows
<1>10. PICK v : v = t
  OBVIOUS
<1>11. BeginGroup(v)
  <2> HIDE DEF t
  <2> QED
    BY <1>6, <1>8, <1>10
<1>12. v = Started(NewTxn(DepositedBy[latest.credit]), active, links, mode,
                   {}, 0, 0, rows, refunds)
  BY <1>10 DEF n, sn
<1>14. /\ latest \in LinksOf(i)
       /\ IsLatest(latest)
       /\ \/ /\ latest.status = "PENDING" /\ mode = "REGROUP"
             /\ links = GroupOf(i, latest)
          \/ /\ latest.status = "COMPLETED" /\ mode = "PENDING_REFUND"
             /\ links = GroupOf(i, latest)
          \/ mode = "PENDING_REFUND" /\ links = {}
       /\ rows \in [Invoices -> Invoice]
       /\ \A j \in Invoices : Unfunded(rows[j])
       /\ \A j \in Invoices : inv[j].status = "OVERDUE" => rows[j] = inv[j]
       /\ v = Started(NewTxn(DepositedBy[latest.credit]), active, links, mode,
                      {}, 0, 0, rows, refunds)
       /\ BeginGroup(v)
  BY <1>1, <1>7, <1>9, <1>11, <1>12, <1>13
<1> WITNESS v, latest, links, mode, rows
<1> QED
  BY <1>14

LEMMA RefundLinkedInvoiceGood ==
    ASSUME IInv, NEW i \in Invoices, RefundLinkedInvoice(i),
           UNCHANGED jobVars
    PROVE  IInv'
<1>1. PICK t, latest, links, mode, rows :
        /\ latest \in LinksOf(i)
        /\ IsLatest(latest)
        /\ \/ /\ latest.status = "PENDING" /\ mode = "REGROUP"
              /\ links = GroupOf(i, latest)
           \/ /\ latest.status = "COMPLETED" /\ mode = "PENDING_REFUND"
              /\ links = GroupOf(i, latest)
           \/ mode = "PENDING_REFUND" /\ links = {}
        /\ rows \in [Invoices -> Invoice]
        /\ \A j \in Invoices : Unfunded(rows[j])
        /\ \A j \in Invoices : inv[j].status = "OVERDUE" => rows[j] = inv[j]
        /\ t = Started(NewTxn(DepositedBy[latest.credit]), active, links,
                       mode, {}, 0, 0, rows, refunds)
        /\ BeginGroup(t)
  BY RefundLinkedInvoiceStarts
<1>2. /\ links \in SUBSET GroupOf(i, latest)
      /\ mode \in {"REGROUP", "PENDING_REFUND"}
  BY <1>1
<1>3. /\ links \in SUBSET cils /\ mode \in ReturnMode
      /\ DepositedBy[latest.credit] \in ShortNames
  BY <1>1, <1>2, DepositorType DEF GroupOf, LinksOf, ReturnMode
<1>4. GoodTxn(t)
  BY <1>1, <1>2, <1>3, TablesType, StartedGood
<1> QED
  BY <1>1, <1>2, <1>4, BeginGood

\* A partial refund returns completed links of the latest group.
LEMMA PartialRefundStarts ==
    ASSUME IInv, NEW i \in Invoices, NEW x \in PartialAmounts,
           PartialRefund(i, x)
    PROVE  \E t, latest, rows :
             /\ latest \in LinksOf(i)
             /\ IsLatest(latest)
             /\ \A l \in LinksOf(i) : l.status = "COMPLETED"
             /\ rows \in [Invoices -> Invoice]
             /\ \A j \in Invoices : Unfunded(rows[j])
             /\ \A j \in Invoices :
                  inv[j].status = "OVERDUE" => rows[j] = inv[j]
             /\ t = Started(NewTxn(DepositedBy[latest.credit]), active,
                            GroupOf(i, latest), "REFUNDED", {}, 0, 0, rows,
                            refunds)
             /\ BeginGroup(t)
<1> DEFINE status == IF x = Total[i] THEN "CREDITED" ELSE "PAID"
           row == [inv[i] EXCEPT !.requested = TRUE, !.refund = x,
                                 !.memo = x, !.status = status]
           rows == [inv EXCEPT ![i] = row]
<1>1. PICK latest \in LinksOf(i) :
        /\ IsLatest(latest)
        /\ \A l \in LinksOf(i) : l.status = "COMPLETED"
        /\ BeginGroup([NewTxn(DepositedBy[latest.credit]) EXCEPT
              !.inv[i].requested = TRUE, !.inv[i].refund = x,
              !.inv[i].memo = x, !.inv[i].status = status,
              !.mode = "REFUNDED", !.todo = GroupOf(i, latest)])
  BY DEF PartialRefund, GroupOf
<1> DEFINE sn == DepositedBy[latest.credit]
           links == GroupOf(i, latest)
           n == NewTxn(sn)
           t == Started(n, active, links, "REFUNDED", {}, 0, 0, rows,
                        refunds)
<1>2. sn \in ShortNames
  BY DepositorType DEF LinksOf
<1>3. /\ n \in Txn /\ n.active = active /\ n.todo = {}
      /\ n.mode = "CANCEL" /\ n.due = {} /\ n.need = 0
      /\ n.refill = 0 /\ n.inv = inv /\ n.refunds = refunds
  BY <1>2, NewTxnFields
<1>4. inv[i] \in Invoice /\ x \in Nat
  BY TablesType, EFTConstants
<1>5. row \in Invoice /\ Unfunded(row)
  BY <1>4 DEF Invoice, InvoiceStatus, Unfunded
<1> HIDE DEF sn, links
<1>6. [n EXCEPT !.inv[i].requested = TRUE, !.inv[i].refund = x,
                !.inv[i].memo = x, !.inv[i].status = status,
                !.mode = "REFUNDED", !.todo = links] = t
  <2>1. inv \in [Invoices -> Invoice]
    BY TablesType
  <2> HIDE DEF n, status
  <2> DEFINE half == [inv EXCEPT ![i].requested = TRUE, ![i].refund = x]
             m == [n EXCEPT !.inv[i].requested = TRUE, !.inv[i].refund = x]
  <2>2. half \in [Invoices -> Invoice]
    BY <1>4, <2>1 DEF Invoice
  <2>3. [half EXCEPT ![i].memo = x, ![i].status = status] = rows
    BY <1>4, <2>1 DEF Invoice
  <2>4. m = [n EXCEPT !.inv = half]
    BY <1>3 DEF Txn
  <2>5. [n EXCEPT !.inv[i].requested = TRUE, !.inv[i].refund = x,
                  !.inv[i].memo = x, !.inv[i].status = status,
                  !.mode = "REFUNDED", !.todo = links]
          = [m EXCEPT !.inv[i].memo = x, !.inv[i].status = status,
                      !.mode = "REFUNDED", !.todo = links]
    OBVIOUS
  <2> HIDE DEF half, m, rows
  <2>6. m \in Txn /\ m.inv = half
    BY <1>3, <2>2, <2>4 DEF Txn
  <2>7. [m EXCEPT !.inv[i].memo = x, !.inv[i].status = status,
                  !.mode = "REFUNDED", !.todo = links]
          = [m EXCEPT !.inv = rows, !.mode = "REFUNDED", !.todo = links]
    BY <2>3, <2>6 DEF Txn
  <2>8. [m EXCEPT !.inv = rows, !.mode = "REFUNDED", !.todo = links] = t
    BY <1>3, <2>4, <2>6 DEF Started, Txn
  <2> QED
    BY <2>5, <2>7, <2>8
<1> HIDE DEF row
<1>7. rows \in [Invoices -> Invoice] /\ \A j \in Invoices : Unfunded(rows[j])
  BY <1>5, RefundRow
<1>11. ASSUME NEW j \in Invoices, inv[j].status = "OVERDUE"
       PROVE  rows[j] = inv[j]
  BY <1>11, TablesType DEF PartialRefund
<1> HIDE DEF rows
<1>8. PICK v : v = t
  OBVIOUS
<1>9. BeginGroup(v)
  BY <1>1, <1>6, <1>8 DEF sn, links
<1>10. v = Started(NewTxn(DepositedBy[latest.credit]), active,
                   GroupOf(i, latest), "REFUNDED", {}, 0, 0, rows, refunds)
  BY <1>8 DEF n, sn, links
<1> QED
  BY <1>1, <1>7, <1>9, <1>10, <1>11

LEMMA PartialRefundGood ==
    ASSUME IInv, NEW i \in Invoices, NEW x \in PartialAmounts,
           PartialRefund(i, x), UNCHANGED jobVars
    PROVE  IInv'
<1>1. PICK t, latest, rows :
        /\ latest \in LinksOf(i)
        /\ rows \in [Invoices -> Invoice]
        /\ \A j \in Invoices : Unfunded(rows[j])
        /\ t = Started(NewTxn(DepositedBy[latest.credit]), active,
                       GroupOf(i, latest), "REFUNDED", {}, 0, 0, rows,
                       refunds)
        /\ BeginGroup(t)
  BY PartialRefundStarts
<1>2. /\ GroupOf(i, latest) \in SUBSET cils /\ "REFUNDED" \in ReturnMode
      /\ DepositedBy[latest.credit] \in ShortNames
  BY <1>1, DepositorType DEF GroupOf, LinksOf, ReturnMode
<1>3. GoodTxn(t)
  BY <1>1, <1>2, TablesType, StartedGood
<1> QED
  BY <1>1, <1>3, BeginGood

\* A refund of a short name is deducted from its credits.
\* The row of a refund that was asked for.
NewRefund(sn, x) == [sn |-> sn, amount |-> x, status |-> "PENDING_APPROVAL"]

LEMMA CreateShortNameRefundStarts ==
    ASSUME IInv, NEW r \in Refunds, NEW sn \in ShortNames,
           NEW x \in RefundAmounts, CreateShortNameRefund(r, sn, x)
    PROVE  /\ NewRefund(sn, x) \in EftRefund
           /\ \E t :
                /\ t = Started(NewTxn(sn), active, {}, "CANCEL", {}, x, 0, inv,
                               [refunds EXCEPT ![r] = NewRefund(sn, x)])
                /\ Begin(t)
<1> DEFINE n == NewTxn(sn)
           row == NewRefund(sn, x)
           refs == [refunds EXCEPT ![r] = row]
           t == Started(n, active, {}, "CANCEL", {}, x, 0, inv, refs)
<1>1. Begin([n EXCEPT !.need = x, !.refunds[r] = row])
  BY DEF CreateShortNameRefund, NewRefund
<1>2. sn \in ShortNames
  OBVIOUS
<1>3. /\ n \in Txn /\ n.active = active /\ n.todo = {}
      /\ n.mode = "CANCEL" /\ n.due = {} /\ n.need = 0
      /\ n.refill = 0 /\ n.inv = inv /\ n.refunds = refunds
  BY <1>2, NewTxnFields
<1>4. x \in Nat
  BY EFTConstants
<1>5. row \in EftRefund
  BY <1>4 DEF NewRefund, EftRefund, RefundStatus
<1> HIDE DEF n, row
<1>6. [n EXCEPT !.need = x, !.refunds[r] = row] = t
  BY <1>3, TablesType DEF Started, Txn
<1> QED
  BY <1>1, <1>5, <1>6 DEF n, row

LEMMA CreateShortNameRefundGood ==
    ASSUME IInv, NEW r \in Refunds, NEW sn \in ShortNames,
           NEW x \in RefundAmounts, CreateShortNameRefund(r, sn, x),
           UNCHANGED jobVars
    PROVE  IInv'
<1> DEFINE row == NewRefund(sn, x)
<1>1. PICK t :
        /\ t = Started(NewTxn(sn), active, {}, "CANCEL", {}, x, 0, inv,
                       [refunds EXCEPT ![r] = row])
        /\ Begin(t)
  BY CreateShortNameRefundStarts
<1>2. x \in Nat /\ [refunds EXCEPT ![r] = row] \in [Refunds -> EftRefund]
  BY CreateShortNameRefundStarts, TablesType, EFTConstants
<1> HIDE DEF row
<1>3. GoodTxn(t)
  BY <1>1, <1>2, TablesType, StartedGood
<1> QED
  BY <1>1, <1>3, BeginGood

\* A declined refund is put back.
LEMMA DeclineShortNameRefundStarts ==
    ASSUME IInv, NEW r \in Refunds, DeclineShortNameRefund(r)
    PROVE  \E t, row :
             /\ row \in EftRefund
             /\ row.sn = refunds[r].sn /\ row.status = "DECLINED"
             /\ t = Started(NewTxn(refunds[r].sn), active, {}, "CANCEL", {}, 0,
                            refunds[r].amount, inv,
                            [refunds EXCEPT ![r] = row])
             /\ Begin(t)
<1> DEFINE sn == refunds[r].sn
           x == refunds[r].amount
           n == NewTxn(sn)
           row == [refunds[r] EXCEPT !.status = "DECLINED"]
           refs == [refunds EXCEPT ![r] = row]
           t == Started(n, active, {}, "CANCEL", {}, 0, x, inv, refs)
<1>1. Begin([n EXCEPT !.refill = x, !.refunds[r].status = "DECLINED"])
  BY DEF DeclineShortNameRefund
<1>2. refunds[r] \in EftRefund /\ sn \in ShortNames
  BY TablesType DEF EftRefund
<1>3. /\ n \in Txn /\ n.active = active /\ n.todo = {}
      /\ n.mode = "CANCEL" /\ n.due = {} /\ n.need = 0
      /\ n.refill = 0 /\ n.inv = inv /\ n.refunds = refunds
  BY <1>2, NewTxnFields
<1>4. row \in EftRefund /\ row.sn = sn /\ row.status = "DECLINED"
  BY <1>2 DEF EftRefund, RefundStatus
<1>5. [n EXCEPT !.refill = x, !.refunds[r].status = "DECLINED"] = t
  <2>1. refunds \in [Refunds -> EftRefund]
    BY TablesType
  <2> HIDE DEF n, x
  <2>2. [refunds EXCEPT ![r].status = "DECLINED"] = refs
    BY <1>2, <2>1 DEF EftRefund
  <2> HIDE DEF refs
  <2> QED
    BY <1>3, <2>2 DEF Started, Txn
<1> HIDE DEF row
<1> QED
  BY <1>1, <1>4, <1>5

LEMMA DeclineShortNameRefundGood ==
    ASSUME IInv, NEW r \in Refunds, DeclineShortNameRefund(r),
           UNCHANGED jobVars
    PROVE  IInv'
<1>1. PICK t, row :
        /\ row \in EftRefund
        /\ t = Started(NewTxn(refunds[r].sn), active, {}, "CANCEL", {}, 0,
                       refunds[r].amount, inv, [refunds EXCEPT ![r] = row])
        /\ Begin(t)
  BY DeclineShortNameRefundStarts
<1>2. /\ refunds[r].sn \in ShortNames /\ refunds[r].amount \in Nat
      /\ [refunds EXCEPT ![r] = row] \in [Refunds -> EftRefund]
  BY <1>1, TablesType DEF EftRefund
<1>3. GoodTxn(t)
  BY <1>1, <1>2, TablesType, StartedGood
<1> QED
  BY <1>1, <1>3, BeginGood

\* The requests of one step find no transaction open.
LEMMA CreateCreditGood ==
    ASSUME IInv, Idle, CreateCredit, UNCHANGED jobVars
    PROVE  IInv'
<1>1. /\ deposits \in Nat /\ deposits < NumCredits /\ NumCredits \in Nat
      /\ deposits + 1 \in Credits /\ Amount \in [Credits -> Nat]
      /\ remaining \in [Credits -> Nat] /\ Bounded(remaining)
  BY EFTConstants DEF IInv, TypeOK, CreateCredit, Credits
<1> DEFINE rem == [remaining EXCEPT ![deposits + 1] = Amount[deposits + 1]]
<1>2. deposits' = deposits + 1 /\ remaining' = rem
  BY DEF CreateCredit
<1>3. remaining' \in [Credits -> Nat] /\ deposits' \in 0..NumCredits
  BY <1>1, <1>2
<1>4. \A c \in Credits : /\ rem[c] <= Amount[c]
                         /\ c > deposits + 1 => rem[c] = 0
  BY <1>1 DEF Bounded, Credits
<1>5. Bounded(remaining)'
  BY <1>2, <1>4 DEF Bounded
<1>6. OnDeposits(cils)'
  <2>1. \A l \in cils : l.credit \in Nat /\ l.credit <= deposits
    BY CilFields DEF IInv, TypeOK, OnDeposits, Credits
  <2>2. cils' = cils
    BY DEF CreateCredit
  <2> QED
    BY <1>1, <1>2, <2>1, <2>2 DEF OnDeposits
<1>7. /\ UNCHANGED <<active, cils, lastGroup, lastCil, inv, ref, statements,
                     locked, refunds, txn, job, cfsTodo, cfs, receipts,
                     brokenOff, pastDue, notified>>
      /\ txn = NoTxn
  BY DEF CreateCredit, jobVars, Idle
<1>8. TypeOK'
  BY <1>3, <1>7 DEF IInv, TypeOK
<1> QED
  BY <1>5, <1>6, <1>7, <1>8 DEF IInv

\* An invoice is given a new row.
LEMMA SetInvoiceGood ==
    ASSUME IInv, Idle, NEW i \in Invoices, NEW row \in Invoice,
           Unfunded(row), SetInvoice(i, row), UNCHANGED jobVars
    PROVE  IInv'
<1>1. inv' \in [Invoices -> Invoice] /\ \A j \in Invoices : Unfunded(inv'[j])
  BY RefundRow DEF SetInvoice
<1>2. TypeOK'
  BY <1>1 DEF IInv, TypeOK, SetInvoice, jobVars
<1> QED
  BY <1>1, <1>2 DEF IInv, SetInvoice, jobVars, Idle, Bounded, OnDeposits

LEMMA RefundUnlinkedInvoiceGood ==
    ASSUME IInv, Idle, NEW i \in Invoices, RefundUnlinkedInvoice(i),
           UNCHANGED jobVars
    PROVE  IInv'
<1> DEFINE row == [inv[i] EXCEPT !.requested = TRUE, !.refund = Total[i],
                                 !.status = UnlinkedStatus(i)]
<1>1. UnlinkedStatus(i) \in {"CANCELLED", "REFUND_REQUESTED"}
  BY DEF UnlinkedStatus
<1>2. inv[i] \in Invoice /\ Total[i] \in Nat
  BY TablesType, EFTConstants
<1>3. row \in Invoice /\ Unfunded(row)
  BY <1>1, <1>2 DEF Invoice, InvoiceStatus, Unfunded
<1>4. SetInvoice(i, row)
  BY DEF RefundUnlinkedInvoice
<1> HIDE DEF row
<1> QED
  BY <1>3, <1>4, SetInvoiceGood

LEMMA CreateInvoiceGood ==
    ASSUME IInv, Idle, NEW i \in Invoices, CreateInvoice(i),
           UNCHANGED jobVars
    PROVE  IInv'
<1> DEFINE row == [inv[i] EXCEPT !.status = "APPROVED"]
<1>1. inv[i] \in Invoice /\ inv[i].paid = {}
  BY TablesType DEF CreateInvoice, Unfunded
<1>2. row \in Invoice /\ Unfunded(row)
  BY <1>1 DEF Invoice, InvoiceStatus, Unfunded
<1>3. SetInvoice(i, row)
  BY DEF CreateInvoice
<1> HIDE DEF row
<1> QED
  BY <1>2, <1>3, SetInvoiceGood

LEMMA OtherRequestGood ==
    ASSUME IInv, Idle, UNCHANGED jobVars,
           \/ \E s \in Statements : GenerateStatement(s)
           \/ \E sn \in ShortNames, a \in Accounts : PatchShortNameLink(sn, a)
           \/ \E r \in Refunds : ApproveShortNameRefund(r)
    PROVE  IInv'
<1>1. CASE \E s \in Statements : GenerateStatement(s)
  <2>1. TypeOK'
    BY <1>1 DEF IInv, TypeOK, GenerateStatement, jobVars
  <2> QED
    BY <1>1, <2>1 DEF IInv, GenerateStatement, jobVars, Idle, Bounded,
       OnDeposits
<1>2. CASE \E sn \in ShortNames, a \in Accounts : PatchShortNameLink(sn, a)
  <2>1. TypeOK'
    BY <1>2 DEF IInv, TypeOK, PatchShortNameLink, jobVars
  <2> QED
    BY <1>2, <2>1 DEF IInv, PatchShortNameLink, jobVars, Idle, Bounded,
       OnDeposits
<1>3. CASE \E r \in Refunds : ApproveShortNameRefund(r)
  <2>1. refunds' \in [Refunds -> EftRefund]
    BY <1>3, TablesType DEF ApproveShortNameRefund, EftRefund, RefundStatus
  <2>2. TypeOK'
    BY <1>3, <2>1 DEF IInv, TypeOK, ApproveShortNameRefund, jobVars
  <2> QED
    BY <1>3, <2>2 DEF IInv, ApproveShortNameRefund, jobVars, Idle, Bounded,
       OnDeposits
<1> QED
  BY <1>1, <1>2, <1>3

LEMMA RequestGood ==
    ASSUME IInv, Request, UNCHANGED jobVars
    PROVE  IInv'
<1>1. Idle
  BY DEF Request
<1>2. CASE CreateCredit
  BY <1>1, <1>2, CreateCreditGood
<1>3. CASE \E i \in Invoices : \/ CreateInvoice(i)
                               \/ RefundUnlinkedInvoice(i)
                               \/ RefundLinkedInvoice(i)
                               \/ \E x \in PartialAmounts : PartialRefund(i, x)
  BY <1>1, <1>3, CreateInvoiceGood, RefundUnlinkedInvoiceGood,
     RefundLinkedInvoiceGood, PartialRefundGood
<1>4. CASE \E sn \in ShortNames, a \in Accounts :
             \/ CreateShortNameLink(sn, a)
             \/ \E S \in StatementChoice : \/ ApplyPayment(sn, a, S)
                                           \/ CancelPayment(sn, a, S)
  BY <1>4, CreateShortNameLinkGood, ApplyPaymentGood, CancelPaymentGood
<1>5. CASE \E sn \in ShortNames, s \in Statements : ReversePayment(sn, s)
  BY <1>5, ReversePaymentGood
<1>6. CASE \E r \in Refunds :
             \/ \E sn \in ShortNames, x \in RefundAmounts :
                  CreateShortNameRefund(r, sn, x)
             \/ DeclineShortNameRefund(r)
  BY <1>6, CreateShortNameRefundGood, DeclineShortNameRefundGood
<1>7. CASE \/ \E s \in Statements : GenerateStatement(s)
           \/ \E sn \in ShortNames, a \in Accounts : PatchShortNameLink(sn, a)
           \/ \E r \in Refunds : ApproveShortNameRefund(r)
  BY <1>1, <1>7, OtherRequestGood
<1> QED
  BY <1>2, <1>3, <1>4, <1>5, <1>6, <1>7 DEF Request

-----------------------------------------------------------------------------
(* The jobs.                                                               *)

GoodJob(j) == /\ j \in Job
              /\ j.phase = "LINK" /\ j.cur # NoItem => j.cur.ids # {}

\* CFS, and what was given up when it had done a part.
CfsTypes == /\ cfs \in [Invoices -> CfsStatus]
            /\ receipts \in [issued : SUBSET Nat, reversed : SUBSET Nat]
            /\ brokenOff \in SUBSET Invoices

\* A step of the job that writes to CFS only.
LEMMA JobStepGood ==
    ASSUME IInv, WithinJob, CfsTypes', GoodJob(job')
    PROVE  IInv'
<1>1. TypeOK'
  BY DEF IInv, TypeOK, WithinJob, eftVars, GoodJob, CfsTypes
<1> QED
  BY <1>1 DEF IInv, WithinJob, eftVars, GoodJob, GoodTxn, Bounded, OnDeposits

LEMMA JobTables ==
    ASSUME IInv
    PROVE  /\ job \in Job /\ GoodJob(job) /\ cils \in SUBSET Cil
           /\ OnDeposits(cils) /\ inv \in [Invoices -> Invoice]
           /\ ref \in [Invoices -> RefStatus]
           /\ cfs \in [Invoices -> CfsStatus]
           /\ IdleJob \in Job /\ NoItem \notin Item
BY DEF IInv, TypeOK, GoodJob, IdleJob, Job, Phases, Item, NoItem

LEMMA CfsTables ==
    ASSUME IInv
    PROVE  CfsTypes
BY DEF IInv, TypeOK, CfsTypes

\* The lists of the three phases.
LEMMA QueriedGood ==
    ASSUME NEW phase \in Phases, NEW todo \in SUBSET RollupKey, NEW q,
           q = Queried(phase, todo)
    PROVE  GoodJob(q)
<1>1. q = [phase |-> phase, todo |-> todo, cur |-> NoItem, overdue |-> {},
           fresh |-> todo # {}]
  BY DEF Queried, IdleJob
<1>2. (todo # {}) \in BOOLEAN
  OBVIOUS
<1> QED
  BY <1>1, <1>2 DEF GoodJob, Job

LEMMA RollupsType ==
    ASSUME IInv, NEW status, NEW S
    PROVE  Rollups(status, S) \in SUBSET RollupKey
<1>1. \A l \in cils : [invoice |-> l.invoice, status |-> l.status,
                       receipt |-> l.receipt] \in RollupKey
  BY JobTables, CilFields DEF RollupKey
<1> QED
  BY <1>1 DEF Rollups

LEMMA ListsType ==
    ASSUME IInv
    PROVE  /\ ToLink \in SUBSET RollupKey /\ ToReverse \in SUBSET RollupKey
           /\ Unlinked \in SUBSET RollupKey
<1>1. Unlinked \in SUBSET RollupKey
  BY DEF Unlinked, RefundKey, RollupKey, CilStatus, NoReceipt
<1> QED
  BY <1>1, RollupsType DEF ToLink, ToReverse

LEMMA NotedType ==
    ASSUME IInv, NEW k \in RollupKey, NEW q, q = Noted(k)
    PROVE  /\ q \in Job /\ q.cur = job.cur /\ q.phase = job.phase
           /\ q.todo = job.todo \ {k} /\ job.overdue \subseteq q.overdue
           /\ job.phase = "LINK" /\ inv[k.invoice].status = "OVERDUE"
                => AccountOf[k.invoice] \in q.overdue
<1> DEFINE overdue == IF job.phase = "LINK"
                         /\ inv[k.invoice].status = "OVERDUE"
                      THEN job.overdue \cup {AccountOf[k.invoice]}
                      ELSE job.overdue
<1>1. job \in Job
  BY JobTables
<1>2. k.invoice \in Invoices /\ AccountOf[k.invoice] \in Accounts
  BY EFTConstants DEF RollupKey
<1>3. overdue \in SUBSET Accounts
  BY <1>1, <1>2 DEF Job
<1>4. q = [job EXCEPT !.todo = @ \ {k}, !.fresh = FALSE, !.overdue = overdue]
  BY DEF Noted
<1>5. /\ job.overdue \subseteq overdue
      /\ job.phase = "LINK" /\ inv[k.invoice].status = "OVERDUE"
           => AccountOf[k.invoice] \in overdue
  OBVIOUS
<1> HIDE DEF overdue
<1> QED
  BY <1>1, <1>3, <1>4, <1>5 DEF Job

LEMMA ItemOfType ==
    ASSUME IInv, NEW k \in RollupKey, NEW item, item = ItemOf(k)
    PROVE  /\ item \in Item /\ item.key = k
           /\ item.ids = {l.id : l \in RolledUp(k)}
           /\ InRollup(k) => item.ids # {}
<1> DEFINE ids == {l.id : l \in RolledUp(k)}
           refunding == inv[k.invoice].status = "REFUND_REQUESTED"
<1>1. ids \in SUBSET Nat
  BY JobTables, CilFields DEF RolledUp
<1>2. FoundRef(k) \in RefStatus
  BY DEF FoundRef, RefStatus
<1>3. refunding \in BOOLEAN
  OBVIOUS
<1>4. item = [started |-> TRUE, key |-> k, ids |-> ids,
              refunding |-> refunding, found |-> FoundRef(k)]
  BY DEF ItemOf
<1>5. InRollup(k) => ids # {}
  BY DEF InRollup
<1> HIDE DEF ids, refunding
<1>6. item \in Item /\ item.key = k /\ item.ids = ids
  BY <1>1, <1>2, <1>3, <1>4 DEF Item
<1> QED
  BY <1>5, <1>6 DEF ids

LEMMA StartsGood ==
    ASSUME IInv, WithinJob,
           EftJobStart \/ UnlinkedJobStart \/ EftJobEnd \/ JobDies
    PROVE  IInv'
<1>1. /\ ToLink \in SUBSET RollupKey /\ Unlinked \in SUBSET RollupKey
      /\ "LINK" \in Phases /\ "UNLINKED" \in Phases
  BY ListsType DEF Phases
<1>2. \/ job' = Queried("LINK", ToLink)
      \/ job' = Queried("UNLINKED", Unlinked)
      \/ job' = IdleJob
  BY DEF EftJobStart, UnlinkedJobStart, EftJobEnd, JobDies
<1>3. GoodJob(IdleJob)
  BY JobTables DEF GoodJob, IdleJob
<1>4. GoodJob(job')
  BY <1>1, <1>2, <1>3, QueriedGood
<1>5. job.cur # NoItem => job.cur.key.invoice \in Invoices
  BY JobTables DEF Job, Item, RollupKey
<1>6. CfsTypes'
  BY <1>5, JobTables, CfsTables DEF EftJobStart, UnlinkedJobStart, EftJobEnd, JobDies,
     CfsUntouched, CfsTypes
<1> QED
  BY <1>4, <1>6, JobStepGood

\* The item in hand is given up.
LEMMA ItemRollsBackGood ==
    ASSUME IInv, ItemRollsBack
    PROVE  IInv' /\ WithinJob
<1>1. WithinJob /\ job' = [job EXCEPT !.cur = NoItem]
  BY DEF ItemRollsBack
<1>2. GoodJob(job')
  BY <1>1, JobTables DEF GoodJob, Job
<1>3. job.cur.key.invoice \in Invoices
  BY JobTables DEF ItemRollsBack, Job, Item, RollupKey
<1>4. CfsTypes'
  BY <1>3, JobTables, CfsTables DEF ItemRollsBack, CfsTypes
<1> QED
  BY <1>1, <1>2, <1>4, JobStepGood

\* An item that calls CFS, or is left to the next run.
ItemGivenUp(k) == \/ ItemFails(k) \/ LinkItemBreaksOff(k)
                  \/ ReverseItemBreaksOff(k)
ItemStarts(k) == \/ LinkItemStart(k) \/ ReverseItemStart(k)
                 \/ UnlinkedItemStart(k) \/ ItemGivenUp(k)

LEMMA GivenUp ==
    ASSUME NEW k, ItemGivenUp(k)
    PROVE  /\ job' = Noted(k) /\ job.cur = NoItem /\ WithinJob
           /\ k \in job.todo
BY DEF ItemGivenUp, ItemFails, LinkItemBreaksOff, ReverseItemBreaksOff, Skip,
   AtReverseItem

LEMMA RolledBack ==
    ASSUME IInv, ItemRollsBack
    PROVE  /\ job'.cur = NoItem /\ job'.phase = job.phase
           /\ job'.todo = job.todo /\ job'.overdue = job.overdue
           /\ UNCHANGED eftVars /\ UNCHANGED cfsTodo
BY JobTables DEF ItemRollsBack, Job, WithinJob

\* An invoice that CFS was not to create, or may have created.
CfsInvoiceItemGivenUp(i) == CfsInvoiceItemFails(i) \/ CfsInvoiceItemLost(i)

UnlinkedItemOf(k) == [ItemOf(k) EXCEPT !.refunding = TRUE, !.ids = {}]

LEMMA ItemStartSteps ==
    ASSUME IInv, NEW k \in job.todo, ItemStarts(k)
    PROVE  /\ k \in RollupKey /\ job.cur = NoItem
           /\ \/ job' = Noted(k)
              \/ /\ job' = [Noted(k) EXCEPT !.cur = ItemOf(k)]
                 /\ job.phase \in {"LINK", "REVERSE"}
                 /\ job.phase = "LINK" => InRollup(k)
              \/ /\ job' = [Noted(k) EXCEPT !.cur = UnlinkedItemOf(k)]
                 /\ job.phase = "UNLINKED"
              \/ job' = IdleJob /\ (job.phase = "LINK" => ~ InRollup(k))
<1>1. k \in RollupKey /\ job.cur = NoItem
  BY JobTables, GivenUp DEF ItemStarts, Job, LinkItemStart, ReverseItemStart,
     UnlinkedItemStart, AtReverseItem
<1>2. CASE LinkItemStart(k)
  BY <1>1, <1>2 DEF LinkItemStart, Skip, JobAborts
<1>3. CASE ReverseItemStart(k)
  BY <1>1, <1>3 DEF ReverseItemStart, AtReverseItem, Skip, JobAborts
<1>4. CASE UnlinkedItemStart(k)
  BY <1>1, <1>4 DEF UnlinkedItemStart, Skip, UnlinkedItemOf
<1>5. CASE ItemGivenUp(k)
  BY <1>1, <1>5, GivenUp
<1> QED
  BY <1>2, <1>3, <1>4, <1>5 DEF ItemStarts

LEMMA IssueReceiptType ==
    ASSUME IInv, NEW k, InRollup(k), IssueReceipt(k)
    PROVE  receipts' \in [issued : SUBSET Nat, reversed : SUBSET Nat]
<1> DEFINE ids == {l.id : l \in RolledUp(k)}
<1>1. ids \in SUBSET Nat
  BY JobTables, CilFields DEF RolledUp
<1>2. ids # {}
  BY DEF InRollup
<1> HIDE DEF ids
<1>3. MinId(ids) \in Nat
  BY <1>1, <1>2, MinIdType
<1>4. receipts' = [receipts EXCEPT !.issued = @ \cup {MinId(ids)}]
  BY DEF IssueReceipt, ReceiptNumber, ids
<1> QED
  BY <1>3, <1>4, JobTables, CfsTables DEF CfsTypes

\* What CFS holds when an item has called it.
LEMMA ItemStartsCfsTypes ==
    ASSUME IInv, NEW k \in job.todo, ItemStarts(k)
    PROVE  CfsTypes'
<1> DEFINE i == k.invoice
<1>1. k \in RollupKey /\ i \in Invoices /\ k.receipt \in Nat
  BY JobTables DEF Job, RollupKey
<1>2. cfs' \in [Invoices -> CfsStatus]
  <2>1. PICK s \in CfsStatus : cfs' = cfs \/ cfs' = [cfs EXCEPT ![i] = s]
    <3>1. {"PAID", "REVERSED", "OPEN"} \subseteq CfsStatus
      BY DEF CfsStatus
    <3>2. cfs[i] \in CfsStatus
      BY <1>1, JobTables
    <3>3. CASE LinkItemStart(k) \/ UnlinkedItemStart(k)
      BY <3>1, <3>3 DEF LinkItemStart, UnlinkedItemStart, CfsUntouched
    <3>4. CASE ReverseItemStart(k)
      BY <3>1, <3>2, <3>4 DEF ReverseItemStart, CfsUntouched
    <3>5. CASE ItemGivenUp(k)
      BY <3>1, <3>5 DEF ItemGivenUp, ItemFails, LinkItemBreaksOff,
         ReverseItemBreaksOff, CfsUntouched
    <3> QED
      BY <3>3, <3>4, <3>5 DEF ItemStarts
  <2> QED
    BY <1>1, <2>1, JobTables
<1>3. receipts' \in [issued : SUBSET Nat, reversed : SUBSET Nat]
  <2>1. CASE UNCHANGED receipts
    BY <2>1, CfsTables DEF CfsTypes
  <2>2. CASE InRollup(k) /\ IssueReceipt(k)
    BY <2>2, IssueReceiptType
  <2>3. CASE ReverseReceipt(k)
    BY <1>1, <2>3, JobTables, CfsTables DEF ReverseReceipt, CfsTypes
  <2>4. \/ UNCHANGED receipts
        \/ InRollup(k) /\ IssueReceipt(k)
        \/ ReverseReceipt(k)
    BY DEF ItemStarts, ItemGivenUp, LinkItemStart, ReverseItemStart,
       UnlinkedItemStart, ItemFails, LinkItemBreaksOff, ReverseItemBreaksOff,
       CfsUntouched
  <2> QED
    BY <2>1, <2>2, <2>3, <2>4
<1>4. brokenOff' \in SUBSET Invoices
  BY <1>1, JobTables, CfsTables DEF ItemStarts, ItemGivenUp, LinkItemStart,
     ReverseItemStart, UnlinkedItemStart, ItemFails, LinkItemBreaksOff,
     ReverseItemBreaksOff, CfsUntouched, CfsTypes
<1> QED
  BY <1>2, <1>3, <1>4 DEF CfsTypes

LEMMA ItemStartsGood ==
    ASSUME IInv, WithinJob, NEW k \in job.todo, ItemStarts(k)
    PROVE  IInv'
<1> DEFINE i == k.invoice
           noted == Noted(k)
           item == ItemOf(k)
           unlinked == UnlinkedItemOf(k)
<1>1. k \in RollupKey /\ job.cur = NoItem
  BY ItemStartSteps
<1>2. i \in Invoices
  BY <1>1 DEF RollupKey
<1>3. noted \in Job /\ noted.cur = NoItem /\ noted.phase = job.phase
  BY <1>1, NotedType
<1>4. item \in Item /\ (InRollup(k) => item.ids # {})
  BY <1>1, ItemOfType
<1>5. unlinked \in Item
  BY <1>4 DEF Item, UnlinkedItemOf
<1>6. CfsTypes'
  BY ItemStartsCfsTypes
<1>7. \/ job' = noted
      \/ /\ job' = [noted EXCEPT !.cur = item]
         /\ job.phase = "LINK" => InRollup(k)
      \/ job' = [noted EXCEPT !.cur = unlinked] /\ job.phase = "UNLINKED"
      \/ job' = IdleJob
  BY ItemStartSteps
<1> HIDE DEF noted, item, unlinked
<1>8. GoodJob(IdleJob)
  BY JobTables DEF GoodJob, IdleJob
<1>9. GoodJob(job')
  BY <1>3, <1>4, <1>5, <1>7, <1>8 DEF GoodJob, Job
<1> QED
  BY <1>6, <1>9, JobStepGood

\* The status and receipt of a link change, not its credit.
LEMMA UpdateLinksType ==
    ASSUME IInv, NEW item, NEW status \in CilStatus, NEW receipt \in Nat
    PROVE  /\ UpdateLinks(item, status, receipt) \in SUBSET Cil
           /\ OnDeposits(UpdateLinks(item, status, receipt))
<1> DEFINE new(l) == [l EXCEPT !.status = status, !.receipt = receipt]
<1>1. \A l \in cils : new(l) \in Cil /\ new(l).credit = l.credit
  BY JobTables DEF Cil
<1> DEFINE touched(l) == l.id \in item.ids /\ l.status # "CANCELLED"
<1>2. UpdateLinks(item, status, receipt)
        = {IF touched(l) THEN new(l) ELSE l : l \in cils}
  BY Zenon DEF UpdateLinks
<1> HIDE DEF new, touched
<1> QED
  BY <1>1, <1>2, JobTables DEF OnDeposits

\* The end of an item, which writes the invoice, its reference and its links.
LEMMA ItemEndGood ==
    ASSUME IInv, Idle, NEW i \in Invoices, NEW row \in Invoice, Unfunded(row),
           NEW r \in RefStatus, NEW L \in SUBSET Cil, OnDeposits(L),
           inv' = [inv EXCEPT ![i] = row], ref' = [ref EXCEPT ![i] = r],
           cils' = L, job' = [job EXCEPT !.cur = NoItem],
           UNCHANGED <<deposits, remaining, active, lastGroup, lastCil,
                       statements, locked, refunds, txn, cfsTodo, cfs,
                       receipts, brokenOff, pastDue, notified>>
    PROVE  IInv'
<1>1. inv' \in [Invoices -> Invoice] /\ \A j \in Invoices : Unfunded(inv'[j])
  BY RefundRow
<1>2. ref' \in [Invoices -> RefStatus]
  BY JobTables
<1>3. job' \in Job /\ job'.cur = NoItem
  BY JobTables DEF Job
<1>4. TypeOK'
  BY <1>1, <1>2, <1>3 DEF IInv, TypeOK
<1> QED
  BY <1>1, <1>3, <1>4 DEF IInv, Idle, Bounded, OnDeposits

LEMMA LinkItemEndGood ==
    ASSUME IInv, Idle, LinkItemEnd
    PROVE  IInv'
<1> DEFINE item == job.cur
           i == item.key.invoice
           row == [inv[i] EXCEPT !.status = "PAID", !.paid = item.ids]
           receipt == MinId(item.ids)
           L == UpdateLinks(item, "COMPLETED", receipt)
<1>1. item \in Item /\ item.ids # {}
  BY JobTables DEF LinkItemEnd, GoodJob, Job
<1>2. i \in Invoices /\ item.ids \in SUBSET Nat
  BY <1>1 DEF Item, RollupKey
<1>3. inv[i] \in Invoice
  BY <1>2, TablesType
<1>4. row \in Invoice /\ Unfunded(row)
  BY <1>2, <1>3 DEF Invoice, InvoiceStatus, Unfunded
<1>5. receipt \in Nat
  BY <1>1, <1>2, MinIdType
<1>6. L \in SUBSET Cil /\ OnDeposits(L)
  BY <1>5, UpdateLinksType DEF CilStatus
<1>7. [inv EXCEPT ![i].status = "PAID", ![i].paid = item.ids]
        = [inv EXCEPT ![i] = row]
  BY <1>2, <1>3, TablesType DEF Invoice
<1>8. inv' = [inv EXCEPT ![i] = row] /\ ref' = [ref EXCEPT ![i] = "COMPLETED"]
      /\ cils' = L /\ job' = [job EXCEPT !.cur = NoItem]
      /\ UNCHANGED <<deposits, remaining, active, lastGroup, lastCil,
                     statements, locked, refunds, txn, cfsTodo, cfs,
                     receipts, brokenOff, pastDue, notified>>
  BY <1>7 DEF LinkItemEnd
<1>9. "COMPLETED" \in RefStatus
  BY DEF RefStatus
<1> HIDE DEF row, L, i
<1> QED
  BY <1>2, <1>4, <1>6, <1>8, <1>9, ItemEndGood DEF i

LEMMA ReverseItemEndGood ==
    ASSUME IInv, Idle, ReverseItemEnd
    PROVE  IInv'
<1> DEFINE item == job.cur
           i == item.key.invoice
           row == IF item.refunding
                  THEN [inv[i] EXCEPT !.status = RefundedStatus(item),
                                      !.refund = Total[i]]
                  ELSE ReversedInvoice(inv[i])
           r == IF ~ item.refunding THEN "ACTIVE"
                ELSE IF item.found # "NONE" THEN "CANCELLED" ELSE ref[i]
           L == UpdateLinks(item, "REFUNDED", item.key.receipt)
<1>1. item \in Item
  BY JobTables DEF ReverseItemEnd, Job
<1>2. i \in Invoices /\ item.key.receipt \in Nat
  BY <1>1 DEF Item, RollupKey
<1>3. inv[i] \in Invoice /\ Total[i] \in Nat /\ ref[i] \in RefStatus
  BY <1>2, TablesType, JobTables, EFTConstants
<1>4. RefundedStatus(item) \in {"CANCELLED", "REFUNDED"}
  BY DEF RefundedStatus
<1>5. row \in Invoice /\ Unfunded(row)
  <2>1. CASE item.refunding
    BY <1>3, <1>4, <2>1 DEF Invoice, InvoiceStatus, Unfunded
  <2>2. CASE ~ item.refunding
    BY <1>3, <2>2 DEF Invoice, InvoiceStatus, Unfunded, ReversedInvoice
  <2> QED
    BY <2>1, <2>2
<1>6. L \in SUBSET Cil /\ OnDeposits(L)
  BY <1>2, UpdateLinksType DEF CilStatus
<1>7. r \in RefStatus
  BY <1>3 DEF RefStatus
<1>8. inv' = [inv EXCEPT ![i] = row] /\ ref' = [ref EXCEPT ![i] = r]
      /\ cils' = L /\ job' = [job EXCEPT !.cur = NoItem]
      /\ UNCHANGED <<deposits, remaining, active, lastGroup, lastCil,
                     statements, locked, refunds, txn, cfsTodo, cfs,
                     receipts, brokenOff, pastDue, notified>>
  <2>1. inv \in [Invoices -> Invoice] /\ ref \in [Invoices -> RefStatus]
    BY TablesType, JobTables
  <2>2. inv' = [inv EXCEPT ![i] = row] /\ ref' = [ref EXCEPT ![i] = r]
    BY <1>2, <2>1 DEF ReverseItemEnd
  <2> QED
    BY <2>2 DEF ReverseItemEnd
<1> HIDE DEF row, L, i, r
<1> QED
  BY <1>2, <1>5, <1>6, <1>7, <1>8, ItemEndGood DEF i

LEMMA UnlockOverdueAccountsGood ==
    ASSUME IInv, Idle, UnlockOverdueAccounts
    PROVE  IInv'
<1>1. ToReverse \in SUBSET RollupKey /\ "REVERSE" \in Phases
  BY ListsType DEF Phases
<1>2. job' = Queried("REVERSE", ToReverse)
  BY DEF UnlockOverdueAccounts
<1>3. GoodJob(job')
  BY <1>1, <1>2, QueriedGood
<1>4. TypeOK'
  BY <1>3 DEF IInv, TypeOK, UnlockOverdueAccounts, GoodJob
<1> QED
  BY <1>3, <1>4 DEF IInv, UnlockOverdueAccounts, GoodJob, Idle, Bounded,
     OnDeposits

LEMMA CfsInvoiceJobGood ==
    ASSUME IInv, Idle,
           \/ CfsInvoiceJob
           \/ \E i \in cfsTodo : CfsInvoiceItemFails(i)
                                  \/ CfsInvoiceItemLost(i)
           \/ \E i \in Invoices : OverdueDatePasses(i)
    PROVE  IInv'
<1>1. CASE CfsInvoiceJobStart
  <2>1. TypeOK'
    BY <1>1 DEF IInv, TypeOK, CfsInvoiceJobStart, eftVars
  <2> QED
    BY <1>1, <2>1 DEF IInv, CfsInvoiceJobStart, eftVars, Idle, Bounded,
       OnDeposits
<1>2. CASE \E i \in cfsTodo : CfsInvoiceItem(i)
  <2>1. PICK i \in Invoices : CfsInvoiceItem(i)
    BY <1>2 DEF IInv, TypeOK
  <2>2. /\ ref' \in [Invoices -> RefStatus]
        /\ cfs' \in [Invoices -> CfsStatus]
        /\ cfsTodo' \in SUBSET Invoices
    BY <2>1 DEF IInv, TypeOK, CfsInvoiceItem, RefStatus, CfsStatus
  <2>3. TypeOK'
    BY <2>1, <2>2 DEF IInv, TypeOK, CfsInvoiceItem
  <2> QED
    BY <2>1, <2>3 DEF IInv, CfsInvoiceItem, Idle, Bounded, OnDeposits
<1>3. CASE \E i \in cfsTodo : CfsInvoiceItemFails(i)
  <2>1. TypeOK'
    BY <1>3 DEF IInv, TypeOK, CfsInvoiceItemFails, eftVars
  <2> QED
    BY <1>3, <2>1 DEF IInv, CfsInvoiceItemFails, eftVars, Idle, Bounded,
       OnDeposits
<1>5. CASE \E i \in cfsTodo : CfsInvoiceItemLost(i)
  <2>1. PICK i \in Invoices : CfsInvoiceItemLost(i)
    BY <1>5 DEF IInv, TypeOK
  <2>2. /\ cfs' \in [Invoices -> CfsStatus]
        /\ cfsTodo' \in SUBSET Invoices /\ brokenOff' \in SUBSET Invoices
    BY <2>1 DEF IInv, TypeOK, CfsInvoiceItemLost, CfsStatus
  <2>3. TypeOK'
    BY <2>1, <2>2 DEF IInv, TypeOK, CfsInvoiceItemLost, eftVars
  <2> QED
    BY <2>1, <2>3 DEF IInv, CfsInvoiceItemLost, eftVars, Idle, Bounded,
       OnDeposits
<1>4. CASE \E i \in Invoices : OverdueDatePasses(i)
  <2>1. TypeOK'
    BY <1>4 DEF IInv, TypeOK, OverdueDatePasses, eftVars
  <2> QED
    BY <1>4, <2>1 DEF IInv, OverdueDatePasses, eftVars, Idle, Bounded,
       OnDeposits
<1> QED
  BY <1>1, <1>2, <1>3, <1>4, <1>5 DEF CfsInvoiceJob

LEMMA StatementDueJobGood ==
    ASSUME IInv, Idle, StatementDueJob
    PROVE  IInv'
<1> DEFINE due(i) == [inv[i] EXCEPT !.status = "OVERDUE"]
<1>1. \A i \in NowOverdue : due(i) \in Invoice /\ Unfunded(due(i))
  <2> TAKE i \in NowOverdue
  <2>1. i \in Invoices /\ inv[i] \in Invoice /\ inv[i].paid = {}
    BY DEF NowOverdue, IInv, TypeOK, Unpaid, Unfunded
  <2> QED
    BY <2>1 DEF Invoice, InvoiceStatus, Unfunded
<1>2. inv' = [i \in Invoices |-> IF i \in NowOverdue THEN due(i) ELSE inv[i]]
  BY DEF StatementDueJob
<1> HIDE DEF due
<1>3. inv' \in [Invoices -> Invoice] /\ \A i \in Invoices : Unfunded(inv'[i])
  BY <1>1, <1>2, TablesType
<1>4. notified' \in SUBSET Statements /\ locked' \in SUBSET Accounts
  <2>1. /\ NowOverdue \subseteq Invoices /\ notified \in SUBSET Statements
        /\ locked \in SUBSET Accounts
    BY DEF NowOverdue, IInv, TypeOK
  <2> QED
    BY <2>1, EFTConstants DEF StatementDueJob
<1>5. TypeOK'
  BY <1>3, <1>4 DEF IInv, TypeOK, StatementDueJob
<1> QED
  BY <1>3, <1>5 DEF IInv, StatementDueJob, Idle, Bounded, OnDeposits

-----------------------------------------------------------------------------
(* The theorems.                                                           *)

LEMMA InitGood ==
    ASSUME TaskInit
    PROVE  IInv
<1>1. IdleJob \in Job
  BY DEF IdleJob, Job, Phases
<1>2. inv \in [Invoices -> Invoice] /\ \A i \in Invoices : Unfunded(inv[i])
  BY DEF TaskInit, Init, Invoice, InvoiceStatus, Unfunded
<1>3. refunds \in [Refunds -> EftRefund]
  BY EFTConstants DEF TaskInit, Init, EftRefund, RefundStatus
<1>4. ref \in [Invoices -> RefStatus] /\ cfs \in [Invoices -> CfsStatus]
  BY DEF TaskInit, Init, RefStatus, CfsStatus
<1>5. TypeOK
  BY <1>1, <1>2, <1>3, <1>4, EFTConstants DEF TaskInit, Init, TypeOK
<1>6. Bounded(remaining) /\ OnDeposits(cils)
  BY EFTConstants DEF TaskInit, Init, Bounded, OnDeposits
<1> QED
  BY <1>2, <1>5, <1>6 DEF TaskInit, Init, IInv, IdleJob

LEMMA NextGood ==
    ASSUME IInv, [Next]_vars
    PROVE  IInv'
<1>1. CASE TxnStep /\ UNCHANGED jobVars
  BY <1>1, TxnStepGood
<1>2. CASE Idle /\ EftJob
  <2>1. CASE EftJobStart \/ UnlinkedJobStart \/ EftJobEnd
    <3>1. WithinJob
      BY <2>1 DEF EftJobStart, UnlinkedJobStart, EftJobEnd
    <3> QED
      BY <2>1, <3>1, StartsGood
  <2>2. CASE \E k \in job.todo : \/ LinkItemStart(k) \/ ReverseItemStart(k)
                                 \/ UnlinkedItemStart(k)
    <3>1. WithinJob
      BY <2>2 DEF LinkItemStart, ReverseItemStart, UnlinkedItemStart
    <3> QED
      BY <2>2, <3>1, ItemStartsGood DEF ItemStarts
  <2>3. CASE LinkItemEnd \/ ReverseItemEnd \/ UnlockOverdueAccounts
    BY <1>2, <2>3, LinkItemEndGood, ReverseItemEndGood,
       UnlockOverdueAccountsGood
  <2> QED
    BY <1>2, <2>1, <2>2, <2>3 DEF EftJob
<1>3. CASE Idle /\ JobFailure
  <2>1. CASE \E k \in job.todo : ItemGivenUp(k)
    BY <2>1, GivenUp, ItemStartsGood DEF ItemStarts
  <2>2. CASE \E i \in cfsTodo : CfsInvoiceItemFails(i)
                                 \/ CfsInvoiceItemLost(i)
    BY <1>3, <2>2, CfsInvoiceJobGood
  <2>3. CASE JobDies
    <3>1. WithinJob
      BY <2>3 DEF JobDies
    <3> QED
      BY <2>3, <3>1, StartsGood
  <2>4. CASE ItemRollsBack
    BY <2>4, ItemRollsBackGood
  <2> QED
    BY <1>3, <2>1, <2>2, <2>3, <2>4 DEF JobFailure, ItemGivenUp
<1>4. CASE Idle /\ CfsInvoiceJob
  BY <1>4, CfsInvoiceJobGood
<1>5. CASE Idle /\ StatementDueJob
  BY <1>5, StatementDueJobGood
<1>6. CASE Idle /\ \E i \in Invoices : OverdueDatePasses(i)
  BY <1>6, CfsInvoiceJobGood
<1>7. CASE Request /\ UNCHANGED jobVars
  BY <1>7, RequestGood
<1>8. CASE UNCHANGED vars
  <2>1. UNCHANGED tables /\ txn' = txn /\ UNCHANGED jobVars
    BY <1>8 DEF vars, eftVars, tables
  <2> QED
    BY <2>1, StepGood DEF IInv
<1> QED
  BY <1>1, <1>2, <1>3, <1>4, <1>5, <1>6, <1>7, <1>8 DEF Next

LEMMA Invariance == Spec => []IInv
<1>1. TaskInit => IInv
  BY InitGood
<1>2. IInv /\ [Next]_vars => IInv'
  BY NextGood
<1> QED
  BY <1>1, <1>2, PTL DEF Spec

\* Every table, every request in progress and every job stays well formed: in
\* particular no amount becomes negative, though requests subtract from
\* credits without checking (apply_eft_credit, _deduct_eft_credits).
THEOREM TypeCorrect == Spec => []TypeOK
<1>1. IInv => TypeOK
  BY DEF IInv
<1> QED
  BY <1>1, Invariance, PTL

\* Whatever requests return, reverse, decline or cancel, and in any order, no
\* credit ever holds more than its deposit (return_eft_credit,
\* reverse_eft_credits).
THEOREM CreditsBounded == Spec => []CreditBounds
<1>1. IInv => CreditBounds
  BY DEF IInv, Bounded, CreditBounds
<1> QED
  BY <1>1, Invariance, PTL

-----------------------------------------------------------------------------
(* The credit links and their order.                                       *)

Returning(t) == t.mode \in {"PENDING_REFUND", "REFUNDED"}

SameCredit(l, m) == l.invoice = m.invoice /\ l.credit = m.credit
SameReceipt(l, m) == SameCredit(l, m) /\ l.receipt = m.receipt
Siblings(l, m) == l.invoice = m.invoice /\ l.group = m.group
Alike(l, m) == l.status = m.status /\ l.receipt = m.receipt
Payer(l) == DepositedBy[l.credit]

-----------------------------------------------------------------------------
(* The invariant: any copy of the links.                                   *)

Numbered(L, last) ==
    /\ IsFiniteSet(L)
    /\ \A l, m \in L : l.id = m.id => l = m
    /\ \A l \in L : l.id <= last

\* A receipt has the number of a link that is no longer pending.
Receipted(L, last) ==
    /\ \A l \in L : l.status \in {"PENDING", "CANCELLED"}
         => l.receipt = NoReceipt
    /\ \A l \in L : l.status = "COMPLETED" => l.receipt <= last
    /\ \A l, m \in L : l.status = "COMPLETED" /\ m.status = "PENDING"
         => l.receipt # m.id

PendingOnce(L) ==
    \A l, m \in L :
        l.status = "PENDING" /\ m.status = "PENDING" /\ SameCredit(l, m)
          => l = m

CompletedOnce(L) ==
    \A l, m \in L :
        l.status = "COMPLETED" /\ m.status = "COMPLETED" /\ SameReceipt(l, m)
          => l = m

ReturnedOnce(L) ==
    \A l, m \in L : IsReturn(l) /\ IsReturn(m) /\ SameReceipt(l, m) => l = m

\* A return comes after the link that it returns.
Follows(L) ==
    \A m \in L : IsReturn(m) =>
        \E l \in L : /\ l.status = "COMPLETED" /\ SameReceipt(l, m)
                     /\ l.group < m.group

OnePayer(L) == \A l, m \in L : Siblings(l, m) => Payer(l) = Payer(m)

Links(L, last) ==
    /\ Numbered(L, last) /\ Receipted(L, last)
    /\ PendingOnce(L) /\ CompletedOnce(L) /\ ReturnedOnce(L)
    /\ Follows(L) /\ OnePayer(L)

-----------------------------------------------------------------------------
(* The invariant: the table, between requests.                             *)

Groups ==
    /\ \A l \in cils : l.group <= lastGroup
    /\ \A l, m \in cils : Siblings(l, m) => Alike(l, m)
    /\ \A l, m \in cils : l.invoice = m.invoice /\ l.id < m.id
         => l.group <= m.group

-----------------------------------------------------------------------------
(* The invariant: the request in progress.                                 *)

\* What is still to be returned.
Todo(t) ==
    /\ t.todo \subseteq t.cils
    /\ \A l \in t.todo : /\ l.group < t.group
                         /\ l.status = IF Returning(t) THEN "COMPLETED"
                                        ELSE "PENDING"

\* A request that makes links has a new group for them.
Grouped(t) ==
    /\ lastGroup <= t.group
    /\ \/ t.group <= lastGroup
       \/ t.mode = "CANCEL" /\ t.due = {} /\ t.cur = NoInvoice
    /\ \A l \in t.cils : l.group <= lastGroup

NewStatus(t) == IF t.mode = "CANCEL" THEN "PENDING"
                ELSE IF t.mode = "REGROUP" THEN "CANCELLED" ELSE t.mode

\* The links of the new group.
NewGroup(t) ==
    \A l \in t.cils : l.group = t.group =>
        /\ l.status = NewStatus(t)
        /\ l.invoice \notin t.due
        /\ t.mode = "CANCEL" => Payer(l) = t.sn
        /\ \A k \in t.todo : k.invoice = l.invoice
             => k.receipt = l.receipt /\ Payer(k) = Payer(l)

\* Links of a group are alike, but for those that a loop has not come to.
Mixed(t) ==
    \A l, m \in t.cils : Siblings(l, m) =>
        /\ Returning(t) \/ (l \notin t.todo /\ m \notin t.todo) => Alike(l, m)
        /\ ~Returning(t) /\ l \in t.todo /\ m \notin t.todo
             => m.status = "CANCELLED"

Ordered(t) ==
    \A l, m \in t.cils : l.invoice = m.invoice /\ l.id < m.id =>
        l.group <= m.group \/ (t.mode = "REGROUP" /\ m \in t.todo)

\* The latest group of an invoice is cancelled, in the order of its ids.
Regroups(t) ==
    t.mode = "REGROUP" =>
        /\ \A l \in t.todo, m \in t.cils :
             l.invoice = m.invoice /\ l.id < m.id => m \in t.todo
        /\ \A l, m \in t.todo : Siblings(l, m)

\* What was not returned yet is.
Returns(t) ==
    Returning(t) =>
        /\ \A l, m \in t.todo : l.invoice = m.invoice => l.group = m.group
        /\ \A l \in t.todo, m \in t.cils : IsReturn(m) => ~SameReceipt(l, m)

\* An invoice is paid after its earlier links are cancelled, and from each
\* credit at most once.
Pays(t) ==
    /\ t.mode # "CANCEL" => t.due = {} /\ t.cur = NoInvoice /\ t.need = 0
    /\ t.cur \notin t.due
    /\ t.cur # NoInvoice /\ t.need > 0 =>
         /\ \A l \in t.todo : l.invoice = t.cur
         /\ t.todo # {} =>
              \A l \in t.cils : l.group = t.group => l.invoice # t.cur
         /\ \A l \in t.cils : l.status = "PENDING" /\ l.invoice = t.cur
              /\ Payer(l) = t.sn
                => l \in t.todo \/ t.rem[l.credit] = 0
    /\ t.refill # 0 => t.need = 0 /\ t.due = {}

TxnLinks(t) ==
    /\ Links(t.cils, t.lastCil)
    /\ Todo(t) /\ Grouped(t) /\ NewGroup(t) /\ Mixed(t) /\ Ordered(t)
    /\ Regroups(t) /\ Returns(t) /\ Pays(t)

-----------------------------------------------------------------------------
(* The invariant: the item of the job, which may be older than the links.  *)

JobTodo ==
    \A k \in job.todo :
        /\ job.phase = "LINK" => k.status = "PENDING"
        /\ job.phase = "REVERSE" => k.status \in {"PENDING_REFUND", "CANCELLED"}

\* What it rolled up are groups as a whole, and may have been cancelled since.
JobLinks(L, last) ==
    job.cur # NoItem =>
        /\ \A n \in job.cur.ids : n <= last
        /\ job.phase = "LINK" => \A l \in L :
             /\ l.id \in job.cur.ids => l.status \in {"PENDING", "CANCELLED"}
             /\ l.status = "COMPLETED" => l.receipt \notin job.cur.ids
        /\ job.phase # "LINK" => \A l \in L : l.id \in job.cur.ids =>
             /\ l.status \in {"PENDING_REFUND", "CANCELLED"}
             /\ l.receipt = job.cur.key.receipt
        /\ \A l, m \in L : Siblings(l, m)
             => (l.id \in job.cur.ids <=> m.id \in job.cur.ids)

\* What it rolled up is not in the new group, but for links that move there.
JobNewGroup(t) ==
    job.cur # NoItem =>
        \A m \in t.cils : m.group = t.group =>
            /\ t.mode # "REGROUP" => m.id \notin job.cur.ids
            /\ t.mode = "REGROUP" => \A l \in t.todo : l.invoice = m.invoice =>
                 (l.id \in job.cur.ids <=> m.id \in job.cur.ids)

LinksInv ==
    /\ Links(cils, lastCil) /\ Groups
    /\ txn # NoTxn => TxnLinks(txn)
    /\ JobTodo /\ JobLinks(cils, lastCil)
    /\ txn # NoTxn => JobLinks(txn.cils, txn.lastCil) /\ JobNewGroup(txn)

-----------------------------------------------------------------------------
(* Steps of a loop, on any copy of the links.                              *)

\* A pending link is cancelled.
LEMMA Cancelled ==
    ASSUME NEW L \in SUBSET Cil, NEW last, Links(L, last), NEW l \in L,
           l.status = "PENDING",
           NEW r \in Cil, r.id = l.id, SameReceipt(l, r),
           r.status = "CANCELLED",
           \A m \in L \ {l} : Siblings(r, m) => Payer(m) = Payer(r),
           NEW K, K = (L \ {l}) \cup {r}
    PROVE  Links(K, last)
<1> USE DEF SameReceipt, SameCredit
<1>1. Numbered(K, last)
  <2>1. IsFiniteSet(K)
    BY FS_Difference, FS_AddElement, FS_Singleton DEF Links, Numbered
  <2> QED
    BY <2>1 DEF Links, Numbered
<1>2. Receipted(K, last)
  BY DEF Links, Receipted
<1>3. PendingOnce(K) /\ CompletedOnce(K)
  BY DEF Links, PendingOnce, CompletedOnce
<1>4. ReturnedOnce(K)
  BY DEF Links, ReturnedOnce, IsReturn
<1>5. Follows(K)
  <2> SUFFICES ASSUME NEW m \in K, IsReturn(m)
               PROVE  \E k \in K : k.status = "COMPLETED" /\ SameReceipt(k, m)
                      /\ k.group < m.group
    BY DEF Follows
  <2>1. m \in L
    BY DEF IsReturn
  <2> QED
    BY <2>1 DEF Links, Follows
<1>6. OnePayer(K)
  BY DEF Links, OnePayer, Siblings
<1> QED
  BY <1>1, <1>2, <1>3, <1>4, <1>5, <1>6 DEF Links

\* A completed link is returned.
LEMMA Returned ==
    ASSUME NEW L \in SUBSET Cil, NEW last \in Nat, Links(L, last),
           NEW l \in L, l.status = "COMPLETED",
           NEW r \in Cil, r.id = last + 1, SameReceipt(l, r), IsReturn(r),
           l.group < r.group,
           \A m \in L : IsReturn(m) => ~SameReceipt(l, m),
           \A m \in L : Siblings(r, m) => Payer(m) = Payer(r)
    PROVE  Links(L \cup {r}, last + 1)
<1> DEFINE K == L \cup {r}
<1> USE DEF SameReceipt, SameCredit
<1>1. Numbered(K, last + 1)
  <2>1. IsFiniteSet(K)
    BY FS_AddElement DEF Links, Numbered
  <2>2. \A m \in L : m.id \in Nat /\ m.id <= last
    BY CilFields DEF Links, Numbered
  <2> QED
    BY <2>1, <2>2 DEF Links, Numbered
<1>2. Receipted(K, last + 1)
  <2>1. r.status \notin {"PENDING", "CANCELLED", "COMPLETED"}
    BY DEF IsReturn
  <2>2. \A m \in L : m.receipt \in Nat
    BY CilFields
  <2> QED
    BY <2>1, <2>2 DEF Links, Receipted
<1>3. PendingOnce(K) /\ CompletedOnce(K)
  BY DEF Links, PendingOnce, CompletedOnce, IsReturn
<1>4. ReturnedOnce(K)
  BY DEF Links, ReturnedOnce
<1>5. Follows(K)
  BY DEF Links, Follows
<1>6. OnePayer(K)
  BY DEF Links, OnePayer, Siblings
<1> QED
  BY <1>1, <1>2, <1>3, <1>4, <1>5, <1>6 DEF Links

\* A credit pays an invoice.
LEMMA Taken ==
    ASSUME NEW L \in SUBSET Cil, NEW last \in Nat, Links(L, last),
           NEW r \in Cil, r.id = last + 1, r.receipt = NoReceipt,
           r.status = "PENDING",
           \A m \in L : m.status = "PENDING" => ~SameCredit(r, m),
           \A m \in L : Siblings(r, m) => Payer(m) = Payer(r)
    PROVE  Links(L \cup {r}, last + 1)
<1> DEFINE K == L \cup {r}
<1>1. Numbered(K, last + 1)
  <2>1. IsFiniteSet(K)
    BY FS_AddElement DEF Links, Numbered
  <2>2. \A m \in L : m.id \in Nat /\ m.id <= last
    BY CilFields DEF Links, Numbered
  <2> QED
    BY <2>1, <2>2 DEF Links, Numbered
<1>2. Receipted(K, last + 1)
  <2>1. \A m \in L : m.receipt \in Nat
    BY CilFields
  <2> QED
    BY <2>1 DEF Links, Receipted
<1>3. PendingOnce(K) /\ CompletedOnce(K)
  BY DEF Links, PendingOnce, CompletedOnce, SameCredit
<1>4. ReturnedOnce(K)
  BY DEF Links, ReturnedOnce, IsReturn
<1>5. Follows(K)
  BY DEF Links, Follows, IsReturn
<1>6. OnePayer(K)
  BY DEF Links, OnePayer, Siblings
<1> QED
  BY <1>1, <1>2, <1>3, <1>4, <1>5, <1>6 DEF Links

-----------------------------------------------------------------------------
(* The end of an item of the job.                                          *)

Updated(l, status, receipt) ==
    IF l.id \in job.cur.ids /\ l.status # "CANCELLED"
    THEN [l EXCEPT !.status = status, !.receipt = receipt] ELSE l

LEMMA UpdatedFields ==
    ASSUME NEW l \in Cil, NEW status, NEW receipt,
           NEW u, u = Updated(l, status, receipt)
    PROVE  /\ u.id = l.id /\ SameCredit(l, u) /\ u.group = l.group
                /\ u.amount = l.amount
           /\ l.id \in job.cur.ids /\ l.status # "CANCELLED"
                => u.status = status /\ u.receipt = receipt
           /\ l.id \notin job.cur.ids \/ l.status = "CANCELLED" => u = l
BY DEF Cil, Updated, SameCredit

\* The links of an item that paid an invoice have a new receipt; those of one
\* that undid a payment keep theirs.
LEMMA LinksUpdated ==
    ASSUME IInv, LinksInv, job.cur # NoItem, NEW status, NEW receipt \in Nat,
           \/ /\ job.phase = "LINK" /\ status = "COMPLETED"
              /\ receipt \in job.cur.ids
           \/ /\ job.phase # "LINK" /\ status = "REFUNDED"
              /\ receipt = job.cur.key.receipt,
           NEW K, K = UpdateLinks(job.cur, status, receipt)
    PROVE  /\ Links(K, lastCil)
           /\ \A l \in K : l.group <= lastGroup
           /\ \A l, m \in K : Siblings(l, m) => Alike(l, m)
           /\ \A l, m \in K : l.invoice = m.invoice /\ l.id < m.id
                => l.group <= m.group
<1> PICK U : U = [l \in cils |-> Updated(l, status, receipt)]
  OBVIOUS
<1>1. K = {U[l] : l \in cils}
  BY DEF UpdateLinks, Updated
<1>2. cils \in SUBSET Cil /\ Links(cils, lastCil) /\ Groups
      /\ JobLinks(cils, lastCil)
  BY JobTables DEF LinksInv
<1>3. \A l \in cils :
        /\ U[l].id = l.id /\ SameCredit(l, U[l]) /\ U[l].group = l.group
        /\ l.id \in job.cur.ids /\ l.status # "CANCELLED"
             => U[l].status = status /\ U[l].receipt = receipt
        /\ l.id \notin job.cur.ids \/ l.status = "CANCELLED" => U[l] = l
  BY <1>2, UpdatedFields
<1>4. /\ \A l \in cils : l.id \in job.cur.ids =>
           IF job.phase = "LINK" THEN l.status \in {"PENDING", "CANCELLED"}
           ELSE l.status \in {"PENDING_REFUND", "CANCELLED"}
                /\ l.receipt = job.cur.key.receipt
      /\ job.phase = "LINK" =>
           \A l \in cils : l.status = "COMPLETED"
             => l.receipt \notin job.cur.ids
      /\ \A l, m \in cils : Siblings(l, m)
           => (l.id \in job.cur.ids <=> m.id \in job.cur.ids)
      /\ \A n \in job.cur.ids : n <= lastCil
  BY <1>2 DEF JobLinks
<1>5. Numbered(K, lastCil)
  <2>1. IsFiniteSet(K)
    <3>1. U \in Surjection(cils, K)
      BY <1>1 DEF Surjection
    <3> QED
      BY <1>2, <3>1, FS_Surjection DEF Links, Numbered
  <2> QED
    BY <1>1, <1>2, <1>3, <2>1 DEF Links, Numbered
<1>6. \A l \in cils : /\ U[l].status \in {"PENDING", "CANCELLED"} => U[l] = l
                      /\ IsReturn(U[l]) <=> IsReturn(l)
                      /\ IsReturn(l) => SameReceipt(l, U[l])
                      /\ l.status = "COMPLETED" => U[l] = l
  BY <1>3, <1>4 DEF IsReturn, SameReceipt
<1>7. Receipted(K, lastCil)
  <2>1. \A l \in K : l.status \in {"PENDING", "CANCELLED"}
          => l.receipt = NoReceipt
    BY <1>1, <1>2, <1>6 DEF Links, Receipted
  <2>2. \A l \in K : l.status = "COMPLETED" => l.receipt <= lastCil
    BY <1>1, <1>2, <1>3, <1>4 DEF Links, Receipted
  <2>3. \A l, m \in cils : U[l].status = "COMPLETED" /\ U[m].status = "PENDING"
                             => U[l].receipt # U[m].id
    <3> SUFFICES ASSUME NEW l \in cils, NEW m \in cils,
                        U[l].status = "COMPLETED",
                        U[m].status = "PENDING"
                 PROVE  U[l].receipt # U[m].id
      OBVIOUS
    <3>1. U[m] = m /\ (m.id \notin job.cur.ids \/ job.phase # "LINK")
      BY <1>3, <1>6
    <3>2. CASE U[l] = l
      BY <1>2, <1>6, <3>2 DEF Links, Receipted
    <3>3. CASE U[l] # l
      BY <1>3, <3>1, <3>3
    <3> QED
      BY <3>2, <3>3
  <2> QED
    BY <1>1, <2>1, <2>2, <2>3 DEF Receipted
<1>8. PendingOnce(K)
  BY <1>1, <1>2, <1>6 DEF Links, PendingOnce
<1>9. CompletedOnce(K)
  <2> SUFFICES ASSUME NEW l \in cils, NEW m \in cils, U[l].status = "COMPLETED",
                      U[m].status = "COMPLETED", SameReceipt(U[l], U[m])
               PROVE  l = m
    BY <1>1 DEF CompletedOnce
  <2>1. SameCredit(l, m)
    BY <1>3 DEF SameReceipt, SameCredit
  <2>2. CASE U[l] = l /\ U[m] = m
    BY <1>2, <2>2 DEF Links, CompletedOnce
  <2>3. CASE U[l] # l /\ U[m] # m
    BY <1>2, <1>3, <1>4, <2>1, <2>3 DEF Links, PendingOnce
  <2>4. CASE (U[l] = l) # (U[m] = m)
    BY <1>3, <1>4, <2>4 DEF SameReceipt
  <2> QED
    BY <2>2, <2>3, <2>4
<1>10. ReturnedOnce(K)
  BY <1>1, <1>2, <1>6 DEF Links, ReturnedOnce, SameReceipt, SameCredit
<1>11. Follows(K)
  <2> SUFFICES ASSUME NEW m \in cils, IsReturn(m)
               PROVE  \E l \in K : l.status = "COMPLETED"
                      /\ SameReceipt(l, U[m]) /\ l.group < U[m].group
    BY <1>1, <1>6 DEF Follows
  <2>1. PICK l \in cils : l.status = "COMPLETED" /\ SameReceipt(l, m)
             /\ l.group < m.group
    BY <1>2 DEF Links, Follows
  <2> QED
    BY <1>1, <1>3, <1>6, <2>1 DEF SameReceipt, SameCredit
<1>12. OnePayer(K)
  BY <1>1, <1>2, <1>3 DEF Links, OnePayer, Siblings, SameCredit, Payer
<1>13. \A l, m \in cils : Siblings(U[l], U[m]) => Alike(U[l], U[m])
  <2> SUFFICES ASSUME NEW l \in cils, NEW m \in cils, Siblings(U[l], U[m])
               PROVE  Alike(U[l], U[m])
    OBVIOUS
  <2>1. Siblings(l, m) /\ Alike(l, m)
    BY <1>2, <1>3 DEF Groups, Siblings, SameCredit
  <2> QED
    BY <1>3, <1>4, <2>1 DEF Alike
<1> QED
  BY <1>1, <1>2, <1>3, <1>5, <1>7, <1>8, <1>9, <1>10, <1>11, <1>12, <1>13
     DEF Links, Groups, SameCredit

-----------------------------------------------------------------------------
(* What keeps the invariant.                                               *)

\* A request in progress that the job does not disturb.
GoodLinks(t) == TxnLinks(t) /\ JobLinks(t.cils, t.lastCil) /\ JobNewGroup(t)

\* A step of a request that leads to a good one, or ends it.
LEMMA StepLinks ==
    ASSUME LinksInv, NEW t, t = NoTxn \/ GoodLinks(t), txn' = t,
           UNCHANGED tables, UNCHANGED jobVars
    PROVE  LinksInv'
<1>1. UNCHANGED <<cils, lastCil, lastGroup, job>>
  BY DEF tables, jobVars
<1>2. Links(cils, lastCil)' /\ Groups' /\ JobTodo' /\ JobLinks(cils, lastCil)'
  BY <1>1 DEF LinksInv, Groups, JobTodo, JobLinks
<1>3. CASE t = NoTxn
  BY <1>2, <1>3 DEF LinksInv
<1>4. CASE t # NoTxn
  <2>1. TxnLinks(txn)'
    BY <1>1, <1>4 DEF GoodLinks, TxnLinks, Grouped
  <2>2. JobLinks(txn.cils, txn.lastCil)' /\ JobNewGroup(txn)'
    BY <1>1, <1>4 DEF GoodLinks, JobLinks, JobNewGroup
  <2> QED
    BY <1>2, <2>1, <2>2 DEF LinksInv
<1> QED
  BY <1>3, <1>4

\* Other tables do not matter.
LEMMA LinksKept ==
    ASSUME LinksInv, UNCHANGED <<cils, lastCil, lastGroup, txn, job>>
    PROVE  LinksInv'
<1>1. Links(cils, lastCil)' /\ Groups' /\ JobTodo' /\ JobLinks(cils, lastCil)'
  BY DEF LinksInv, Groups, JobTodo, JobLinks
<1>2. txn # NoTxn => TxnLinks(txn)'
  BY DEF LinksInv, TxnLinks, Grouped
<1>3. txn # NoTxn => JobLinks(txn.cils, txn.lastCil)' /\ JobNewGroup(txn)'
  BY DEF LinksInv, JobLinks, JobNewGroup
<1> QED
  BY <1>1, <1>2, <1>3 DEF LinksInv

\* A step of the job that leaves the links alone.
LEMMA JobStepLinks ==
    ASSUME LinksInv, Idle, UNCHANGED <<cils, lastCil, lastGroup, txn>>,
           JobTodo', JobLinks(cils, lastCil)'
    PROVE  LinksInv'
<1>1. Links(cils, lastCil)' /\ Groups'
  BY DEF LinksInv, Groups
<1> QED
  BY <1>1 DEF LinksInv, Idle

-----------------------------------------------------------------------------
(* The steps of a request that return an amount.                           *)

\* A link that was cancelled, and one that returns x of another.
Undone(l, r, group) ==
    /\ r.id = l.id /\ SameReceipt(l, r) /\ r.amount = l.amount
    /\ r.group = group /\ r.status = "CANCELLED"

ReturnOf(l, r, x) ==
    /\ r.id = txn.lastCil + 1 /\ SameReceipt(l, r) /\ r.amount = x
    /\ r.group = txn.group /\ r.status = txn.mode

\* What a step leaves as it was.
SameWork(t, u) ==
    /\ u.sn = t.sn /\ u.group = t.group /\ u.mode = t.mode
    /\ u.due = t.due /\ u.cur = t.cur

LEMMA RecordedShape ==
    ASSUME IInv, GoodTxn(txn), NEW l \in txn.todo, NEW x \in Nat
    PROVE  \E r \in Cil :
             \/ /\ txn.mode = "CANCEL" /\ Undone(l, r, l.group)
                /\ Recorded(l, x) = (txn.cils \ {l}) \cup {r}
             \/ /\ txn.mode = "REGROUP" /\ Undone(l, r, txn.group)
                /\ Recorded(l, x) = (txn.cils \ {l}) \cup {r}
             \/ /\ Returning(txn) /\ ReturnOf(l, r, x)
                /\ Recorded(l, x) = txn.cils \cup {r}
<1>1. /\ l \in Cil /\ txn.cils \subseteq Cil /\ txn.group \in Nat
      /\ txn.lastCil + 1 \in Nat /\ txn.mode \in ReturnMode
  BY TxnFields DEF GoodTxn
<1>2. {"CANCELLED", "PENDING_REFUND", "REFUNDED"} \subseteq CilStatus
  BY DEF CilStatus
<1>3. CASE txn.mode = "CANCEL"
  <2> DEFINE r == [l EXCEPT !.status = "CANCELLED"]
  <2>1. Recorded(l, x) = (txn.cils \ {l}) \cup {r}
    BY <1>3 DEF Recorded, AddsReturn
  <2>2. r \in Cil /\ Undone(l, r, l.group)
    BY <1>1, <1>2 DEF Cil, Undone, SameReceipt, SameCredit
  <2> QED
    BY <1>3, <2>1, <2>2
<1>4. CASE txn.mode = "REGROUP"
  <2> DEFINE r == [l EXCEPT !.status = "CANCELLED", !.group = txn.group]
  <2>1. Recorded(l, x) = (txn.cils \ {l}) \cup {r}
    BY <1>4 DEF Recorded, AddsReturn
  <2>2. r \in Cil /\ Undone(l, r, txn.group)
    BY <1>1, <1>2 DEF Cil, Undone, SameReceipt, SameCredit
  <2> QED
    BY <1>4, <2>1, <2>2
<1>5. CASE AddsReturn
  <2> DEFINE r == [l EXCEPT !.id = txn.lastCil + 1, !.amount = x,
                            !.group = txn.group, !.status = txn.mode]
  <2>1. Recorded(l, x) = txn.cils \cup {r}
    BY <1>5 DEF Recorded, AddsReturn
  <2>2. txn.mode \in CilStatus
    BY <1>2, <1>5 DEF AddsReturn
  <2>3. r \in Cil /\ ReturnOf(l, r, x)
    BY <1>1, <2>2 DEF Cil, ReturnOf, SameReceipt, SameCredit
  <2>4. Returning(txn)
    BY <1>5 DEF AddsReturn, Returning
  <2> QED
    BY <2>1, <2>3, <2>4
<1> QED
  BY <1>1, <1>3, <1>4, <1>5 DEF ReturnMode, AddsReturn

\* A payment is cancelled: its links stay where they are.
LEMMA CancelsLink ==
    ASSUME IInv, LinksInv, txn # NoTxn, txn.mode = "CANCEL",
           NEW l \in txn.todo, NEW r \in Cil, Undone(l, r, l.group),
           NEW u, SameWork(txn, u), u.todo = txn.todo \ {l},
           u.cils = (txn.cils \ {l}) \cup {r}, u.lastCil = txn.lastCil,
           u.need = txn.need, u.refill = txn.refill,
           \A c \in Credits : c # l.credit => u.rem[c] = txn.rem[c]
    PROVE  GoodLinks(u)
<1> DEFINE t == txn
           L == txn.cils
           K == u.cils
<1>1. /\ L \in SUBSET Cil /\ l \in L /\ l.status = "PENDING"
      /\ t.group \in Nat /\ l.group < t.group
      /\ TxnLinks(t) /\ Links(L, t.lastCil) /\ JobLinks(L, t.lastCil)
      /\ JobNewGroup(t)
  BY TxnFields DEF IInv, GoodTxn, LinksInv, TxnLinks, Todo, Returning
<1>2. /\ r.id = l.id /\ SameReceipt(l, r) /\ r.group = l.group
      /\ r.status = "CANCELLED" /\ r.receipt = NoReceipt /\ r # l
  BY <1>1 DEF Undone, Links, Receipted, SameReceipt
<1>3. \A m \in L \ {l} : Siblings(r, m) => Siblings(l, m) /\ Payer(m) = Payer(r)
  <2> SUFFICES ASSUME NEW m \in L \ {l}, Siblings(r, m)
               PROVE  Siblings(l, m) /\ Payer(m) = Payer(r)
    OBVIOUS
  <2>1. Siblings(l, m)
    BY <1>2 DEF Siblings, SameReceipt, SameCredit
  <2>2. Payer(m) = Payer(l)
    BY <1>1, <2>1 DEF Links, OnePayer
  <2> QED
    BY <1>2, <2>1, <2>2 DEF Payer, SameReceipt, SameCredit
<1>4. Links(K, u.lastCil)
  BY <1>1, <1>2, <1>3, Cancelled
<1>5. \A m \in K : m = r \/ (m \in L /\ m # l)
  OBVIOUS
<1>6. Todo(u)
  BY <1>1, <1>5 DEF TxnLinks, Todo, SameWork, Returning
<1>7. Grouped(u)
  BY <1>1, <1>2, <1>5 DEF TxnLinks, Grouped, SameWork
<1>8. NewGroup(u)
  BY <1>1, <1>2, <1>5 DEF TxnLinks, NewGroup, NewStatus, SameWork
<1>9. Mixed(u)
  <2> SUFFICES ASSUME NEW a \in K, NEW b \in K, Siblings(a, b)
               PROVE  /\ a \notin u.todo /\ b \notin u.todo => Alike(a, b)
                      /\ a \in u.todo /\ b \notin u.todo
                           => b.status = "CANCELLED"
    BY DEF Mixed, SameWork, Returning
  <2>1. ASSUME NEW m \in L, Siblings(l, m), m \notin t.todo
        PROVE  m.status = "CANCELLED" /\ m.receipt = NoReceipt
    BY <1>1, <2>1 DEF TxnLinks, Mixed, Returning, Links, Receipted
  <2>2. CASE a # r /\ b # r
    BY <1>1, <1>5, <2>2 DEF TxnLinks, Mixed, Returning
  <2>3. CASE a = r /\ b # r
    BY <1>2, <1>3, <1>5, <2>1, <2>3 DEF Alike
  <2>4. CASE b = r /\ a # r
    <3>1. Siblings(l, a)
      BY <1>3, <1>5, <2>4 DEF Siblings
    <3> QED
      BY <1>2, <1>5, <2>1, <2>4, <3>1 DEF Alike
  <2>5. CASE a = r /\ b = r
    BY <1>2, <2>5 DEF Alike
  <2> QED
    BY <2>2, <2>3, <2>4, <2>5
<1>10. Ordered(u)
  BY <1>1, <1>2, <1>5 DEF TxnLinks, Ordered, SameWork, SameReceipt, SameCredit
<1>11. Regroups(u) /\ Returns(u)
  BY DEF Regroups, Returns, Returning, SameWork
<1>12. Pays(u)
  <2>1. u.cur # NoInvoice /\ u.need > 0 => l.invoice = u.cur
    BY <1>1 DEF TxnLinks, Pays, SameWork
  <2>2. \A m \in L : m.status = "PENDING" /\ m.invoice = l.invoice /\ m # l
                      => m.credit # l.credit /\ m.credit \in Credits
    BY <1>1, CilFields DEF Links, PendingOnce, SameCredit
  <2>3. ASSUME u.cur # NoInvoice, u.need > 0, NEW m \in K, m.status = "PENDING",
               m.invoice = u.cur, Payer(m) = u.sn
        PROVE  m \in u.todo \/ u.rem[m.credit] = 0
    BY <1>1, <1>2, <1>5, <2>1, <2>2, <2>3 DEF TxnLinks, Pays, SameWork
  <2>4. ASSUME u.cur # NoInvoice, u.need > 0, u.todo # {}, NEW m \in K,
               m.group = u.group
        PROVE  m.invoice # u.cur
    BY <1>1, <1>2, <1>5, <2>4 DEF TxnLinks, Pays, SameWork
  <2> QED
    BY <1>1, <2>3, <2>4 DEF TxnLinks, Pays, SameWork
<1>13. JobLinks(K, u.lastCil)
  <2> SUFFICES ASSUME job.cur # NoItem PROVE JobLinks(K, u.lastCil)
    BY DEF JobLinks
  <2>1. job.phase # "LINK" => l.id \notin job.cur.ids
    BY <1>1 DEF JobLinks
  <2>2. \A a, b \in K : Siblings(a, b)
          => (a.id \in job.cur.ids <=> b.id \in job.cur.ids)
    BY <1>1, <1>2, <1>3, <1>5 DEF JobLinks, Siblings
  <2> QED
    BY <1>1, <1>2, <1>5, <2>1, <2>2 DEF JobLinks
<1>14. JobNewGroup(u)
  BY <1>1, <1>2, <1>5 DEF JobNewGroup, SameWork
<1> QED
  BY <1>4, <1>6, <1>7, <1>8, <1>9, <1>10, <1>11, <1>12, <1>13, <1>14
     DEF GoodLinks, TxnLinks

\* A payment is cancelled for a refund of its invoice: its links move to the new
\* group, one after the other.
LEMMA RegroupsLink ==
    ASSUME IInv, LinksInv, txn # NoTxn, txn.mode = "REGROUP",
           NEW l \in txn.todo, \A k \in txn.todo : l.id <= k.id,
           NEW r \in Cil, Undone(l, r, txn.group),
           NEW u, SameWork(txn, u), u.todo = txn.todo \ {l},
           u.cils = (txn.cils \ {l}) \cup {r}, u.lastCil = txn.lastCil,
           u.need = txn.need, u.refill = txn.refill
    PROVE  GoodLinks(u)
<1> DEFINE t == txn
           L == txn.cils
           K == u.cils
<1>1. /\ L \in SUBSET Cil /\ t.todo \subseteq L /\ l \in L
           /\ l.status = "PENDING"
      /\ t.group \in Nat /\ l.group < t.group /\ lastGroup \in Nat
      /\ TxnLinks(t) /\ Links(L, t.lastCil) /\ JobLinks(L, t.lastCil)
      /\ JobNewGroup(t)
  BY TxnFields DEF IInv, TypeOK, GoodTxn, LinksInv, TxnLinks, Todo, Returning
<1>2. /\ r.id = l.id /\ SameReceipt(l, r) /\ r.group = t.group
      /\ r.status = "CANCELLED" /\ r.receipt = NoReceipt /\ r # l
  BY <1>1 DEF Undone, Links, Receipted, SameReceipt
<1>3. \A m \in L : m.id \in Nat /\ m.group \in Nat /\ (m.id = l.id => m = l)
  BY <1>1, CilFields DEF Links, Numbered
<1>4. \A k \in t.todo : /\ k.group < t.group /\ k.status = "PENDING"
                        /\ k.receipt = NoReceipt /\ k # r
  BY <1>1, <1>2 DEF TxnLinks, Todo, Returning, Links, Receipted
<1>5. /\ \A k \in t.todo : Siblings(l, k) /\ Payer(k) = Payer(l)
      /\ Payer(r) = Payer(l)
  <2>1. \A k \in t.todo : Siblings(l, k)
    BY <1>1 DEF TxnLinks, Regroups
  <2> QED
    BY <1>1, <1>2, <2>1 DEF Links, OnePayer, Payer, SameReceipt, SameCredit
\* The links that are in the new group already.
<1>6. \A m \in L : Siblings(r, m) =>
        /\ m.status = "CANCELLED" /\ m.receipt = NoReceipt
             /\ Payer(m) = Payer(r)
        /\ m.invoice = l.invoice /\ m.group = t.group /\ m \notin t.todo
  <2> SUFFICES ASSUME NEW m \in L, Siblings(r, m)
               PROVE  /\ m.status = "CANCELLED" /\ m.receipt = NoReceipt
                           /\ Payer(m) = Payer(r)
                      /\ m.invoice = l.invoice /\ m.group = t.group
                           /\ m \notin t.todo
    OBVIOUS
  <2>1. m.invoice = l.invoice /\ m.group = t.group
    BY <1>2 DEF Siblings, SameReceipt, SameCredit
  <2>2. m.status = "CANCELLED" /\ Payer(l) = Payer(m)
    BY <1>1, <2>1 DEF TxnLinks, NewGroup, NewStatus
  <2>3. m.receipt = NoReceipt
    BY <1>1, <2>2 DEF Links, Receipted
  <2> QED
    BY <1>4, <1>5, <2>1, <2>2, <2>3
<1>7. Links(K, u.lastCil)
  BY <1>1, <1>2, <1>6, Cancelled
<1>8. \A m \in K : m = r \/ (m \in L /\ m # l)
  OBVIOUS
<1>9. Todo(u)
  BY <1>1, <1>8 DEF TxnLinks, Todo, SameWork, Returning
<1>10. Grouped(u)
  BY <1>1, <1>2, <1>8 DEF TxnLinks, Grouped, SameWork
<1>11. NewGroup(u)
  <2> SUFFICES ASSUME NEW m \in K, m.group = t.group
               PROVE  /\ m.status = "CANCELLED" /\ m.invoice \notin u.due
                      /\ \A k \in u.todo : k.invoice = m.invoice
                           => k.receipt = m.receipt /\ Payer(k) = Payer(m)
    BY DEF NewGroup, NewStatus, SameWork
  <2>1. CASE m = r
    BY <1>1, <1>2, <1>4, <1>5, <2>1 DEF TxnLinks, Pays, SameWork
  <2>2. CASE m # r
    BY <1>1, <1>8, <2>2 DEF TxnLinks, NewGroup, NewStatus, SameWork
  <2> QED
    BY <2>1, <2>2
<1>12. Mixed(u)
  <2> SUFFICES ASSUME NEW a \in K, NEW b \in K, Siblings(a, b)
               PROVE  /\ a \notin u.todo /\ b \notin u.todo => Alike(a, b)
                      /\ a \in u.todo /\ b \notin u.todo
                           => b.status = "CANCELLED"
    BY DEF Mixed, SameWork, Returning
  <2>1. CASE a # r /\ b # r
    BY <1>1, <1>8, <2>1 DEF TxnLinks, Mixed, Returning
  <2>2. CASE a = r /\ b # r
    BY <1>2, <1>4, <1>6, <1>8, <2>2 DEF Alike
  <2>3. CASE b = r /\ a # r
    <3>1. Siblings(r, a)
      BY <2>3 DEF Siblings
    <3> QED
      BY <1>2, <1>4, <1>6, <1>8, <2>3, <3>1 DEF Alike
  <2>4. CASE a = r /\ b = r
    BY <1>2, <1>4, <2>4 DEF Alike
  <2> QED
    BY <2>1, <2>2, <2>3, <2>4
<1>13. Ordered(u)
  <2> SUFFICES ASSUME NEW a \in K, NEW b \in K, a.invoice = b.invoice,
                      a.id < b.id
               PROVE  a.group <= b.group \/ b \in u.todo
    BY DEF Ordered, SameWork
  <2>1. CASE a # r /\ b # r
    BY <1>1, <1>8, <2>1 DEF TxnLinks, Ordered
  <2>2. CASE a = r /\ b # r
    <3>1. b \in L /\ l.invoice = b.invoice /\ l.id < b.id
      BY <1>2, <1>8, <2>2 DEF SameReceipt, SameCredit
    <3>2. b \in t.todo
      BY <1>1, <3>1 DEF TxnLinks, Regroups
    <3> QED
      BY <1>8, <2>2, <3>2
  <2>3. CASE b = r /\ a # r
    <3>1. a.group <= lastGroup /\ lastGroup <= t.group
      BY <1>1, <1>8, <2>3 DEF TxnLinks, Grouped
    <3> QED
      BY <1>1, <1>2, <1>3, <1>8, <2>3, <3>1
  <2>4. CASE a = r /\ b = r
    BY <1>1, <1>2, <2>4
  <2> QED
    BY <2>1, <2>2, <2>3, <2>4
<1>14. Regroups(u)
  <2>1. ASSUME NEW a \in u.todo, NEW m \in K, a.invoice = m.invoice, a.id < m.id
        PROVE  m \in u.todo
    <3>1. CASE m = r
      BY <1>1, <1>2, <1>3, <2>1, <3>1
    <3>2. CASE m # r
      BY <1>1, <1>8, <2>1, <3>2 DEF TxnLinks, Regroups
    <3> QED
      BY <3>1, <3>2
  <2> QED
    BY <1>1, <2>1 DEF TxnLinks, Regroups
<1>15. Returns(u) /\ Pays(u)
  BY <1>1 DEF TxnLinks, Returns, Pays, Returning, SameWork
<1>16. JobLinks(K, u.lastCil)
  <2> SUFFICES ASSUME job.cur # NoItem PROVE JobLinks(K, u.lastCil)
    BY DEF JobLinks
  <2>1. job.phase # "LINK" => l.id \notin job.cur.ids
    BY <1>1 DEF JobLinks
  <2>2. \A m \in L : Siblings(r, m)
          => (r.id \in job.cur.ids <=> m.id \in job.cur.ids)
    BY <1>1, <1>2, <1>6 DEF JobNewGroup
  <2>3. \A a, b \in K : Siblings(a, b)
          => (a.id \in job.cur.ids <=> b.id \in job.cur.ids)
    <3> SUFFICES ASSUME NEW a \in K, NEW b \in K, Siblings(a, b)
                 PROVE  a.id \in job.cur.ids <=> b.id \in job.cur.ids
      OBVIOUS
    <3>1. CASE a # r /\ b # r
      BY <1>1, <1>8, <3>1 DEF JobLinks
    <3>2. CASE b = r /\ a # r
      <4>1. Siblings(r, a)
        BY <3>2 DEF Siblings
      <4> QED
        BY <1>8, <2>2, <3>2, <4>1
    <3>3. CASE a = r
      BY <1>8, <2>2, <3>3
    <3> QED
      BY <3>1, <3>2, <3>3
  <2> QED
    BY <1>1, <1>2, <1>8, <2>1, <2>3 DEF JobLinks
<1>17. JobNewGroup(u)
  <2> SUFFICES ASSUME job.cur # NoItem, NEW m \in K, m.group = t.group,
                      NEW k \in u.todo, k.invoice = m.invoice
               PROVE  k.id \in job.cur.ids <=> m.id \in job.cur.ids
    BY DEF JobNewGroup, SameWork
  <2>1. CASE m = r
    BY <1>1, <1>2, <1>5, <2>1 DEF JobLinks
  <2>2. CASE m # r
    BY <1>1, <1>8, <2>2 DEF JobNewGroup
  <2> QED
    BY <2>1, <2>2
<1> QED
  BY <1>7, <1>9, <1>10, <1>11, <1>12, <1>13, <1>14, <1>15, <1>16, <1>17
     DEF GoodLinks, TxnLinks

\* A completed link is returned by a link of the new group.
LEMMA ReturnsLink ==
    ASSUME IInv, LinksInv, txn # NoTxn, Returning(txn),
           NEW l \in txn.todo, NEW x, NEW r \in Cil, ReturnOf(l, r, x),
           NEW u, SameWork(txn, u), u.todo = txn.todo \ {l},
           u.cils = txn.cils \cup {r}, u.lastCil = txn.lastCil + 1,
           u.need = txn.need, u.refill = txn.refill
    PROVE  GoodLinks(u)
<1> DEFINE t == txn
           L == txn.cils
           K == u.cils
<1>1. /\ L \in SUBSET Cil /\ t.todo \subseteq L /\ l \in L
           /\ l.status = "COMPLETED"
      /\ t.group \in Nat /\ l.group < t.group /\ lastGroup \in Nat
           /\ t.lastCil \in Nat
      /\ TxnLinks(t) /\ Links(L, t.lastCil) /\ JobLinks(L, t.lastCil)
      /\ JobNewGroup(t) /\ t.mode \notin {"CANCEL", "REGROUP"}
  BY TxnFields DEF IInv, TypeOK, GoodTxn, LinksInv, TxnLinks, Todo, Returning
<1>2. /\ r.id = t.lastCil + 1 /\ SameReceipt(l, r) /\ r.group = t.group
      /\ r.status = t.mode /\ IsReturn(r) /\ r.invoice = l.invoice
      /\ Payer(r) = Payer(l)
  BY DEF ReturnOf, Returning, IsReturn, SameReceipt, SameCredit, Payer
<1>3. \A m \in L : /\ m.id \in Nat /\ m.id <= t.lastCil /\ m.group \in Nat
                   /\ m.group <= t.group /\ m # r
  BY <1>1, <1>2, CilFields DEF Links, Numbered, TxnLinks, Grouped
\* The links that are in the new group already.
<1>4. \A m \in L : Siblings(r, m) =>
        /\ m.status = t.mode /\ m.receipt = r.receipt /\ Payer(m) = Payer(r)
        /\ m.group = t.group
  <2> SUFFICES ASSUME NEW m \in L, Siblings(r, m)
               PROVE  /\ m.status = t.mode /\ m.receipt = r.receipt
                      /\ Payer(m) = Payer(r) /\ m.group = t.group
    OBVIOUS
  <2>1. m.invoice = l.invoice /\ m.group = t.group
    BY <1>2 DEF Siblings
  <2>2. m.status = NewStatus(t) /\ l.receipt = m.receipt /\ Payer(l) = Payer(m)
    BY <1>1, <2>1 DEF TxnLinks, NewGroup
  <2>3. NewStatus(t) = t.mode
    BY <1>1 DEF NewStatus
  <2> QED
    BY <1>2, <2>1, <2>2, <2>3 DEF SameReceipt
<1>5. Links(K, u.lastCil)
  <2>1. \A m \in L : IsReturn(m) => ~SameReceipt(l, m)
    BY <1>1 DEF TxnLinks, Returns
  <2> QED
    BY <1>1, <1>2, <1>4, <2>1, Returned
<1>6. \A m \in K : m = r \/ m \in L
  OBVIOUS
<1>7. Todo(u)
  BY <1>1 DEF TxnLinks, Todo, SameWork, Returning
<1>8. Grouped(u)
  BY <1>1, <1>2, <1>6 DEF TxnLinks, Grouped, SameWork
<1>9. NewGroup(u)
  <2>1. NewStatus(u) = t.mode /\ NewStatus(t) = t.mode
    BY <1>1 DEF NewStatus, SameWork
  <2> SUFFICES ASSUME NEW m \in K, m.group = t.group
               PROVE  /\ m.status = t.mode /\ m.invoice \notin u.due
                      /\ \A k \in u.todo : k.invoice = m.invoice
                           => k.receipt = m.receipt /\ Payer(k) = Payer(m)
    BY <1>1, <2>1 DEF NewGroup, SameWork
  <2>2. CASE m = r
    <3>1. ASSUME NEW k \in t.todo, k.invoice = r.invoice
          PROVE  k.receipt = r.receipt /\ Payer(k) = Payer(r)
      <4>1. Siblings(k, l)
        BY <1>1, <1>2, <3>1 DEF TxnLinks, Returns, Siblings
      <4>2. Alike(k, l) /\ Payer(k) = Payer(l)
        BY <1>1, <4>1 DEF TxnLinks, Mixed, Links, OnePayer
      <4> QED
        BY <1>2, <4>2 DEF Alike, SameReceipt
    <3> QED
      BY <1>1, <1>2, <2>2, <3>1 DEF TxnLinks, Pays, SameWork
  <2>3. CASE m # r
    BY <1>1, <1>6, <2>1, <2>3 DEF TxnLinks, NewGroup, SameWork
  <2> QED
    BY <2>2, <2>3
<1>10. Mixed(u)
  <2> SUFFICES ASSUME NEW a \in K, NEW b \in K, Siblings(a, b)
               PROVE  Alike(a, b)
    BY DEF Mixed, SameWork, Returning
  <2>1. CASE a # r /\ b # r
    BY <1>1, <1>6, <2>1 DEF TxnLinks, Mixed
  <2>2. CASE a = r /\ b # r
    BY <1>2, <1>4, <1>6, <2>2 DEF Alike
  <2>3. CASE b = r /\ a # r
    <3>1. Siblings(r, a)
      BY <2>3 DEF Siblings
    <3> QED
      BY <1>2, <1>4, <1>6, <2>3, <3>1 DEF Alike
  <2>4. CASE a = r /\ b = r
    BY <2>4 DEF Alike
  <2> QED
    BY <2>1, <2>2, <2>3, <2>4
<1>11. Ordered(u)
  BY <1>1, <1>2, <1>3, <1>6 DEF TxnLinks, Ordered, SameWork
<1>12. Regroups(u) /\ Pays(u)
  BY <1>1 DEF TxnLinks, Regroups, Pays, SameWork
<1>13. Returns(u)
  <2>1. ASSUME NEW k \in u.todo, NEW m \in K, IsReturn(m)
        PROVE  ~SameReceipt(k, m)
    <3>1. CASE m = r
      <4>1. k.status = "COMPLETED" /\ k # l /\ k \in L
        BY <1>1 DEF TxnLinks, Todo
      <4>2. ~SameReceipt(k, l)
        BY <1>1, <4>1 DEF Links, CompletedOnce
      <4> QED
        BY <1>2, <3>1, <4>2 DEF SameReceipt, SameCredit
    <3>2. CASE m # r
      BY <1>1, <1>6, <2>1, <3>2 DEF TxnLinks, Returns
    <3> QED
      BY <3>1, <3>2
  <2> QED
    BY <1>1, <2>1 DEF TxnLinks, Returns
<1>14. \A m \in L : job.cur # NoItem /\ Siblings(r, m)
         => m.id \notin job.cur.ids
  BY <1>1, <1>4 DEF JobNewGroup
<1>15. job.cur # NoItem
         => r.id \notin job.cur.ids /\ \A n \in job.cur.ids : n <= u.lastCil
  <2>1. job.cur # NoItem => \A n \in job.cur.ids : n \in Nat /\ n <= t.lastCil
    BY <1>1, JobTables DEF JobLinks, Job, Item
  <2> QED
    BY <1>1, <1>2, <2>1
<1>16. JobLinks(K, u.lastCil)
  <2> SUFFICES ASSUME job.cur # NoItem PROVE JobLinks(K, u.lastCil)
    BY DEF JobLinks
  <2>1. \A a, b \in K : Siblings(a, b)
          => (a.id \in job.cur.ids <=> b.id \in job.cur.ids)
    <3> SUFFICES ASSUME NEW a \in K, NEW b \in K, Siblings(a, b)
                 PROVE  a.id \in job.cur.ids <=> b.id \in job.cur.ids
      OBVIOUS
    <3>1. CASE a # r /\ b # r
      BY <1>1, <1>6, <3>1 DEF JobLinks
    <3>2. CASE b = r /\ a # r
      <4>1. Siblings(r, a)
        BY <3>2 DEF Siblings
      <4> QED
        BY <1>6, <1>14, <1>15, <3>2, <4>1
    <3>3. CASE a = r
      BY <1>6, <1>14, <1>15, <3>3
    <3> QED
      BY <3>1, <3>2, <3>3
  <2>2. r.status # "COMPLETED"
    BY <1>2 DEF IsReturn
  <2> QED
    BY <1>1, <1>6, <1>15, <2>1, <2>2 DEF JobLinks
<1>17. JobNewGroup(u)
  BY <1>1, <1>6, <1>15 DEF JobNewGroup, SameWork
<1> QED
  BY <1>5, <1>7, <1>8, <1>9, <1>10, <1>11, <1>12, <1>13, <1>16, <1>17
     DEF GoodLinks, TxnLinks

LEMMA ReturnCreditLinks ==
    ASSUME IInv, LinksInv, txn.open, ReturnCredit, UNCHANGED jobVars
    PROVE  LinksInv'
<1>1. GoodTxn(txn) /\ txn \in Txn /\ txn # NoTxn
  BY OpenIsGood DEF GoodTxn, NoTxn
<1>2. CASE Rollback
  BY <1>2, StepLinks DEF Rollback
<1>3. CASE ~ Rollback
  <2>1. PICK u, l, x :
          /\ l \in txn.todo /\ \A k \in txn.todo : l.id <= k.id
          /\ x \in Nat
          /\ u = PutBack(txn, txn.todo \ {l}, l.credit,
                         txn.rem[l.credit] + x, Recorded(l, x),
                         IF AddsReturn THEN txn.lastCil + 1
                         ELSE txn.lastCil)
          /\ txn' = u /\ UNCHANGED tables
    BY <1>3, ReturnCreditSteps
  <2> DEFINE todo == txn.todo \ {l}
             c == l.credit
             amount == txn.rem[c] + x
             L == Recorded(l, x)
             last == IF AddsReturn THEN txn.lastCil + 1 ELSE txn.lastCil
  <2>2. /\ c \in Credits /\ todo \in SUBSET Cil /\ last \in Nat
             /\ amount \in Nat
        /\ L \in SUBSET Cil /\ txn.rem \in [Credits -> Nat]
    <3>1. /\ c \in Credits /\ todo \in SUBSET Cil /\ last \in Nat
          /\ txn.rem \in [Credits -> Nat]
      BY <1>1, <2>1, TxnFields, CilFields DEF GoodTxn
    <3>2. L \in SUBSET Cil
      BY <1>1, <2>1, RecordedType
    <3>3. txn.rem[c] \in Nat
      BY <3>1
    <3>4. amount \in Nat
      BY <2>1, <3>3
    <3> QED
      BY <3>1, <3>2, <3>4
  <2>3. u = PutBack(txn, todo, c, amount, L, last)
    BY <2>1
  <2> HIDE DEF todo, c, amount, last
  <2>4. /\ SameWork(txn, u) /\ u.todo = todo /\ u.cils = L /\ u.lastCil = last
        /\ u.need = txn.need /\ u.refill = txn.refill
        /\ u.rem = [txn.rem EXCEPT ![c] = amount]
    <3> HIDE DEF L
    <3> QED
      BY <1>1, <2>2, <2>3, PutBackType DEF SameWork
  <2>5. \A d \in Credits : d # c => u.rem[d] = txn.rem[d]
    BY <2>2, <2>4
  <2>6. PICK r \in Cil :
          \/ /\ txn.mode = "CANCEL" /\ Undone(l, r, l.group)
             /\ Recorded(l, x) = (txn.cils \ {l}) \cup {r}
          \/ /\ txn.mode = "REGROUP" /\ Undone(l, r, txn.group)
             /\ Recorded(l, x) = (txn.cils \ {l}) \cup {r}
          \/ /\ Returning(txn) /\ ReturnOf(l, r, x)
             /\ Recorded(l, x) = txn.cils \cup {r}
    BY <1>1, <2>1, RecordedShape
  <2>7. GoodLinks(u)
    <3>1. CASE txn.mode = "CANCEL"
      <4>1. Undone(l, r, l.group) /\ u.cils = (txn.cils \ {l}) \cup {r}
        BY <2>4, <2>6, <3>1 DEF Returning
      <4>2. u.lastCil = txn.lastCil
        BY <2>4, <3>1 DEF last, AddsReturn
      <4>3. u.todo = txn.todo \ {l}
        BY <2>4 DEF todo
      <4>4. \A d \in Credits : d # l.credit => u.rem[d] = txn.rem[d]
        BY <2>5 DEF c
      <4>5. SameWork(txn, u) /\ u.need = txn.need /\ u.refill = txn.refill
        BY <2>4
      <4>6. l \in txn.todo /\ txn # NoTxn
        BY <1>1, <2>1
      <4> QED
        BY <3>1, <4>1, <4>2, <4>3, <4>4, <4>5, <4>6, CancelsLink
    <3>2. CASE txn.mode = "REGROUP"
      <4>1. Undone(l, r, txn.group) /\ u.cils = (txn.cils \ {l}) \cup {r}
        BY <2>4, <2>6, <3>2 DEF Returning
      <4>2. u.lastCil = txn.lastCil
        BY <2>4, <3>2 DEF last, AddsReturn
      <4> QED
        BY <1>1, <2>1, <2>4, <3>2, <4>1, <4>2, RegroupsLink DEF todo
    <3>3. CASE Returning(txn)
      <4>1. ReturnOf(l, r, x) /\ u.cils = txn.cils \cup {r}
        BY <2>4, <2>6, <3>3 DEF Returning
      <4>2. u.lastCil = txn.lastCil + 1
        BY <2>4, <3>3 DEF last, AddsReturn, Returning
      <4> QED
        BY <1>1, <2>1, <2>4, <3>3, <4>1, <4>2, ReturnsLink DEF todo
    <3> QED
      BY <2>6, <3>1, <3>2, <3>3
  <2> QED
    BY <2>1, <2>7, StepLinks
<1> QED
  BY <1>2, <1>3

-----------------------------------------------------------------------------
(* The steps of a request that pay.                                        *)

\* The links of a request that are left alone keep what does not depend on its
\* work.
LEMMA SameLinks ==
    ASSUME LinksInv, txn # NoTxn,
           NEW u, SameWork(txn, u), u.todo = txn.todo, u.cils = txn.cils,
           u.lastCil = txn.lastCil, Pays(u)
    PROVE  GoodLinks(u)
<1> USE DEF SameWork, Returning
<1>1. TxnLinks(txn) /\ JobLinks(txn.cils, txn.lastCil) /\ JobNewGroup(txn)
  BY DEF LinksInv
<1>2. Links(u.cils, u.lastCil) /\ JobLinks(u.cils, u.lastCil) /\ JobNewGroup(u)
  BY <1>1 DEF TxnLinks, JobNewGroup
<1>3. Todo(u) /\ Grouped(u) /\ NewGroup(u)
  BY <1>1 DEF TxnLinks, Todo, Grouped, NewGroup, NewStatus
<1>4. Mixed(u) /\ Ordered(u) /\ Regroups(u) /\ Returns(u)
  BY <1>1 DEF TxnLinks, Mixed, Ordered, Regroups, Returns
<1> QED
  BY <1>2, <1>3, <1>4 DEF GoodLinks, TxnLinks

\* The request turns to the next invoice, and to its pending links.
LEMMA NextInvoiceLinks ==
    ASSUME IInv, LinksInv, txn.open, NextInvoice, UNCHANGED jobVars
    PROVE  LinksInv'
<1> DEFINE t == txn
           L == txn.cils
<1>1. GoodTxn(t) /\ t \in Txn /\ t # NoTxn
  BY OpenIsGood DEF GoodTxn, NoTxn
<1>2. PICK u, i :
        /\ i \in t.due
        /\ u.due = t.due \ {i} /\ u.cur = i
        /\ u.todo = PendingLinks(L, t.sn, i)
        /\ u.cils = L /\ u.lastCil = t.lastCil
        /\ u.sn = t.sn /\ u.group = t.group /\ u.mode = t.mode
        /\ u.refill = t.refill /\ txn' = u /\ UNCHANGED tables
  BY NextInvoiceSteps
<1>3. /\ TxnLinks(t) /\ Links(L, t.lastCil) /\ JobLinks(L, t.lastCil)
           /\ JobNewGroup(t)
      /\ t.todo = {} /\ t.mode = "CANCEL" /\ t.refill = 0
      /\ L \in SUBSET Cil /\ t.group \in Nat /\ lastGroup \in Nat
  <2>1. TxnLinks(t) /\ JobLinks(L, t.lastCil) /\ JobNewGroup(t) /\ t.todo = {}
    BY <1>1 DEF LinksInv, NextInvoice
  <2>2. t.mode = "CANCEL" /\ t.refill = 0
    BY <1>2, <2>1 DEF TxnLinks, Pays
  <2> QED
    BY <1>1, <2>1, <2>2, TxnFields DEF TxnLinks, IInv, TypeOK
<1>4. \A m \in L : /\ m.group \in Nat /\ m.group <= t.group
                   /\ m.invoice = i => m.group < t.group
  BY <1>2, <1>3, CilFields DEF TxnLinks, Grouped, NewGroup
<1>5. Todo(u)
  BY <1>2, <1>3, <1>4 DEF Todo, PendingLinks, Returning
<1>6. Grouped(u)
  BY <1>2, <1>3 DEF TxnLinks, Grouped
<1>7. NewGroup(u)
  BY <1>2, <1>3, <1>4 DEF TxnLinks, NewGroup, NewStatus, PendingLinks
<1>8. Mixed(u)
  <2>1. \A a, b \in L : Siblings(a, b) => Alike(a, b) /\ Payer(a) = Payer(b)
    BY <1>3 DEF TxnLinks, Mixed, Links, OnePayer
  <2>2. ASSUME NEW a \in L, NEW b \in L, Siblings(a, b), a \in u.todo
        PROVE  b \in u.todo
    BY <1>2, <2>1, <2>2 DEF PendingLinks, Alike, Siblings, Payer
  <2> QED
    BY <1>2, <1>3, <2>1, <2>2 DEF Mixed, Returning
<1>9. Ordered(u) /\ Regroups(u) /\ Returns(u)
  BY <1>2, <1>3 DEF TxnLinks, Ordered, Regroups, Returns, Returning
<1>10. Pays(u)
  <2>1. \A m \in L : m.status = "PENDING" /\ m.invoice = u.cur
        /\ Payer(m) = u.sn
                     => m \in u.todo
    BY <1>2 DEF PendingLinks, Payer
  <2>2. \A m \in L : m.group = u.group => m.invoice # u.cur
    BY <1>2, <1>4
  <2>3. \A m \in u.todo : m.invoice = u.cur
    BY <1>2 DEF PendingLinks
  <2>4. u.mode = "CANCEL" /\ u.refill = 0 /\ u.cur \notin u.due /\ u.cils = L
    BY <1>2, <1>3
  <2> QED
    BY <2>1, <2>2, <2>3, <2>4 DEF Pays
<1>11. JobLinks(u.cils, u.lastCil) /\ JobNewGroup(u)
  BY <1>2, <1>3 DEF JobNewGroup
<1>12. GoodLinks(u)
  BY <1>2, <1>3, <1>5, <1>6, <1>7, <1>8, <1>9, <1>10, <1>11
     DEF GoodLinks, TxnLinks
<1> QED
  BY <1>2, <1>12, StepLinks

\* A credit pays an invoice with a link of the new group.
LEMMA PaysLink ==
    ASSUME IInv, LinksInv, GoodTxn(txn), txn # NoTxn, txn.todo = {},
           txn.cur # NoInvoice, txn.need > 0,
           NEW c \in CreditsOf(txn.sn), txn.rem[c] > 0,
           NEW r \in Cil, r.id = txn.lastCil + 1, r.invoice = txn.cur,
           r.credit = c,
           r.group = txn.group, r.receipt = NoReceipt, r.status = "PENDING",
           NEW u, SameWork(txn, u), u.todo = {}, u.refill = txn.refill,
           u.cils = txn.cils \cup {r}, u.lastCil = txn.lastCil + 1,
           u.need > 0 => u.rem[c] = 0,
           \A d \in Credits : d # c => u.rem[d] = txn.rem[d]
    PROVE  GoodLinks(u)
<1> DEFINE t == txn
           L == txn.cils
           K == u.cils
<1>1. /\ L \in SUBSET Cil /\ t.group \in Nat /\ lastGroup \in Nat
           /\ t.lastCil \in Nat
      /\ TxnLinks(t) /\ Links(L, t.lastCil) /\ JobLinks(L, t.lastCil)
      /\ JobNewGroup(t) /\ t.mode = "CANCEL" /\ t.refill = 0
      /\ t.need \in Nat
  <2>1. TxnLinks(t) /\ JobLinks(L, t.lastCil) /\ JobNewGroup(t)
    BY DEF LinksInv
  <2>2. /\ L \in SUBSET Cil /\ t.group \in Nat /\ t.lastCil \in Nat
             /\ t.need \in Nat
        /\ lastGroup \in Nat
    BY TxnFields DEF GoodTxn, IInv, TypeOK
  <2>3. t.mode = "CANCEL" /\ t.refill = 0
    BY <2>1, <2>2 DEF TxnLinks, Pays
  <2> QED
    BY <2>1, <2>2, <2>3 DEF TxnLinks
<1>2. \A m \in L : /\ m.id \in Nat /\ m.id <= t.lastCil /\ m.group \in Nat
                   /\ m.group <= t.group /\ m # r
  BY <1>1, CilFields DEF Links, Numbered, TxnLinks, Grouped
<1>3. Payer(r) = t.sn /\ c \in Credits
  BY DEF CreditsOf, Payer
<1>4. \A m \in L : Siblings(r, m) =>
        m.status = "PENDING" /\ m.receipt = NoReceipt /\ Payer(m) = t.sn
        /\ m.group = t.group
  <2> SUFFICES ASSUME NEW m \in L, Siblings(r, m)
               PROVE  /\ m.status = "PENDING" /\ m.receipt = NoReceipt
                      /\ Payer(m) = t.sn /\ m.group = t.group
    OBVIOUS
  <2>1. m.status = "PENDING" /\ Payer(m) = t.sn /\ m.group = t.group
    BY <1>1 DEF TxnLinks, NewGroup, NewStatus, Siblings
  <2> QED
    BY <1>1, <2>1 DEF Links, Receipted
<1>5. \A m \in L : m.status = "PENDING" => ~SameCredit(r, m)
  <2> SUFFICES ASSUME NEW m \in L, m.status = "PENDING", SameCredit(r, m)
               PROVE  FALSE
    OBVIOUS
  <2>1. m.invoice = t.cur /\ m.credit = c /\ Payer(m) = t.sn
    BY <1>3 DEF SameCredit, Payer
  <2>2. t.rem[m.credit] = 0
    BY <1>1, <2>1 DEF TxnLinks, Pays
  <2> QED
    BY <2>1, <2>2
<1>6. Links(K, u.lastCil)
  BY <1>1, <1>3, <1>4, <1>5, Taken
<1>7. \A m \in K : m = r \/ m \in L
  OBVIOUS
<1>8. Todo(u) /\ Grouped(u)
  BY <1>1, <1>7 DEF TxnLinks, Todo, Grouped, SameWork
<1>9. NewGroup(u)
  <2>1. r.invoice \notin u.due
    BY <1>1 DEF TxnLinks, Pays, SameWork
  <2> QED
    BY <1>1, <1>3, <1>7, <2>1 DEF TxnLinks, NewGroup, NewStatus, SameWork
<1>10. Mixed(u)
  <2> SUFFICES ASSUME NEW a \in K, NEW b \in K, Siblings(a, b)
               PROVE  Alike(a, b)
    BY DEF Mixed, SameWork, Returning
  <2>1. CASE a # r /\ b # r
    BY <1>1, <1>7, <2>1 DEF TxnLinks, Mixed
  <2>2. CASE a = r /\ b # r
    BY <1>4, <1>7, <2>2 DEF Alike
  <2>3. CASE b = r /\ a # r
    <3>1. Siblings(r, a)
      BY <2>3 DEF Siblings
    <3> QED
      BY <1>4, <1>7, <2>3, <3>1 DEF Alike
  <2>4. CASE a = r /\ b = r
    BY <2>4 DEF Alike
  <2> QED
    BY <2>1, <2>2, <2>3, <2>4
<1>11. Ordered(u)
  BY <1>1, <1>2, <1>7 DEF TxnLinks, Ordered, SameWork
<1>12. Regroups(u) /\ Returns(u)
  BY <1>1 DEF Regroups, Returns, SameWork, Returning
<1>13. Pays(u)
  <2>1. ASSUME u.need > 0, NEW m \in K, m.status = "PENDING",
               m.invoice = u.cur, Payer(m) = u.sn
        PROVE  u.rem[m.credit] = 0
    <3>1. CASE m = r
      BY <2>1, <3>1
    <3>2. CASE m # r
      <4>1. m \in L /\ m.credit \in Credits
        BY <1>1, <1>7, <3>2, CilFields
      <4>2. t.rem[m.credit] = 0
        BY <1>1, <2>1, <4>1 DEF TxnLinks, Pays, SameWork
      <4>3. m.credit # c
        BY <4>2
      <4> QED
        BY <4>1, <4>2, <4>3
    <3> QED
      BY <3>1, <3>2
  <2>2. u.cur \notin u.due /\ u.mode = "CANCEL" /\ u.refill = 0
    BY <1>1 DEF TxnLinks, Pays, SameWork
  <2> QED
    BY <2>1, <2>2 DEF Pays
<1>14. \A m \in L : job.cur # NoItem /\ Siblings(r, m)
         => m.id \notin job.cur.ids
  BY <1>1, <1>4 DEF JobNewGroup
<1>15. job.cur # NoItem
         => r.id \notin job.cur.ids /\ \A n \in job.cur.ids : n <= u.lastCil
  <2>1. job.cur # NoItem => \A n \in job.cur.ids : n \in Nat /\ n <= t.lastCil
    BY <1>1, JobTables DEF JobLinks, Job, Item
  <2> QED
    BY <1>1, <2>1
<1>16. JobLinks(K, u.lastCil)
  <2> SUFFICES ASSUME job.cur # NoItem PROVE JobLinks(K, u.lastCil)
    BY DEF JobLinks
  <2>1. \A a, b \in K : Siblings(a, b)
          => (a.id \in job.cur.ids <=> b.id \in job.cur.ids)
    <3> SUFFICES ASSUME NEW a \in K, NEW b \in K, Siblings(a, b)
                 PROVE  a.id \in job.cur.ids <=> b.id \in job.cur.ids
      OBVIOUS
    <3>1. CASE a # r /\ b # r
      BY <1>1, <1>7, <3>1 DEF JobLinks
    <3>2. CASE b = r /\ a # r
      <4>1. Siblings(r, a)
        BY <3>2 DEF Siblings
      <4> QED
        BY <1>7, <1>14, <1>15, <3>2, <4>1
    <3>3. CASE a = r
      BY <1>7, <1>14, <1>15, <3>3
    <3> QED
      BY <3>1, <3>2, <3>3
  <2> QED
    BY <1>1, <1>7, <1>15, <2>1 DEF JobLinks
<1>17. JobNewGroup(u)
  BY <1>1, <1>7, <1>15 DEF JobNewGroup, SameWork
<1> QED
  BY <1>6, <1>8, <1>9, <1>10, <1>11, <1>12, <1>13, <1>16, <1>17
     DEF GoodLinks, TxnLinks

\* A credit pays, or the request gives the invoice up.
LEMMA TakeCreditLinks ==
    ASSUME IInv, LinksInv, txn.open, TakeCredit, UNCHANGED jobVars
    PROVE  LinksInv'
<1>1. GoodTxn(txn) /\ txn \in Txn /\ txn # NoTxn
  BY OpenIsGood DEF GoodTxn, NoTxn
<1>2. txn.todo = {} /\ txn.need > 0 /\ UNCHANGED tables
  BY TakeCreditSteps
<1>3. Pays(txn) /\ txn.mode = "CANCEL" /\ txn.refill = 0
  <2>1. Pays(txn)
    BY <1>1 DEF LinksInv, TxnLinks
  <2>2. txn.need # 0
    BY <1>2
  <2> QED
    BY <2>1, <2>2 DEF Pays
<1>4. CASE txn' = [txn EXCEPT !.need = 0]
  <2> DEFINE u == [txn EXCEPT !.need = 0]
  <2>1. /\ SameWork(txn, u) /\ u.todo = txn.todo /\ u.cils = txn.cils
        /\ u.lastCil = txn.lastCil /\ u.need = 0 /\ u.refill = txn.refill
    BY <1>1 DEF Txn, SameWork
  <2> HIDE DEF u
  <2>2. Pays(u)
    BY <1>3, <2>1 DEF Pays, SameWork
  <2>3. GoodLinks(u)
    BY <1>1, <2>1, <2>2, SameLinks
  <2> QED
    BY <1>2, <1>4, <2>3, StepLinks DEF u
<1>5. CASE txn' # [txn EXCEPT !.need = 0]
  <2>1. PICK c, x, L, last : Takes(c, x, L, last)
    BY <1>5, TakeCreditSteps
  <2> DEFINE u == txn'
             n == txn.rem[c] - x
             need == txn.need - x
  <2>2. /\ txn.rem \in [Credits -> Nat] /\ txn.need \in Nat
        /\ txn.cils \in SUBSET Cil /\ txn.lastCil \in Nat /\ txn.refill \in Nat
    BY <1>1, TxnFields
  <2>3. /\ c \in Credits /\ c \in CreditsOf(txn.sn) /\ txn.rem[c] \in Nat
        /\ txn.rem[c] > 0
    BY <2>1, <2>2 DEF Takes, CreditsOf
  <2>4. n \in Nat /\ need \in Nat
    BY <2>1, <2>2, <2>3 DEF Takes
  <2>5. need > 0 => n = 0
    BY <2>1, <2>2, <2>3 DEF Takes, Lesser
  <2>6. L \in SUBSET Cil /\ last \in Nat
    BY <2>1, <2>2 DEF Takes, PaidBy
  <2>7. u = SetCredit(txn, c, n, need, txn.refill, L, last)
    BY <2>1 DEF Takes
  <2> HIDE DEF n, need, u
  <2>8. /\ u.due = txn.due /\ u.cils = L /\ u.todo = txn.todo
        /\ u.rem = [txn.rem EXCEPT ![c] = n] /\ u.lastCil = last
        /\ u.sn = txn.sn /\ u.group = txn.group /\ u.mode = txn.mode
        /\ u.cur = txn.cur /\ u.need = need /\ u.refill = txn.refill
    BY <1>1, <2>2, <2>3, <2>4, <2>6, <2>7, SetCreditType
  <2>9. SameWork(txn, u) /\ u.todo = {}
    BY <1>2, <2>8 DEF SameWork
  <2>10. GoodLinks(u)
    <3>1. CASE txn.cur = NoInvoice
      <4>1. L = txn.cils /\ last = txn.lastCil
        BY <2>1, <3>1 DEF Takes, PaidBy
      <4>2. Pays(u)
        BY <1>3, <2>8, <3>1 DEF Pays
      <4> QED
        BY <1>1, <2>8, <2>9, <4>1, <4>2, SameLinks
    <3>2. CASE txn.cur # NoInvoice
      <4>1. PICK r \in Cil : /\ r.id = last /\ r.invoice = txn.cur
                             /\ r.credit = c /\ r.group = txn.group
                             /\ r.receipt = NoReceipt /\ r.status = "PENDING"
                             /\ L = txn.cils \cup {r} /\ last = txn.lastCil + 1
        BY <2>1, <3>2 DEF Takes, PaidBy
      <4>2. u.cils = txn.cils \cup {r} /\ u.lastCil = txn.lastCil + 1
        BY <2>8, <4>1
      <4>3. u.need > 0 => u.rem[c] = 0
        BY <2>2, <2>3, <2>5, <2>8
      <4>4. \A d \in Credits : d # c => u.rem[d] = txn.rem[d]
        BY <2>2, <2>3, <2>8
      <4>5. r.id = txn.lastCil + 1
        BY <4>1
      <4>6. u.refill = txn.refill
        BY <2>8
      <4> QED
        BY <1>1, <1>2, <2>3, <2>9, <3>2, <4>1, <4>2, <4>3, <4>4, <4>5, <4>6,
           PaysLink
    <3> QED
      BY <3>1, <3>2
  <2> QED
    BY <1>2, <2>10, StepLinks DEF u
<1> QED
  BY <1>4, <1>5

-----------------------------------------------------------------------------
(* The other steps of a request.                                           *)

LEMMA RefillCreditLinks ==
    ASSUME IInv, LinksInv, txn.open, RefillCredit, UNCHANGED jobVars
    PROVE  LinksInv'
<1>1. GoodTxn(txn) /\ txn \in Txn /\ txn # NoTxn
  BY OpenIsGood DEF GoodTxn, NoTxn
<1>2. CASE Rollback
  BY <1>2, StepLinks DEF Rollback
<1>3. CASE ~ Rollback
  <2>1. PICK u, c, x :
          /\ txn.refill > 0 /\ UNCHANGED tables
          /\ c \in CreditsOf(txn.sn) /\ c <= deposits
          /\ x \in Nat /\ x <= txn.refill
          /\ u = SetCredit(txn, c, txn.rem[c] + x, txn.need,
                           txn.refill - x, txn.cils, txn.lastCil)
          /\ txn' = u
    BY <1>3, RefillCreditSteps
  <2> DEFINE n == txn.rem[c] + x
             refill == txn.refill - x
  <2>2. /\ txn.rem \in [Credits -> Nat] /\ txn.need \in Nat
             /\ txn.refill \in Nat
        /\ txn.cils \in SUBSET Cil /\ txn.lastCil \in Nat /\ c \in Credits
    BY <1>1, <2>1, TxnFields DEF CreditsOf
  <2>3. txn.rem[c] \in Nat
    BY <2>2
  <2>4. n \in Nat /\ refill \in Nat
    BY <2>1, <2>2, <2>3
  <2>5. u = SetCredit(txn, c, n, txn.need, refill, txn.cils, txn.lastCil)
    BY <2>1
  <2> HIDE DEF n, refill
  <2> DEFINE need == txn.need
             L == txn.cils
             last == txn.lastCil
  <2>6. /\ u.due = txn.due /\ u.cils = L /\ u.todo = txn.todo
        /\ u.lastCil = last /\ u.sn = txn.sn /\ u.group = txn.group
        /\ u.mode = txn.mode /\ u.cur = txn.cur /\ u.need = need
    <3>1. need \in Nat /\ L \in SUBSET Cil /\ last \in Nat
      BY <2>2
    <3>2. u = SetCredit(txn, c, n, need, refill, L, last)
      BY <2>5
    <3>3. c \in Credits
      BY <2>2
    <3> HIDE DEF need, L, last
    <3>4. /\ u \in Txn
          /\ u.inv = txn.inv /\ u.due = txn.due /\ u.cils = L
          /\ u.todo = txn.todo
          /\ u.rem = [txn.rem EXCEPT ![c] = n]
          /\ u.lastCil = last /\ u.sn = txn.sn /\ u.group = txn.group
          /\ u.mode = txn.mode /\ u.cur = txn.cur /\ u.need = need
          /\ u.refill = refill /\ u.refunds = txn.refunds
      BY <1>1, <2>4, <3>1, <3>2, <3>3, SetCreditType
    <3> QED
      BY <3>4
  <2>7. Pays(u)
    <3>1. Pays(txn) /\ txn.refill # 0
      BY <1>1, <2>1 DEF LinksInv, TxnLinks
    <3>2. txn.need = 0 /\ txn.due = {}
      BY <3>1 DEF Pays
    <3>3. u.need = 0 /\ u.due = {} /\ ~ (u.need > 0)
      BY <2>6, <3>2
    <3>4. u.mode # "CANCEL" => u.cur = NoInvoice
      BY <2>6, <3>1 DEF Pays
    <3> QED
      BY <3>3, <3>4 DEF Pays
  <2>8. GoodLinks(u)
    BY <1>1, <2>6, <2>7, SameLinks DEF SameWork
  <2> QED
    BY <2>1, <2>8, StepLinks
<1> QED
  BY <1>2, <1>3

\* At a commit nothing is left to do, so that the links of each group are alike.
LEMMA CommitLinks ==
    ASSUME IInv, LinksInv, Commit, UNCHANGED jobVars
    PROVE  LinksInv'
<1>1. /\ txn # NoTxn /\ txn.todo = {}
      /\ cils' = txn.cils /\ lastCil' = txn.lastCil /\ lastGroup' = lastGroup
      /\ txn' = NoTxn /\ job' = job
  BY DEF Commit, Finished, NoTxn, jobVars
<1>2. TxnLinks(txn) /\ JobLinks(txn.cils, txn.lastCil)
  BY <1>1 DEF LinksInv
<1>3. Links(cils, lastCil)'
  BY <1>1, <1>2 DEF TxnLinks
<1>4. Groups'
  BY <1>1, <1>2 DEF TxnLinks, Grouped, Mixed, Ordered, Groups
<1>5. JobTodo' /\ JobLinks(cils, lastCil)'
  BY <1>1, <1>2 DEF LinksInv, JobTodo, JobLinks
<1> QED
  BY <1>1, <1>3, <1>4, <1>5 DEF LinksInv

LEMMA TxnStepLinks ==
    ASSUME IInv, LinksInv, TxnStep, UNCHANGED jobVars
    PROVE  LinksInv'
BY ReturnCreditLinks, NextInvoiceLinks, TakeCreditLinks, RefillCreditLinks,
   CommitLinks DEF TxnStep

-----------------------------------------------------------------------------
(* The requests.                                                           *)

LEMMA StartedFields ==
    ASSUME NEW sn, NEW act, NEW todo, NEW mode, NEW due, NEW need, NEW refill,
           NEW rows, NEW refs, NEW t,
           t = Started(NewTxn(sn), act, todo, mode, due, need, refill, rows,
                       refs)
    PROVE  /\ t.sn = sn /\ t.group = lastGroup + 1 /\ t.todo = todo
           /\ t.mode = mode /\ t.due = due /\ t.cur = NoInvoice
           /\ t.need = need /\ t.refill = refill /\ t.rem = remaining
           /\ t.cils = cils /\ t.lastCil = lastCil /\ t.active = act
           /\ t.inv = rows /\ t.refunds = refs /\ t # NoTxn
BY DEF Started, NewTxn, NoTxn

\* A request that has read the tables and not done anything yet.
Fresh(t) ==
    /\ t.group = lastGroup + 1 /\ t.cur = NoInvoice
    /\ t.cils = cils /\ t.lastCil = lastCil /\ t # NoTxn
    /\ t.mode # "CANCEL" => t.due = {} /\ t.need = 0
    /\ t.refill # 0 => t.need = 0 /\ t.due = {}
    /\ t.due \subseteq Invoices
    /\ t.todo \subseteq cils

\* What it is to return: whole groups of pending links, the latest group for a
\* refund, or completed links of the latest groups.
Latest(t) ==
    /\ \A l \in t.todo :
         l.status = IF Returning(t) THEN "COMPLETED" ELSE "PENDING"
    /\ ~Returning(t) => \A l \in t.todo, m \in cils :
                          Siblings(l, m) => m \in t.todo
    /\ t.mode = "REGROUP" => \A l, m \in t.todo : Siblings(l, m)
    /\ t.mode # "CANCEL" => \A l \in t.todo, m \in cils :
                              l.invoice = m.invoice => m.group <= l.group

LEMMA BegunLinks ==
    ASSUME IInv, LinksInv, NEW t, Fresh(t), Latest(t),
           \/ Begin(t) /\ t.mode = "CANCEL" /\ t.due = {}
           \/ BeginGroup(t),
           UNCHANGED jobVars
    PROVE  LinksInv'
<1>1. /\ lastGroup \in Nat /\ lastGroup' \in Nat /\ t.group \in Nat
      /\ \/ lastGroup' = lastGroup /\ t.mode = "CANCEL" /\ t.due = {}
         \/ lastGroup' = t.group
      /\ lastGroup <= lastGroup' /\ lastGroup' <= t.group /\ lastGroup < t.group
      /\ txn' = t /\ UNCHANGED <<cils, lastCil, job>>
  BY DEF IInv, TypeOK, Fresh, Begin, BeginGroup, tables, jobVars
<1>2. /\ cils \in SUBSET Cil /\ Links(cils, lastCil) /\ Groups
      /\ JobTodo /\ JobLinks(cils, lastCil)
      /\ t.cils = cils /\ t.lastCil = lastCil /\ t.cur = NoInvoice
      /\ t.todo \subseteq cils
  BY JobTables DEF LinksInv, Fresh
<1>3. \A l \in cils : /\ l.id \in Nat /\ l.group \in Nat /\ l.group <= lastGroup
                      /\ l.group < t.group /\ l.group # t.group
  <2>1. \A l \in cils : l.id \in Nat /\ l.group \in Nat /\ l.group <= lastGroup
    BY <1>2, CilFields DEF Groups
  <2> QED
    BY <1>1, <2>1
<1>4. Groups'
  BY <1>1, <1>2, <1>3 DEF Groups
<1>5. Todo(t) /\ NewGroup(t)
  BY <1>2, <1>3 DEF Todo, NewGroup, Latest
<1>6. Grouped(t)'
  <2>1. \A l \in cils : l.group <= lastGroup'
    BY <1>1, <1>3
  <2> QED
    BY <1>1, <1>2, <2>1 DEF Grouped
<1>7. Mixed(t) /\ Ordered(t)
  BY <1>2 DEF Mixed, Ordered, Groups, Latest
<1>8. Regroups(t)
  <2> SUFFICES ASSUME t.mode = "REGROUP", NEW l \in t.todo, NEW m \in cils,
                      l.invoice = m.invoice, l.id < m.id
               PROVE  m \in t.todo
    BY <1>2 DEF Regroups, Latest
  <2>1. l.group <= m.group /\ m.group <= l.group
    BY <1>2 DEF Groups, Latest
  <2>2. Siblings(l, m)
    BY <1>2, <1>3, <2>1 DEF Siblings
  <2> QED
    BY <2>2 DEF Latest, Returning
<1>9. Returns(t)
  <2> SUFFICES ASSUME Returning(t), NEW l \in t.todo
               PROVE  /\ \A m \in t.todo : l.invoice = m.invoice
                           => l.group = m.group
                      /\ \A m \in cils : IsReturn(m) => ~SameReceipt(l, m)
    BY <1>2 DEF Returns
  <2>1. /\ l \in cils /\ l.status = "COMPLETED"
        /\ \A m \in cils : l.invoice = m.invoice => m.group <= l.group
    BY <1>2 DEF Latest, Returning
  <2>2. ASSUME NEW m \in t.todo, l.invoice = m.invoice
        PROVE  l.group = m.group
    <3>1. m \in cils /\ m.group <= l.group /\ l.group <= m.group
      BY <1>2, <2>1, <2>2 DEF Latest, Returning
    <3> QED
      BY <1>3, <2>1, <3>1
  <2>3. ASSUME NEW m \in cils, IsReturn(m), SameReceipt(l, m)
        PROVE  FALSE
    <3>1. PICK k \in cils : /\ k.status = "COMPLETED" /\ SameReceipt(k, m)
                            /\ k.group < m.group
      BY <1>2, <2>3 DEF Links, Follows
    <3>2. SameReceipt(l, k)
      BY <2>3, <3>1 DEF SameReceipt, SameCredit
    <3>3. l = k
      BY <1>2, <2>1, <3>1, <3>2 DEF Links, CompletedOnce
    <3>4. m.group <= l.group
      BY <2>1, <2>3 DEF SameReceipt, SameCredit
    <3> QED
      BY <1>3, <2>1, <3>1, <3>3, <3>4
  <2> QED
    BY <2>2, <2>3
<1>10. Pays(t)
  <2>1. t.cur \notin t.due
    BY <1>2 DEF Fresh, Invoices, NoInvoice
  <2> QED
    BY <1>2, <2>1 DEF Fresh, Pays
<1>11. JobTodo' /\ JobLinks(cils, lastCil)' /\ JobLinks(t.cils, t.lastCil)'
       /\ JobNewGroup(t)'
  BY <1>1, <1>2, <1>3 DEF JobTodo, JobLinks, JobNewGroup
<1>12. TxnLinks(t)'
  BY <1>1, <1>2, <1>5, <1>6, <1>7, <1>8, <1>9, <1>10 DEF TxnLinks
<1> QED
  BY <1>1, <1>2, <1>4, <1>11, <1>12 DEF LinksInv

\* A request that returns nothing.
LEMMA NothingReturned ==
    ASSUME IInv, LinksInv, NEW sn, NEW act, NEW due \in SUBSET Invoices,
           NEW need, NEW refill, NEW rows, NEW refs,
           refill # 0 => need = 0 /\ due = {},
           NEW t, t = Started(NewTxn(sn), act, {}, "CANCEL", due, need, refill,
                              rows, refs),
           (Begin(t) /\ due = {}) \/ BeginGroup(t), UNCHANGED jobVars
    PROVE  LinksInv'
<1>1. /\ t.group = lastGroup + 1 /\ t.cur = NoInvoice /\ t.cils = cils
      /\ t.lastCil = lastCil /\ t # NoTxn /\ t.mode = "CANCEL" /\ t.due = due
      /\ t.need = need /\ t.refill = refill /\ t.todo = {}
  BY StartedFields
<1>2. Fresh(t) /\ Latest(t)
  BY <1>1 DEF Fresh, Latest
<1> QED
  BY <1>1, <1>2, BegunLinks

LEMMA PaymentLinks ==
    ASSUME IInv, LinksInv, NEW sn \in ShortNames, NEW a \in Accounts, NEW S,
           ApplyPayment(sn, a, S) \/ CreateShortNameLink(sn, a),
           UNCHANGED jobVars
    PROVE  LinksInv'
<1>1. Owing(a, S) \in SUBSET Invoices
      /\ Owing(a, Statements) \in SUBSET Invoices
  BY OwingGood
<1>2. CASE ApplyPayment(sn, a, S)
  <2>1. PICK t : /\ t = Started(NewTxn(sn), active, {}, "CANCEL", Owing(a, S),
                                0, 0, inv, refunds)
                 /\ BeginGroup(t)
    BY <1>2, ApplyPaymentStarts
  <2> QED
    BY <1>1, <2>1, NothingReturned
<1>3. CASE CreateShortNameLink(sn, a)
  <2>1. PICK t, due :
          /\ t = Started(NewTxn(sn), active \cup {<<sn, a>>}, {}, "CANCEL", due,
                         0, 0, inv, refunds)
          /\ \/ due = {} /\ Begin(t)
             \/ due = Owing(a, Statements) /\ BeginGroup(t)
    BY <1>3, CreateShortNameLinkStarts
  <2>2. due \in SUBSET Invoices
    BY <1>1, <2>1
  <2> QED
    BY <2>1, <2>2, NothingReturned
<1> QED
  BY <1>2, <1>3

\* A cancellation takes all pending links of an invoice and a short name, so it
\* takes whole groups.
LEMMA CancelPaymentLinks ==
    ASSUME IInv, LinksInv, NEW sn \in ShortNames, NEW a \in Accounts, NEW S,
           CancelPayment(sn, a, S), UNCHANGED jobVars
    PROVE  LinksInv'
<1>1. PICK t : /\ t = Started(NewTxn(sn), active, PendingOf(sn, a, S),
                              "CANCEL", {}, 0, 0, inv, refunds)
               /\ Begin(t)
  BY CancelPaymentStarts
<1>2. /\ t.group = lastGroup + 1 /\ t.cur = NoInvoice /\ t.cils = cils
      /\ t.lastCil = lastCil /\ t # NoTxn /\ t.mode = "CANCEL" /\ t.due = {}
      /\ t.need = 0 /\ t.refill = 0 /\ t.todo = PendingOf(sn, a, S)
  BY <1>1, StartedFields
<1>3. Fresh(t)
  BY <1>2 DEF Fresh, PendingOf
<1>4. Latest(t)
  <2>1. \A l, m \in cils : Siblings(l, m) => Alike(l, m) /\ Payer(l) = Payer(m)
    BY DEF LinksInv, Groups, Links, OnePayer
  <2>2. ASSUME NEW l \in PendingOf(sn, a, S), NEW m \in cils, Siblings(l, m)
        PROVE  m \in PendingOf(sn, a, S)
    BY <2>1, <2>2 DEF PendingOf, Siblings, Alike, Payer
  <2>3. \A l \in PendingOf(sn, a, S) : l.status = "PENDING"
    BY DEF PendingOf
  <2> QED
    BY <1>2, <2>2, <2>3 DEF Latest, Returning
<1> QED
  BY <1>1, <1>2, <1>3, <1>4, BegunLinks

\* A reversal returns completed links of the latest groups.
LEMMA ReversePaymentLinks ==
    ASSUME IInv, LinksInv, NEW sn \in ShortNames, NEW s \in Statements,
           ReversePayment(sn, s), UNCHANGED jobVars
    PROVE  LinksInv'
<1>1. PICK t, links :
        /\ links \in SUBSET ReversibleLinks(sn, s)
        /\ \A l \in links : l.status = "COMPLETED"
        /\ t = Started(NewTxn(sn), active, links, "PENDING_REFUND", {}, 0, 0,
                       inv, refunds)
        /\ BeginGroup(t)
  BY ReversePaymentStarts
<1>2. /\ t.group = lastGroup + 1 /\ t.cur = NoInvoice /\ t.cils = cils
      /\ t.lastCil = lastCil /\ t # NoTxn /\ t.mode = "PENDING_REFUND"
      /\ t.due = {} /\ t.need = 0 /\ t.refill = 0 /\ t.todo = links
  BY <1>1, StartedFields
<1>3. \A l \in links : l \in cils /\ \A m \in cils : l.invoice = m.invoice
        => m.group <= l.group
  BY <1>1 DEF ReversibleLinks, LinksOf
<1>4. Fresh(t)
  BY <1>2, <1>3 DEF Fresh
<1>5. Latest(t)
  BY <1>1, <1>2, <1>3 DEF Latest, Returning
<1> QED
  BY <1>1, <1>4, <1>5, BegunLinks

\* The group of the latest link is the latest group.
LEMMA LatestGroup ==
    ASSUME IInv, LinksInv, NEW i, NEW latest \in LinksOf(i), IsLatest(latest)
    PROVE  /\ latest \in cils
           /\ GroupOf(i, latest) \subseteq cils
           /\ \A l \in GroupOf(i, latest), m \in cils :
                /\ Siblings(l, m) => m \in GroupOf(i, latest)
                /\ l.invoice = m.invoice => m.group <= l.group
                /\ m \in GroupOf(i, latest) => Siblings(l, m)
           /\ \A l \in GroupOf(i, latest) : l.status = latest.status
<1>1. cils \in SUBSET Cil /\ Links(cils, lastCil) /\ Groups
  BY JobTables DEF LinksInv
<1>2. latest \in cils /\ latest.invoice = i
  BY DEF LinksOf
<1>3. ASSUME NEW m \in cils, m.invoice = i
      PROVE  m.group <= latest.group
  <2>1. m.id <= latest.id /\ m.id \in Nat /\ latest.id \in Nat
        /\ m.group \in Nat
    BY <1>1, <1>2, <1>3, CilFields DEF IsLatest, LinksOf
  <2>2. CASE m.id = latest.id
    BY <1>1, <1>2, <2>1, <2>2 DEF Links, Numbered
  <2>3. CASE m.id < latest.id
    BY <1>1, <1>2, <1>3, <2>3 DEF Groups
  <2> QED
    BY <2>1, <2>2, <2>3
<1>4. \A l \in GroupOf(i, latest) : l \in cils /\ Siblings(l, latest)
  BY <1>2 DEF GroupOf, LinksOf, Siblings
<1>5. \A l \in GroupOf(i, latest) : l.status = latest.status
  BY <1>1, <1>2, <1>4 DEF Groups, Alike
<1> QED
  BY <1>2, <1>3, <1>4, <1>5 DEF GroupOf, LinksOf, Siblings

\* The refund of an invoice, whole or in part, takes its latest group of links
\* or none; and the invoice is not overdue.
LEMMA RefundStarts ==
    ASSUME IInv, NEW i \in Invoices,
           \/ RefundLinkedInvoice(i)
           \/ \E x \in PartialAmounts : PartialRefund(i, x)
    PROVE  \E t, latest, links, mode, rows :
             /\ latest \in LinksOf(i) /\ IsLatest(latest)
             /\ \/ /\ latest.status = "PENDING" /\ mode = "REGROUP"
                   /\ links = GroupOf(i, latest)
                \/ /\ latest.status = "COMPLETED"
                   /\ mode \in {"PENDING_REFUND", "REFUNDED"}
                   /\ links = GroupOf(i, latest)
                \/ mode = "PENDING_REFUND" /\ links = {}
             /\ \A j \in Invoices : inv[j].status = "OVERDUE" => rows[j] = inv[j]
             /\ t = Started(NewTxn(DepositedBy[latest.credit]), active, links,
                            mode, {}, 0, 0, rows, refunds)
             /\ BeginGroup(t)
<1>1. CASE RefundLinkedInvoice(i)
  <2>1. PICK t, latest, links, mode, rows :
          /\ latest \in LinksOf(i)
          /\ IsLatest(latest)
          /\ \/ /\ latest.status = "PENDING" /\ mode = "REGROUP"
                /\ links = GroupOf(i, latest)
             \/ /\ latest.status = "COMPLETED" /\ mode = "PENDING_REFUND"
                /\ links = GroupOf(i, latest)
             \/ mode = "PENDING_REFUND" /\ links = {}
          /\ rows \in [Invoices -> Invoice]
          /\ \A j \in Invoices : Unfunded(rows[j])
          /\ \A j \in Invoices :
               inv[j].status = "OVERDUE" => rows[j] = inv[j]
          /\ t = Started(NewTxn(DepositedBy[latest.credit]), active, links,
                         mode, {}, 0, 0, rows, refunds)
          /\ BeginGroup(t)
    BY <1>1, RefundLinkedInvoiceStarts
  <2> WITNESS t, latest, links, mode, rows
  <2> QED
    BY <2>1
<1>2. CASE \E x \in PartialAmounts : PartialRefund(i, x)
  <2>1. PICK t, latest, rows :
          /\ latest \in LinksOf(i)
          /\ IsLatest(latest)
          /\ \A l \in LinksOf(i) : l.status = "COMPLETED"
          /\ rows \in [Invoices -> Invoice]
          /\ \A j \in Invoices : Unfunded(rows[j])
          /\ \A j \in Invoices :
               inv[j].status = "OVERDUE" => rows[j] = inv[j]
          /\ t = Started(NewTxn(DepositedBy[latest.credit]), active,
                         GroupOf(i, latest), "REFUNDED", {}, 0, 0, rows,
                         refunds)
          /\ BeginGroup(t)
    BY <1>2, PartialRefundStarts
  <2>2. latest.status = "COMPLETED"
    BY <2>1
  <2> WITNESS t, latest, GroupOf(i, latest), "REFUNDED", rows
  <2> QED
    BY <2>1, <2>2
<1> QED
  BY <1>1, <1>2

LEMMA RefundLinks ==
    ASSUME IInv, LinksInv, NEW i \in Invoices,
           \/ RefundLinkedInvoice(i)
           \/ \E x \in PartialAmounts : PartialRefund(i, x),
           UNCHANGED jobVars
    PROVE  LinksInv'
<1>1. PICK t, latest, links, mode, rows :
        /\ latest \in LinksOf(i) /\ IsLatest(latest)
        /\ \/ /\ latest.status = "PENDING" /\ mode = "REGROUP"
              /\ links = GroupOf(i, latest)
           \/ /\ latest.status = "COMPLETED"
              /\ mode \in {"PENDING_REFUND", "REFUNDED"}
              /\ links = GroupOf(i, latest)
           \/ mode = "PENDING_REFUND" /\ links = {}
        /\ \A j \in Invoices : inv[j].status = "OVERDUE" => rows[j] = inv[j]
        /\ t = Started(NewTxn(DepositedBy[latest.credit]), active, links,
                       mode, {}, 0, 0, rows, refunds)
        /\ BeginGroup(t)
  BY RefundStarts
<1>2. /\ t.group = lastGroup + 1 /\ t.cur = NoInvoice /\ t.cils = cils
      /\ t.lastCil = lastCil /\ t # NoTxn /\ t.mode = mode
      /\ t.due = {} /\ t.need = 0 /\ t.refill = 0 /\ t.todo = links
  BY <1>1, StartedFields
<1>3. /\ GroupOf(i, latest) \subseteq cils
      /\ \A l \in GroupOf(i, latest), m \in cils :
           /\ Siblings(l, m) => m \in GroupOf(i, latest)
           /\ l.invoice = m.invoice => m.group <= l.group
           /\ m \in GroupOf(i, latest) => Siblings(l, m)
      /\ \A l \in GroupOf(i, latest) : l.status = latest.status
  BY <1>1, LatestGroup
<1>4. Fresh(t)
  BY <1>1, <1>2, <1>3 DEF Fresh
<1>5. Latest(t)
  <2>1. CASE links = {}
    BY <1>2, <2>1 DEF Latest
  <2>2. CASE latest.status = "PENDING" /\ mode = "REGROUP"
             /\ links = GroupOf(i, latest)
    BY <1>2, <1>3, <2>2 DEF Latest, Returning
  <2>3. CASE /\ latest.status = "COMPLETED"
             /\ mode \in {"PENDING_REFUND", "REFUNDED"}
             /\ links = GroupOf(i, latest)
    BY <1>2, <1>3, <2>3 DEF Latest, Returning
  <2> QED
    BY <1>1, <2>1, <2>2, <2>3
<1> QED
  BY <1>1, <1>4, <1>5, BegunLinks

LEMMA ShortNameRefundLinks ==
    ASSUME IInv, LinksInv, NEW r \in Refunds,
           \/ \E sn \in ShortNames, x \in RefundAmounts :
                CreateShortNameRefund(r, sn, x)
           \/ DeclineShortNameRefund(r),
           UNCHANGED jobVars
    PROVE  LinksInv'
<1>1. {} \in SUBSET Invoices
  OBVIOUS
<1>2. ASSUME NEW sn \in ShortNames, NEW x \in RefundAmounts,
             CreateShortNameRefund(r, sn, x)
      PROVE  LinksInv'
  <2>1. PICK t :
          /\ t = Started(NewTxn(sn), active, {}, "CANCEL", {}, x, 0, inv,
                         [refunds EXCEPT ![r] = NewRefund(sn, x)])
          /\ Begin(t)
    BY <1>2, CreateShortNameRefundStarts
  <2> QED
    BY <1>1, <2>1, NothingReturned
<1>3. CASE DeclineShortNameRefund(r)
  <2>1. PICK t, row :
          /\ t = Started(NewTxn(refunds[r].sn), active, {}, "CANCEL", {}, 0,
                         refunds[r].amount, inv, [refunds EXCEPT ![r] = row])
          /\ Begin(t)
    BY <1>3, DeclineShortNameRefundStarts
  <2> QED
    BY <1>1, <2>1, NothingReturned
<1> QED
  BY <1>2, <1>3

\* Requests that make no link.
LEMMA InvoiceRequest ==
    ASSUME NEW i, CreateInvoice(i) \/ RefundUnlinkedInvoice(i)
    PROVE  UNCHANGED <<cils, lastCil, lastGroup, txn, deposits, remaining,
                       refunds>>
<1>1. CASE CreateInvoice(i)
  BY <1>1 DEF CreateInvoice, SetInvoice
<1>2. CASE RefundUnlinkedInvoice(i)
  <2> DEFINE row == [inv[i] EXCEPT !.requested = TRUE, !.refund = Total[i],
                                   !.status = UnlinkedStatus(i)]
  <2>1. SetInvoice(i, row)
    BY <1>2 DEF RefundUnlinkedInvoice
  <2> HIDE DEF row
  <2> QED
    BY <2>1 DEF SetInvoice
<1> QED
  BY <1>1, <1>2

LEMMA OtherRequestLinks ==
    ASSUME LinksInv, UNCHANGED jobVars,
           \/ CreateCredit
           \/ \E i \in Invoices : CreateInvoice(i) \/ RefundUnlinkedInvoice(i)
           \/ \E s \in Statements : GenerateStatement(s)
           \/ \E sn \in ShortNames, a \in Accounts : PatchShortNameLink(sn, a)
           \/ \E r \in Refunds : ApproveShortNameRefund(r)
    PROVE  LinksInv'
<1>1. UNCHANGED <<cils, lastCil, lastGroup, txn, job>>
  <2>1. UNCHANGED job
    BY DEF jobVars
  <2>2. CASE CreateCredit
    BY <2>1, <2>2 DEF CreateCredit
  <2>3. CASE \E i \in Invoices : CreateInvoice(i) \/ RefundUnlinkedInvoice(i)
    BY <2>1, <2>3, InvoiceRequest
  <2>4. CASE \E s \in Statements : GenerateStatement(s)
    BY <2>1, <2>4 DEF GenerateStatement
  <2>5. CASE \E sn \in ShortNames, a \in Accounts : PatchShortNameLink(sn, a)
    BY <2>1, <2>5 DEF PatchShortNameLink
  <2>6. CASE \E r \in Refunds : ApproveShortNameRefund(r)
    BY <2>1, <2>6 DEF ApproveShortNameRefund
  <2> QED
    BY <2>2, <2>3, <2>4, <2>5, <2>6
<1> QED
  BY <1>1, LinksKept

LEMMA RequestLinks ==
    ASSUME IInv, LinksInv, Request, UNCHANGED jobVars
    PROVE  LinksInv'
<1>1. CASE \E sn \in ShortNames, a \in Accounts :
             \/ CreateShortNameLink(sn, a)
             \/ \E S \in StatementChoice : ApplyPayment(sn, a, S)
  BY <1>1, PaymentLinks
<1>2. CASE \E sn \in ShortNames, a \in Accounts :
             \E S \in StatementChoice : CancelPayment(sn, a, S)
  BY <1>2, CancelPaymentLinks
<1>3. CASE \E sn \in ShortNames, s \in Statements : ReversePayment(sn, s)
  BY <1>3, ReversePaymentLinks
<1>4. CASE \E i \in Invoices : RefundLinkedInvoice(i)
             \/ \E x \in PartialAmounts : PartialRefund(i, x)
  BY <1>4, RefundLinks
<1>5. CASE \E r \in Refunds : \/ \E sn \in ShortNames, x \in RefundAmounts :
                                   CreateShortNameRefund(r, sn, x)
                              \/ DeclineShortNameRefund(r)
  BY <1>5, ShortNameRefundLinks
<1>6. CASE \/ CreateCredit
           \/ \E i \in Invoices : CreateInvoice(i) \/ RefundUnlinkedInvoice(i)
           \/ \E s \in Statements : GenerateStatement(s)
           \/ \E sn \in ShortNames, a \in Accounts : PatchShortNameLink(sn, a)
           \/ \E r \in Refunds : ApproveShortNameRefund(r)
  BY <1>6, OtherRequestLinks
<1> QED
  BY <1>1, <1>2, <1>3, <1>4, <1>5, <1>6 DEF Request

-----------------------------------------------------------------------------
(* The job.                                                                *)

LEMMA ListsLinks ==
    ASSUME NEW k
    PROVE  /\ k \in ToLink => k.status = "PENDING"
           /\ k \in ToReverse => k.status \in {"PENDING_REFUND", "CANCELLED"}
BY DEF ToLink, ToReverse, Rollups

LEMMA QueriedFields ==
    ASSUME NEW phase, NEW todo, NEW q, q = Queried(phase, todo)
    PROVE  q.phase = phase /\ q.todo = todo /\ q.cur = NoItem
BY DEF Queried, IdleJob

\* A query.
LEMMA QueriedLinks ==
    ASSUME LinksInv, Idle, UNCHANGED <<cils, lastCil, lastGroup, txn>>,
           \/ job' = Queried("LINK", ToLink)
           \/ job' = Queried("REVERSE", ToReverse)
           \/ job' = Queried("UNLINKED", Unlinked)
           \/ job' = IdleJob
    PROVE  LinksInv'
<1>1. job'.cur = NoItem
  BY QueriedFields DEF IdleJob
<1>2. JobLinks(cils, lastCil)'
  BY <1>1 DEF JobLinks
<1>3. JobTodo'
  <2>1. CASE job' = Queried("LINK", ToLink)
    <3>1. job'.phase = "LINK" /\ job'.todo = ToLink
      BY <2>1, QueriedFields
    <3> QED
      BY <3>1, ListsLinks DEF JobTodo
  <2>2. CASE job' = Queried("REVERSE", ToReverse)
    <3>1. job'.phase = "REVERSE" /\ job'.todo = ToReverse
      BY <2>2, QueriedFields
    <3> QED
      BY <3>1, ListsLinks DEF JobTodo
  <2>3. CASE job' = Queried("UNLINKED", Unlinked) \/ job' = IdleJob
    <3>1. job'.phase \in {"UNLINKED", "IDLE"}
      BY <2>3, QueriedFields DEF IdleJob
    <3> QED
      BY <3>1 DEF JobTodo
  <2> QED
    BY <2>1, <2>2, <2>3
<1> QED
  BY <1>2, <1>3, JobStepLinks

\* What an item has rolled up is what the links say.
LEMMA RolledUpLinks ==
    ASSUME IInv, LinksInv, NEW k \in job.todo,
           job.phase \in {"LINK", "REVERSE"},
           NEW item, item = ItemOf(k)
    PROVE  /\ \A n \in item.ids : n <= lastCil
           /\ job.phase = "LINK" => \A l \in cils :
                /\ l.id \in item.ids => l.status \in {"PENDING", "CANCELLED"}
                /\ l.status = "COMPLETED" => l.receipt \notin item.ids
           /\ job.phase # "LINK" => \A l \in cils : l.id \in item.ids =>
                /\ l.status \in {"PENDING_REFUND", "CANCELLED"}
                /\ l.receipt = item.key.receipt
           /\ \A l, m \in cils : Siblings(l, m) =>
                (l.id \in item.ids <=> m.id \in item.ids)
<1>1. k \in RollupKey
  BY JobTables DEF Job
<1>2. item.key = k /\ item.ids = {l.id : l \in RolledUp(k)}
  BY <1>1, ItemOfType
<1>3. cils \in SUBSET Cil /\ Links(cils, lastCil) /\ Groups /\ JobTodo
  BY JobTables DEF LinksInv
<1>4. \A l \in cils : l.id \in item.ids <=> l \in RolledUp(k)
  BY <1>2, <1>3 DEF RolledUp, Links, Numbered
<1>5. \A l \in RolledUp(k) : l \in cils /\ l.status = k.status
      /\ l.receipt = k.receipt
  BY DEF RolledUp
<1>6. \A n \in item.ids : n <= lastCil
  BY <1>2, <1>3, <1>5 DEF Links, Numbered
<1>7. ASSUME job.phase = "LINK", NEW l \in cils
      PROVE  /\ l.id \in item.ids => l.status \in {"PENDING", "CANCELLED"}
             /\ l.status = "COMPLETED" => l.receipt \notin item.ids
  <2>1. k.status = "PENDING"
    BY <1>3, <1>7 DEF JobTodo
  <2> QED
    BY <1>2, <1>3, <1>4, <1>5, <2>1 DEF Links, Receipted
<1>8. ASSUME job.phase # "LINK", NEW l \in cils, l.id \in item.ids
      PROVE  l.status \in {"PENDING_REFUND", "CANCELLED"}
             /\ l.receipt = item.key.receipt
  BY <1>2, <1>3, <1>4, <1>5, <1>8 DEF JobTodo
<1>9. ASSUME NEW l \in cils, NEW m \in cils, Siblings(l, m)
      PROVE  l.id \in item.ids <=> m.id \in item.ids
  <2>1. Alike(l, m)
    BY <1>3, <1>9 DEF Groups
  <2> QED
    BY <1>4, <1>9, <2>1 DEF RolledUp, Siblings, Alike
<1> QED
  BY <1>6, <1>7, <1>8, <1>9

LEMMA ItemStartsLinks ==
    ASSUME IInv, LinksInv, Idle, WithinJob, NEW k \in job.todo, ItemStarts(k)
    PROVE  LinksInv'
<1> DEFINE noted == Noted(k)
           item == ItemOf(k)
           unlinked == UnlinkedItemOf(k)
<1>1. /\ k \in RollupKey /\ job.cur = NoItem
      /\ \/ job' = noted
         \/ job' = [noted EXCEPT !.cur = item]
            /\ job.phase \in {"LINK", "REVERSE"}
         \/ job' = [noted EXCEPT !.cur = unlinked] /\ job.phase = "UNLINKED"
         \/ job' = IdleJob
  BY ItemStartSteps
<1>2. /\ noted \in Job /\ noted.cur = NoItem /\ noted.phase = job.phase
      /\ noted.todo = job.todo \ {k}
  BY <1>1, NotedType
<1>3. UNCHANGED <<cils, lastCil, lastGroup, txn>>
  BY DEF WithinJob, eftVars
<1>4. unlinked.ids = {}
  <2>1. item \in Item
    BY <1>1, ItemOfType
  <2>2. unlinked = [item EXCEPT !.refunding = TRUE, !.ids = {}]
    BY DEF UnlinkedItemOf
  <2> HIDE DEF item, unlinked
  <2> QED
    BY <2>1, <2>2 DEF Item
<1>5. CASE job' = IdleJob
  BY <1>3, <1>5, QueriedLinks
<1>6. CASE job' # IdleJob
  <2> HIDE DEF noted, item, unlinked
  <2>1. job'.phase = job.phase /\ job'.todo = job.todo \ {k}
    BY <1>1, <1>2, <1>6 DEF Job
  <2>2. JobTodo'
    BY <2>1 DEF LinksInv, JobTodo
  <2>3. JobLinks(cils, lastCil)'
    <3>1. CASE job' = noted
      BY <1>2, <3>1 DEF JobLinks
    <3>2. CASE job' = [noted EXCEPT !.cur = item]
               /\ job.phase \in {"LINK", "REVERSE"}
      <4>1. job'.cur = item
        BY <1>2, <3>2 DEF Job
      <4>2. /\ \A n \in item.ids : n <= lastCil
            /\ job.phase = "LINK" => \A l \in cils :
                 /\ l.id \in item.ids => l.status \in {"PENDING", "CANCELLED"}
                 /\ l.status = "COMPLETED" => l.receipt \notin item.ids
            /\ job.phase # "LINK" => \A l \in cils : l.id \in item.ids =>
                 /\ l.status \in {"PENDING_REFUND", "CANCELLED"}
                 /\ l.receipt = item.key.receipt
            /\ \A l, m \in cils : Siblings(l, m) =>
                 (l.id \in item.ids <=> m.id \in item.ids)
        BY <3>2, RolledUpLinks DEF item
      <4> QED
        BY <1>3, <2>1, <4>1, <4>2 DEF JobLinks
    <3>3. CASE job' = [noted EXCEPT !.cur = unlinked] /\ job.phase = "UNLINKED"
      <4>1. job'.cur.ids = {}
        BY <1>2, <1>4, <3>3 DEF Job
      <4> QED
        BY <2>1, <3>3, <4>1 DEF JobLinks
    <3> QED
      BY <1>1, <1>6, <3>1, <3>2, <3>3
  <2> QED
    BY <1>3, <2>2, <2>3, JobStepLinks
<1> QED
  BY <1>5, <1>6

\* The end of an item.
LEMMA ItemEndsLinks ==
    ASSUME IInv, LinksInv, Idle, LinkItemEnd \/ ReverseItemEnd
    PROVE  LinksInv'
<1> DEFINE item == job.cur
<1>1. job \in Job /\ item # NoItem /\ item \in Item
      /\ (job.phase = "LINK" => item.ids # {})
  BY JobTables DEF GoodJob, Job, LinkItemEnd, ReverseItemEnd
<1>2. item.ids \in SUBSET Nat /\ item.key.receipt \in Nat
  BY <1>1 DEF Item, RollupKey
<1>3. /\ Links(cils', lastCil)
      /\ \A l \in cils' : l.group <= lastGroup
      /\ \A l, m \in cils' : Siblings(l, m) => Alike(l, m)
      /\ \A l, m \in cils' : l.invoice = m.invoice /\ l.id < m.id
           => l.group <= m.group
  <2>1. CASE LinkItemEnd
    <3> DEFINE receipt == MinId(item.ids)
    <3>1. job.phase = "LINK" /\ cils' = UpdateLinks(item, "COMPLETED", receipt)
      BY <2>1 DEF LinkItemEnd
    <3>2. receipt \in Nat /\ receipt \in item.ids
      BY <1>1, <1>2, <3>1, MinIdType
    <3> HIDE DEF receipt
    <3> QED
      BY <1>1, <3>1, <3>2, LinksUpdated
  <2>2. CASE ReverseItemEnd
    <3> DEFINE receipt == item.key.receipt
    <3>1. job.phase # "LINK" /\ cils' = UpdateLinks(item, "REFUNDED", receipt)
      BY <2>2 DEF ReverseItemEnd
    <3>2. receipt \in Nat /\ receipt = job.cur.key.receipt
      BY <1>2
    <3> HIDE DEF receipt
    <3> QED
      BY <1>1, <3>1, <3>2, LinksUpdated
  <2> QED
    BY <2>1, <2>2
<1>5. /\ UNCHANGED <<lastCil, lastGroup, txn>>
      /\ job' = [job EXCEPT !.cur = NoItem]
  BY DEF LinkItemEnd, ReverseItemEnd
<1>6. job'.cur = NoItem /\ job'.phase = job.phase /\ job'.todo = job.todo
  BY <1>1, <1>5 DEF Job
<1>7. Links(cils, lastCil)' /\ Groups'
  BY <1>3, <1>5 DEF Groups
<1>8. JobTodo' /\ JobLinks(cils, lastCil)'
  BY <1>6 DEF LinksInv, JobTodo, JobLinks
<1>9. txn' = NoTxn
  BY <1>5 DEF Idle
<1> QED
  BY <1>7, <1>8, <1>9 DEF LinksInv

-----------------------------------------------------------------------------
(* Every step.                                                             *)

LEMMA InitLinks ==
    ASSUME TaskInit
    PROVE  LinksInv
<1>1. cils = {} /\ txn = NoTxn /\ job = IdleJob /\ lastCil = 0
  BY DEF TaskInit, Init
<1>2. Links(cils, lastCil)
  BY <1>1, FS_EmptySet DEF Links, Numbered, Receipted, PendingOnce,
     CompletedOnce, ReturnedOnce, Follows, OnePayer
<1>3. job.cur = NoItem /\ job.todo = {}
  BY <1>1 DEF IdleJob
<1> QED
  BY <1>1, <1>2, <1>3 DEF LinksInv, Groups, JobTodo, JobLinks

LEMMA NextLinks ==
    ASSUME IInv, LinksInv, [Next]_vars
    PROVE  LinksInv'
<1>1. CASE TxnStep /\ UNCHANGED jobVars
  BY <1>1, TxnStepLinks
<1>2. CASE Idle /\ EftJob
  <2>1. CASE \/ EftJobStart \/ UnlinkedJobStart \/ EftJobEnd
             \/ UnlockOverdueAccounts
    <3>1. /\ UNCHANGED <<cils, lastCil, lastGroup, txn>>
          /\ \/ job' = Queried("LINK", ToLink)
             \/ job' = Queried("REVERSE", ToReverse)
             \/ job' = Queried("UNLINKED", Unlinked)
             \/ job' = IdleJob
      BY <2>1 DEF EftJobStart, UnlinkedJobStart, EftJobEnd, WithinJob, eftVars,
         UnlockOverdueAccounts
    <3> QED
      BY <1>2, <3>1, QueriedLinks
  <2>2. CASE \E k \in job.todo : \/ LinkItemStart(k) \/ ReverseItemStart(k)
                                 \/ UnlinkedItemStart(k)
    <3>1. WithinJob
      BY <2>2 DEF LinkItemStart, ReverseItemStart, UnlinkedItemStart
    <3> QED
      BY <1>2, <2>2, <3>1, ItemStartsLinks DEF ItemStarts
  <2>3. CASE LinkItemEnd \/ ReverseItemEnd
    BY <1>2, <2>3, ItemEndsLinks
  <2> QED
    BY <1>2, <2>1, <2>2, <2>3 DEF EftJob
<1>3. CASE Idle /\ JobFailure
  <2>1. CASE \E k \in job.todo : ItemGivenUp(k)
    BY <1>3, <2>1, GivenUp, ItemStartsLinks DEF ItemStarts
  <2>2. CASE \E i \in cfsTodo : CfsInvoiceItemGivenUp(i)
    <3>1. UNCHANGED <<cils, lastCil, lastGroup, txn, job>>
      BY <2>2 DEF CfsInvoiceItemGivenUp, CfsInvoiceItemFails,
         CfsInvoiceItemLost, eftVars
    <3> QED
      BY <3>1, LinksKept
  <2>4. CASE ItemRollsBack
    <3>1. UNCHANGED <<cils, lastCil, lastGroup, txn>>
      BY <2>4, RolledBack DEF eftVars
    <3>2. JobTodo' /\ JobLinks(cils, lastCil)'
      BY <2>4, RolledBack DEF LinksInv, JobTodo, JobLinks
    <3> QED
      BY <1>3, <3>1, <3>2, JobStepLinks
  <2>3. CASE JobDies
    <3>1. UNCHANGED <<cils, lastCil, lastGroup, txn>> /\ job' = IdleJob
      BY <2>3 DEF JobDies, WithinJob, eftVars
    <3> QED
      BY <1>3, <3>1, QueriedLinks
  <2> QED
    BY <1>3, <2>1, <2>2, <2>3, <2>4 DEF JobFailure, ItemGivenUp,
       CfsInvoiceItemGivenUp
<1>4. CASE Idle /\ CfsInvoiceJob
  <2>1. UNCHANGED <<cils, lastCil, lastGroup, txn, job>>
    BY <1>4 DEF CfsInvoiceJob, CfsInvoiceJobStart, CfsInvoiceItem, eftVars
  <2> QED
    BY <2>1, LinksKept
<1>5. CASE Idle /\ StatementDueJob
  <2>1. UNCHANGED <<cils, lastCil, lastGroup, txn, job>>
    BY <1>5 DEF StatementDueJob
  <2> QED
    BY <2>1, LinksKept
<1>6. CASE Idle /\ \E i \in Invoices : OverdueDatePasses(i)
  <2>1. UNCHANGED <<cils, lastCil, lastGroup, txn, job>>
    BY <1>6 DEF OverdueDatePasses, eftVars
  <2> QED
    BY <2>1, LinksKept
<1>7. CASE Request /\ UNCHANGED jobVars
  BY <1>7, RequestLinks
<1>8. CASE UNCHANGED vars
  <2>1. UNCHANGED <<cils, lastCil, lastGroup, txn, job>>
    BY <1>8 DEF vars, eftVars, jobVars
  <2> QED
    BY <2>1, LinksKept
<1> QED
  BY <1>1, <1>2, <1>3, <1>4, <1>5, <1>6, <1>7, <1>8 DEF Next

\* The order of the links is an invariant.
LEMMA LinksInvariance == Spec => []LinksInv
<1>1. TaskInit => LinksInv
  BY InitLinks
<1>2. IInv /\ LinksInv /\ [Next]_vars => LinksInv'
  BY NextLinks
<1> QED
  BY <1>1, <1>2, Invariance, PTL DEF Spec

\* NoDoubleReturn: whatever sequence of reversals, refunds, partial refunds and
\* runs of the job touches a completed link, its amount goes back to its credit
\* at most once (return_eft_credit, for the three callers that add a link).
THEOREM NoDoubleReturns == Spec => []NoDoubleReturn
<1>1. LinksInv => NoDoubleReturn
  BY DEF LinksInv, Links, ReturnedOnce, NoDoubleReturn, SameReceipt, SameCredit
<1> QED
  BY <1>1, LinksInvariance, PTL


-----------------------------------------------------------------------------
(* Money: what a copy of the tables accounts for.                          *)

\* What a link takes from the credits of a short name, and all links do.
Weight(l, sn) ==
    IF Payer(l) # sn THEN 0
    ELSE IF l.status \in {"PENDING", "COMPLETED"} THEN l.amount
    ELSE IF IsReturn(l) THEN -l.amount ELSE 0

HeldOf(L, sn) == SumFunctionOnSet([l \in L |-> Weight(l, sn)], L)

\* What a refund of its credits takes, and all refunds do.
Share(row, sn) ==
    IF row.sn = sn /\ row.status \in {"PENDING_APPROVAL", "APPROVED"}
    THEN row.amount ELSE 0

Out(R, sn) == SumFunctionOnSet([r \in Refunds |-> Share(R[r], sn)], Refunds)

\* What the request in progress has still to put back or to deduct.
Rest(t, sn) ==
    IF sn # t.sn THEN 0
    ELSE t.refill - (IF t.cur = NoInvoice THEN t.need ELSE 0)

MoneyTable ==
    \A sn \in ShortNames :
        Balance(remaining, sn) + Out(refunds, sn) + HeldOf(cils, sn)
          = Deposited(sn)

MoneyTxn(t) ==
    /\ \A sn \in ShortNames :
         Balance(t.rem, sn) + Out(t.refunds, sn) + HeldOf(t.cils, sn)
           + Rest(t, sn) = Deposited(sn)
    /\ t.cur = NoInvoice => t.need <= Balance(t.rem, t.sn)

MoneyInv ==
    /\ MoneyTable
    /\ txn # NoTxn => MoneyTxn(txn)

-----------------------------------------------------------------------------
(* Lemmas about these sums.                                                *)

LEMMA WeightType ==
    ASSUME NEW l \in Cil, NEW sn
    PROVE  Weight(l, sn) \in Int
<1>1. l.amount \in Int /\ -l.amount \in Int
  BY CilFields
<1> QED
  BY <1>1 DEF Weight

LEMMA HeldType ==
    ASSUME NEW L \in SUBSET Cil, IsFiniteSet(L), NEW sn
    PROVE  HeldOf(L, sn) \in Int
<1> DEFINE f == [l \in L |-> Weight(l, sn)]
<1>1. \A l \in L : f[l] \in Int
  BY WeightType
<1> HIDE DEF f
<1>2. SumFunctionOnSet(f, L) \in Int
  BY <1>1, SumInt
<1> QED
  BY <1>2 DEF HeldOf, f

\* A link is added.
LEMMA HeldAdd ==
    ASSUME NEW L \in SUBSET Cil, IsFiniteSet(L), NEW r \in Cil, r \notin L,
           NEW sn
    PROVE  HeldOf(L \cup {r}, sn) = HeldOf(L, sn) + Weight(r, sn)
<1> DEFINE K == L \cup {r}
           f == [l \in K |-> Weight(l, sn)]
           g == [l \in L |-> Weight(l, sn)]
<1>1. /\ \A l \in K : f[l] \in Int
      /\ \A l \in L : f[l] = g[l] /\ g[l] \in Int
      /\ f[r] = Weight(r, sn)
  BY WeightType
<1> HIDE DEF f, g
<1>2. SumFunctionOnSet(f, L \cup {r}) = f[r] + SumFunctionOnSet(f, L)
  BY <1>1, SumAdd
<1>3. SumFunctionOnSet(f, L) = SumFunctionOnSet(g, L)
  BY <1>1, SumSame
<1>4. SumFunctionOnSet(g, L) \in Int
  BY <1>1, SumInt
<1>5. SumFunctionOnSet(f, K) = SumFunctionOnSet(g, L) + f[r]
  BY <1>1, <1>2, <1>3, <1>4
<1> QED
  BY <1>1, <1>5 DEF HeldOf, f, g

\* A link takes the place of another.
LEMMA HeldReplace ==
    ASSUME NEW L \in SUBSET Cil, IsFiniteSet(L), NEW l \in L, NEW r \in Cil,
           r \notin L \ {l}, NEW sn
    PROVE  HeldOf((L \ {l}) \cup {r}, sn)
             = HeldOf(L, sn) - Weight(l, sn) + Weight(r, sn)
<1> DEFINE K == L \ {l}
<1>1. K \in SUBSET Cil /\ IsFiniteSet(K) /\ l \in Cil /\ l \notin K
      /\ K \cup {l} = L
  BY FS_Difference, FS_Singleton
<1> HIDE DEF K
<1>2. HeldOf(K \cup {r}, sn) = HeldOf(K, sn) + Weight(r, sn)
  BY <1>1, HeldAdd DEF K
<1>3. HeldOf(K \cup {l}, sn) = HeldOf(K, sn) + Weight(l, sn)
  BY <1>1, HeldAdd
<1>4. /\ HeldOf(K, sn) \in Int /\ Weight(l, sn) \in Int /\ Weight(r, sn) \in Int
      /\ HeldOf(L, sn) = HeldOf(K, sn) + Weight(l, sn)
  BY <1>1, <1>3, HeldType, WeightType
<1> QED
  BY <1>2, <1>4 DEF K

\* A credit changes.
Amounts == [Credits -> Nat]

LEMMA BalanceBut ==
    ASSUME NEW rem, rem \in Amounts, NEW new, new \in Amounts,
           NEW c \in Credits, \A d \in Credits \ {c} : rem[d] = new[d], NEW sn
    PROVE  /\ Balance(rem, sn) \in Int
           /\ DepositedBy[c] = sn =>
                Balance(new, sn) = Balance(rem, sn) + (new[c] - rem[c])
           /\ DepositedBy[c] # sn => Balance(new, sn) = Balance(rem, sn)
<1> DEFINE S == CreditsOf(sn)
<1>1. IsFiniteSet(S) /\ S \subseteq Credits /\ Balance(rem, sn) \in Int
  BY BalanceType DEF CreditsOf, Amounts
<1>2. \A d \in S : rem[d] \in Int /\ new[d] \in Int
  BY <1>1 DEF Amounts
<1>3. c \in S <=> DepositedBy[c] = sn
  BY DEF CreditsOf
<1> HIDE DEF S
<1>4. CASE c \in S
  <2>1. \A d \in S \ {c} : rem[d] = new[d]
    BY <1>1
  <2>2. SumFunctionOnSet(new, S) = SumFunctionOnSet(rem, S) + (new[c] - rem[c])
    BY <1>1, <1>2, <1>4, <2>1, SumBut
  <2>3. Balance(new, sn) = Balance(rem, sn) + (new[c] - rem[c])
    BY <2>2 DEF Balance, S
  <2> QED
    BY <1>1, <1>3, <1>4, <2>3
<1>5. CASE c \notin S
  <2>1. \A d \in S : rem[d] = new[d]
    BY <1>1, <1>5
  <2>2. SumFunctionOnSet(rem, S) = SumFunctionOnSet(new, S)
    BY <1>1, <2>1, SumSame
  <2>3. Balance(new, sn) = Balance(rem, sn)
    BY <2>2 DEF Balance, S
  <2> QED
    BY <1>1, <1>3, <1>5, <2>3
<1> QED
  BY <1>4, <1>5

LEMMA BalanceSet ==
    ASSUME NEW rem \in [Credits -> Nat], NEW c \in Credits, NEW n \in Nat,
           NEW new, new = [rem EXCEPT ![c] = n], NEW sn
    PROVE  /\ Balance(rem, sn) \in Int
           /\ DepositedBy[c] = sn =>
                Balance(new, sn) = Balance(rem, sn) + (n - rem[c])
           /\ DepositedBy[c] # sn => Balance(new, sn) = Balance(rem, sn)
<1> DEFINE f == rem
           g == new
<1>1. /\ f \in Amounts /\ g \in Amounts /\ g[c] = n
      /\ \A d \in Credits \ {c} : f[d] = g[d]
  BY DEF Amounts
<1> HIDE DEF f, g
<1>2. /\ Balance(f, sn) \in Int
      /\ DepositedBy[c] = sn =>
           Balance(g, sn) = Balance(f, sn) + (g[c] - f[c])
      /\ DepositedBy[c] # sn => Balance(g, sn) = Balance(f, sn)
  BY <1>1, BalanceBut
<1> QED
  BY <1>1, <1>2 DEF f, g

LEMMA ShareType ==
    ASSUME NEW row \in EftRefund, NEW sn
    PROVE  Share(row, sn) \in Int
BY DEF Share, EftRefund

LEMMA OutType ==
    ASSUME NEW R \in [Refunds -> EftRefund], NEW sn
    PROVE  Out(R, sn) \in Int /\ IsFiniteSet(Refunds)
<1> DEFINE f == [r \in Refunds |-> Share(R[r], sn)]
<1>1. IsFiniteSet(Refunds)
  BY FS_Interval, EFTConstants DEF Refunds
<1>2. \A r \in Refunds : f[r] \in Int
  BY ShareType
<1> HIDE DEF f
<1>3. SumFunctionOnSet(f, Refunds) \in Int
  BY <1>1, <1>2, SumInt
<1> QED
  BY <1>1, <1>3 DEF Out, f

\* A refund changes.
RefundTable == [Refunds -> EftRefund]

LEMMA OutBut ==
    ASSUME NEW R, R \in RefundTable, NEW new, new \in RefundTable,
           NEW r \in Refunds, \A q \in Refunds \ {r} : R[q] = new[q], NEW sn
    PROVE  Out(new, sn) = Out(R, sn) + (Share(new[r], sn) - Share(R[r], sn))
<1> DEFINE f == [q \in Refunds |-> Share(R[q], sn)]
           g == [q \in Refunds |-> Share(new[q], sn)]
<1>1. \A q \in Refunds : R[q] \in EftRefund /\ new[q] \in EftRefund
  BY DEF RefundTable
<1>2. \A q \in Refunds : f[q] \in Int /\ g[q] \in Int
  BY <1>1, ShareType
<1>3. \A q \in Refunds \ {r} : f[q] = g[q]
  OBVIOUS
<1>4. f[r] = Share(R[r], sn) /\ g[r] = Share(new[r], sn)
  OBVIOUS
<1>5. IsFiniteSet(Refunds)
  BY FS_Interval, EFTConstants DEF Refunds
<1> HIDE DEF f, g
<1>6. SumFunctionOnSet(g, Refunds) =
        SumFunctionOnSet(f, Refunds) + (g[r] - f[r])
  BY <1>2, <1>3, <1>5, SumBut
<1> QED
  BY <1>4, <1>6 DEF Out, f, g

-----------------------------------------------------------------------------
(* The sums of the property are these.                                     *)

LEMMA RefundedIsOut ==
    ASSUME IInv, NEW sn
    PROVE  Refunded(sn) = Out(refunds, sn)
<1> DEFINE f == [r \in Refunds |-> Share(refunds[r], sn)]
           g == [r \in Refunds |-> refunds[r].amount]
           T == {r \in Refunds : /\ refunds[r].sn = sn
                                 /\ refunds[r].status \in {"PENDING_APPROVAL",
                                                           "APPROVED"}}
<1>1. refunds \in [Refunds -> EftRefund] /\ IsFiniteSet(Refunds)
  BY TablesType, OutType
<1>2. \A r \in Refunds : f[r] \in Int
  BY <1>1, ShareType
<1>3. /\ T \in SUBSET Refunds /\ IsFiniteSet(T) /\ IsFiniteSet(Refunds \ T)
      /\ \A r \in T : f[r] = g[r]
      /\ \A r \in Refunds \ T : f[r] = 0
  BY <1>1, FS_Subset DEF Share
<1> HIDE DEF f, g, T
<1>4. /\ SumFunctionOnSet(f, T) \in Int
      /\ SumFunctionOnSet(f, Refunds \ T) \in Int
      /\ SumFunctionOnSet(f, Refunds)
           = SumFunctionOnSet(f, T) + SumFunctionOnSet(f, Refunds \ T)
  <2> DEFINE U == Refunds \ T
  <2>1. T \cup U = Refunds /\ T \cap U = {} /\ IsFiniteSet(U)
    BY <1>3
  <2> HIDE DEF U
  <2>2. \A r \in T \cup U : f[r] \in Int
    BY <1>2, <2>1
  <2>3. /\ SumFunctionOnSet(f, T) \in Int /\ SumFunctionOnSet(f, U) \in Int
        /\ SumFunctionOnSet(f, T \cup U)
             = SumFunctionOnSet(f, T) + SumFunctionOnSet(f, U)
    BY <1>3, <2>1, <2>2, SumUnion
  <2> QED
    BY <2>1, <2>3 DEF U
<1>5. SumFunctionOnSet(f, Refunds \ T) = 0
  BY <1>3, SumZero
<1>6. SumFunctionOnSet(f, T) = SumFunctionOnSet(g, T)
  BY <1>3, SumSame
<1>7. SumFunctionOnSet(g, T) = SumFunctionOnSet(f, Refunds)
  BY <1>4, <1>5, <1>6
<1> QED
  BY <1>7 DEF Refunded, Out, f, g, T

LEMMA LinkSumSame ==
    ASSUME NEW L, IsFiniteSet(L), NEW f, \A l \in L : f[l] = l.amount
    PROVE  LinkSum(L) = SumFunctionOnSet(f, L)
<1> DEFINE g == [l \in L |-> l.amount]
<1>1. \A l \in L : f[l] = g[l]
  OBVIOUS
<1> HIDE DEF g
<1>2. SumFunctionOnSet(f, L) = SumFunctionOnSet(g, L)
  BY <1>1, SumSame
<1> QED
  BY <1>2 DEF LinkSum, g

LEMMA HeldIsHeldOf ==
    ASSUME NEW L \in SUBSET Cil, IsFiniteSet(L), NEW sn
    PROVE  Held({l \in L : DepositedBy[l.credit] = sn}) = HeldOf(L, sn)
<1> DEFINE M == {l \in L : DepositedBy[l.credit] = sn}
           P == {l \in M : l.status \in {"PENDING", "COMPLETED"}}
           N == {l \in M : l.status \in {"PENDING_REFUND", "REFUNDED"}}
           f == [l \in L |-> Weight(l, sn)]
           g == [l \in L |-> l.amount]
           h == [l \in L |-> 0]
           Z == (L \ P) \ N
<1>1. /\ P \in SUBSET L /\ N \in SUBSET L /\ Z \in SUBSET L
      /\ P \cap N = {} /\ (P \cup N) \cap Z = {} /\ (P \cup N) \cup Z = L
      /\ IsFiniteSet(P) /\ IsFiniteSet(N) /\ IsFiniteSet(Z)
      /\ IsFiniteSet(P \cup N)
  <2>1. P \in SUBSET L /\ N \in SUBSET L /\ Z \in SUBSET L
    OBVIOUS
  <2>2. P \cap N = {} /\ (P \cup N) \cap Z = {} /\ (P \cup N) \cup Z = L
    OBVIOUS
  <2> HIDE DEF P, N, Z
  <2>3. P \cup N \in SUBSET L
    BY <2>1
  <2> QED
    BY <2>1, <2>2, <2>3, FS_Subset
<1>2. \A l \in L : f[l] \in Int /\ g[l] \in Int /\ l.amount \in Int
  BY WeightType, CilFields
<1>3. /\ \A l \in P : g[l] = l.amount /\ f[l] = g[l]
      /\ \A l \in N : g[l] = l.amount /\ f[l] \in Int /\ g[l] \in Int
           /\ h[l] = f[l] + g[l] /\ h[l] = 0
      /\ \A l \in Z : f[l] = 0
  <2>1. \A l \in P : g[l] = l.amount /\ f[l] = g[l]
    BY DEF Weight, Payer
  <2>2. \A l \in N : f[l] = - l.amount /\ g[l] = l.amount /\ h[l] = 0 /\ l \in L
    BY DEF Weight, Payer, IsReturn
  <2>3. \A l \in Z : f[l] = 0
    BY DEF Weight, Payer, IsReturn
  <2>4. \A l \in N : h[l] = f[l] + g[l]
    <3> HIDE DEF f, g, h, N
    <3> QED
      BY <1>2, <2>2
  <2> HIDE DEF f, g, h, N, P, Z
  <2> QED
    BY <1>2, <2>1, <2>2, <2>3, <2>4
<1>4. /\ InStatus(M, {"PENDING", "COMPLETED"}) = LinkSum(P)
      /\ InStatus(M, {"PENDING_REFUND", "REFUNDED"}) = LinkSum(N)
  BY DEF InStatus
<1> HIDE DEF M, P, N, f, g, h, Z
<1>6. /\ SumFunctionOnSet(f, P \cup N) \in Int /\ SumFunctionOnSet(f, Z) \in Int
      /\ SumFunctionOnSet(f, L)
           = SumFunctionOnSet(f, P \cup N) + SumFunctionOnSet(f, Z)
  <2> DEFINE PN == P \cup N
  <2>1. /\ IsFiniteSet(PN) /\ IsFiniteSet(Z) /\ PN \cap Z = {}
        /\ PN \cup Z = L
    BY <1>1
  <2> HIDE DEF PN
  <2>2. \A l \in PN \cup Z : f[l] \in Int
    BY <1>2, <2>1
  <2>3. /\ SumFunctionOnSet(f, PN) \in Int /\ SumFunctionOnSet(f, Z) \in Int
        /\ SumFunctionOnSet(f, PN \cup Z)
             = SumFunctionOnSet(f, PN) + SumFunctionOnSet(f, Z)
    BY <2>1, <2>2, SumUnion
  <2> QED
    BY <2>1, <2>3 DEF PN
<1>7. /\ SumFunctionOnSet(f, P) \in Int /\ SumFunctionOnSet(f, N) \in Int
      /\ SumFunctionOnSet(f, P \cup N)
           = SumFunctionOnSet(f, P) + SumFunctionOnSet(f, N)
  <2>1. \A l \in P \cup N : f[l] \in Int
    BY <1>1, <1>2
  <2>2. IsFiniteSet(P) /\ IsFiniteSet(N) /\ P \cap N = {}
    BY <1>1
  <2> QED
    BY <2>1, <2>2, SumUnion
<1>8. SumFunctionOnSet(f, Z) = 0
  BY <1>1, <1>3, SumZero
<1>9. LinkSum(P) = SumFunctionOnSet(f, P)
  BY <1>1, <1>3, LinkSumSame
<1>10. LinkSum(N) = SumFunctionOnSet(g, N) /\ SumFunctionOnSet(g, N) \in Int
  BY <1>1, <1>3, LinkSumSame, SumInt
<1>11. SumFunctionOnSet(h, N) = SumFunctionOnSet(f, N) + SumFunctionOnSet(g, N)
  BY <1>1, <1>3, SumPlus
<1>12. SumFunctionOnSet(h, N) = 0
  BY <1>1, <1>3, SumZero
<1>13. LinkSum(P) - LinkSum(N) = SumFunctionOnSet(f, L)
  BY <1>6, <1>7, <1>8, <1>9, <1>10, <1>11, <1>12
<1> QED
  BY <1>4, <1>13 DEF Held, HeldOf, M, f

-----------------------------------------------------------------------------
(* The steps of a request.                                                 *)

LEMMA TxnMoneyTypes ==
    ASSUME NEW t \in Txn, IsFiniteSet(t.cils), NEW sn
    PROVE  /\ Balance(t.rem, sn) \in Int /\ Out(t.refunds, sn) \in Int
           /\ HeldOf(t.cils, sn) \in Int /\ Rest(t, sn) \in Int
<1>1. Balance(t.rem, sn) \in Int
  BY TxnFields, BalanceType
<1>2. Out(t.refunds, sn) \in Int
  BY TxnFields, OutType
<1>3. HeldOf(t.cils, sn) \in Int
  BY TxnFields, HeldType
<1>4. Rest(t, sn) \in Int
  BY TxnFields DEF Rest
<1> QED
  BY <1>1, <1>2, <1>3, <1>4

LEMMA StepMoney ==
    ASSUME MoneyInv, NEW t, t = NoTxn \/ MoneyTxn(t), txn' = t,
           UNCHANGED tables
    PROVE  MoneyInv'
<1>1. MoneyTable'
  BY DEF tables, MoneyInv, MoneyTable, Deposited
<1>2. t # NoTxn => MoneyTxn(txn)'
  BY DEF tables, MoneyTxn, Deposited
<1> QED
  BY <1>1, <1>2 DEF MoneyInv

\* What is in progress has finite tables and accounts for all money.
LEMMA OpenMoney ==
    ASSUME IInv, LinksInv, MoneyInv, txn.open
    PROVE  /\ txn \in Txn /\ txn # NoTxn /\ MoneyTxn(txn) /\ GoodTxn(txn)
           /\ txn.cils \in SUBSET Cil /\ IsFiniteSet(txn.cils)
           /\ Numbered(txn.cils, txn.lastCil) /\ Todo(txn) /\ Pays(txn)
<1>1. GoodTxn(txn) /\ txn \in Txn /\ txn # NoTxn
  BY OpenIsGood DEF GoodTxn, NoTxn
<1>2. TxnLinks(txn) /\ MoneyTxn(txn)
  BY <1>1 DEF LinksInv, MoneyInv
<1> QED
  BY <1>1, <1>2, TxnFields DEF TxnLinks, Links, Numbered

\* What comes back to a short name when x of link l does.
Back(l, x, sn) == IF Payer(l) = sn THEN x ELSE 0

\* A cancelled link holds nothing any more.
LEMMA UndoneWeight ==
    ASSUME NEW L \in SUBSET Cil, NEW last, Numbered(L, last), NEW l \in L,
           NEW r \in Cil, NEW group, Undone(l, r, group),
           l.status = "PENDING", NEW sn
    PROVE  HeldOf((L \ {l}) \cup {r}, sn)
             = HeldOf(L, sn) - Back(l, l.amount, sn)
<1>1. IsFiniteSet(L) /\ r \notin L \ {l}
  BY DEF Numbered, Undone
<1>2. /\ Weight(l, sn) = IF Payer(l) = sn THEN l.amount ELSE 0
      /\ Weight(r, sn) = 0
  BY DEF Weight, Undone, IsReturn
<1>3. HeldOf((L \ {l}) \cup {r}, sn)
        = HeldOf(L, sn) - Weight(l, sn) + Weight(r, sn)
  BY <1>1, HeldReplace
<1>4. HeldOf(L, sn) \in Int /\ Weight(l, sn) \in Int
  BY <1>1, HeldType, WeightType
<1> QED
  BY <1>2, <1>3, <1>4 DEF Back

\* A link that returns x holds that much less.
LEMMA ReturnWeight ==
    ASSUME NEW L \in SUBSET Cil, Numbered(L, txn.lastCil), NEW l \in L,
           txn.lastCil \in Nat, Returning(txn), NEW x \in Nat,
           NEW r \in Cil, ReturnOf(l, r, x), NEW sn
    PROVE  HeldOf(L \cup {r}, sn)
             = HeldOf(L, sn) - Back(l, x, sn)
<1>1. IsFiniteSet(L)
  BY DEF Numbered
<1>2. r \notin L
  BY DEF Numbered, ReturnOf
<1>3. Weight(r, sn) = IF Payer(l) = sn THEN -x ELSE 0
  BY DEF Weight, ReturnOf, IsReturn, Returning, SameReceipt, SameCredit, Payer
<1>4. HeldOf(L \cup {r}, sn) = HeldOf(L, sn) + Weight(r, sn)
  BY <1>1, <1>2, HeldAdd
<1>5. HeldOf(L, sn) \in Int
  BY <1>1, HeldType
<1> QED
  BY <1>3, <1>4, <1>5 DEF Back

\* What a step of the request changes: the balance and the links of each
\* short name, and what is still to be done.
LEMMA MoneyMoves ==
    ASSUME MoneyInv, NEW t \in Txn, IsFiniteSet(t.cils), MoneyTxn(t),
           NEW u \in Txn, IsFiniteSet(u.cils), u.refunds = t.refunds,
           \A sn \in ShortNames :
             Balance(u.rem, sn) + HeldOf(u.cils, sn) + Rest(u, sn)
               = Balance(t.rem, sn) + HeldOf(t.cils, sn) + Rest(t, sn),
           u.cur = NoInvoice => u.need <= Balance(u.rem, u.sn)
    PROVE  MoneyTxn(u)
<1>1. ASSUME NEW sn \in ShortNames
      PROVE  Balance(u.rem, sn) + Out(u.refunds, sn) + HeldOf(u.cils, sn)
               + Rest(u, sn) = Deposited(sn)
  <2>1. Balance(u.rem, sn) + HeldOf(u.cils, sn) + Rest(u, sn)
          = Balance(t.rem, sn) + HeldOf(t.cils, sn) + Rest(t, sn)
    OBVIOUS
  <2>2. Balance(t.rem, sn) + Out(t.refunds, sn) + HeldOf(t.cils, sn)
          + Rest(t, sn) = Deposited(sn)
    BY DEF MoneyTxn
  <2>3. /\ Balance(t.rem, sn) \in Int /\ Out(t.refunds, sn) \in Int
        /\ HeldOf(t.cils, sn) \in Int /\ Rest(t, sn) \in Int
    BY TxnMoneyTypes
  <2>4. /\ Balance(u.rem, sn) \in Int /\ Out(u.refunds, sn) \in Int
        /\ HeldOf(u.cils, sn) \in Int /\ Rest(u, sn) \in Int
    BY TxnMoneyTypes
  <2>5. Out(u.refunds, sn) = Out(t.refunds, sn)
    OBVIOUS
  <2> DEFINE a == Balance(t.rem, sn)
             b == Out(t.refunds, sn)
             c == HeldOf(t.cils, sn)
             d == Rest(t, sn)
             e == Balance(u.rem, sn)
             f == Out(u.refunds, sn)
             g == HeldOf(u.cils, sn)
             h == Rest(u, sn)
  <2> HIDE DEF a, b, c, d, e, f, g, h
  <2>6. e + f + g + h = Deposited(sn)
    <3>1. e + g + h = a + c + d
      BY <2>1 DEF a, c, d, e, g, h
    <3>2. a + b + c + d = Deposited(sn)
      BY <2>2 DEF a, b, c, d
    <3>3. a \in Int /\ b \in Int /\ c \in Int /\ d \in Int
      BY <2>3 DEF a, b, c, d
    <3>4. e \in Int /\ f \in Int /\ g \in Int /\ h \in Int
      BY <2>4 DEF e, f, g, h
    <3>5. f = b
      BY <2>5 DEF f, b
    <3> QED
      BY <3>1, <3>2, <3>3, <3>4, <3>5
  <2> QED
    BY <2>6 DEF e, f, g, h
<1> QED
  BY <1>1 DEF MoneyTxn

\* An amount goes from a link back to its credit.
LEMMA ReturnCreditMoney ==
    ASSUME IInv, LinksInv, MoneyInv, txn.open, ReturnCredit
    PROVE  MoneyInv'
<1>1. /\ txn \in Txn /\ txn # NoTxn /\ MoneyTxn(txn) /\ GoodTxn(txn)
      /\ txn.cils \in SUBSET Cil /\ IsFiniteSet(txn.cils)
      /\ Numbered(txn.cils, txn.lastCil) /\ Todo(txn)
  BY OpenMoney
<1>2. CASE Rollback
  BY <1>2, StepMoney DEF Rollback
<1>3. CASE ~ Rollback
  <2>1. PICK u, l, x :
          /\ l \in txn.todo /\ x \in Nat /\ x = ReturnAmount(l)
          /\ u = PutBack(txn, txn.todo \ {l}, l.credit,
                         txn.rem[l.credit] + x, Recorded(l, x),
                         IF AddsReturn THEN txn.lastCil + 1
                         ELSE txn.lastCil)
          /\ txn' = u /\ UNCHANGED tables
    BY <1>3, ReturnCreditSteps
  <2> DEFINE todo == txn.todo \ {l}
             c == l.credit
             amount == txn.rem[c] + x
             L == Recorded(l, x)
             last == IF AddsReturn THEN txn.lastCil + 1 ELSE txn.lastCil
  <2>2. /\ c \in Credits /\ todo \in SUBSET Cil /\ last \in Nat
             /\ amount \in Nat
        /\ L \in SUBSET Cil /\ txn.rem \in [Credits -> Nat]
        /\ txn.rem[c] \in Nat /\ txn.lastCil \in Nat
        /\ l \in txn.cils
    <3>1. /\ c \in Credits /\ todo \in SUBSET Cil /\ last \in Nat
          /\ txn.rem \in [Credits -> Nat] /\ txn.lastCil \in Nat
      BY <1>1, <2>1, TxnFields, CilFields
    <3>2. L \in SUBSET Cil
      BY <1>1, <2>1, RecordedType
    <3>3. txn.rem[c] \in Nat
      BY <3>1
    <3>4. amount \in Nat
      BY <2>1, <3>3
    <3>5. l \in txn.cils
      BY <1>1, <2>1 DEF Todo
    <3> QED
      BY <3>1, <3>2, <3>3, <3>4, <3>5
  <2>3. u = PutBack(txn, todo, c, amount, L, last)
    BY <2>1
  <2> HIDE DEF todo, c, amount, last
  <2>4. /\ u \in Txn /\ u.cils = L /\ u.sn = txn.sn /\ u.cur = txn.cur
        /\ u.need = txn.need /\ u.refill = txn.refill
        /\ u.refunds = txn.refunds
        /\ u.rem = [txn.rem EXCEPT ![c] = amount]
    <3> HIDE DEF L
    <3> QED
      BY <1>1, <2>2, <2>3, PutBackType
  <2>5. PICK r \in Cil :
          \/ /\ txn.mode = "CANCEL" /\ Undone(l, r, l.group)
             /\ Recorded(l, x) = (txn.cils \ {l}) \cup {r}
          \/ /\ txn.mode = "REGROUP" /\ Undone(l, r, txn.group)
             /\ Recorded(l, x) = (txn.cils \ {l}) \cup {r}
          \/ /\ Returning(txn) /\ ReturnOf(l, r, x)
             /\ Recorded(l, x) = txn.cils \cup {r}
    BY <1>1, <2>1, RecordedShape
  <2>6. ASSUME NEW sn
        PROVE  HeldOf(u.cils, sn)
                 = HeldOf(txn.cils, sn) - Back(l, x, sn)
    <3>1. CASE Returning(txn)
      <4>1. ReturnOf(l, r, x) /\ u.cils = txn.cils \cup {r}
        BY <2>4, <2>5, <3>1 DEF Returning
      <4> QED
        <5> DEFINE K == txn.cils
        <5>1. /\ K \in SUBSET Cil /\ Numbered(K, txn.lastCil) /\ l \in K
              /\ u.cils = K \cup {r}
          BY <1>1, <2>2, <4>1
        <5> HIDE DEF K
        <5>2. HeldOf(K \cup {r}, sn) = HeldOf(K, sn) - Back(l, x, sn)
          BY <2>1, <2>2, <3>1, <4>1, <5>1, ReturnWeight
        <5> QED
          BY <5>1, <5>2 DEF K
    <3>2. CASE ~ Returning(txn)
      <4>1. x = l.amount /\ l.status = "PENDING"
        BY <1>1, <2>1, <3>2 DEF ReturnAmount, Todo, Returning
      <4>2. PICK group : Undone(l, r, group)
        BY <2>5, <3>2
      <4>3. u.cils = (txn.cils \ {l}) \cup {r}
        BY <2>4, <2>5, <3>2
      <4>4. HeldOf((txn.cils \ {l}) \cup {r}, sn)
              = HeldOf(txn.cils, sn) - Back(l, l.amount, sn)
        <5> DEFINE K == txn.cils
                   last0 == txn.lastCil
        <5>1. K \in SUBSET Cil /\ Numbered(K, last0) /\ l \in K
          BY <1>1, <2>2
        <5> HIDE DEF K, last0
        <5>2. HeldOf((K \ {l}) \cup {r}, sn)
                = HeldOf(K, sn) - Back(l, l.amount, sn)
          BY <4>1, <4>2, <5>1, UndoneWeight
        <5> QED
          BY <5>2 DEF K
      <4> QED
        BY <4>1, <4>3, <4>4
    <3> QED
      BY <3>1, <3>2
  <2>7. ASSUME NEW sn
        PROVE  /\ Balance(txn.rem, sn) \in Int
               /\ Balance(u.rem, sn)
                    = Balance(txn.rem, sn) + Back(l, x, sn)
    <3> DEFINE rem == u.rem
    <3>1. rem = [txn.rem EXCEPT ![c] = amount]
      BY <2>4
    <3> HIDE DEF rem
    <3>2. /\ Balance(txn.rem, sn) \in Int
          /\ DepositedBy[c] = sn =>
               Balance(rem, sn) = Balance(txn.rem, sn) + (amount - txn.rem[c])
          /\ DepositedBy[c] # sn => Balance(rem, sn) = Balance(txn.rem, sn)
      BY <2>2, <3>1, BalanceSet
    <3>3. amount - txn.rem[c] = x /\ DepositedBy[c] = Payer(l)
      BY <2>1, <2>2 DEF amount, Payer, c
    <3>4. Balance(rem, sn)
            = Balance(txn.rem, sn) + Back(l, x, sn)
      BY <3>2, <3>3 DEF Back
    <3> QED
      BY <3>2, <3>4 DEF rem
  <2>8. \A sn \in ShortNames :
          Balance(u.rem, sn) + HeldOf(u.cils, sn) + Rest(u, sn)
            = Balance(txn.rem, sn) + HeldOf(txn.cils, sn) + Rest(txn, sn)
    <3> SUFFICES ASSUME NEW sn \in ShortNames
                 PROVE  Balance(u.rem, sn) + HeldOf(u.cils, sn) + Rest(u, sn)
                          = Balance(txn.rem, sn) + HeldOf(txn.cils, sn)
                              + Rest(txn, sn)
      OBVIOUS
    <3>1. Rest(u, sn) = Rest(txn, sn)
      BY <2>4 DEF Rest
    <3>2. /\ Balance(txn.rem, sn) \in Int /\ HeldOf(txn.cils, sn) \in Int
          /\ Rest(txn, sn) \in Int
      BY <1>1, TxnMoneyTypes
    <3> DEFINE y == Back(l, x, sn)
    <3>3. y \in Int
      BY <2>1 DEF Back
    <3>4. /\ HeldOf(u.cils, sn) = HeldOf(txn.cils, sn) - y
          /\ Balance(u.rem, sn) = Balance(txn.rem, sn) + y
      BY <2>6, <2>7
    <3> HIDE DEF y
    <3> QED
      BY <3>1, <3>2, <3>3, <3>4
  <2>9. u.cur = NoInvoice => u.need <= Balance(u.rem, u.sn)
    <3>1. u.cur = NoInvoice => u.need <= Balance(txn.rem, u.sn)
      BY <1>1, <2>4 DEF MoneyTxn
    <3>2. u.need \in Nat
      BY <2>4, TxnFields
    <3>3. /\ Balance(txn.rem, u.sn) \in Int
          /\ Balance(u.rem, u.sn)
               = Balance(txn.rem, u.sn) + Back(l, x, u.sn)
      BY <2>7
    <3> QED
      BY <2>1, <3>1, <3>2, <3>3 DEF Back
  <2>10. IsFiniteSet(u.cils)
    <3>1. IsFiniteSet(txn.cils \ {l}) /\ u.cils \subseteq txn.cils \cup {r}
      BY <1>1, <2>4, <2>5, FS_Difference, FS_Singleton
    <3>2. IsFiniteSet(txn.cils \cup {r})
      BY <1>1, FS_AddElement
    <3> QED
      BY <3>1, <3>2, FS_Subset
  <2>11. MoneyTxn(u)
    BY <1>1, <2>4, <2>8, <2>9, <2>10, MoneyMoves
  <2> QED
    BY <2>1, <2>11, StepMoney
<1> QED
  BY <1>2, <1>3

LEMMA NextInvoiceMoney ==
    ASSUME IInv, LinksInv, MoneyInv, txn.open, NextInvoice
    PROVE  MoneyInv'
<1>1. /\ txn \in Txn /\ MoneyTxn(txn) /\ IsFiniteSet(txn.cils)
      /\ txn.need = 0
  BY OpenMoney DEF NextInvoice
<1>2. PICK u, i :
        /\ i \in txn.due /\ u \in Txn /\ u.cur = i
        /\ u.cils = txn.cils /\ u.sn = txn.sn /\ u.refill = txn.refill
        /\ u.rem = txn.rem /\ u.refunds = txn.refunds
        /\ txn' = u /\ UNCHANGED tables
  BY NextInvoiceSteps
<1>3. u.cur # NoInvoice /\ txn.refill \in Nat
  BY <1>1, <1>2, TxnFields DEF Invoices, NoInvoice
<1>4. \A sn \in ShortNames : Rest(u, sn) = Rest(txn, sn)
  BY <1>1, <1>2, <1>3 DEF Rest
<1>5. \A sn \in ShortNames :
        Balance(u.rem, sn) + HeldOf(u.cils, sn) + Rest(u, sn)
          = Balance(txn.rem, sn) + HeldOf(txn.cils, sn) + Rest(txn, sn)
  BY <1>2, <1>4
<1>6. u.cur = NoInvoice => u.need <= Balance(u.rem, u.sn)
  BY <1>3
<1>7. IsFiniteSet(u.cils)
  BY <1>1, <1>2
<1>8. MoneyTxn(u)
  BY <1>1, <1>2, <1>5, <1>6, <1>7, MoneyMoves
<1> QED
  BY <1>2, <1>8, StepMoney

\* What one credit gives goes to a link, or to the short name refund.
LEMMA TakesMoney ==
    ASSUME IInv, LinksInv, MoneyInv, txn.open, txn.need > 0,
           NEW c, NEW x, NEW L, NEW last, Takes(c, x, L, last)
    PROVE  MoneyTxn(txn')
<1>1. /\ txn \in Txn /\ MoneyTxn(txn) /\ txn.cils \in SUBSET Cil
      /\ IsFiniteSet(txn.cils) /\ Numbered(txn.cils, txn.lastCil)
  BY OpenMoney
<1> DEFINE u == txn'
           n == txn.rem[c] - x
           need == txn.need - x
           K == txn.cils
<1>2. /\ txn.rem \in [Credits -> Nat] /\ txn.need \in Nat
      /\ txn.lastCil \in Nat /\ txn.refill \in Nat
  BY <1>1, TxnFields
<1>3. /\ c \in Credits /\ c \in CreditsOf(txn.sn) /\ txn.rem[c] \in Nat
      /\ DepositedBy[c] = txn.sn
      /\ x \in Nat /\ x <= txn.rem[c] /\ x <= txn.need
      /\ PaidBy(c, x, L, last)
  BY <1>2 DEF Takes, CreditsOf
<1>4. n \in Nat /\ need \in Nat
  BY <1>2, <1>3
<1>5. L \in SUBSET Cil /\ last \in Nat
  BY <1>1, <1>2, <1>3 DEF PaidBy
<1>6. u = SetCredit(txn, c, n, need, txn.refill, L, last)
  BY DEF Takes
<1> HIDE DEF n, need, u
<1>7. /\ u \in Txn /\ u.cils = L /\ u.rem = [txn.rem EXCEPT ![c] = n]
      /\ u.sn = txn.sn /\ u.cur = txn.cur /\ u.need = need
      /\ u.refill = txn.refill /\ u.refunds = txn.refunds
  BY <1>1, <1>2, <1>3, <1>4, <1>5, <1>6, SetCreditType
<1>8. ASSUME NEW sn
      PROVE  /\ Balance(txn.rem, sn) \in Int
             /\ txn.sn = sn => Balance(u.rem, sn) = Balance(txn.rem, sn) - x
             /\ txn.sn # sn => Balance(u.rem, sn) = Balance(txn.rem, sn)
  <2> DEFINE rem == u.rem
  <2>1. rem = [txn.rem EXCEPT ![c] = n]
    BY <1>7
  <2> HIDE DEF rem
  <2>2. /\ Balance(txn.rem, sn) \in Int
        /\ DepositedBy[c] = sn =>
             Balance(rem, sn) = Balance(txn.rem, sn) + (n - txn.rem[c])
        /\ DepositedBy[c] # sn => Balance(rem, sn) = Balance(txn.rem, sn)
    BY <1>2, <1>3, <1>4, <2>1, BalanceSet
  <2>3. n - txn.rem[c] = -x
    BY <1>3 DEF n
  <2>4. /\ txn.sn = sn => Balance(rem, sn) = Balance(txn.rem, sn) - x
        /\ txn.sn # sn => Balance(rem, sn) = Balance(txn.rem, sn)
    BY <1>3, <2>2, <2>3
  <2> QED
    BY <2>2, <2>4 DEF rem
<1>9. ASSUME NEW sn
      PROVE  /\ HeldOf(K, sn) \in Int
             /\ txn.sn = sn /\ txn.cur # NoInvoice =>
                  HeldOf(u.cils, sn) = HeldOf(K, sn) + x
             /\ txn.sn # sn \/ txn.cur = NoInvoice =>
                  HeldOf(u.cils, sn) = HeldOf(K, sn)
  <2>1. HeldOf(K, sn) \in Int
    BY <1>1, HeldType
  <2>2. CASE txn.cur = NoInvoice
    BY <1>3, <1>7, <2>1, <2>2 DEF PaidBy
  <2>3. CASE txn.cur # NoInvoice
    <3>1. PICK r \in Cil : /\ r.id = txn.lastCil + 1 /\ r.credit = c
                           /\ r.amount = x /\ r.status = "PENDING"
                           /\ L = txn.cils \cup {r}
      BY <1>3, <2>3 DEF PaidBy
    <3>2. r \notin K
      BY <1>1, <1>2, <3>1 DEF Numbered
    <3>3. Weight(r, sn) = IF txn.sn = sn THEN x ELSE 0
      BY <1>3, <3>1 DEF Weight, Payer
    <3>4. u.cils = K \cup {r} /\ K \in SUBSET Cil /\ IsFiniteSet(K)
      BY <1>1, <1>7, <3>1
    <3> HIDE DEF K
    <3>5. HeldOf(K \cup {r}, sn) = HeldOf(K, sn) + Weight(r, sn)
      BY <3>1, <3>2, <3>4, HeldAdd
    <3> QED
      BY <1>3, <2>1, <2>3, <3>3, <3>4, <3>5
  <2> QED
    BY <2>1, <2>2, <2>3
<1>10. \A sn \in ShortNames :
         Balance(u.rem, sn) + HeldOf(u.cils, sn) + Rest(u, sn)
           = Balance(txn.rem, sn) + HeldOf(txn.cils, sn) + Rest(txn, sn)
  <2> SUFFICES ASSUME NEW sn \in ShortNames
               PROVE  Balance(u.rem, sn) + HeldOf(u.cils, sn) + Rest(u, sn)
                        = Balance(txn.rem, sn) + HeldOf(txn.cils, sn)
                            + Rest(txn, sn)
    OBVIOUS
  <2>1. /\ Balance(txn.rem, sn) \in Int /\ HeldOf(txn.cils, sn) \in Int
        /\ Rest(txn, sn) \in Int
    BY <1>1, TxnMoneyTypes
  <2>2. /\ txn.sn # sn \/ txn.cur # NoInvoice => Rest(u, sn) = Rest(txn, sn)
        /\ txn.sn = sn /\ txn.cur = NoInvoice =>
             Rest(u, sn) = Rest(txn, sn) + x
    BY <1>2, <1>3, <1>7 DEF Rest, need
  <2>3. CASE txn.sn # sn
    BY <1>8, <1>9, <2>1, <2>2, <2>3
  <2>4. CASE txn.sn = sn /\ txn.cur = NoInvoice
    BY <1>3, <1>8, <1>9, <2>1, <2>2, <2>4
  <2>5. CASE txn.sn = sn /\ txn.cur # NoInvoice
    BY <1>3, <1>8, <1>9, <2>1, <2>2, <2>5
  <2> QED
    BY <2>3, <2>4, <2>5
<1>11. u.cur = NoInvoice => u.need <= Balance(u.rem, u.sn)
  <2>1. txn.cur = NoInvoice => txn.need <= Balance(txn.rem, txn.sn)
    BY <1>1 DEF MoneyTxn
  <2>2. /\ Balance(txn.rem, txn.sn) \in Int
        /\ Balance(u.rem, txn.sn) = Balance(txn.rem, txn.sn) - x
    BY <1>8
  <2> QED
    BY <1>2, <1>3, <1>7, <2>1, <2>2 DEF need
<1>12. IsFiniteSet(u.cils)
  <2>1. u.cils = K \/ \E r : u.cils = K \cup {r}
    BY <1>3, <1>7 DEF PaidBy
  <2> QED
    BY <1>1, <2>1, FS_AddElement
<1>13. MoneyTxn(u)
  BY <1>1, <1>7, <1>10, <1>11, <1>12, MoneyMoves
<1> QED
  BY <1>13 DEF u

LEMMA TakeCreditMoney ==
    ASSUME IInv, LinksInv, MoneyInv, txn.open, TakeCredit
    PROVE  MoneyInv'
<1>1. /\ txn \in Txn /\ MoneyTxn(txn) /\ IsFiniteSet(txn.cils)
      /\ txn.need > 0 /\ txn.need \in Nat /\ UNCHANGED tables
  BY OpenMoney, TakeCreditSteps, TxnFields
<1>2. CASE \E c, x, L, last : Takes(c, x, L, last)
  <2>1. PICK c, x, L, last : Takes(c, x, L, last)
    BY <1>2
  <2>2. MoneyTxn(txn')
    BY <1>1, <2>1, TakesMoney
  <2> QED
    BY <1>1, <2>2, StepMoney
<1>3. CASE ~ \E c, x, L, last : Takes(c, x, L, last)
  <2> DEFINE u == [txn EXCEPT !.need = 0]
  <2>1. txn' = u
    BY <1>3, TakeCreditSteps
  <2>2. /\ u \in Txn /\ u.cils = txn.cils /\ u.sn = txn.sn
        /\ u.cur = txn.cur /\ u.need = 0 /\ u.refill = txn.refill
        /\ u.rem = txn.rem /\ u.refunds = txn.refunds
    BY <1>1 DEF Txn
  <2>3. Balance(txn.rem, txn.sn) < txn.need
    BY <1>3, TakeCreditSteps
  <2>4. txn.cur # NoInvoice
    <3>1. Balance(txn.rem, txn.sn) \in Int
      BY <1>1, TxnMoneyTypes
    <3> QED
      BY <1>1, <2>3, <3>1 DEF MoneyTxn
  <2> HIDE DEF u
  <2>5. \A sn \in ShortNames : Rest(u, sn) = Rest(txn, sn)
    BY <2>2, <2>4 DEF Rest
  <2>6. \A sn \in ShortNames :
          Balance(u.rem, sn) + HeldOf(u.cils, sn) + Rest(u, sn)
            = Balance(txn.rem, sn) + HeldOf(txn.cils, sn) + Rest(txn, sn)
    BY <2>2, <2>5
  <2>7. u.cur = NoInvoice => u.need <= Balance(u.rem, u.sn)
    BY <2>2, <2>4
  <2>8. IsFiniteSet(u.cils)
    BY <1>1, <2>2
  <2>9. MoneyTxn(u)
    BY <1>1, <2>2, <2>6, <2>7, <2>8, MoneyMoves
  <2> QED
    BY <1>1, <2>1, <2>9, StepMoney
<1> QED
  BY <1>2, <1>3

LEMMA RefillCreditMoney ==
    ASSUME IInv, LinksInv, MoneyInv, txn.open, RefillCredit
    PROVE  MoneyInv'
<1>1. txn \in Txn /\ MoneyTxn(txn) /\ IsFiniteSet(txn.cils)
  BY OpenMoney
<1>2. CASE Rollback
  BY <1>2, StepMoney DEF Rollback
<1>3. CASE ~ Rollback
  <2>1. PICK u, c, x :
          /\ UNCHANGED tables
          /\ c \in CreditsOf(txn.sn) /\ x \in Nat /\ x <= txn.refill
          /\ u = SetCredit(txn, c, txn.rem[c] + x, txn.need,
                           txn.refill - x, txn.cils, txn.lastCil)
          /\ txn' = u
    BY <1>3, RefillCreditSteps
  <2> DEFINE n == txn.rem[c] + x
             refill == txn.refill - x
             need == txn.need
             L == txn.cils
             last == txn.lastCil
  <2>2. /\ txn.rem \in [Credits -> Nat] /\ need \in Nat /\ txn.refill \in Nat
        /\ L \in SUBSET Cil /\ last \in Nat /\ c \in Credits
        /\ DepositedBy[c] = txn.sn
    BY <1>1, <2>1, TxnFields DEF CreditsOf
  <2>3. txn.rem[c] \in Nat
    BY <2>2
  <2>4. n \in Nat /\ refill \in Nat
    BY <2>1, <2>2, <2>3
  <2>5. u = SetCredit(txn, c, n, need, refill, L, last)
    BY <2>1
  <2> HIDE DEF n, refill, need, L, last
  <2>6. /\ u \in Txn
        /\ u.inv = txn.inv /\ u.due = txn.due /\ u.cils = L
        /\ u.todo = txn.todo
        /\ u.rem = [txn.rem EXCEPT ![c] = n]
        /\ u.lastCil = last /\ u.sn = txn.sn /\ u.group = txn.group
        /\ u.mode = txn.mode /\ u.cur = txn.cur /\ u.need = need
        /\ u.refill = refill /\ u.refunds = txn.refunds
    BY <1>1, <2>2, <2>4, <2>5, SetCreditType
  <2>7. ASSUME NEW sn
        PROVE  /\ Balance(txn.rem, sn) \in Int
               /\ txn.sn = sn => Balance(u.rem, sn) = Balance(txn.rem, sn) + x
               /\ txn.sn # sn => Balance(u.rem, sn) = Balance(txn.rem, sn)
    <3> DEFINE rem == u.rem
    <3>1. rem = [txn.rem EXCEPT ![c] = n]
      BY <2>6
    <3> HIDE DEF rem
    <3>2. /\ Balance(txn.rem, sn) \in Int
          /\ DepositedBy[c] = sn =>
               Balance(rem, sn) = Balance(txn.rem, sn) + (n - txn.rem[c])
          /\ DepositedBy[c] # sn => Balance(rem, sn) = Balance(txn.rem, sn)
      BY <2>2, <2>4, <3>1, BalanceSet
    <3>3. n - txn.rem[c] = x
      BY <2>1, <2>3 DEF n
    <3>4. /\ txn.sn = sn => Balance(rem, sn) = Balance(txn.rem, sn) + x
          /\ txn.sn # sn => Balance(rem, sn) = Balance(txn.rem, sn)
      BY <2>2, <3>2, <3>3
    <3> QED
      BY <3>2, <3>4 DEF rem
  <2>8. \A sn \in ShortNames :
          Balance(u.rem, sn) + HeldOf(u.cils, sn) + Rest(u, sn)
            = Balance(txn.rem, sn) + HeldOf(txn.cils, sn) + Rest(txn, sn)
    <3> SUFFICES ASSUME NEW sn \in ShortNames
                 PROVE  Balance(u.rem, sn) + HeldOf(u.cils, sn) + Rest(u, sn)
                          = Balance(txn.rem, sn) + HeldOf(txn.cils, sn)
                              + Rest(txn, sn)
      OBVIOUS
    <3>1. /\ Balance(txn.rem, sn) \in Int /\ HeldOf(txn.cils, sn) \in Int
          /\ Rest(txn, sn) \in Int
      BY <1>1, TxnMoneyTypes
    <3>2. /\ txn.sn # sn => Rest(u, sn) = Rest(txn, sn)
          /\ txn.sn = sn => Rest(u, sn) = Rest(txn, sn) - x
      BY <2>1, <2>2, <2>6 DEF Rest, need, refill
    <3>3. HeldOf(u.cils, sn) = HeldOf(txn.cils, sn)
      BY <2>6 DEF L
    <3> QED
      BY <2>1, <2>7, <3>1, <3>2, <3>3
  <2>9. u.cur = NoInvoice => u.need <= Balance(u.rem, u.sn)
    <3>1. txn.cur = NoInvoice => need <= Balance(txn.rem, txn.sn)
      BY <1>1 DEF MoneyTxn, need
    <3>2. /\ Balance(txn.rem, txn.sn) \in Int
          /\ Balance(u.rem, txn.sn) = Balance(txn.rem, txn.sn) + x
      BY <2>7
    <3> QED
      BY <2>1, <2>2, <2>6, <3>1, <3>2
  <2>10. IsFiniteSet(u.cils)
    BY <1>1, <2>6 DEF L
  <2>11. MoneyTxn(u)
    BY <1>1, <2>6, <2>8, <2>9, <2>10, MoneyMoves
  <2> QED
    BY <2>1, <2>11, StepMoney
<1> QED
  BY <1>2, <1>3

\* At a commit nothing is left to put back or to deduct.
LEMMA CommitMoney ==
    ASSUME IInv, LinksInv, MoneyInv, Commit
    PROVE  MoneyInv'
<1>1. /\ txn \in Txn /\ MoneyTxn(txn) /\ IsFiniteSet(txn.cils)
      /\ txn.need = 0 /\ txn.refill = 0
      /\ remaining' = txn.rem /\ refunds' = txn.refunds /\ cils' = txn.cils
      /\ txn' = NoTxn /\ deposits' = deposits
  BY OpenMoney DEF Commit, Finished
<1>2. ASSUME NEW sn \in ShortNames
      PROVE  Balance(txn.rem, sn) + Out(txn.refunds, sn) + HeldOf(txn.cils, sn)
               = Deposited(sn)
  <2>1. Rest(txn, sn) = 0
    BY <1>1 DEF Rest
  <2>2. /\ Balance(txn.rem, sn) \in Int /\ Out(txn.refunds, sn) \in Int
        /\ HeldOf(txn.cils, sn) \in Int
    BY <1>1, TxnMoneyTypes
  <2>3. Balance(txn.rem, sn) + Out(txn.refunds, sn) + HeldOf(txn.cils, sn)
          + Rest(txn, sn) = Deposited(sn)
    BY <1>1 DEF MoneyTxn
  <2> QED
    BY <2>1, <2>2, <2>3
<1>3. MoneyTable'
  BY <1>1, <1>2 DEF MoneyTable, Deposited
<1> QED
  BY <1>1, <1>3 DEF MoneyInv

LEMMA TxnStepMoney ==
    ASSUME IInv, LinksInv, MoneyInv, TxnStep
    PROVE  MoneyInv'
BY ReturnCreditMoney, NextInvoiceMoney, TakeCreditMoney, RefillCreditMoney,
   CommitMoney DEF TxnStep

-----------------------------------------------------------------------------
(* The requests.                                                           *)

LEMMA TableMoneyTypes ==
    ASSUME IInv, LinksInv, NEW sn
    PROVE  /\ Balance(remaining, sn) \in Nat /\ Out(refunds, sn) \in Int
           /\ HeldOf(cils, sn) \in Int
           /\ remaining \in [Credits -> Nat] /\ IsFiniteSet(cils)
           /\ cils \in SUBSET Cil
<1>1. /\ remaining \in [Credits -> Nat] /\ cils \in SUBSET Cil
      /\ refunds \in [Refunds -> EftRefund]
  BY TablesType DEF IInv, TypeOK
<1>2. IsFiniteSet(cils)
  BY DEF LinksInv, Links, Numbered
<1> QED
  BY <1>1, <1>2, BalanceType, OutType, HeldType

LEMMA BegunMoney ==
    ASSUME MoneyInv, NEW t, Begin(t) \/ BeginGroup(t), MoneyTxn(t)
    PROVE  MoneyInv'
<1>1. /\ UNCHANGED <<deposits, remaining, refunds, cils>>
      /\ txn' = t
  BY DEF Begin, BeginGroup, tables
<1>2. MoneyTable'
  BY <1>1 DEF MoneyInv, MoneyTable, Deposited
<1>3. MoneyTxn(txn)'
  BY <1>1 DEF MoneyTxn, Deposited
<1> QED
  BY <1>2, <1>3 DEF MoneyInv

\* A request starts with the work that its refund, if any, leaves to be done.
LEMMA StartedMoney ==
    ASSUME IInv, LinksInv, MoneyInv, NEW sn, NEW act, NEW todo, NEW mode,
           NEW due, NEW need \in Nat, NEW refill \in Nat, NEW rows,
           NEW refs \in [Refunds -> EftRefund], need <= Balance(remaining, sn),
           \A s \in ShortNames :
             Out(refs, s) + (IF s = sn THEN refill - need ELSE 0)
               = Out(refunds, s),
           NEW t, t = Started(NewTxn(sn), act, todo, mode, due, need, refill,
                              rows, refs),
           Begin(t) \/ BeginGroup(t)
    PROVE  MoneyInv'
<1>1. /\ t.sn = sn /\ t.cur = NoInvoice /\ t.need = need
      /\ t.refill = refill /\ t.rem = remaining /\ t.cils = cils
      /\ t.refunds = refs
  BY StartedFields
<1>2. ASSUME NEW s \in ShortNames
      PROVE  Balance(remaining, s) + Out(refs, s) + HeldOf(cils, s)
               + Rest(t, s) = Deposited(s)
  <2>1. Rest(t, s) = IF s = sn THEN refill - need ELSE 0
    BY <1>1 DEF Rest
  <2>2. /\ Balance(remaining, s) \in Int /\ HeldOf(cils, s) \in Int
        /\ Out(refs, s) \in Int /\ Rest(t, s) \in Int
    BY <2>1, TableMoneyTypes, OutType
  <2>3. Out(refs, s) + Rest(t, s) = Out(refunds, s)
    BY <2>1
  <2>4. Balance(remaining, s) + Out(refunds, s) + HeldOf(cils, s)
          = Deposited(s)
    BY DEF MoneyInv, MoneyTable
  <2> QED
    BY <2>2, <2>3, <2>4
<1>3. MoneyTxn(t)
  BY <1>1, <1>2 DEF MoneyTxn
<1> QED
  BY <1>3, BegunMoney

\* Other requests touch no refund.
LEMMA PlainMoney ==
    ASSUME IInv, LinksInv, MoneyInv, NEW sn, NEW act, NEW todo, NEW mode,
           NEW due, NEW rows,
           NEW t, t = Started(NewTxn(sn), act, todo, mode, due, 0, 0, rows,
                              refunds),
           Begin(t) \/ BeginGroup(t)
    PROVE  MoneyInv'
<1>1. 0 \in Nat /\ 0 <= Balance(remaining, sn)
  BY TableMoneyTypes
<1>2. refunds \in [Refunds -> EftRefund]
  BY TablesType
<1>3. \A s \in ShortNames :
        Out(refunds, s) + (IF s = sn THEN 0 - 0 ELSE 0) = Out(refunds, s)
  BY TableMoneyTypes
<1> QED
  BY <1>1, <1>2, <1>3, StartedMoney

LEMMA CreateShortNameRefundMoney ==
    ASSUME IInv, LinksInv, MoneyInv, NEW r \in Refunds, NEW sn \in ShortNames,
           NEW x \in RefundAmounts, CreateShortNameRefund(r, sn, x)
    PROVE  MoneyInv'
<1> DEFINE row == NewRefund(sn, x)
<1>1. PICK t :
        /\ t = Started(NewTxn(sn), active, {}, "CANCEL", {}, x, 0, inv,
                       [refunds EXCEPT ![r] = row])
        /\ Begin(t)
  BY CreateShortNameRefundStarts
<1>0. /\ row \in EftRefund
      /\ row.sn = sn /\ row.amount = x
      /\ row.status = "PENDING_APPROVAL"
  BY CreateShortNameRefundStarts DEF NewRefund
<1> HIDE DEF row
<1>2. x \in Nat /\ 0 \in Nat /\ x <= Balance(remaining, sn)
      /\ refunds[r].status = "NONE"
  BY EFTConstants DEF CreateShortNameRefund
<1>3. refunds \in [Refunds -> EftRefund] /\ refunds[r] \in EftRefund
  BY TablesType
<1> DEFINE refs == [refunds EXCEPT ![r] = row]
<1>4. refs \in [Refunds -> EftRefund]
  BY <1>0, <1>3
<1>5. ASSUME NEW s
      PROVE  Share(row, s) - Share(refunds[r], s) = IF s = sn THEN x ELSE 0
  BY <1>0, <1>2 DEF Share
<1>6. ASSUME NEW s \in ShortNames
      PROVE  Out(refs, s) + (IF s = sn THEN 0 - x ELSE 0) = Out(refunds, s)
  <2>1. Out(refs, s) = Out(refunds, s) + (IF s = sn THEN x ELSE 0)
    <3>1. /\ refunds \in RefundTable /\ refs \in RefundTable /\ refs[r] = row
          /\ \A q \in Refunds \ {r} : refunds[q] = refs[q]
      BY <1>0, <1>3 DEF RefundTable
    <3> HIDE DEF refs
    <3>2. Out(refs, s)
            = Out(refunds, s) + (Share(refs[r], s) - Share(refunds[r], s))
      BY <3>1, OutBut
    <3> QED
      BY <1>5, <3>1, <3>2
  <2>2. Out(refunds, s) \in Int
    BY TableMoneyTypes
  <2> HIDE DEF refs
  <2> QED
    BY <1>2, <2>1, <2>2
<1>7. t = Started(NewTxn(sn), active, {}, "CANCEL", {}, x, 0, inv, refs)
  BY <1>1
<1> HIDE DEF refs
<1> QED
  BY <1>1, <1>2, <1>4, <1>6, <1>7, StartedMoney

LEMMA DeclineShortNameRefundMoney ==
    ASSUME IInv, LinksInv, MoneyInv, NEW r \in Refunds,
           DeclineShortNameRefund(r)
    PROVE  MoneyInv'
<1> DEFINE sn == refunds[r].sn
           x == refunds[r].amount
<1>1. PICK t, row :
        /\ row \in EftRefund /\ row.sn = sn /\ row.status = "DECLINED"
        /\ t = Started(NewTxn(sn), active, {}, "CANCEL", {}, 0, x, inv,
                       [refunds EXCEPT ![r] = row])
        /\ Begin(t)
  BY DeclineShortNameRefundStarts
<1>2. refunds \in [Refunds -> EftRefund] /\ refunds[r] \in EftRefund
  BY TablesType
<1>3. x \in Nat /\ 0 \in Nat /\ refunds[r].status = "PENDING_APPROVAL"
  BY <1>2 DEF EftRefund, DeclineShortNameRefund
<1>4. 0 <= Balance(remaining, sn)
  BY TableMoneyTypes
<1> DEFINE refs == [refunds EXCEPT ![r] = row]
<1>5. refs \in [Refunds -> EftRefund]
  BY <1>1, <1>2
<1>6. ASSUME NEW s
      PROVE  Share(row, s) - Share(refunds[r], s) = IF s = sn THEN -x ELSE 0
  BY <1>1, <1>3 DEF Share
<1> HIDE DEF sn, x
<1>7. ASSUME NEW s \in ShortNames
      PROVE  Out(refs, s) + (IF s = sn THEN x - 0 ELSE 0) = Out(refunds, s)
  <2>1. Out(refs, s) = Out(refunds, s) + (IF s = sn THEN -x ELSE 0)
    <3>1. /\ refunds \in RefundTable /\ refs \in RefundTable /\ refs[r] = row
          /\ \A q \in Refunds \ {r} : refunds[q] = refs[q]
      BY <1>1, <1>2 DEF RefundTable
    <3> HIDE DEF refs
    <3>2. Out(refs, s)
            = Out(refunds, s) + (Share(refs[r], s) - Share(refunds[r], s))
      BY <3>1, OutBut
    <3> QED
      BY <1>6, <3>1, <3>2
  <2>2. Out(refunds, s) \in Int
    BY TableMoneyTypes
  <2> HIDE DEF refs
  <2> QED
    BY <1>3, <2>1, <2>2
<1>8. t = Started(NewTxn(sn), active, {}, "CANCEL", {}, 0, x, inv, refs)
  BY <1>1
<1> HIDE DEF refs
<1> QED
  BY <1>1, <1>3, <1>4, <1>5, <1>7, <1>8, StartedMoney

LEMMA ApproveShortNameRefundMoney ==
    ASSUME IInv, LinksInv, MoneyInv, Idle, NEW r \in Refunds,
           ApproveShortNameRefund(r)
    PROVE  MoneyInv'
<1> DEFINE row == [refunds[r] EXCEPT !.status = "APPROVED"]
<1>1. refunds \in [Refunds -> EftRefund] /\ refunds[r] \in EftRefund
  BY TablesType
<1>2. /\ row \in EftRefund /\ row.sn = refunds[r].sn
      /\ row.amount = refunds[r].amount /\ row.status = "APPROVED"
      /\ row.amount \in Nat
  BY <1>1 DEF EftRefund, RefundStatus
<1>3. refunds' = [refunds EXCEPT ![r] = row]
  BY <1>1 DEF ApproveShortNameRefund, EftRefund
<1>4. /\ UNCHANGED <<deposits, remaining, cils, txn>>
      /\ refunds[r].status = "PENDING_APPROVAL"
  BY DEF ApproveShortNameRefund
<1> HIDE DEF row
<1>5. ASSUME NEW s
      PROVE  Share(row, s) - Share(refunds[r], s) = IF s = s THEN 0 ELSE 0
  BY <1>2, <1>4 DEF Share
<1>6. ASSUME NEW s \in ShortNames
      PROVE  Out(refunds', s) = Out(refunds, s)
  <2>1. Out(refunds', s) =
          Out(refunds, s) + (Share(row, s) - Share(refunds[r], s))
    <3> DEFINE refs == refunds'
    <3>1. /\ refunds \in RefundTable /\ refs \in RefundTable /\ refs[r] = row
          /\ \A q \in Refunds \ {r} : refunds[q] = refs[q]
      BY <1>1, <1>2, <1>3 DEF RefundTable
    <3> HIDE DEF refs
    <3>2. Out(refs, s)
            = Out(refunds, s) + (Share(refs[r], s) - Share(refunds[r], s))
      BY <3>1, OutBut
    <3> QED
      BY <3>1, <3>2 DEF refs
  <2>2. Out(refunds, s) \in Int
    BY TableMoneyTypes
  <2> QED
    BY <1>5, <2>1, <2>2
<1>7. MoneyTable'
  BY <1>4, <1>6 DEF MoneyInv, MoneyTable, Deposited
<1> QED
  BY <1>4, <1>7 DEF MoneyInv, Idle

\* A deposit is on its credit.
LEMMA CreateCreditMoney ==
    ASSUME IInv, LinksInv, MoneyInv, Idle, CreateCredit
    PROVE  MoneyInv'
<1> DEFINE c == deposits + 1
           rem == remaining'
<1>1. /\ deposits \in Nat /\ c \in Credits /\ Amount \in [Credits -> Nat]
      /\ remaining \in [Credits -> Nat] /\ remaining[c] = 0
      /\ Amount[c] \in Nat /\ c \notin 1..deposits
  BY EFTConstants DEF IInv, TypeOK, CreateCredit, Credits, Bounded
<1>2. /\ rem = [remaining EXCEPT ![c] = Amount[c]] /\ deposits' = c
      /\ UNCHANGED <<refunds, cils, txn>>
  BY DEF CreateCredit
<1> HIDE DEF rem
<1>3. ASSUME NEW sn \in ShortNames
      PROVE  Balance(rem, sn) = Balance(remaining, sn)
               + (IF DepositedBy[c] = sn THEN Amount[c] ELSE 0)
  <2> HIDE DEF c
  <2>1. /\ remaining \in Amounts /\ rem \in Amounts /\ rem[c] = Amount[c]
        /\ \A d \in Credits \ {c} : remaining[d] = rem[d]
    BY <1>1, <1>2 DEF Amounts
  <2>2. /\ Balance(remaining, sn) \in Int
        /\ DepositedBy[c] = sn =>
             Balance(rem, sn) = Balance(remaining, sn) + (rem[c] - remaining[c])
        /\ DepositedBy[c] # sn => Balance(rem, sn) = Balance(remaining, sn)
    <3>1. c \in Credits
      BY <1>1
    <3> QED
      BY <2>1, <3>1, BalanceBut
  <2>3. rem[c] - remaining[c] = Amount[c]
    BY <1>1, <2>1
  <2> QED
    BY <1>1, <2>2, <2>3
<1>4. ASSUME NEW sn \in ShortNames
      PROVE  /\ Deposited(sn) \in Int
             /\ Deposited(sn)' = Deposited(sn)
                  + (IF DepositedBy[c] = sn THEN Amount[c] ELSE 0)
  <2> DEFINE S == {d \in CreditsOf(sn) : d <= deposits}
             T == {d \in CreditsOf(sn) : d <= c}
  <2>1. IsFiniteSet(S) /\ S \subseteq Credits /\ c \notin S
    <3>1. IsFiniteSet(CreditsOf(sn)) /\ CreditsOf(sn) \subseteq Credits
      BY <1>1, BalanceType DEF CreditsOf
    <3>2. S \subseteq CreditsOf(sn) /\ c \notin S
      BY <1>1
    <3> QED
      BY <3>1, <3>2, FS_Subset
  <2>2. Deposited(sn) = SumFunctionOnSet(Amount, S)
        /\ Deposited(sn)' = SumFunctionOnSet(Amount, T)
    BY <1>2 DEF Deposited
  <2>3. T = IF DepositedBy[c] = sn THEN S \cup {c} ELSE S
    BY <1>1 DEF CreditsOf, Credits
  <2> HIDE DEF S, T, c
  <2>4. \A d \in S \cup {c} : Amount[d] \in Int
    BY <1>1, <2>1
  <2>5. SumFunctionOnSet(Amount, S) \in Int
    BY <2>1, <2>4, SumInt
  <2>6. SumFunctionOnSet(Amount, S \cup {c})
          = Amount[c] + SumFunctionOnSet(Amount, S)
    BY <2>1, <2>4, SumAdd
  <2> QED
    BY <1>1, <2>2, <2>3, <2>5, <2>6
<1>5. ASSUME NEW sn \in ShortNames
      PROVE  Balance(rem, sn) + Out(refunds, sn) + HeldOf(cils, sn)
               = Deposited(sn)'
  <2> DEFINE y == IF DepositedBy[c] = sn THEN Amount[c] ELSE 0
  <2>1. y \in Int
    BY <1>1
  <2>2. /\ Balance(rem, sn) = Balance(remaining, sn) + y
        /\ Deposited(sn)' = Deposited(sn) + y
    BY <1>3, <1>4
  <2> HIDE DEF y
  <2>3. /\ Balance(remaining, sn) \in Int /\ Out(refunds, sn) \in Int
        /\ HeldOf(cils, sn) \in Int
    BY TableMoneyTypes
  <2>4. Balance(remaining, sn) + Out(refunds, sn) + HeldOf(cils, sn)
          = Deposited(sn)
    BY DEF MoneyInv, MoneyTable
  <2> QED
    BY <2>1, <2>2, <2>3, <2>4
<1>6. MoneyTable'
  BY <1>2, <1>5 DEF MoneyTable, rem
<1> QED
  BY <1>2, <1>6 DEF MoneyInv, Idle

LEMMA MoneyKept ==
    ASSUME MoneyInv, UNCHANGED <<deposits, remaining, refunds, cils, txn>>
    PROVE  MoneyInv'
<1>1. MoneyTable'
  BY DEF MoneyInv, MoneyTable, Deposited
<1>2. MoneyTxn(txn) => MoneyTxn(txn)'
  BY DEF MoneyTxn, Deposited
<1> QED
  BY <1>1, <1>2 DEF MoneyInv

LEMMA PaymentMoney ==
    ASSUME IInv, LinksInv, MoneyInv, NEW sn \in ShortNames, NEW a \in Accounts,
           NEW S,
           \/ ApplyPayment(sn, a, S) \/ CreateShortNameLink(sn, a)
           \/ CancelPayment(sn, a, S)
    PROVE  MoneyInv'
<1>1. CASE ApplyPayment(sn, a, S)
  <2>1. PICK t : /\ t = Started(NewTxn(sn), active, {}, "CANCEL", Owing(a, S),
                                0, 0, inv, refunds)
                 /\ BeginGroup(t)
    BY <1>1, ApplyPaymentStarts
  <2> QED
    BY <2>1, PlainMoney
<1>2. CASE CreateShortNameLink(sn, a)
  <2>1. PICK t, due :
          /\ t = Started(NewTxn(sn), active \cup {<<sn, a>>}, {}, "CANCEL", due,
                         0, 0, inv, refunds)
          /\ \/ due = {} /\ Begin(t)
             \/ due = Owing(a, Statements) /\ BeginGroup(t)
    BY <1>2, CreateShortNameLinkStarts
  <2> QED
    BY <2>1, PlainMoney
<1>3. CASE CancelPayment(sn, a, S)
  <2>1. PICK t : /\ t = Started(NewTxn(sn), active, PendingOf(sn, a, S),
                                "CANCEL", {}, 0, 0, inv, refunds)
                 /\ Begin(t)
    BY <1>3, CancelPaymentStarts
  <2> QED
    BY <2>1, PlainMoney
<1> QED
  BY <1>1, <1>2, <1>3

LEMMA ReversePaymentMoney ==
    ASSUME IInv, LinksInv, MoneyInv, NEW sn \in ShortNames,
           NEW s \in Statements,
           ReversePayment(sn, s)
    PROVE  MoneyInv'
<1>1. PICK t, links :
        /\ links \in SUBSET ReversibleLinks(sn, s)
        /\ \A l \in links : l.status = "COMPLETED"
        /\ t = Started(NewTxn(sn), active, links, "PENDING_REFUND", {}, 0, 0,
                       inv, refunds)
        /\ BeginGroup(t)
  BY ReversePaymentStarts
<1> QED
  BY <1>1, PlainMoney

LEMMA RefundMoney ==
    ASSUME IInv, LinksInv, MoneyInv, NEW i \in Invoices,
           \/ RefundLinkedInvoice(i)
           \/ \E x \in PartialAmounts : PartialRefund(i, x)
    PROVE  MoneyInv'
<1>1. PICK t, latest, links, mode, rows :
        /\ latest \in LinksOf(i) /\ IsLatest(latest)
        /\ \/ /\ latest.status = "PENDING" /\ mode = "REGROUP"
              /\ links = GroupOf(i, latest)
           \/ /\ latest.status = "COMPLETED"
              /\ mode \in {"PENDING_REFUND", "REFUNDED"}
              /\ links = GroupOf(i, latest)
           \/ mode = "PENDING_REFUND" /\ links = {}
        /\ \A j \in Invoices : inv[j].status = "OVERDUE" => rows[j] = inv[j]
        /\ t = Started(NewTxn(DepositedBy[latest.credit]), active, links,
                       mode, {}, 0, 0, rows, refunds)
        /\ BeginGroup(t)
  BY RefundStarts
<1> QED
  BY <1>1, PlainMoney

LEMMA OtherRequestMoney ==
    ASSUME IInv, LinksInv, MoneyInv, Idle,
           \/ CreateCredit
           \/ \E i \in Invoices : CreateInvoice(i) \/ RefundUnlinkedInvoice(i)
           \/ \E s \in Statements : GenerateStatement(s)
           \/ \E sn \in ShortNames, a \in Accounts : PatchShortNameLink(sn, a)
           \/ \E r \in Refunds : ApproveShortNameRefund(r)
    PROVE  MoneyInv'
<1>1. CASE CreateCredit
  BY <1>1, CreateCreditMoney
<1>2. CASE \E i \in Invoices : CreateInvoice(i) \/ RefundUnlinkedInvoice(i)
  <2>1. UNCHANGED <<deposits, remaining, refunds, cils, txn>>
    BY <1>2, InvoiceRequest
  <2> QED
    BY <2>1, MoneyKept
<1>3. CASE \E s \in Statements : GenerateStatement(s)
  <2>1. UNCHANGED <<deposits, remaining, refunds, cils, txn>>
    BY <1>3 DEF GenerateStatement
  <2> QED
    BY <2>1, MoneyKept
<1>4. CASE \E sn \in ShortNames, a \in Accounts : PatchShortNameLink(sn, a)
  <2>1. UNCHANGED <<deposits, remaining, refunds, cils, txn>>
    BY <1>4 DEF PatchShortNameLink
  <2> QED
    BY <2>1, MoneyKept
<1>5. CASE \E r \in Refunds : ApproveShortNameRefund(r)
  BY <1>5, ApproveShortNameRefundMoney
<1> QED
  BY <1>1, <1>2, <1>3, <1>4, <1>5

LEMMA RequestMoney ==
    ASSUME IInv, LinksInv, MoneyInv, Request
    PROVE  MoneyInv'
<1>1. CASE \E sn \in ShortNames, a \in Accounts :
             \/ CreateShortNameLink(sn, a)
             \/ \E S \in StatementChoice :
                  ApplyPayment(sn, a, S) \/ CancelPayment(sn, a, S)
  BY <1>1, PaymentMoney
<1>2. CASE \E sn \in ShortNames, s \in Statements : ReversePayment(sn, s)
  BY <1>2, ReversePaymentMoney
<1>3. CASE \E i \in Invoices : RefundLinkedInvoice(i)
             \/ \E x \in PartialAmounts : PartialRefund(i, x)
  BY <1>3, RefundMoney
<1>4. CASE \E r \in Refunds : \/ \E sn \in ShortNames, x \in RefundAmounts :
                                   CreateShortNameRefund(r, sn, x)
                              \/ DeclineShortNameRefund(r)
  BY <1>4, CreateShortNameRefundMoney, DeclineShortNameRefundMoney
<1>5. CASE \/ CreateCredit
           \/ \E i \in Invoices : CreateInvoice(i) \/ RefundUnlinkedInvoice(i)
           \/ \E s \in Statements : GenerateStatement(s)
           \/ \E sn \in ShortNames, a \in Accounts : PatchShortNameLink(sn, a)
           \/ \E r \in Refunds : ApproveShortNameRefund(r)
  <2>1. Idle
    BY DEF Request
  <2> QED
    BY <1>5, <2>1, OtherRequestMoney
<1> QED
  BY <1>1, <1>2, <1>3, <1>4, <1>5 DEF Request

-----------------------------------------------------------------------------
(* The job.                                                                *)

\* An item of the job ends: its links keep their weight.
LEMMA HeldUpdated ==
    ASSUME IInv, LinksInv, job.cur # NoItem, NEW status, NEW receipt \in Nat,
           \/ job.phase = "LINK" /\ status = "COMPLETED"
           \/ job.phase # "LINK" /\ status = "REFUNDED",
           NEW K, K = UpdateLinks(job.cur, status, receipt), NEW sn
    PROVE  HeldOf(K, sn) = HeldOf(cils, sn)
<1> PICK U : U = [l \in cils |-> Updated(l, status, receipt)]
  OBVIOUS
<1>1. K = {U[l] : l \in cils}
  BY DEF UpdateLinks, Updated
<1>2. cils \in SUBSET Cil /\ Links(cils, lastCil) /\ JobLinks(cils, lastCil)
  BY JobTables DEF LinksInv
<1>3. \A l \in cils :
        /\ U[l].id = l.id /\ SameCredit(l, U[l]) /\ U[l].amount = l.amount
        /\ l.id \in job.cur.ids /\ l.status # "CANCELLED"
             => U[l].status = status
        /\ l.id \notin job.cur.ids \/ l.status = "CANCELLED" => U[l] = l
  BY <1>2, UpdatedFields
<1>4. \A l \in cils : l.id \in job.cur.ids =>
        IF job.phase = "LINK" THEN l.status \in {"PENDING", "CANCELLED"}
        ELSE l.status \in {"PENDING_REFUND", "CANCELLED"}
  BY <1>2 DEF JobLinks
<1>5. \A l \in cils : Weight(U[l], sn) = Weight(l, sn)
  BY <1>3, <1>4 DEF Weight, Payer, SameCredit, IsReturn
<1>6. /\ IsFiniteSet(cils) /\ \A l, m \in cils : l.id = m.id => l = m
      /\ \A l \in cils : Weight(l, sn) \in Int
  BY <1>2, WeightType DEF Links, Numbered
<1>7. IsFiniteSet(K)
  <2>1. U \in Surjection(cils, K)
    BY <1>1 DEF Surjection
  <2> QED
    BY <1>6, <2>1, FS_Surjection
<1> DEFINE f == [l \in cils |-> Weight(l, sn)]
           g == [l \in K |-> Weight(l, sn)]
<1>8. /\ \A l \in cils : U[l] \in K
      /\ \A l, m \in cils : U[l] = U[m] => l = m
      /\ \A k \in K : g[k] \in Int
      /\ \A l \in cils : g[U[l]] = f[l]
      /\ \A k \in K : (\A l \in cils : U[l] # k) => g[k] = 0
  <2>1. \A l \in cils : U[l] \in K
    BY <1>1
  <2>2. \A l, m \in cils : U[l] = U[m] => l = m
    BY <1>3, <1>6
  <2>3. \A l \in cils : g[U[l]] = f[l]
    BY <1>5, <2>1
  <2>4. \A k \in K : g[k] \in Int
    BY <1>1, <1>5, <1>6
  <2>5. \A k \in K : (\A l \in cils : U[l] # k) => g[k] = 0
    BY <1>1
  <2> QED
    BY <2>1, <2>2, <2>3, <2>4, <2>5
<1> HIDE DEF f, g
<1>9. SumFunctionOnSet(f, cils) = SumFunctionOnSet(g, K)
  BY <1>6, <1>7, <1>8, SumAlong
<1> QED
  BY <1>9 DEF HeldOf, f, g

LEMMA ItemEndsMoney ==
    ASSUME IInv, LinksInv, MoneyInv, Idle, LinkItemEnd \/ ReverseItemEnd
    PROVE  MoneyInv'
<1> DEFINE item == job.cur
<1>1. job \in Job /\ item # NoItem /\ item \in Item
      /\ (job.phase = "LINK" => item.ids # {})
  BY JobTables DEF GoodJob, Job, LinkItemEnd, ReverseItemEnd
<1>2. item.ids \in SUBSET Nat /\ item.key.receipt \in Nat
  BY <1>1 DEF Item, RollupKey
<1>3. ASSUME NEW sn
      PROVE  HeldOf(cils', sn) = HeldOf(cils, sn)
  <2>1. CASE LinkItemEnd
    <3> DEFINE receipt == MinId(item.ids)
    <3>1. job.phase = "LINK" /\ cils' = UpdateLinks(item, "COMPLETED", receipt)
      BY <2>1 DEF LinkItemEnd
    <3>2. receipt \in Nat
      BY <1>1, <1>2, <3>1, MinIdType
    <3> HIDE DEF receipt
    <3> QED
      BY <1>1, <3>1, <3>2, HeldUpdated
  <2>2. CASE ReverseItemEnd
    <3> DEFINE receipt == item.key.receipt
    <3>1. job.phase # "LINK" /\ cils' = UpdateLinks(item, "REFUNDED", receipt)
      BY <2>2 DEF ReverseItemEnd
    <3>2. receipt \in Nat
      BY <1>2
    <3> HIDE DEF receipt
    <3> QED
      BY <1>1, <3>1, <3>2, HeldUpdated
  <2> QED
    BY <2>1, <2>2
<1>4. UNCHANGED <<deposits, remaining, refunds, txn>>
  BY DEF LinkItemEnd, ReverseItemEnd
<1>5. MoneyTable'
  BY <1>3, <1>4 DEF MoneyInv, MoneyTable, Deposited
<1> QED
  BY <1>4, <1>5 DEF MoneyInv, Idle

-----------------------------------------------------------------------------
(* Every step.                                                             *)

LEMMA InitMoney ==
    ASSUME TaskInit
    PROVE  MoneyInv
<1>1. /\ deposits = 0 /\ cils = {} /\ txn = NoTxn
      /\ \A c \in Credits : remaining[c] = 0
      /\ \A r \in Refunds : refunds[r].status = "NONE"
  BY DEF TaskInit, Init
<1>2. /\ IsFiniteSet(Refunds)
      /\ \A sn : IsFiniteSet(CreditsOf(sn)) /\ CreditsOf(sn) \subseteq Credits
  <2>1. IsFiniteSet(Credits) /\ IsFiniteSet(Refunds)
    BY FS_Interval, EFTConstants DEF Credits, Refunds
  <2>2. \A sn : CreditsOf(sn) \subseteq Credits
    BY DEF CreditsOf
  <2> QED
    BY <2>1, <2>2, FS_Subset
<1>3. ASSUME NEW sn
      PROVE  /\ Balance(remaining, sn) = 0 /\ Out(refunds, sn) = 0
             /\ HeldOf(cils, sn) = 0 /\ Deposited(sn) = 0
  <2>1. Balance(remaining, sn) = 0
    BY <1>1, <1>2, SumZero DEF Balance
  <2>2. Out(refunds, sn) = 0
    <3> DEFINE f == [r \in Refunds |-> Share(refunds[r], sn)]
    <3>1. \A r \in Refunds : f[r] = 0
      BY <1>1 DEF Share
    <3> HIDE DEF f
    <3>2. SumFunctionOnSet(f, Refunds) = 0
      BY <1>2, <3>1, SumZero
    <3> QED
      BY <3>2 DEF Out, f
  <2>3. HeldOf(cils, sn) = 0
    BY <1>1, SumEmpty DEF HeldOf
  <2>4. Deposited(sn) = 0
    <3>1. {c \in CreditsOf(sn) : c <= deposits} = {}
      BY <1>1 DEF CreditsOf, Credits
    <3> QED
      BY <3>1, SumEmpty DEF Deposited
  <2> QED
    BY <2>1, <2>2, <2>3, <2>4
<1>4. MoneyTable
  BY <1>3 DEF MoneyTable
<1> QED
  BY <1>1, <1>4 DEF MoneyInv

LEMMA NextMoney ==
    ASSUME IInv, LinksInv, MoneyInv, [Next]_vars
    PROVE  MoneyInv'
<1>1. CASE TxnStep
  BY <1>1, TxnStepMoney
<1>2. CASE Idle /\ (LinkItemEnd \/ ReverseItemEnd)
  BY <1>2, ItemEndsMoney
<1>3. CASE \/ EftJobStart \/ UnlinkedJobStart \/ EftJobEnd
           \/ UnlockOverdueAccounts
           \/ \E k \in job.todo : \/ LinkItemStart(k) \/ ReverseItemStart(k)
                                  \/ UnlinkedItemStart(k)
  <2>1. UNCHANGED <<deposits, remaining, refunds, cils, txn>>
    BY <1>3 DEF EftJobStart, UnlinkedJobStart, EftJobEnd,
       UnlockOverdueAccounts, LinkItemStart, ReverseItemStart,
       UnlinkedItemStart, WithinJob, eftVars
  <2> QED
    BY <2>1, MoneyKept
<1>4. CASE JobFailure
  <2>1. UNCHANGED <<deposits, remaining, refunds, cils, txn>>
    BY <1>4 DEF JobFailure, ItemFails, LinkItemBreaksOff,
       ReverseItemBreaksOff, CfsInvoiceItemFails, CfsInvoiceItemLost,
       ItemRollsBack, JobDies, WithinJob, eftVars
  <2> QED
    BY <2>1, MoneyKept
<1>5. CASE \/ CfsInvoiceJob \/ StatementDueJob
           \/ \E i \in Invoices : OverdueDatePasses(i)
  <2>1. UNCHANGED <<deposits, remaining, refunds, cils, txn>>
    BY <1>5 DEF CfsInvoiceJob, CfsInvoiceJobStart, CfsInvoiceItem,
       StatementDueJob, OverdueDatePasses, eftVars
  <2> QED
    BY <2>1, MoneyKept
<1>6. CASE Request
  BY <1>6, RequestMoney
<1>7. CASE UNCHANGED vars
  <2>1. UNCHANGED <<deposits, remaining, refunds, cils, txn>>
    BY <1>7 DEF vars, eftVars
  <2> QED
    BY <2>1, MoneyKept
<1> QED
  BY <1>1, <1>2, <1>3, <1>4, <1>5, <1>6, <1>7 DEF Next, EftJob

LEMMA MoneyInvariance == Spec => []MoneyInv
<1>1. TaskInit => MoneyInv
  BY InitMoney
<1>2. IInv /\ LinksInv /\ MoneyInv /\ [Next]_vars => MoneyInv'
  BY NextMoney
<1> QED
  BY <1>1, <1>2, Invariance, LinksInvariance, PTL DEF Spec

\* MoneyConserved: between requests and within them, through every interleaving
\* of the job, what is left on the credits of a short name, what its links hold
\* and what its refunds took is what was deposited (apply_eft_credit,
\* return_eft_credit, create_shortname_refund and its decline).
THEOREM MoneyIsConserved == Spec => []MoneyConserved
<1>1. IInv /\ LinksInv /\ MoneyInv => MoneyConserved
  <2> SUFFICES ASSUME IInv, LinksInv, MoneyInv, NEW sn \in ShortNames
               PROVE  Balance(remaining, sn) + Refunded(sn)
                        + Held({l \in cils : DepositedBy[l.credit] = sn})
                        = Deposited(sn)
    BY DEF MoneyConserved
  <2>1. cils \in SUBSET Cil /\ IsFiniteSet(cils)
    BY TableMoneyTypes
  <2>2. Held({l \in cils : DepositedBy[l.credit] = sn}) = HeldOf(cils, sn)
    BY <2>1, HeldIsHeldOf
  <2>3. Refunded(sn) = Out(refunds, sn)
    BY RefundedIsOut
  <2> QED
    BY <2>2, <2>3 DEF MoneyInv, MoneyTable
<1> QED
  BY <1>1, Invariance, LinksInvariance, MoneyInvariance, PTL

-----------------------------------------------------------------------------
(* Locked accounts: the invariant.                                         *)

\* Without overlap, requests and jobs take turns.
OneAtATime ==
    /\ txn # NoTxn => job = IdleJob /\ cfsTodo = {}
    /\ cfsTodo # {} => job = IdleJob

\* A copy of the invoices leaves those that are overdue as they are.
KeepsOverdue(rows) ==
    \A i \in Invoices : inv[i].status = "OVERDUE" => rows[i].status = "OVERDUE"

\* A locked account owes, or the job will look at it: what is being paid was
\* noted before it is paid.
Linking ==
    /\ \A a \in locked : HasOverdueInvoices(a) \/ a \in job.overdue
    /\ job.cur # NoItem /\ inv[job.cur.key.invoice].status = "OVERDUE"
         => AccountOf[job.cur.key.invoice] \in job.overdue

\* The list stays good: each invoice is on it once, and an item changes only
\* the links of its invoice.
ListGood ==
    /\ \A k \in job.todo : /\ InRollup(k)
                           /\ k.status = "PENDING" /\ k.receipt = NoReceipt
    /\ job.cur # NoItem =>
         /\ \A k \in job.todo : k.invoice # job.cur.key.invoice
         /\ \A l \in cils : l.id \in job.cur.ids
                              => l.invoice = job.cur.key.invoice

\* The other lists have no overdue invoices.
NotLinking ==
    /\ \A a \in locked : HasOverdueInvoices(a)
    /\ \A k \in job.todo : inv[k.invoice].status # "OVERDUE"
    /\ job.cur # NoItem => inv[job.cur.key.invoice].status # "OVERDUE"

LocksInv ==
    /\ OneAtATime
    /\ txn # NoTxn => KeepsOverdue(txn.inv)
    /\ job.phase = "LINK" => Linking /\ ListGood
    /\ job.phase # "LINK" => NotLinking

-----------------------------------------------------------------------------
(* Steps while no job runs.                                                *)

\* An account that has an overdue invoice still has one.
LEMMA StillOwes ==
    ASSUME NEW a, HasOverdueInvoices(a), KeepsOverdue(inv')
    PROVE  HasOverdueInvoices(a)'
BY DEF HasOverdueInvoices, KeepsOverdue

LEMMA IdleLocks ==
    ASSUME LocksInv, job = IdleJob, UNCHANGED <<job, locked>>,
           KeepsOverdue(inv'), txn' # NoTxn => cfsTodo' = {},
           txn' # NoTxn => KeepsOverdue(txn.inv)'
    PROVE  LocksInv'
<1>1. /\ job.phase # "LINK" /\ job.todo = {} /\ job.cur = NoItem
      /\ job' = IdleJob
  BY DEF IdleJob
<1>2. \A a \in locked : HasOverdueInvoices(a)
  BY <1>1 DEF LocksInv, NotLinking
<1>3. \A a \in locked' : HasOverdueInvoices(a)'
  BY <1>2, StillOwes
<1>4. NotLinking' /\ (job.phase # "LINK")'
  BY <1>1, <1>3 DEF NotLinking
<1>5. OneAtATime'
  BY <1>1 DEF OneAtATime
<1> QED
  BY <1>4, <1>5 DEF LocksInv

\* The steps of a request leave its invoices as they were when it began.
LEMMA RowsKept ==
    ASSUME NEW t \in Txn, NEW todo, NEW c, NEW n, NEW need, NEW refill, NEW L,
           NEW last
    PROVE  /\ PutBack(t, todo, c, n, L, last).inv = t.inv
           /\ SetCredit(t, c, n, need, refill, L, last).inv = t.inv
BY DEF Txn, PutBack, SetCredit

LEMMA TxnStepRows ==
    ASSUME IInv, TxnStep
    PROVE  /\ UNCHANGED locked
           /\ \/ UNCHANGED inv /\ txn' = NoTxn
              \/ UNCHANGED inv /\ txn'.inv = txn.inv
              \/ inv' = txn.inv /\ txn' = NoTxn
<1>1. txn.open /\ txn \in Txn
  BY OpenIsGood DEF TxnStep, GoodTxn
<1>2. CASE ReturnCredit
  <2>1. \/ Rollback
        \/ UNCHANGED tables /\ \E todo, c, n, L, last :
             txn' = PutBack(txn, todo, c, n, L, last)
    BY <1>1, <1>2, ReturnCreditSteps
  <2> QED
    BY <1>1, <2>1, RowsKept DEF Rollback, tables
<1>3. CASE NextInvoice
  BY <1>1, <1>3, NextInvoiceSteps DEF tables
<1>4. CASE TakeCredit
  <2>1. /\ UNCHANGED tables
        /\ \/ txn' = [txn EXCEPT !.need = 0]
           \/ \E c, n, need, refill, L, last :
                txn' = SetCredit(txn, c, n, need, refill, L, last)
    BY <1>1, <1>4, TakeCreditSteps DEF Takes
  <2>2. [txn EXCEPT !.need = 0].inv = txn.inv
    BY <1>1 DEF Txn
  <2>3. txn'.inv = txn.inv
    <3>1. CASE txn' = [txn EXCEPT !.need = 0]
      BY <2>2, <3>1
    <3>2. CASE \E c, n, need, refill, L, last :
                 txn' = SetCredit(txn, c, n, need, refill, L, last)
      BY <1>1, <3>2, RowsKept
    <3> QED
      BY <2>1, <3>1, <3>2
  <2> QED
    BY <2>1, <2>3 DEF tables
<1>5. CASE RefillCredit
  <2>1. \/ Rollback
        \/ UNCHANGED tables /\ \E c, n, need, refill, L, last :
             txn' = SetCredit(txn, c, n, need, refill, L, last)
    BY <1>1, <1>5, RefillCreditSteps
  <2> QED
    BY <1>1, <2>1, RowsKept DEF Rollback, tables
<1>6. CASE Commit
  BY <1>6 DEF Commit
<1> QED
  BY <1>2, <1>3, <1>4, <1>5, <1>6 DEF TxnStep

LEMMA TxnStepLocks ==
    ASSUME IInv, LocksInv, TxnStep, UNCHANGED jobVars
    PROVE  LocksInv'
<1>1. txn # NoTxn
  BY DEF TxnStep, NoTxn
<1>2. /\ job = IdleJob /\ cfsTodo = {} /\ KeepsOverdue(txn.inv)
      /\ UNCHANGED <<job, cfsTodo>>
  BY <1>1 DEF LocksInv, OneAtATime, jobVars
<1>3. KeepsOverdue(inv')
  BY <1>2, TxnStepRows DEF KeepsOverdue
<1>4. txn' # NoTxn => KeepsOverdue(txn.inv)'
  BY <1>2, TxnStepRows DEF KeepsOverdue
<1> QED
  BY <1>2, <1>3, <1>4, TxnStepRows, IdleLocks

\* A request begins with the invoices as they are, or with one refunded.
LEMMA BegunLocks ==
    ASSUME LocksInv, job = IdleJob, cfsTodo = {}, UNCHANGED jobVars,
           NEW t, Begin(t) \/ BeginGroup(t), KeepsOverdue(t.inv)
    PROVE  LocksInv'
<1>1. txn' = t /\ UNCHANGED <<inv, locked, job, cfsTodo>>
  BY DEF Begin, BeginGroup, tables, jobVars
<1>2. KeepsOverdue(inv') /\ KeepsOverdue(txn.inv)'
  BY <1>1 DEF KeepsOverdue
<1> QED
  BY <1>1, <1>2, IdleLocks

LEMMA StartedLocks ==
    ASSUME LocksInv, job = IdleJob, cfsTodo = {}, UNCHANGED jobVars,
           NEW sn, NEW act, NEW todo, NEW mode, NEW due, NEW need, NEW refill,
           NEW refs, NEW t,
           t = Started(NewTxn(sn), act, todo, mode, due, need, refill, inv,
                       refs),
           Begin(t) \/ BeginGroup(t)
    PROVE  LocksInv'
<1>1. t.inv = inv
  BY StartedFields
<1>2. KeepsOverdue(t.inv)
  BY <1>1 DEF KeepsOverdue
<1> QED
  BY <1>2, BegunLocks

LEMMA PaymentLocks ==
    ASSUME IInv, LocksInv, job = IdleJob, cfsTodo = {}, UNCHANGED jobVars,
           NEW sn \in ShortNames, NEW a \in Accounts, NEW S,
           \/ ApplyPayment(sn, a, S) \/ CreateShortNameLink(sn, a)
           \/ CancelPayment(sn, a, S)
    PROVE  LocksInv'
<1>1. CASE ApplyPayment(sn, a, S)
  <2>1. PICK t : /\ t = Started(NewTxn(sn), active, {}, "CANCEL", Owing(a, S),
                                0, 0, inv, refunds)
                 /\ BeginGroup(t)
    BY <1>1, ApplyPaymentStarts
  <2> QED
    BY <2>1, StartedLocks
<1>2. CASE CreateShortNameLink(sn, a)
  <2>1. PICK t, due :
          /\ t = Started(NewTxn(sn), active \cup {<<sn, a>>}, {}, "CANCEL", due,
                         0, 0, inv, refunds)
          /\ \/ due = {} /\ Begin(t)
             \/ due = Owing(a, Statements) /\ BeginGroup(t)
    BY <1>2, CreateShortNameLinkStarts
  <2> QED
    BY <2>1, StartedLocks
<1>3. CASE CancelPayment(sn, a, S)
  <2>1. PICK t : /\ t = Started(NewTxn(sn), active, PendingOf(sn, a, S),
                                "CANCEL", {}, 0, 0, inv, refunds)
                 /\ Begin(t)
    BY <1>3, CancelPaymentStarts
  <2> QED
    BY <2>1, StartedLocks
<1> QED
  BY <1>1, <1>2, <1>3

LEMMA ReversePaymentLocks ==
    ASSUME IInv, LocksInv, job = IdleJob, cfsTodo = {}, UNCHANGED jobVars,
           NEW sn \in ShortNames, NEW s \in Statements, ReversePayment(sn, s)
    PROVE  LocksInv'
<1>1. PICK t, links :
        /\ links \in SUBSET ReversibleLinks(sn, s)
        /\ \A l \in links : l.status = "COMPLETED"
        /\ t = Started(NewTxn(sn), active, links, "PENDING_REFUND", {}, 0, 0,
                       inv, refunds)
        /\ BeginGroup(t)
  BY ReversePaymentStarts
<1> QED
  BY <1>1, StartedLocks

\* An overdue invoice cannot be refunded.
LEMMA RefundLocks ==
    ASSUME IInv, LocksInv, job = IdleJob, cfsTodo = {}, UNCHANGED jobVars,
           NEW i \in Invoices,
           \/ RefundLinkedInvoice(i)
           \/ \E x \in PartialAmounts : PartialRefund(i, x)
    PROVE  LocksInv'
<1>1. PICK t, latest, links, mode, rows :
        /\ latest \in LinksOf(i) /\ IsLatest(latest)
        /\ \/ /\ latest.status = "PENDING" /\ mode = "REGROUP"
              /\ links = GroupOf(i, latest)
           \/ /\ latest.status = "COMPLETED"
              /\ mode \in {"PENDING_REFUND", "REFUNDED"}
              /\ links = GroupOf(i, latest)
           \/ mode = "PENDING_REFUND" /\ links = {}
        /\ \A j \in Invoices : inv[j].status = "OVERDUE" => rows[j] = inv[j]
        /\ t = Started(NewTxn(DepositedBy[latest.credit]), active, links,
                       mode, {}, 0, 0, rows, refunds)
        /\ BeginGroup(t)
  BY RefundStarts
<1>2. t.inv = rows
  BY <1>1, StartedFields
<1>3. KeepsOverdue(t.inv)
  BY <1>1, <1>2 DEF KeepsOverdue
<1> QED
  BY <1>1, <1>3, BegunLocks

LEMMA ShortNameRefundLocks ==
    ASSUME IInv, LocksInv, job = IdleJob, cfsTodo = {}, UNCHANGED jobVars,
           NEW r \in Refunds,
           \/ \E sn \in ShortNames, x \in RefundAmounts :
                CreateShortNameRefund(r, sn, x)
           \/ DeclineShortNameRefund(r)
    PROVE  LocksInv'
<1>1. ASSUME NEW sn \in ShortNames, NEW x \in RefundAmounts,
             CreateShortNameRefund(r, sn, x)
      PROVE  LocksInv'
  <2>1. PICK t :
          /\ t = Started(NewTxn(sn), active, {}, "CANCEL", {}, x, 0, inv,
                         [refunds EXCEPT ![r] = NewRefund(sn, x)])
          /\ Begin(t)
    BY <1>1, CreateShortNameRefundStarts
  <2> QED
    BY <2>1, StartedLocks
<1>2. CASE DeclineShortNameRefund(r)
  <2>1. PICK t, row :
          /\ t = Started(NewTxn(refunds[r].sn), active, {}, "CANCEL", {}, 0,
                         refunds[r].amount, inv, [refunds EXCEPT ![r] = row])
          /\ Begin(t)
    BY <1>2, DeclineShortNameRefundStarts
  <2> QED
    BY <2>1, StartedLocks
<1> QED
  BY <1>1, <1>2

LEMMA OtherRequestLocks ==
    ASSUME IInv, LocksInv, job = IdleJob, Idle, UNCHANGED jobVars,
           \/ CreateCredit
           \/ \E i \in Invoices : CreateInvoice(i) \/ RefundUnlinkedInvoice(i)
           \/ \E s \in Statements : GenerateStatement(s)
           \/ \E sn \in ShortNames, a \in Accounts : PatchShortNameLink(sn, a)
           \/ \E r \in Refunds : ApproveShortNameRefund(r)
    PROVE  LocksInv'
<1>1. UNCHANGED <<locked, txn>> /\ KeepsOverdue(inv')
  <2>1. inv' = inv => KeepsOverdue(inv')
    BY DEF KeepsOverdue
  <2>2. CASE CreateCredit
    BY <2>1, <2>2 DEF CreateCredit
  <2>3. CASE \E i \in Invoices : CreateInvoice(i) \/ RefundUnlinkedInvoice(i)
    <3>1. \E i, row : /\ i \in Invoices /\ SetInvoice(i, row)
                      /\ inv[i].status # "OVERDUE"
      <4>1. ASSUME NEW i \in Invoices, CreateInvoice(i)
            PROVE  \E row : /\ i \in Invoices /\ SetInvoice(i, row)
                            /\ inv[i].status # "OVERDUE"
        BY <4>1 DEF CreateInvoice
      <4>2. ASSUME NEW i \in Invoices, RefundUnlinkedInvoice(i)
            PROVE  \E row : /\ i \in Invoices /\ SetInvoice(i, row)
                            /\ inv[i].status # "OVERDUE"
        BY <4>2 DEF RefundUnlinkedInvoice, Refundable
      <4> QED
        BY <2>3, <4>1, <4>2
    <3>2. PICK i, row : /\ i \in Invoices /\ SetInvoice(i, row)
                        /\ inv[i].status # "OVERDUE"
      BY <3>1
    <3>3. inv' = [inv EXCEPT ![i] = row] /\ UNCHANGED <<locked, txn>>
      BY <3>2 DEF SetInvoice
    <3>4. \A j \in Invoices : inv[j].status = "OVERDUE" => inv'[j] = inv[j]
      BY <3>2, <3>3, TablesType
    <3> QED
      BY <3>3, <3>4 DEF KeepsOverdue
  <2>4. CASE \E s \in Statements : GenerateStatement(s)
    BY <2>1, <2>4 DEF GenerateStatement
  <2>5. CASE \E sn \in ShortNames, a \in Accounts : PatchShortNameLink(sn, a)
    BY <2>1, <2>5 DEF PatchShortNameLink
  <2>6. CASE \E r \in Refunds : ApproveShortNameRefund(r)
    BY <2>1, <2>6 DEF ApproveShortNameRefund
  <2> QED
    BY <2>2, <2>3, <2>4, <2>5, <2>6
<1>2. UNCHANGED job /\ txn' = NoTxn
  BY <1>1 DEF jobVars, Idle
<1> QED
  BY <1>1, <1>2, IdleLocks

LEMMA RequestLocks ==
    ASSUME IInv, LocksInv, JobsIdle, Request, UNCHANGED jobVars
    PROVE  LocksInv'
<1>0. job = IdleJob /\ cfsTodo = {} /\ Idle
  BY DEF JobsIdle, Request
<1>1. CASE \E sn \in ShortNames, a \in Accounts :
             \/ CreateShortNameLink(sn, a)
             \/ \E S \in StatementChoice :
                  ApplyPayment(sn, a, S) \/ CancelPayment(sn, a, S)
  BY <1>0, <1>1, PaymentLocks
<1>2. CASE \E sn \in ShortNames, s \in Statements : ReversePayment(sn, s)
  BY <1>0, <1>2, ReversePaymentLocks
<1>3. CASE \E i \in Invoices : RefundLinkedInvoice(i)
             \/ \E x \in PartialAmounts : PartialRefund(i, x)
  BY <1>0, <1>3, RefundLocks
<1>4. CASE \E r \in Refunds : \/ \E sn \in ShortNames, x \in RefundAmounts :
                                   CreateShortNameRefund(r, sn, x)
                              \/ DeclineShortNameRefund(r)
  BY <1>0, <1>4, ShortNameRefundLocks
<1>5. CASE \/ CreateCredit
           \/ \E i \in Invoices : CreateInvoice(i) \/ RefundUnlinkedInvoice(i)
           \/ \E s \in Statements : GenerateStatement(s)
           \/ \E sn \in ShortNames, a \in Accounts : PatchShortNameLink(sn, a)
           \/ \E r \in Refunds : ApproveShortNameRefund(r)
  BY <1>0, <1>5, OtherRequestLocks
<1> QED
  BY <1>1, <1>2, <1>3, <1>4, <1>5 DEF Request


-----------------------------------------------------------------------------
(* Steps of the jobs.                                                      *)

LEMMA LocksKept ==
    ASSUME LocksInv,
           UNCHANGED <<inv, ref, cils, locked, job, cfsTodo, txn>>
    PROVE  LocksInv'
BY DEF LocksInv, OneAtATime, KeepsOverdue, Linking, ListGood, NotLinking,
   HasOverdueInvoices, InRollup, RolledUp

\* No job and no request runs beside the EFT job.
LEMMA JobAlone ==
    ASSUME LocksInv, Idle, job # IdleJob
    PROVE  txn = NoTxn /\ cfsTodo = {}
BY DEF LocksInv, OneAtATime, Idle

\* The list to link: each rollup is there, and of links without a receipt.
LEMMA LinkListGood ==
    ASSUME IInv, LinksInv, NEW k \in ToLink
    PROVE  InRollup(k) /\ k.status = "PENDING" /\ k.receipt = NoReceipt
<1>1. InRollup(k) /\ k.status = "PENDING"
  BY DEF ToLink, Rollups
<1>2. PICK l \in RolledUp(k) : TRUE
  BY <1>1 DEF InRollup
<1>3. l \in cils /\ l.status = "PENDING" /\ l.receipt = k.receipt
  BY <1>1, <1>2 DEF RolledUp
<1>4. l.receipt = NoReceipt
  BY <1>3 DEF LinksInv, Links, Receipted
<1> QED
  BY <1>1, <1>3, <1>4

LEMMA EftJobStartLocks ==
    ASSUME IInv, LinksInv, LocksInv, JobsIdle, Idle, EftJobStart
    PROVE  LocksInv'
<1>1. /\ job = IdleJob /\ cfsTodo = {} /\ txn = NoTxn
      /\ UNCHANGED <<inv, ref, cils, locked, cfsTodo, txn>>
  BY DEF JobsIdle, Idle, EftJobStart, WithinJob, eftVars
<1>2. job'.phase = "LINK" /\ job'.todo = ToLink /\ job'.cur = NoItem
  BY QueriedFields DEF EftJobStart
<1>3. \A a \in locked : HasOverdueInvoices(a)
  BY <1>1 DEF LocksInv, NotLinking, IdleJob
<1>4. Linking'
  BY <1>1, <1>2, <1>3 DEF Linking, HasOverdueInvoices
<1>5. \A k \in job'.todo : /\ InRollup(k)' /\ k.status = "PENDING"
                           /\ k.receipt = NoReceipt
  <2>1. ASSUME NEW k \in ToLink
        PROVE  /\ InRollup(k)' /\ k.status = "PENDING"
               /\ k.receipt = NoReceipt
    <3>1. InRollup(k) /\ k.status = "PENDING" /\ k.receipt = NoReceipt
      BY <2>1, LinkListGood
    <3>2. InRollup(k)'
      BY <1>1, <3>1 DEF InRollup, RolledUp
    <3> QED
      BY <3>1, <3>2
  <2> QED
    BY <1>2, <2>1
<1>6. ListGood'
  BY <1>2, <1>5 DEF ListGood
<1>7. OneAtATime'
  BY <1>1 DEF OneAtATime
<1> QED
  BY <1>1, <1>2, <1>4, <1>6, <1>7 DEF LocksInv

\* An item of the first list.  It is still rolled up, so the job goes on.
LEMMA LinkItemLocks ==
    ASSUME IInv, LinksInv, LocksInv, Idle, WithinJob, job.phase = "LINK",
           NEW k \in job.todo, ItemStarts(k)
    PROVE  LocksInv'
<1> DEFINE noted == Noted(k)
           item == ItemOf(k)
<1>1. /\ txn = NoTxn /\ cfsTodo = {} /\ job # IdleJob
      /\ UNCHANGED <<inv, ref, cils, locked, cfsTodo, txn>>
  BY JobAlone DEF IdleJob, WithinJob, eftVars
<1>2. Linking /\ ListGood
  BY DEF LocksInv
<1>3. /\ k \in RollupKey /\ job.cur = NoItem
      /\ job' = noted \/ job' = [noted EXCEPT !.cur = item]
  <2>1. InRollup(k)
    BY <1>2 DEF ListGood
  <2>2. /\ k \in RollupKey /\ job.cur = NoItem
        /\ \/ job' = Noted(k)
           \/ job' = [Noted(k) EXCEPT !.cur = ItemOf(k)]
           \/ job.phase = "UNLINKED"
           \/ job' = IdleJob /\ (job.phase = "LINK" => ~ InRollup(k))
    BY ItemStartSteps
  <2> QED
    BY <2>1, <2>2
<1>4. /\ noted \in Job /\ noted.cur = NoItem /\ noted.phase = "LINK"
      /\ noted.todo = job.todo \ {k} /\ job.overdue \subseteq noted.overdue
      /\ inv[k.invoice].status = "OVERDUE"
           => AccountOf[k.invoice] \in noted.overdue
  BY <1>3, NotedType
<1>5. item.key = k /\ item.ids = {l.id : l \in RolledUp(k)}
  BY <1>3, ItemOfType
<1> HIDE DEF noted, item
<1>6. /\ job'.phase = "LINK" /\ job'.todo = job.todo \ {k}
      /\ job'.overdue = noted.overdue
      /\ job'.cur = NoItem \/ job'.cur = item
  BY <1>3, <1>4 DEF Job
<1>7. Linking'
  <2>1. \A a \in locked' : HasOverdueInvoices(a)' \/ a \in job'.overdue
    BY <1>1, <1>2, <1>4, <1>6 DEF Linking, HasOverdueInvoices
  <2>2. job'.cur # NoItem /\ inv'[job'.cur.key.invoice].status = "OVERDUE"
          => AccountOf[job'.cur.key.invoice] \in job'.overdue
    BY <1>1, <1>4, <1>5, <1>6
  <2> QED
    BY <2>1, <2>2 DEF Linking
<1>8. \A j \in job'.todo : /\ InRollup(j)' /\ j.status = "PENDING"
                           /\ j.receipt = NoReceipt
  BY <1>1, <1>2, <1>6 DEF ListGood, InRollup, RolledUp
<1>9. \A j \in job.todo \ {k} : j.invoice # k.invoice
  <2>1. job.todo \subseteq RollupKey
    BY JobTables DEF Job
  <2>2. \A j \in job.todo : j.status = "PENDING" /\ j.receipt = NoReceipt
    BY <1>2 DEF ListGood
  <2> QED
    BY <2>1, <2>2 DEF RollupKey
<1>10. \A l \in cils : l.id \in item.ids => l.invoice = k.invoice
  BY <1>5 DEF RolledUp, LinksInv, Links, Numbered
<1>11. ListGood'
  BY <1>1, <1>5, <1>6, <1>8, <1>9, <1>10 DEF ListGood
<1>12. OneAtATime'
  BY <1>1 DEF OneAtATime
<1> QED
  BY <1>1, <1>6, <1>7, <1>11, <1>12 DEF LocksInv

\* An item of the other lists.
LEMMA OtherItemLocks ==
    ASSUME IInv, LocksInv, Idle, WithinJob, job.phase # "LINK",
           NEW k \in job.todo, ItemStarts(k)
    PROVE  LocksInv'
<1> DEFINE noted == Noted(k)
           item == ItemOf(k)
           unlinked == UnlinkedItemOf(k)
<1>1. /\ txn = NoTxn /\ cfsTodo = {} /\ job # IdleJob
      /\ UNCHANGED <<inv, ref, cils, locked, cfsTodo, txn>>
  BY JobAlone DEF IdleJob, WithinJob, eftVars
<1>2. NotLinking
  BY DEF LocksInv
<1>3. /\ k \in RollupKey /\ job.cur = NoItem
      /\ \/ job' = noted
         \/ job' = [noted EXCEPT !.cur = item]
         \/ job' = [noted EXCEPT !.cur = unlinked]
         \/ job' = IdleJob
  BY ItemStartSteps
<1>4. /\ noted \in Job /\ noted.cur = NoItem /\ noted.phase # "LINK"
      /\ noted.todo = job.todo \ {k}
  BY <1>3, NotedType
<1>5. item.key = k /\ unlinked.key = k
  <2>1. item \in Item /\ item.key = k
    BY <1>3, ItemOfType
  <2>2. unlinked = [item EXCEPT !.refunding = TRUE, !.ids = {}]
    BY DEF UnlinkedItemOf
  <2> HIDE DEF item, unlinked
  <2> QED
    BY <2>1, <2>2 DEF Item
<1> HIDE DEF noted, item, unlinked
<1>6. /\ job'.phase # "LINK" /\ job'.todo \subseteq job.todo
      /\ job'.cur = NoItem \/ job'.cur.key = k
  BY <1>3, <1>4, <1>5 DEF Job, IdleJob
<1>7. NotLinking'
  BY <1>1, <1>2, <1>6 DEF NotLinking, HasOverdueInvoices
<1>8. OneAtATime'
  BY <1>1 DEF OneAtATime
<1> QED
  BY <1>1, <1>6, <1>7, <1>8 DEF LocksInv

\* The invoice of an item that is linked is overdue no more; its account was
\* noted.
LEMMA LinkItemEndLocks ==
    ASSUME IInv, LocksInv, Idle, LinkItemEnd
    PROVE  LocksInv'
<1> DEFINE item == job.cur
           i == item.key.invoice
<1>1. /\ job.phase = "LINK" /\ item # NoItem /\ job # IdleJob
      /\ txn = NoTxn /\ cfsTodo = {}
      /\ UNCHANGED <<locked, cfsTodo, txn>>
      /\ job' = [job EXCEPT !.cur = NoItem]
      /\ ref' = [ref EXCEPT ![i] = "COMPLETED"]
      /\ cils' = UpdateLinks(item, "COMPLETED", MinId(item.ids))
  BY JobAlone DEF LinkItemEnd, IdleJob
<1>2. Linking /\ ListGood
  BY <1>1 DEF LocksInv
<1>3. job \in Job /\ i \in Invoices
  BY <1>1, JobTables DEF Job, Item, RollupKey
<1>4. /\ job'.phase = "LINK" /\ job'.cur = NoItem /\ job'.todo = job.todo
      /\ job'.overdue = job.overdue
  BY <1>1, <1>3 DEF Job
<1>5. \A j \in Invoices \ {i} : inv'[j] = inv[j]
  BY <1>3, TablesType DEF LinkItemEnd
<1>6. ASSUME NEW a \in locked
      PROVE  HasOverdueInvoices(a)' \/ a \in job'.overdue
  <2>1. CASE a \in job.overdue
    BY <1>4, <2>1
  <2>2. CASE a \notin job.overdue
    <3>1. PICK j \in Invoices : AccountOf[j] = a /\ inv[j].status = "OVERDUE"
      BY <1>2, <1>6, <2>2 DEF Linking, HasOverdueInvoices
    <3>2. j # i
      BY <1>1, <1>2, <2>2, <3>1 DEF Linking
    <3> QED
      BY <1>5, <3>1, <3>2 DEF HasOverdueInvoices
  <2> QED
    BY <2>1, <2>2
<1>7. Linking'
  BY <1>1, <1>4, <1>6 DEF Linking
<1>8. ASSUME NEW k \in job.todo
      PROVE  InRollup(k)' /\ k.status = "PENDING" /\ k.receipt = NoReceipt
  <2>1. /\ k.status = "PENDING" /\ k.receipt = NoReceipt
        /\ InRollup(k) /\ k.invoice # i
    BY <1>1, <1>2, <1>8 DEF ListGood
  <2>2. k.invoice \in Invoices
    BY <1>3, <1>8 DEF Job, RollupKey
  <2>3. PICK l \in cils : /\ l.invoice = k.invoice /\ l.status = k.status
                          /\ l.receipt = k.receipt
    BY <2>1 DEF InRollup, RolledUp
  <2>4. l.id \notin item.ids
    BY <1>1, <1>2, <2>1, <2>3 DEF ListGood
  <2>5. l \in cils'
    BY <1>1, <2>3, <2>4 DEF UpdateLinks
  <2>6. ref'[k.invoice] = ref[k.invoice]
    BY <1>1, <1>3, <2>1, <2>2, JobTables
  <2> QED
    BY <2>1, <2>3, <2>5, <2>6 DEF InRollup, RolledUp
<1>9. ListGood'
  BY <1>4, <1>8 DEF ListGood
<1>10. OneAtATime'
  BY <1>1 DEF OneAtATime
<1> QED
  BY <1>1, <1>4, <1>7, <1>9, <1>10 DEF LocksInv

\* The accounts that were noted are unlocked, but for those that still owe;
\* and what is to be reversed is not overdue.
LEMMA UnlockLocks ==
    ASSUME LocksInv, Idle, UnlockOverdueAccounts
    PROVE  LocksInv'
<1>1. /\ job.phase = "LINK" /\ job # IdleJob /\ txn = NoTxn /\ cfsTodo = {}
      /\ UNCHANGED <<inv, cfsTodo, txn>>
      /\ locked' = locked \ {a \in job.overdue : ~ HasOverdueInvoices(a)}
  BY JobAlone DEF UnlockOverdueAccounts, IdleJob
<1>2. job'.phase = "REVERSE" /\ job'.todo = ToReverse /\ job'.cur = NoItem
  BY QueriedFields DEF UnlockOverdueAccounts
<1>3. \A a \in locked' : HasOverdueInvoices(a)
  BY <1>1 DEF LocksInv, Linking
<1>4. \A k \in ToReverse : inv[k.invoice].status # "OVERDUE"
  BY DEF ToReverse, Rollups
<1>5. NotLinking'
  BY <1>1, <1>2, <1>3, <1>4 DEF NotLinking, HasOverdueInvoices
<1>6. OneAtATime'
  BY <1>1 DEF OneAtATime
<1> QED
  BY <1>1, <1>2, <1>5, <1>6 DEF LocksInv

LEMMA ReverseItemEndLocks ==
    ASSUME IInv, LocksInv, Idle, ReverseItemEnd
    PROVE  LocksInv'
<1> DEFINE item == job.cur
           i == item.key.invoice
<1>1. /\ job.phase # "LINK" /\ item # NoItem /\ job # IdleJob
      /\ txn = NoTxn /\ cfsTodo = {}
      /\ UNCHANGED <<locked, cfsTodo, txn>>
      /\ job' = [job EXCEPT !.cur = NoItem]
  BY JobAlone DEF ReverseItemEnd, IdleJob
<1>2. NotLinking
  BY <1>1 DEF LocksInv
<1>3. job \in Job /\ i \in Invoices
  BY <1>1, JobTables DEF Job, Item, RollupKey
<1>4. job'.phase # "LINK" /\ job'.cur = NoItem /\ job'.todo = job.todo
  BY <1>1, <1>3 DEF Job
<1>5. /\ inv[i].status # "OVERDUE" /\ inv'[i].status # "OVERDUE"
      /\ \A j \in Invoices \ {i} : inv'[j] = inv[j]
  <2>1. inv \in [Invoices -> Invoice] /\ inv[i] \in Invoice
    BY <1>3, TablesType
  <2>2. inv[i].status # "OVERDUE"
    BY <1>1, <1>2 DEF NotLinking
  <2>3. CASE item.refunding
    <3>1. inv' = [inv EXCEPT ![i] = [inv[i] EXCEPT
                                       !.status = RefundedStatus(item),
                                       !.refund = Total[i]]]
      BY <1>3, <2>1, <2>3 DEF ReverseItemEnd
    <3> QED
      BY <1>3, <2>1, <2>2, <3>1 DEF Invoice, RefundedStatus
  <2>4. CASE ~ item.refunding
    <3>1. inv' = [inv EXCEPT ![i] = ReversedInvoice(inv[i])]
      BY <1>3, <2>1, <2>4 DEF ReverseItemEnd
    <3> QED
      BY <1>3, <2>1, <2>2, <3>1 DEF Invoice, ReversedInvoice
  <2> QED
    BY <2>3, <2>4
<1>6. KeepsOverdue(inv')
  BY <1>5 DEF KeepsOverdue
<1>7. \A a \in locked' : HasOverdueInvoices(a)'
  BY <1>1, <1>2, <1>6, StillOwes DEF NotLinking
<1>8. \A k \in job.todo : inv'[k.invoice].status # "OVERDUE"
  BY <1>2, <1>3, <1>5 DEF NotLinking, Job, RollupKey
<1>9. NotLinking'
  BY <1>4, <1>7, <1>8 DEF NotLinking
<1>10. OneAtATime'
  BY <1>1 DEF OneAtATime
<1> QED
  BY <1>1, <1>4, <1>9, <1>10 DEF LocksInv

LEMMA UnlinkedLocks ==
    ASSUME LocksInv, Idle, UnlinkedJobStart \/ EftJobEnd
    PROVE  LocksInv'
<1>1. /\ job.phase \in {"REVERSE", "UNLINKED"} /\ job # IdleJob
      /\ txn = NoTxn /\ cfsTodo = {}
      /\ UNCHANGED <<inv, locked, cfsTodo, txn>>
  BY JobAlone DEF UnlinkedJobStart, EftJobEnd, IdleJob, WithinJob, eftVars
<1>2. /\ job'.phase # "LINK" /\ job'.cur = NoItem
      /\ job'.todo = Unlinked \/ job'.todo = {}
  BY QueriedFields DEF UnlinkedJobStart, EftJobEnd, IdleJob
<1>3. \A k \in Unlinked : inv[k.invoice].status # "OVERDUE"
  BY DEF Unlinked, RefundKey
<1>4. NotLinking'
  BY <1>1, <1>2, <1>3 DEF LocksInv, NotLinking, HasOverdueInvoices
<1>5. OneAtATime'
  BY <1>1 DEF OneAtATime
<1> QED
  BY <1>1, <1>2, <1>4, <1>5 DEF LocksInv

LEMMA CfsInvoiceJobLocks ==
    ASSUME LocksInv, Idle,
           \/ CfsInvoiceJobStart /\ JobsIdle
           \/ \E i \in cfsTodo : CfsInvoiceItem(i) \/ CfsInvoiceItemGivenUp(i)
    PROVE  LocksInv'
<1>1. job = IdleJob /\ txn = NoTxn /\ UNCHANGED <<job, locked, inv, txn>>
  BY DEF LocksInv, OneAtATime, Idle, JobsIdle, CfsInvoiceJobStart, eftVars,
     CfsInvoiceItem, CfsInvoiceItemGivenUp, CfsInvoiceItemFails,
     CfsInvoiceItemLost
<1>2. KeepsOverdue(inv')
  BY <1>1 DEF KeepsOverdue
<1> QED
  BY <1>1, <1>2, IdleLocks

\* An account that is locked has an invoice that has become overdue.
LEMMA StatementDueLocks ==
    ASSUME IInv, LocksInv, Idle, JobsIdle, StatementDueJob
    PROVE  LocksInv'
<1>1. /\ job = IdleJob /\ cfsTodo = {} /\ txn = NoTxn
      /\ UNCHANGED <<job, cfsTodo, txn>>
  BY DEF JobsIdle, Idle, StatementDueJob
<1>2. \A i \in NowOverdue : inv'[i].status = "OVERDUE"
  <2>1. ASSUME NEW i \in NowOverdue
        PROVE  inv'[i].status = "OVERDUE"
    <3>1. i \in Invoices /\ inv[i] \in Invoice
      BY TablesType DEF NowOverdue, IInv, TypeOK
    <3>2. inv'[i] = [inv[i] EXCEPT !.status = "OVERDUE"]
      BY <3>1 DEF StatementDueJob
    <3> QED
      BY <3>1, <3>2 DEF Invoice
  <2> QED
    BY <2>1
<1>3. KeepsOverdue(inv')
  <2>1. \A i \in Invoices \ NowOverdue : inv'[i] = inv[i]
    BY DEF StatementDueJob
  <2> QED
    BY <1>2, <2>1 DEF KeepsOverdue
<1>4. ASSUME NEW a \in locked'
      PROVE  HasOverdueInvoices(a)'
  <2>1. CASE a \in locked
    <3>1. HasOverdueInvoices(a)
      BY <1>1, <2>1 DEF LocksInv, NotLinking, IdleJob
    <3> QED
      BY <1>3, <3>1, StillOwes
  <2>2. CASE a \notin locked
    <3>1. PICK i \in NowOverdue : a = AccountOf[i]
      BY <1>4, <2>2 DEF StatementDueJob
    <3>2. i \in Invoices
      BY DEF NowOverdue, IInv, TypeOK
    <3> QED
      BY <1>2, <3>1, <3>2 DEF HasOverdueInvoices
  <2> QED
    BY <2>1, <2>2
<1>5. NotLinking'
  BY <1>1, <1>4 DEF NotLinking, IdleJob
<1>6. OneAtATime'
  BY <1>1 DEF OneAtATime
<1> QED
  BY <1>1, <1>5, <1>6 DEF LocksInv, IdleJob

\* An item in hand is given up; what was noted of it stays.
LEMMA RolledBackLocks ==
    ASSUME IInv, LocksInv, Idle, ItemRollsBack
    PROVE  LocksInv'
<1>1. /\ txn = NoTxn /\ cfsTodo = {}
      /\ UNCHANGED <<inv, ref, cils, locked, cfsTodo, txn>>
  BY JobAlone, RolledBack DEF ItemRollsBack, IdleJob, eftVars
<1>2. /\ job'.cur = NoItem /\ job'.phase = job.phase /\ job'.todo = job.todo
      /\ job'.overdue = job.overdue
  BY RolledBack
<1>3. job'.phase = "LINK" => Linking' /\ ListGood'
  BY <1>1, <1>2 DEF LocksInv, Linking, ListGood, HasOverdueInvoices, InRollup,
     RolledUp
<1>4. job'.phase # "LINK" => NotLinking'
  BY <1>1, <1>2 DEF LocksInv, NotLinking, HasOverdueInvoices
<1>5. OneAtATime'
  BY <1>1 DEF OneAtATime
<1> QED
  BY <1>1, <1>3, <1>4, <1>5 DEF LocksInv

LEMMA InitLocks ==
    ASSUME TaskInit
    PROVE  LocksInv
BY DEF TaskInit, Init, LocksInv, OneAtATime, NotLinking, IdleJob

LEMMA NextLocks ==
    ASSUME ~ Overlap, ~ JobsMayDie, IInv, LinksInv, LocksInv, [Next]_vars
    PROVE  LocksInv'
<1>1. CASE TxnStep /\ UNCHANGED jobVars
  BY <1>1, TxnStepLocks
<1>2. CASE Idle /\ EftJob
  <2>1. CASE EftJobStart
    <3>1. JobsIdle
      BY <2>1 DEF EftJobStart
    <3> QED
      BY <1>2, <2>1, <3>1, EftJobStartLocks
  <2>2. CASE \E k \in job.todo : \/ LinkItemStart(k) \/ ReverseItemStart(k)
                                 \/ UnlinkedItemStart(k)
    <3>1. WithinJob
      BY <2>2 DEF LinkItemStart, ReverseItemStart, UnlinkedItemStart
    <3> QED
      BY <1>2, <2>2, <3>1, LinkItemLocks, OtherItemLocks DEF ItemStarts
  <2>3. CASE LinkItemEnd \/ ReverseItemEnd \/ UnlockOverdueAccounts
    BY <1>2, <2>3, LinkItemEndLocks, ReverseItemEndLocks, UnlockLocks
  <2>4. CASE UnlinkedJobStart \/ EftJobEnd
    BY <1>2, <2>4, UnlinkedLocks
  <2> QED
    BY <1>2, <2>1, <2>2, <2>3, <2>4 DEF EftJob
<1>3. CASE Idle /\ JobFailure
  <2>1. CASE \E k \in job.todo : ItemGivenUp(k)
    BY <1>3, <2>1, GivenUp, LinkItemLocks, OtherItemLocks DEF ItemStarts
  <2>2. CASE \E i \in cfsTodo : CfsInvoiceItemGivenUp(i)
    BY <1>3, <2>2, CfsInvoiceJobLocks
  <2>3. CASE JobDies
    BY <2>3 DEF JobDies
  <2>4. CASE ItemRollsBack
    BY <1>3, <2>4, RolledBackLocks
  <2> QED
    BY <1>3, <2>1, <2>2, <2>3, <2>4 DEF JobFailure, ItemGivenUp,
       CfsInvoiceItemGivenUp
<1>4. CASE Idle /\ CfsInvoiceJob
  <2>1. CfsInvoiceJobStart => JobsIdle
    BY DEF CfsInvoiceJobStart
  <2> QED
    BY <1>4, <2>1, CfsInvoiceJobLocks DEF CfsInvoiceJob
<1>5. CASE Idle /\ StatementDueJob
  <2>1. JobsIdle
    BY <1>5 DEF StatementDueJob
  <2> QED
    BY <1>5, <2>1, StatementDueLocks
<1>6. CASE Idle /\ \E i \in Invoices : OverdueDatePasses(i)
  <2>1. UNCHANGED <<inv, ref, cils, locked, job, cfsTodo, txn>>
    BY <1>6 DEF OverdueDatePasses, eftVars
  <2> QED
    BY <2>1, LocksKept
<1>7. CASE JobsIdle /\ Request /\ UNCHANGED jobVars
  BY <1>7, RequestLocks
<1>8. CASE UNCHANGED vars
  <2>1. UNCHANGED <<inv, ref, cils, locked, job, cfsTodo, txn>>
    BY <1>8 DEF vars, eftVars, jobVars
  <2> QED
    BY <2>1, LocksKept
<1> QED
  BY <1>1, <1>2, <1>3, <1>4, <1>5, <1>6, <1>7, <1>8 DEF Next

\* LockedOwes: where requests and jobs take turns and no job is killed, a
\* locked account has an overdue invoice whenever no job runs, even if CFS
\* refuses any call: the EFT job unlocks an account with the payment of its
\* last overdue invoice (unlock_overdue_accounts), and neither a refund nor a
\* reversal takes an invoice out of OVERDUE.
THEOREM LocksAreOwed ==
    ASSUME ~ Overlap, ~ JobsMayDie
    PROVE  Spec => []LockedOwes
<1>1. TaskInit => LocksInv
  BY InitLocks
<1>2. IInv /\ LinksInv /\ LocksInv /\ [Next]_vars => LocksInv'
  BY NextLocks
<1>3. LocksInv => LockedOwes
  BY DEF LocksInv, NotLinking, LockedOwes, JobsIdle, IdleJob
<1> QED
  BY <1>1, <1>2, <1>3, Invariance, LinksInvariance, PTL DEF Spec

-----------------------------------------------------------------------------
(* The links of one invoice, and what they hold.                           *)

\* The links of an invoice: those to be sent to CFS, and the others.
On(L, i) == {l \in L : l.invoice = i}
Open(L, i) == {l \in L : l.invoice = i /\ l.status = "PENDING"}
Closed(L, i) == {l \in L : l.invoice = i /\ l.status # "PENDING"}
Family(L, l) == {k \in L : Siblings(k, l)}

Mine(L, sn, i) == {l \in L : /\ l.invoice = i /\ l.status = "PENDING"
                             /\ Payer(l) = sn}

\* What they hold of a short name.
Asked(L, sn, i) == HeldOf(Open(L, i), sn)
Done(L, sn, i) == HeldOf(Closed(L, i), sn)
Newest(L, l) == \A k \in L : k.invoice = l.invoice => k.group <= l.group
InReturn(L, i) == \E l \in L : l.invoice = i /\ l.status = "PENDING_REFUND"
Owed(row) == row.status \in {"NOT_CREATED", "APPROVED", "OVERDUE"}
Cost(I) == SumFunctionOnSet(Total, I)
Gone(row) == row.status \in {"REFUND_REQUESTED", "CANCELLED", "REFUNDED"}

LEMMA HeldNone ==
    ASSUME NEW L, IsFiniteSet(L), NEW sn, \A l \in L : Weight(l, sn) = 0
    PROVE  HeldOf(L, sn) = 0
<1> DEFINE f == [l \in L |-> Weight(l, sn)]
<1>1. \A l \in L : f[l] = 0
  OBVIOUS
<1> HIDE DEF f
<1>2. SumFunctionOnSet(f, L) = 0
  BY <1>1, SumZero
<1> QED
  BY <1>2 DEF HeldOf, f

LEMMA HeldParts ==
    ASSUME NEW A \in SUBSET Cil, IsFiniteSet(A), NEW B \in SUBSET Cil,
           IsFiniteSet(B), A \cap B = {}, NEW L, L = A \cup B, NEW sn
    PROVE  /\ HeldOf(A, sn) \in Int /\ HeldOf(B, sn) \in Int
           /\ HeldOf(L, sn) = HeldOf(A, sn) + HeldOf(B, sn)
<1> DEFINE f == [l \in L |-> Weight(l, sn)]
           a == [l \in A |-> Weight(l, sn)]
           b == [l \in B |-> Weight(l, sn)]
<1>1. /\ \A l \in A \cup B : f[l] \in Int
      /\ \A l \in A : f[l] = a[l]
      /\ \A l \in B : f[l] = b[l]
  BY WeightType
<1> HIDE DEF f, a, b
<1>2. /\ SumFunctionOnSet(f, A) \in Int /\ SumFunctionOnSet(f, B) \in Int
      /\ SumFunctionOnSet(f, A \cup B)
           = SumFunctionOnSet(f, A) + SumFunctionOnSet(f, B)
  BY <1>1, SumUnion
<1>3. /\ SumFunctionOnSet(f, A) = SumFunctionOnSet(a, A)
      /\ SumFunctionOnSet(f, B) = SumFunctionOnSet(b, B)
  BY <1>1, SumSame
<1> QED
  BY <1>2, <1>3 DEF HeldOf, f, a, b

\* Links that hold nothing of a short name do not matter to it.
LEMMA HeldAgree ==
    ASSUME NEW A \in SUBSET Cil, IsFiniteSet(A), NEW B \in SUBSET Cil,
           IsFiniteSet(B), NEW sn,
           \A l \in A : l \notin B => Weight(l, sn) = 0,
           \A l \in B : l \notin A => Weight(l, sn) = 0
    PROVE  HeldOf(A, sn) = HeldOf(B, sn)
<1> DEFINE C == A \cap B
           P == A \ B
           Q == B \ A
<1>1. /\ C \in SUBSET Cil /\ P \in SUBSET Cil /\ Q \in SUBSET Cil
      /\ IsFiniteSet(C) /\ IsFiniteSet(P) /\ IsFiniteSet(Q)
  BY FS_Difference, FS_Intersection
<1>2. C \cap P = {} /\ C \cup P = A /\ C \cap Q = {} /\ C \cup Q = B
  OBVIOUS
<1>3. HeldOf(P, sn) = 0 /\ HeldOf(Q, sn) = 0
  <2>1. (\A l \in P : Weight(l, sn) = 0) /\ (\A l \in Q : Weight(l, sn) = 0)
    OBVIOUS
  <2> HIDE DEF P, Q
  <2> QED
    BY <1>1, <2>1, HeldNone
<1> HIDE DEF C, P, Q
<1>4. /\ HeldOf(A, sn) = HeldOf(C, sn) + HeldOf(P, sn)
      /\ HeldOf(B, sn) = HeldOf(C, sn) + HeldOf(Q, sn)
      /\ HeldOf(C, sn) \in Int
  BY <1>1, <1>2, HeldParts
<1> QED
  BY <1>3, <1>4

\* Pending links take their amounts.
LEMMA HeldNat ==
    ASSUME NEW L \in SUBSET Cil, IsFiniteSet(L), NEW sn,
           \A l \in L : l.status = "PENDING"
    PROVE  HeldOf(L, sn) \in Nat
<1> DEFINE f == [l \in L |-> Weight(l, sn)]
<1>1. \A l \in L : f[l] \in Nat
  BY CilFields DEF Weight
<1> HIDE DEF f
<1>2. SumFunctionOnSet(f, L) \in Nat
  BY <1>1, SumNat
<1> QED
  BY <1>2 DEF HeldOf, f

LEMMA PageType ==
    ASSUME NEW L \in SUBSET Cil, IsFiniteSet(L), NEW sn, NEW i
    PROVE  /\ On(L, i) \in SUBSET Cil /\ IsFiniteSet(On(L, i))
           /\ Open(L, i) \in SUBSET Cil /\ IsFiniteSet(Open(L, i))
           /\ Closed(L, i) \in SUBSET Cil /\ IsFiniteSet(Closed(L, i))
           /\ Mine(L, sn, i) \in SUBSET Cil /\ IsFiniteSet(Mine(L, sn, i))
           /\ Asked(L, sn, i) \in Nat /\ Done(L, sn, i) \in Int
           /\ Asked(L, sn, i) = HeldOf(Mine(L, sn, i), sn)
           /\ HeldOf(On(L, i), sn) = Asked(L, sn, i) + Done(L, sn, i)
<1>1. /\ On(L, i) \in SUBSET L /\ Open(L, i) \in SUBSET L
      /\ Closed(L, i) \in SUBSET L /\ Mine(L, sn, i) \in SUBSET L
  BY DEF On, Open, Closed, Mine
<1>2. /\ IsFiniteSet(On(L, i)) /\ IsFiniteSet(Open(L, i))
      /\ IsFiniteSet(Closed(L, i)) /\ IsFiniteSet(Mine(L, sn, i))
  BY <1>1, FS_Subset
<1>3. /\ On(L, i) \in SUBSET Cil /\ Open(L, i) \in SUBSET Cil
      /\ Closed(L, i) \in SUBSET Cil /\ Mine(L, sn, i) \in SUBSET Cil
  BY <1>1
<1>4. /\ Open(L, i) \cap Closed(L, i) = {}
      /\ On(L, i) = Open(L, i) \cup Closed(L, i)
  BY DEF On, Open, Closed
<1>5. HeldOf(Open(L, i), sn) \in Nat
  <2>1. \A l \in Open(L, i) : l.status = "PENDING"
    BY DEF Open
  <2> QED
    BY <1>2, <1>3, <2>1, HeldNat
<1>6. HeldOf(Open(L, i), sn) = HeldOf(Mine(L, sn, i), sn)
  <2>1. /\ \A l \in Open(L, i) : l \notin Mine(L, sn, i) => Weight(l, sn) = 0
        /\ \A l \in Mine(L, sn, i) : l \in Open(L, i)
    BY DEF Open, Mine, Weight
  <2> QED
    BY <1>2, <1>3, <2>1, HeldAgree
<1>7. /\ HeldOf(Closed(L, i), sn) \in Int
      /\ HeldOf(On(L, i), sn)
           = HeldOf(Open(L, i), sn) + HeldOf(Closed(L, i), sn)
  BY <1>2, <1>3, <1>4, HeldParts
<1> QED
  BY <1>2, <1>3, <1>5, <1>6, <1>7 DEF Asked, Done

LEMMA TxnSets ==
    ASSUME IInv, LinksInv, txn.open
    PROVE  /\ GoodTxn(txn) /\ txn \in Txn /\ txn # NoTxn /\ TxnLinks(txn)
           /\ cils \in SUBSET Cil /\ IsFiniteSet(cils)
           /\ txn.cils \in SUBSET Cil /\ IsFiniteSet(txn.cils)
           /\ txn.todo \in SUBSET txn.cils /\ IsFiniteSet(txn.todo)
           /\ txn.todo \in SUBSET Cil
           /\ txn.sn \in ShortNames /\ txn.mode \in ReturnMode
<1>1. GoodTxn(txn) /\ txn \in Txn /\ txn # NoTxn /\ TxnLinks(txn)
  BY OpenIsGood DEF GoodTxn, NoTxn, LinksInv
<1>2. cils \in SUBSET Cil /\ IsFiniteSet(cils)
  BY DEF IInv, TypeOK, LinksInv, Links, Numbered
<1>3. /\ txn.cils \in SUBSET Cil /\ IsFiniteSet(txn.cils)
      /\ txn.todo \in SUBSET txn.cils
  BY <1>1, TxnFields DEF TxnLinks, Links, Numbered, Todo
<1> QED
  BY <1>1, <1>2, <1>3, FS_Subset, TxnFields

UndoneAs(l, r) ==
    \/ txn.mode = "CANCEL" /\ Undone(l, r, l.group)
    \/ txn.mode = "REGROUP" /\ Undone(l, r, txn.group)

LEMMA HeldEmpty ==
    ASSUME NEW sn
    PROVE  HeldOf({}, sn) = 0
<1>1. \A l \in {} : Weight(l, sn) = 0
  OBVIOUS
<1> QED
  BY <1>1, FS_EmptySet, HeldNone

LEMMA CostType ==
    ASSUME NEW I \in SUBSET Invoices
    PROVE  IsFiniteSet(I) /\ Cost(I) \in Nat
<1>1. IsFiniteSet(Invoices)
  BY FS_Interval, EFTConstants DEF Invoices
<1>2. IsFiniteSet(I)
  BY <1>1, FS_Subset
<1>3. \A i \in I : Total[i] \in Nat
  BY EFTConstants
<1>4. SumFunctionOnSet(Total, I) \in Nat
  BY <1>2, <1>3, SumNat
<1> QED
  BY <1>2, <1>4 DEF Cost

\* What a request has at its start.
AtStart(t, sn, todo, mode, due, need, refill, rows, refs) ==
    /\ t.sn = sn /\ t.group = lastGroup + 1 /\ t.todo = todo
    /\ t.mode = mode /\ t.due = due /\ t.cur = NoInvoice
    /\ t.need = need /\ t.refill = refill /\ t.rem = remaining
    /\ t.cils = cils /\ t.inv = rows /\ t.refunds = refs /\ t # NoTxn

LEMMA StartsAt ==
    ASSUME NEW sn, NEW act, NEW todo, NEW mode, NEW due, NEW need, NEW refill,
           NEW rows, NEW refs, NEW t,
           t = Started(NewTxn(sn), act, todo, mode, due, need, refill, rows,
                       refs)
    PROVE  AtStart(t, sn, todo, mode, due, need, refill, rows, refs)
BY StartedFields DEF AtStart

\* What an account owes is the whole total of each of its unpaid invoices.
LEMMA TotalDueIsCost ==
    ASSUME IInv, NEW a, NEW S
    PROVE  /\ Owing(a, S) \in SUBSET Invoices
           /\ \A i \in Owing(a, S) : Unpaid(i)
           /\ TotalDue(a, S) = Cost(Owing(a, S))
<1> DEFINE O == Owing(a, S)
           f == [i \in Invoices |-> Due(i)]
<1>1. O \in SUBSET Invoices /\ \A i \in O : Unpaid(i) /\ inv[i].paid = {}
  BY OwingGood DEF Owing
<1>2. \A i \in O : f[i] = Total[i]
  BY <1>1 DEF Due
<1>3. IsFiniteSet(O)
  BY <1>1, CostType
<1>4. TotalDue(a, S) = SumFunctionOnSet(f, O)
  BY DEF TotalDue
<1> HIDE DEF O, f
<1>5. SumFunctionOnSet(f, O) = SumFunctionOnSet(Total, O)
  BY <1>2, <1>3, SumSame
<1> QED
  BY <1>1, <1>4, <1>5 DEF Cost, O

\* What a reversal of the payments of a statement is to return.
Reverses(sn, s, todo) ==
    /\ todo = {l \in ReversibleLinks(sn, s) :
                 inv[l.invoice].status
                   \notin {"REFUND_REQUESTED", "REFUNDED", "CANCELLED"}}
    /\ \A l \in todo : l.status = "COMPLETED" /\ inv[l.invoice].status = "PAID"

LEMMA ReversePaymentTodo ==
    ASSUME IInv, NEW sn \in ShortNames, NEW s \in Statements,
           ReversePayment(sn, s)
    PROVE  \E t, todo :
             /\ Reverses(sn, s, todo)
             /\ t = Started(NewTxn(sn), active, todo, "PENDING_REFUND",
                            {}, 0, 0, inv, refunds)
             /\ BeginGroup(t)
<1> DEFINE n == NewTxn(sn)
           todo == {l \in ReversibleLinks(sn, s) :
                      inv[l.invoice].status
                        \notin {"REFUND_REQUESTED", "REFUNDED", "CANCELLED"}}
           t == Started(n, active, todo, "PENDING_REFUND", {}, 0, 0, inv,
                        refunds)
<1>1. /\ \A l \in todo : l.status = "COMPLETED" /\ inv[l.invoice].status = "PAID"
      /\ BeginGroup([n EXCEPT !.todo = todo, !.mode = "PENDING_REFUND"])
  BY DEF ReversePayment
<1>2. /\ n \in Txn /\ n.active = active /\ n.todo = {}
      /\ n.mode = "CANCEL" /\ n.due = {} /\ n.need = 0
      /\ n.refill = 0 /\ n.inv = inv /\ n.refunds = refunds
  BY NewTxnFields
<1>3. Reverses(sn, s, todo)
  BY <1>1 DEF Reverses
<1> HIDE DEF n, todo
<1>4. [n EXCEPT !.todo = todo, !.mode = "PENDING_REFUND"] = t
  BY <1>2 DEF Started, Txn
<1> QED
  BY <1>1, <1>3, <1>4 DEF n

NothingDone(L, i) == \A sn \in ShortNames : Done(L, sn, i) = 0

\* The job as an item leaves it.
LEMMA LooksAt ==
    ASSUME IInv, NEW k \in RollupKey, job.cur = NoItem, NEW item,
           \/ job' = Noted(k)
           \/ job' = [Noted(k) EXCEPT !.cur = item]
           \/ job' = IdleJob
    PROVE  /\ job'.todo \subseteq job.todo \ {k}
           /\ job'.phase \in {job.phase, "IDLE"}
           /\ \/ job'.cur = NoItem
              \/ job'.cur = item /\ job' = [Noted(k) EXCEPT !.cur = item]
<1> DEFINE noted == Noted(k)
<1>1. /\ noted \in Job /\ noted.cur = NoItem /\ noted.phase = job.phase
      /\ noted.todo = job.todo \ {k}
  BY NotedType
<1> HIDE DEF noted
<1>2. job' = noted \/ job' = [noted EXCEPT !.cur = item] \/ job' = IdleJob
  BY DEF noted
<1>3. /\ job'.todo \subseteq job.todo \ {k}
      /\ job'.phase \in {job.phase, "IDLE"}
      /\ job'.cur = NoItem \/ job' = [noted EXCEPT !.cur = item]
  BY <1>1, <1>2 DEF IdleJob, Job
<1>4. job' = [noted EXCEPT !.cur = item] => job'.cur = item
  BY <1>1 DEF Job
<1> QED
  BY <1>3, <1>4 DEF noted

PageAt(L, i) ==
    /\ \A sn \in ShortNames : Done(L, sn, i) \in {0, Total[i]}
    /\ \A sn \in ShortNames, tn \in ShortNames :
         Done(L, sn, i) # 0 /\ Done(L, tn, i) # 0 => sn = tn
    /\ \A l \in Open(L, i) :
         /\ Asked(L, Payer(l), i) = Total[i]
         /\ Done(L, Payer(l), i) = 0
         /\ \A m \in On(L, i) :
              /\ m.status = "PENDING" /\ Payer(m) = Payer(l) => Siblings(l, m)
              /\ m.status = "COMPLETED" => m.group < l.group
    /\ \A l \in On(L, i) : l.status = "COMPLETED" /\ Newest(L, l) =>
         /\ Done(L, Payer(l), i) = Total[i]
         /\ HeldOf(Family(L, l), Payer(l)) = Total[i]
    /\ \A r \in On(L, i) : r.status = "PENDING_REFUND" =>
         Newest(L, r) /\ NothingDone(L, i)

BookAt(L, i, row) ==
    /\ row.memo = 0
    /\ Owed(row) => ~InReturn(L, i) /\ NothingDone(L, i)
    /\ row.status = "PAID" =>
         /\ Open(L, i) = {}
         /\ ~InReturn(L, i) => \E sn \in ShortNames : Done(L, sn, i) = Total[i]

\* The page of an invoice is about its links only.
LEMMA PageCopied ==
    ASSUME NEW L, NEW K, NEW i, On(K, i) = On(L, i)
    PROVE  /\ Open(K, i) = Open(L, i)
           /\ InReturn(K, i) <=> InReturn(L, i)
           /\ PageAt(L, i) => PageAt(K, i)
           /\ \A row : BookAt(L, i, row) => BookAt(K, i, row)
<1>1. Open(K, i) = Open(L, i) /\ Closed(K, i) = Closed(L, i)
  <2>1. \A M : /\ Open(M, i) = {l \in On(M, i) : l.status = "PENDING"}
               /\ Closed(M, i) = {l \in On(M, i) : l.status # "PENDING"}
    BY DEF On, Open, Closed
  <2> QED
    BY <2>1
<1>2. InReturn(K, i) <=> InReturn(L, i)
  BY DEF InReturn, On
<1>3. \A sn : Asked(K, sn, i) = Asked(L, sn, i) /\ Done(K, sn, i) = Done(L, sn, i)
  BY <1>1 DEF Asked, Done
<1>4. \A l \in On(L, i) : /\ Newest(K, l) <=> Newest(L, l)
                          /\ Family(K, l) = Family(L, l)
  BY DEF Newest, Family, Siblings, On
<1>5. NothingDone(K, i) <=> NothingDone(L, i)
  BY <1>3 DEF NothingDone
<1>6. PageAt(L, i) => PageAt(K, i)
  BY <1>1, <1>3, <1>4, <1>5 DEF PageAt
<1>7. \A row : BookAt(L, i, row) => BookAt(K, i, row)
  BY <1>1, <1>2, <1>3, <1>5 DEF BookAt
<1> QED
  BY <1>1, <1>2, <1>6, <1>7

\* The links of the item have a new status, and take what they took.
UpdatedTo(K, U, i, status) ==
    /\ K \in SUBSET Cil /\ IsFiniteSet(K) /\ K = {U[l] : l \in cils}
    /\ \A l \in cils :
         /\ U[l].invoice = l.invoice /\ U[l].group = l.group
         /\ Payer(U[l]) = Payer(l)
         /\ \/ U[l] = l /\ (l.id \in job.cur.ids => l.status = "CANCELLED")
            \/ /\ l.id \in job.cur.ids /\ l.status # "CANCELLED"
               /\ U[l].status = status /\ l.invoice = i
    /\ \A j : j # i => On(K, j) = On(cils, j)
    /\ \A sn : HeldOf(On(K, i), sn) = HeldOf(On(cils, i), sn)

LEMMA SameRest ==
    ASSUME NEW a \in Int, NEW b \in Int, NEW r \in Int,
           a + r = b + r \/ r + a = r + b
    PROVE  a = b
OBVIOUS

LEMMA UpdatedTable ==
    ASSUME IInv, LinksInv, job.cur # NoItem, NEW status \in CilStatus,
           NEW receipt \in Nat,
           \/ job.phase = "LINK" /\ status = "COMPLETED"
           \/ job.phase # "LINK" /\ status = "REFUNDED",
           NEW i, \A l \in cils : l.id \in job.cur.ids => l.invoice = i,
           NEW K, K = UpdateLinks(job.cur, status, receipt),
           NEW U, U = [l \in cils |-> Updated(l, status, receipt)]
    PROVE  UpdatedTo(K, U, i, status)
<1>1. K = {U[l] : l \in cils}
  BY ZenonT(40) DEF UpdateLinks, Updated
<1>2. cils \in SUBSET Cil /\ IsFiniteSet(cils)
  BY JobTables DEF LinksInv, Links, Numbered
<1>3. \A l \in cils :
        /\ SameCredit(l, U[l]) /\ U[l].group = l.group
        /\ l.id \in job.cur.ids /\ l.status # "CANCELLED"
             => U[l].status = status
        /\ l.id \notin job.cur.ids \/ l.status = "CANCELLED" => U[l] = l
  BY <1>2, UpdatedFields
<1>4. K \in SUBSET Cil
  BY UpdateLinksType
<1>5. IsFiniteSet(K)
  <2>1. U \in Surjection(cils, K)
    BY <1>1 DEF Surjection
  <2> QED
    BY <1>2, <2>1, FS_Surjection
<1>6. \A l \in cils :
        /\ U[l].invoice = l.invoice /\ U[l].group = l.group
        /\ Payer(U[l]) = Payer(l)
        /\ \/ U[l] = l /\ (l.id \in job.cur.ids => l.status = "CANCELLED")
           \/ /\ l.id \in job.cur.ids /\ l.status # "CANCELLED"
              /\ U[l].status = status /\ l.invoice = i
  BY <1>3 DEF SameCredit, Payer
<1>7. ASSUME NEW j, j # i
      PROVE  On(K, j) = On(cils, j)
  <2>1. \A l \in cils : l.invoice = j => U[l] = l
    BY <1>6, <1>7
  <2>2. \A l \in cils : U[l].invoice = j => U[l] = l
    BY <1>6, <2>1
  <2>3. \A k \in K : k.invoice = j => k \in cils
    BY <1>1, <2>2
  <2>4. \A l \in cils : l.invoice = j => l \in K
    BY <1>1, <2>1
  <2> QED
    BY <2>3, <2>4 DEF On
<1>8. ASSUME NEW sn
      PROVE  HeldOf(On(K, i), sn) = HeldOf(On(cils, i), sn)
  <2>0. HeldOf(K, sn) = HeldOf(cils, sn)
    BY HeldUpdated
  <2> DEFINE R == K \ On(K, i)
             A == On(K, i)
             B == On(cils, i)
             L == cils
  <2>1. R = cils \ B
    <3>1. \A k \in K : k.invoice # i => k \in cils
      BY <1>1, <1>6
    <3>2. \A l \in cils : l.invoice # i => l \in K
      BY <1>1, <1>6
    <3> QED
      BY <3>1, <3>2 DEF On
  <2>2. /\ A \in SUBSET Cil /\ IsFiniteSet(A)
        /\ B \in SUBSET Cil /\ IsFiniteSet(B)
    BY <1>2, <1>4, <1>5, PageType
  <2>3. R \in SUBSET Cil /\ IsFiniteSet(R) /\ A \cap R = {} /\ K = A \cup R
    BY <1>4, <1>5, FS_Difference DEF On
  <2>4. B \cap R = {} /\ L = B \cup R
    BY <2>1 DEF On
  <2> HIDE DEF R, A, B, L
  <2>5. /\ HeldOf(K, sn) = HeldOf(A, sn) + HeldOf(R, sn)
        /\ HeldOf(A, sn) \in Int /\ HeldOf(R, sn) \in Int
    BY <2>2, <2>3, HeldParts
  <2>6. /\ HeldOf(L, sn) = HeldOf(B, sn) + HeldOf(R, sn)
        /\ HeldOf(B, sn) \in Int
    BY <2>2, <2>3, <2>4, HeldParts
  <2>7. HeldOf(L, sn) = HeldOf(K, sn)
    BY <2>0 DEF L
  <2>8. HeldOf(A, sn) = HeldOf(B, sn)
    BY <2>5, <2>6, <2>7, SameRest
  <2> QED
    BY <2>8 DEF A, B
<1> QED
  BY <1>1, <1>4, <1>5, <1>6, <1>7, <1>8 DEF UpdatedTo

LEMMA CreditsFinite == IsFiniteSet(Credits)
<1>1. NumCredits \in Nat
  BY EFTConstants
<1> QED
  BY <1>1, FS_Interval DEF Credits

\* The short names that deposit something.
Payers == {DepositedBy[c] : c \in Credits}

LEMMA PayersType ==
    /\ IsFiniteSet(Payers) /\ Payers \subseteq ShortNames
    /\ \A l \in Cil : Payer(l) \in Payers /\ Payer(l) = DepositedBy[l.credit]
<1>1. IsFiniteSet(Payers)
  <2>1. IsFiniteSet(Credits)
    BY CreditsFinite
  <2>2. DepositedBy \in Surjection(Credits, Payers)
    BY EFTConstants DEF Payers, Surjection
  <2> QED
    BY <2>1, <2>2, FS_Surjection
<1>2. Payers \subseteq ShortNames
  BY EFTConstants DEF Payers
<1>3. \A l \in Cil : Payer(l) \in Payers /\ Payer(l) = DepositedBy[l.credit]
  BY CilFields DEF Payers, Payer
<1> QED
  BY <1>1, <1>2, <1>3

LEMMA LinkSumByPayer ==
    ASSUME NEW L \in SUBSET Cil, IsFiniteSet(L),
           NEW g, \A p \in Payers : g[p] = LinkSum({l \in L : Payer(l) = p})
    PROVE  /\ LinkSum(L) = SumFunctionOnSet(g, Payers)
           /\ \A p \in Payers : g[p] \in Int
<1> DEFINE f == [l \in L |-> l.amount]
           k == [l \in L |-> Payer(l)]
<1>1. /\ \A l \in L : f[l] = l.amount /\ f[l] \in Int /\ k[l] = Payer(l)
      /\ \A l \in L : k[l] \in Payers
  BY CilFields, PayersType
<1>2. LinkSum(L) = SumFunctionOnSet(f, L)
  BY DEF LinkSum
<1> HIDE DEF f, k
<1>3. ASSUME NEW p \in Payers
      PROVE  g[p] = SumFunctionOnSet(f, {l \in L : k[l] = p}) /\ g[p] \in Int
  <2> DEFINE M == {l \in L : Payer(l) = p}
  <2>1. M = {l \in L : k[l] = p} /\ M \in SUBSET L
    BY <1>1
  <2>2. g[p] = LinkSum(M)
    OBVIOUS
  <2> HIDE DEF M
  <2>3. IsFiniteSet(M) /\ \A l \in M : f[l] = l.amount /\ f[l] \in Int
    BY <1>1, <2>1, FS_Subset
  <2>4. LinkSum(M) = SumFunctionOnSet(f, M) /\ SumFunctionOnSet(f, M) \in Int
    BY <2>3, LinkSumSame, SumInt
  <2> QED
    BY <2>1, <2>2, <2>4
<1>4. SumFunctionOnSet(f, L) = SumFunctionOnSet(g, Payers)
  BY <1>1, <1>3, PayersType, SumByKey
<1> QED
  BY <1>2, <1>3, <1>4

LEMMA HeldByPayer ==
    ASSUME NEW L \in SUBSET Cil, IsFiniteSet(L),
           NEW h, \A p \in Payers : h[p] = HeldOf(L, p)
    PROVE  Held(L) = SumFunctionOnSet(h, Payers)
<1> DEFINE Kept == {l \in L : l.status \in {"PENDING", "COMPLETED"}}
           Sent == {l \in L : l.status \in {"PENDING_REFUND", "REFUNDED"}}
           a == [p \in Payers |-> LinkSum({l \in Kept : Payer(l) = p})]
           b == [p \in Payers |-> LinkSum({l \in Sent : Payer(l) = p})]
<1>1. Held(L) = LinkSum(Kept) - LinkSum(Sent)
  BY DEF Held, InStatus
<1>2. ASSUME NEW p \in Payers
      PROVE  a[p] - b[p] = h[p] /\ h[p] \in Int
  <2>1. HeldOf(L, p) = Held({l \in L : DepositedBy[l.credit] = p})
    BY HeldIsHeldOf
  <2>2. {l \in {m \in L : DepositedBy[m.credit] = p} :
           l.status \in {"PENDING", "COMPLETED"}} = {l \in Kept : Payer(l) = p}
    BY DEF Payer
  <2>3. {l \in {m \in L : DepositedBy[m.credit] = p} :
           l.status \in {"PENDING_REFUND", "REFUNDED"}}
          = {l \in Sent : Payer(l) = p}
    BY DEF Payer
  <2>4. HeldOf(L, p) \in Int
    BY HeldType
  <2> QED
    BY <2>1, <2>2, <2>3, <2>4 DEF Held, InStatus
<1>3. Kept \in SUBSET L /\ Sent \in SUBSET L
  OBVIOUS
<1>4. \A p \in Payers : /\ a[p] = LinkSum({l \in Kept : Payer(l) = p})
                        /\ b[p] = LinkSum({l \in Sent : Payer(l) = p})
  OBVIOUS
<1> HIDE DEF Kept, Sent, a, b
<1>5. /\ IsFiniteSet(Kept) /\ IsFiniteSet(Sent)
      /\ Kept \in SUBSET Cil /\ Sent \in SUBSET Cil
  BY <1>3, FS_Subset
<1>6. /\ LinkSum(Kept) = SumFunctionOnSet(a, Payers)
      /\ \A p \in Payers : a[p] \in Int
  BY <1>4, <1>5, LinkSumByPayer
<1>7. /\ LinkSum(Sent) = SumFunctionOnSet(b, Payers)
      /\ \A p \in Payers : b[p] \in Int
  BY <1>4, <1>5, LinkSumByPayer
<1>8. \A p \in Payers : h[p] \in Int /\ b[p] \in Int /\ a[p] = h[p] + b[p]
  BY <1>2, <1>6, <1>7
<1>9. SumFunctionOnSet(a, Payers)
        = SumFunctionOnSet(h, Payers) + SumFunctionOnSet(b, Payers)
  BY <1>8, PayersType, SumPlus
<1>10. SumFunctionOnSet(h, Payers) \in Int /\ SumFunctionOnSet(b, Payers) \in Int
  BY <1>8, PayersType, SumInt
<1> QED
  BY <1>1, <1>6, <1>7, <1>9, <1>10

\* What is held of one short name only, is all that is held.
LEMMA HeldOfOne ==
    ASSUME NEW L \in SUBSET Cil, IsFiniteSet(L), NEW sn,
           \A p \in Payers : p # sn => HeldOf(L, p) = 0
    PROVE  Held(L) = HeldOf(L, sn)
<1> DEFINE h == [p \in Payers |-> HeldOf(L, p)]
<1>1. \A p \in Payers : h[p] = HeldOf(L, p) /\ h[p] \in Int
  BY HeldType
<1> HIDE DEF h
<1>2. Held(L) = SumFunctionOnSet(h, Payers)
  BY <1>1, HeldByPayer
<1>3. CASE sn \in Payers
  <2>1. SumFunctionOnSet(h, Payers)
          = h[sn] + SumFunctionOnSet(h, Payers \ {sn})
    BY <1>1, <1>3, PayersType, SumOut
  <2>2. SumFunctionOnSet(h, Payers \ {sn}) = 0
    <3>1. IsFiniteSet(Payers \ {sn})
      BY PayersType, FS_Difference
    <3> QED
      BY <1>1, <3>1, SumZero
  <2> QED
    BY <1>1, <1>2, <1>3, <2>1, <2>2
<1>4. CASE sn \notin Payers
  <2>1. SumFunctionOnSet(h, Payers) = 0
    BY <1>1, <1>4, PayersType, SumZero
  <2>2. \A l \in L : Weight(l, sn) = 0
    BY <1>4, PayersType DEF Weight
  <2> QED
    BY <1>2, <2>1, <2>2, HeldNone
<1> QED
  BY <1>3, <1>4

-----------------------------------------------------------------------------
(* The credits of refunded invoices.  Requests and jobs may overlap here,  *)
(* and invoices may be refunded in part; but all deposits come from one    *)
(* short name.                                                             *)

\* A link that pays for its invoice now: the latest group decides.
InForce(L, l) == Newest(L, l) /\ l.status \in {"PENDING", "COMPLETED"}

\* All others, but for those that a request is about to undo.
Settled(L, todo, i) ==
    {l \in L : l.invoice = i /\ ~InForce(L, l) /\ l \notin todo}

\* They hold nothing: what they took they have given back.
Nets(L, todo, rows) ==
    \A i \in Invoices : rows[i].memo = 0 =>
        \A sn \in ShortNames : HeldOf(Settled(L, todo, i), sn) = 0

\* What waits for the job is the latest of its invoice.
Waits(L, todo) ==
    \A l \in L : /\ l.status = "PENDING" => Newest(L, l) \/ l \in todo
                 /\ l.status = "PENDING_REFUND" => Newest(L, l)

\* What the row of an invoice says of its links.
RowSays(L, todo, row, i) ==
    /\ row.memo > 0 => row.requested
    /\ Gone(row) => /\ row.memo = 0
                    /\ \A l \in On(L, i) : InForce(L, l) => l \in todo
    /\ row.status = "NOT_CREATED" => On(L, i) = {}
    /\ Owed(row) => \A l \in On(L, i) :
         Newest(L, l) => l.status \notin {"COMPLETED", "PENDING_REFUND"}

Released(L, todo, rows) ==
    /\ Waits(L, todo) /\ Nets(L, todo, rows)
    /\ \A i \in Invoices : RowSays(L, todo, rows[i], i)

\* An invoice without a payment that could be returned, and not owed either.
Quiet(L, row, i) ==
    /\ ~Owed(row)
    /\ \A l \in On(L, i) : Newest(L, l) => l.status # "COMPLETED"

\* A request undoes all that is in force for an invoice.
WholeWork(t) ==
    \A l \in t.todo :
        /\ \A m \in On(t.cils, l.invoice) : InForce(t.cils, m) => m \in t.todo
        /\ Returning(t) => ~Owed(t.inv[l.invoice])
        /\ t.mode = "REFUNDED" => t.inv[l.invoice].memo # 0
        /\ t.mode # "CANCEL" => \A m \in On(t.cils, l.invoice) :
             m.status = "PENDING_REFUND" => m.group = t.group

\* A quiet invoice stays so.
LeavesQuiet(t) ==
    \A i \in Invoices :
        /\ Gone(inv[i]) => t.inv[i].status = inv[i].status
        /\ Quiet(cils, inv[i], i) =>
             /\ Quiet(t.cils, t.inv[i], i)
             /\ \A l \in On(t.cils, i) : l.status = "PENDING_REFUND" => l \in cils
             /\ Returning(t) => On(t.todo, i) = {}

\* What is paid is owed, and what was asked for it before is cancelled first.
PaysOwed(t) ==
    /\ \A i \in Invoices :
         i \in t.due \/ i = t.cur => t.inv[i].status \in {"APPROVED", "OVERDUE"}
    /\ \A l \in t.cils :
         l.status = "PENDING" /\ l.invoice = t.cur /\ Payer(l) = t.sn
           => l \in t.todo \/ l.group = t.group

TxnRelease(t) ==
    /\ Released(t.cils, t.todo, t.inv)
    /\ WholeWork(t) /\ LeavesQuiet(t) /\ PaysOwed(t)

\* What the job takes an invoice for, it is still.
ListRelease ==
    /\ job.phase = "UNLINKED" => \A k \in job.todo : Gone(inv[k.invoice])
    /\ job.phase = "REVERSE" => \A k \in job.todo : k.status = "CANCELLED" =>
         /\ k.receipt = NoReceipt
         /\ \/ inv[k.invoice].status = "REFUND_REQUESTED"
            \/ Gone(inv[k.invoice]) /\ ~InReturn(cils, k.invoice)

AllReturns(i) ==
    \A l \in On(cils, i) : l.status = "PENDING_REFUND" => l.id \in job.cur.ids
LastKey(i) == \A k \in job.todo : k.invoice = i => k.status # "CANCELLED"

ReverseRelease(i) ==
    /\ job.phase = "UNLINKED" => job.cur.refunding
    /\ job.cur.refunding => Gone(inv[i])
    /\ ~job.cur.refunding => Quiet(cils, inv[i], i) /\ AllReturns(i) /\ LastKey(i)
    /\ job.phase = "REVERSE" => AllReturns(i) \/ LastKey(i)

ItemOn(L) ==
    job.cur # NoItem =>
        \A l \in L : l.id \in job.cur.ids => l.invoice = job.cur.key.invoice

ReleaseInv ==
    /\ Released(cils, {}, inv)
    /\ txn # NoTxn => TxnRelease(txn) /\ ItemOn(txn.cils)
    /\ ListRelease /\ ItemOn(cils)
    /\ job.phase \in {"REVERSE", "UNLINKED"} /\ job.cur # NoItem
         => ReverseRelease(job.cur.key.invoice)

\* A link is replaced by one of a later group, or the same.
LEMMA ReplacedNewest ==
    ASSUME NEW L \in SUBSET Cil, NEW l \in L, NEW r \in Cil,
           r.invoice = l.invoice, l.group <= r.group,
           NEW K, K = (L \ {l}) \cup {r}, NEW m \in L, m # l
    PROVE  /\ Newest(K, m) => Newest(L, m)
           /\ (m.invoice # l.invoice \/ r.group <= m.group) /\ Newest(L, m)
                => Newest(K, m)
<1>1. \A k \in L : k.group \in Nat
  BY CilFields
<1>2. r.group \in Nat
  BY CilFields
<1>3. ASSUME Newest(K, m) PROVE Newest(L, m)
  <2>1. ASSUME NEW k \in L, k.invoice = m.invoice PROVE k.group <= m.group
    <3>1. CASE k = l
      BY <1>1, <1>2, <1>3, <2>1, <3>1 DEF Newest
    <3>2. CASE k # l
      BY <1>3, <2>1, <3>2 DEF Newest
    <3> QED
      BY <3>1, <3>2
  <2> QED
    BY <2>1 DEF Newest
<1>4. ASSUME m.invoice # l.invoice \/ r.group <= m.group, Newest(L, m)
      PROVE  Newest(K, m)
  BY <1>4 DEF Newest
<1> QED
  BY <1>3, <1>4

\* What is the latest once link r is added to L.
NewestAfter(L, r, K) ==
    /\ \A m \in L : Newest(K, m) => Newest(L, m)
    /\ \A m \in L : (m.invoice # r.invoice \/ r.group <= m.group)
                      /\ Newest(L, m) => Newest(K, m)
    /\ \A m \in L : m.invoice = r.invoice /\ Newest(K, m) => r.group <= m.group
    /\ (\A m \in On(L, r.invoice) : m.group <= r.group) => Newest(K, r)

LEMMA AddedNewest ==
    ASSUME NEW L \in SUBSET Cil, NEW r \in Cil, NEW K, K = L \cup {r}
    PROVE  NewestAfter(L, r, K)
<1>1. r.group \in Nat /\ r.group <= r.group
  BY CilFields
<1>2. \A m \in L : Newest(K, m) => Newest(L, m)
  BY DEF Newest
<1>3. \A m \in L : (m.invoice # r.invoice \/ r.group <= m.group)
                     /\ Newest(L, m) => Newest(K, m)
  BY DEF Newest
<1>4. \A m \in L : m.invoice = r.invoice /\ Newest(K, m) => r.group <= m.group
  BY DEF Newest
<1>5. (\A m \in On(L, r.invoice) : m.group <= r.group) => Newest(K, r)
  BY <1>1 DEF Newest, On
<1> QED
  BY <1>2, <1>3, <1>4, <1>5 DEF NewestAfter

LEMMA SettledType ==
    ASSUME NEW L \in SUBSET Cil, IsFiniteSet(L), NEW todo, NEW i
    PROVE  Settled(L, todo, i) \in SUBSET Cil /\ IsFiniteSet(Settled(L, todo, i))
<1>1. Settled(L, todo, i) \subseteq L
  BY DEF Settled
<1> QED
  BY <1>1, FS_Subset

\* Of the links that are to be undone, one is cancelled.
LEMMA CancelledNets ==
    ASSUME NEW L \in SUBSET Cil, IsFiniteSet(L), NEW todo \in SUBSET L,
           NEW l \in todo, NEW r \in Cil, r.invoice = l.invoice,
           l.group <= r.group, r.status = "CANCELLED",
           NEW K, K = (L \ {l}) \cup {r}, NEW rest, rest = todo \ {l},
           \A m \in On(L, l.invoice) : InForce(L, m) => m \in todo,
           NEW i, NEW sn
    PROVE  HeldOf(Settled(K, rest, i), sn) = HeldOf(Settled(L, todo, i), sn)
<1>1. K \in SUBSET Cil /\ IsFiniteSet(K)
  <2>1. IsFiniteSet(L \ {l})
    BY FS_Difference
  <2> QED
    BY <2>1, FS_AddElement
<1> DEFINE A == Settled(K, rest, i)
           B == Settled(L, todo, i)
<1>2. /\ A \in SUBSET Cil /\ IsFiniteSet(A)
      /\ B \in SUBSET Cil /\ IsFiniteSet(B)
  BY <1>1, SettledType
<1>3. Weight(r, sn) = 0
  BY DEF Weight, IsReturn
<1>4. \A m \in L : m # l => (Newest(K, m) => Newest(L, m))
  BY ReplacedNewest
<1>5. \A m \in L : m # l /\ m.invoice # l.invoice /\ Newest(L, m) => Newest(K, m)
  BY ReplacedNewest
<1>6. ASSUME NEW m \in A, m \notin B PROVE Weight(m, sn) = 0
  <2>1. m \in K /\ m.invoice = i /\ ~InForce(K, m) /\ m \notin rest
    BY <1>6 DEF Settled
  <2>2. CASE m = r
    BY <1>3, <2>2
  <2>3. CASE m # r
    <3>1. m \in L /\ m # l /\ m \notin todo
      BY <2>1, <2>3
    <3>2. InForce(L, m)
      BY <1>6, <2>1, <3>1 DEF Settled
    <3>3. m.invoice # l.invoice
      BY <3>1, <3>2 DEF On
    <3> QED
      BY <1>5, <2>1, <3>1, <3>2, <3>3 DEF InForce
  <2> QED
    BY <2>2, <2>3
<1>7. ASSUME NEW m \in B, m \notin A PROVE Weight(m, sn) = 0
  <2>1. m \in L /\ m.invoice = i /\ ~InForce(L, m) /\ m \notin todo
    BY <1>7 DEF Settled
  <2>2. m \in K /\ m # l /\ m \notin rest
    BY <2>1
  <2>3. InForce(K, m)
    BY <1>7, <2>1, <2>2 DEF Settled
  <2> QED
    BY <1>4, <2>1, <2>2, <2>3 DEF InForce
<1> HIDE DEF A, B
<1>8. HeldOf(A, sn) = HeldOf(B, sn)
  BY <1>2, <1>6, <1>7, HeldAgree
<1> QED
  BY <1>8 DEF A, B

LEMMA CancelledReleased ==
    ASSUME NEW L \in SUBSET Cil, IsFiniteSet(L), NEW todo \in SUBSET L,
           NEW l \in todo, NEW r \in Cil, r.invoice = l.invoice,
           l.group <= r.group, r.status = "CANCELLED",
           NEW K, K = (L \ {l}) \cup {r}, NEW rest, rest = todo \ {l},
           NEW rows, Released(L, todo, rows),
           \A m \in On(L, l.invoice) : InForce(L, m) => m \in todo,
           \A m \in On(L, l.invoice) :
             m.status = "PENDING_REFUND" => r.group <= m.group
    PROVE  Released(K, rest, rows)
<1>1. \A m \in L : m # l => (Newest(K, m) => Newest(L, m))
  BY ReplacedNewest
<1>2. \A m \in L : m # l /\ Newest(L, m)
                     /\ (m.invoice # l.invoice \/ r.group <= m.group)
                     => Newest(K, m)
  BY ReplacedNewest
<1>3. Waits(K, rest)
  <2>1. ASSUME NEW m \in K, m.status = "PENDING" PROVE Newest(K, m) \/ m \in rest
    <3>1. m \in L /\ m # l
      BY <2>1
    <3>2. Newest(L, m) \/ m \in todo
      BY <2>1, <3>1 DEF Released, Waits
    <3>3. CASE m \notin todo
      <4>1. InForce(L, m)
        BY <2>1, <3>2, <3>3 DEF InForce
      <4>2. m.invoice # l.invoice
        BY <3>1, <3>3, <4>1 DEF On
      <4> QED
        BY <1>2, <3>1, <3>2, <3>3, <4>2
    <3> QED
      BY <3>1, <3>3
  <2>2. ASSUME NEW m \in K, m.status = "PENDING_REFUND" PROVE Newest(K, m)
    <3>1. m \in L /\ m # l
      <4>1. m # r
        BY <2>2
      <4> QED
        BY <4>1, <2>2
    <3>2. Newest(L, m)
      BY <2>2, <3>1 DEF Released, Waits
    <3> QED
      BY <1>2, <2>2, <3>1, <3>2 DEF On
  <2> QED
    BY <2>1, <2>2 DEF Waits
<1>4. Nets(K, rest, rows)
  BY CancelledNets DEF Released, Nets
<1>5. ASSUME NEW i \in Invoices PROVE RowSays(K, rest, rows[i], i)
  <2>1. RowSays(L, todo, rows[i], i)
    BY DEF Released
  <2>2. ASSUME NEW m \in On(K, i) PROVE m = r \/ (m \in On(L, i) /\ m # l)
    BY DEF On
  <2>3. ASSUME NEW m \in On(K, i), InForce(K, m),
               \A k \in On(L, i) : InForce(L, k) => k \in todo
        PROVE  m \in rest
    <3>1. m # r
      BY <2>3 DEF InForce
    <3>2. m \in On(L, i) /\ m # l /\ m \in L
      BY <2>2, <3>1 DEF On
    <3> QED
      BY <1>1, <2>3, <3>2 DEF InForce
  <2>4. On(L, i) = {} => On(K, i) = {}
    BY DEF On
  <2>5. ASSUME NEW m \in On(K, i), Newest(K, m), m.status \in {"COMPLETED", "PENDING_REFUND"}
        PROVE  m \in On(L, i) /\ Newest(L, m)
    <3>1. m # r
      BY <2>5
    <3>2. m \in On(L, i) /\ m # l /\ m \in L
      BY <2>2, <3>1 DEF On
    <3> QED
      BY <1>1, <2>5, <3>2
  <2> QED
    BY <2>1, <2>3, <2>4, <2>5 DEF RowSays
<1> QED
  BY <1>3, <1>4, <1>5 DEF Released

\* Of the links that are to be undone, one is returned.
LEMMA ReturnedNets ==
    ASSUME NEW L \in SUBSET Cil, IsFiniteSet(L), NEW todo \in SUBSET L,
           NEW l \in todo, NEW r \in Cil, r \notin L, r.invoice = l.invoice,
           l.group < r.group, l.status = "COMPLETED", IsReturn(r),
           NEW K, K = L \cup {r}, NEW rest, rest = todo \ {l},
           \A m \in On(L, l.invoice) : InForce(L, m) => m \in todo,
           NEW i, i = l.invoice => r.amount = l.amount /\ Payer(r) = Payer(l),
           NEW sn
    PROVE  HeldOf(Settled(K, rest, i), sn) = HeldOf(Settled(L, todo, i), sn)
<1>1. /\ \A m \in L : Newest(K, m) => Newest(L, m)
      /\ \A m \in L : (m.invoice # r.invoice \/ r.group <= m.group)
                         /\ Newest(L, m) => Newest(K, m)
      /\ \A m \in L : m.invoice = r.invoice /\ Newest(K, m)
                         => r.group <= m.group
  <2>1. NewestAfter(L, r, K)
    BY AddedNewest
  <2> QED
    BY <2>1 DEF NewestAfter
<1>2. ~InForce(K, r) /\ ~InForce(K, l)
  <2>1. l.group \in Nat /\ r.group \in Nat
    BY CilFields
  <2> QED
    BY <1>1, <2>1 DEF InForce, IsReturn
<1>3. \A m \in L : m \notin todo => (InForce(K, m) <=> InForce(L, m))
  <2>1. \A m \in L : InForce(K, m) => InForce(L, m)
    BY <1>1 DEF InForce
  <2>2. \A m \in L : m \notin todo /\ InForce(L, m) => m.invoice # r.invoice
    BY DEF On
  <2> QED
    BY <1>1, <2>1, <2>2 DEF InForce
<1> DEFINE A == Settled(K, rest, i)
           B == Settled(L, todo, i)
<1>4. B \in SUBSET Cil /\ IsFiniteSet(B)
  BY SettledType
<1>5. CASE i # l.invoice
  <2>1. A = B
    <3>1. \A m \in L : m.invoice = i => (m \in rest <=> m \in todo)
      BY <1>5
    <3>2. \A m \in L : m.invoice = i => (InForce(K, m) <=> InForce(L, m))
      BY <1>1, <1>5 DEF InForce
    <3> QED
      BY <1>5, <3>1, <3>2 DEF Settled
  <2> QED
    BY <2>1
<1>6. CASE i = l.invoice
  <2>1. A = (B \cup {l}) \cup {r}
    <3>1. ASSUME NEW m \in A PROVE m \in (B \cup {l}) \cup {r}
      <4>1. m \in K /\ m.invoice = i /\ ~InForce(K, m) /\ m \notin rest
        BY DEF Settled
      <4>2. m \in L /\ m # l => m \in B
        BY <1>3, <4>1 DEF Settled
      <4> QED
        BY <4>1, <4>2
    <3>2. ASSUME NEW m \in (B \cup {l}) \cup {r} PROVE m \in A
      <4>1. CASE m \in B
        BY <1>3, <4>1 DEF Settled
      <4>2. CASE m = l
        BY <1>2, <1>6, <4>2 DEF Settled
      <4>3. CASE m = r
        BY <1>2, <1>6, <4>3 DEF Settled
      <4> QED
        BY <4>1, <4>2, <4>3
    <3> QED
      BY <3>1, <3>2
  <2>2. l \notin B /\ r \notin B \cup {l}
    BY DEF Settled
  <2>3. B \cup {l} \in SUBSET Cil /\ IsFiniteSet(B \cup {l})
    BY <1>4, FS_AddElement
  <2>4. Weight(l, sn) + Weight(r, sn) = 0
    <3>1. l.amount \in Nat
      BY CilFields
    <3> QED
      BY <1>6, <3>1 DEF Weight, IsReturn
  <2>5. HeldOf(B, sn) \in Int /\ Weight(l, sn) \in Int /\ Weight(r, sn) \in Int
    BY <1>4, HeldType, WeightType
  <2> HIDE DEF A, B
  <2>6. HeldOf(B \cup {l}, sn) = HeldOf(B, sn) + Weight(l, sn)
    BY <1>4, <2>2, HeldAdd
  <2>7. HeldOf((B \cup {l}) \cup {r}, sn) = HeldOf(B \cup {l}, sn) + Weight(r, sn)
    BY <2>2, <2>3, HeldAdd
  <2>8. HeldOf(A, sn) = HeldOf(B, sn)
    BY <2>1, <2>4, <2>5, <2>6, <2>7
  <2> QED
    BY <2>8 DEF A, B
<1> QED
  BY <1>5, <1>6

LEMMA ReturnedReleased ==
    ASSUME NEW L \in SUBSET Cil, IsFiniteSet(L), NEW todo \in SUBSET L,
           NEW l \in todo, NEW r \in Cil, r \notin L, r.invoice = l.invoice,
           l.group < r.group, \A m \in todo : m.status = "COMPLETED", IsReturn(r),
           NEW K, K = L \cup {r}, NEW rest, rest = todo \ {l},
           NEW rows, Released(L, todo, rows),
           \A m \in On(L, l.invoice) : InForce(L, m) => m \in todo,
           \A m \in On(L, l.invoice) : m.group <= r.group,
           \A m \in On(L, l.invoice) :
             m.status = "PENDING_REFUND" => m.group = r.group,
           rows[l.invoice].memo = 0
             => r.amount = l.amount /\ Payer(r) = Payer(l),
           ~Owed(rows[l.invoice])
    PROVE  Released(K, rest, rows)
<1>1. /\ \A m \in L : Newest(K, m) => Newest(L, m)
      /\ \A m \in L : (m.invoice # r.invoice \/ r.group <= m.group)
                         /\ Newest(L, m) => Newest(K, m)
      /\ \A m \in L : m.invoice = r.invoice /\ Newest(K, m)
                         => r.group <= m.group
      /\ Newest(K, r)
  <2>1. NewestAfter(L, r, K)
    BY AddedNewest
  <2> QED
    BY <2>1 DEF NewestAfter
<1>2. l.group \in Nat /\ r.group \in Nat /\ l.status = "COMPLETED"
  BY CilFields
<1>3. Waits(K, rest)
  <2>1. ASSUME NEW m \in K, m.status = "PENDING" PROVE Newest(K, m)
    <3>1. m \in L
      BY <2>1 DEF IsReturn
    <3>2. m \notin todo
      BY <2>1
    <3>3. InForce(L, m)
      BY <2>1, <3>1, <3>2 DEF Released, Waits, InForce
    <3>4. m.invoice # r.invoice
      BY <3>1, <3>2, <3>3 DEF On
    <3> QED
      BY <1>1, <3>1, <3>3, <3>4 DEF InForce
  <2>2. ASSUME NEW m \in K, m.status = "PENDING_REFUND" PROVE Newest(K, m)
    <3>1. CASE m \in L
      <4>1. Newest(L, m)
        BY <2>2, <3>1 DEF Released, Waits
      <4>2. m.invoice = r.invoice => r.group <= m.group
        BY <1>2, <2>2, <3>1 DEF On
      <4> QED
        BY <1>1, <3>1, <4>1, <4>2
    <3> QED
      BY <1>1, <3>1
  <2> QED
    BY <2>1, <2>2 DEF Waits
<1>4. Nets(K, rest, rows)
  <2>1. ASSUME NEW i \in Invoices, rows[i].memo = 0, NEW sn \in ShortNames
        PROVE  HeldOf(Settled(K, rest, i), sn) = 0
    <3>1. i = l.invoice => r.amount = l.amount /\ Payer(r) = Payer(l)
      BY <2>1
    <3>2. HeldOf(Settled(K, rest, i), sn) = HeldOf(Settled(L, todo, i), sn)
      BY <1>2, <3>1, ReturnedNets
    <3> QED
      BY <2>1, <3>2 DEF Released, Nets
  <2> QED
    BY <2>1 DEF Nets
<1>5. ASSUME NEW i \in Invoices PROVE RowSays(K, rest, rows[i], i)
  <2>1. RowSays(L, todo, rows[i], i)
    BY DEF Released
  <2>2. ASSUME NEW m \in On(K, i), InForce(K, m),
               \A k \in On(L, i) : InForce(L, k) => k \in todo
        PROVE  m \in rest
    <3>1. m \in L /\ m # l
      BY <1>1, <1>2, <2>2 DEF On, InForce, IsReturn
    <3> QED
      BY <1>1, <2>2, <3>1 DEF InForce, On
  <2>3. i # l.invoice => On(K, i) = On(L, i)
    BY DEF On
  <2>4. i = l.invoice => rows[i].status # "NOT_CREATED" /\ ~Owed(rows[i])
    BY DEF Owed
  <2>5. ASSUME i # l.invoice, NEW m \in On(K, i), Newest(K, m)
        PROVE  m \in On(L, i) /\ Newest(L, m)
    BY <1>1, <2>3, <2>5 DEF On
  <2> QED
    BY <2>1, <2>2, <2>3, <2>4, <2>5 DEF RowSays
<1> QED
  BY <1>3, <1>4, <1>5 DEF Released

\* A link is made for an invoice that is owed.
LEMMA PaidReleased ==
    ASSUME NEW L \in SUBSET Cil, NEW r \in Cil, r.status = "PENDING",
           \A m \in On(L, r.invoice) : m.group <= r.group,
           \A m \in On(L, r.invoice) : m.status = "PENDING" => m.group = r.group,
           NEW K, K = L \cup {r}, NEW rows, Released(L, {}, rows),
           rows[r.invoice].status \in {"APPROVED", "OVERDUE"}
    PROVE  Released(K, {}, rows)
<1>1. /\ \A m \in L : Newest(K, m) => Newest(L, m)
      /\ \A m \in L : (m.invoice # r.invoice \/ r.group <= m.group)
                         /\ Newest(L, m) => Newest(K, m)
      /\ Newest(K, r)
  <2>1. NewestAfter(L, r, K)
    BY AddedNewest
  <2> QED
    BY <2>1 DEF NewestAfter
<1>2. r.group \in Nat /\ r.invoice \in Invoices
  BY CilFields
<1>3. \A m \in On(L, r.invoice) :
        Newest(L, m) => m.status \notin {"COMPLETED", "PENDING_REFUND"}
  BY <1>2 DEF Released, RowSays, Owed
<1>4. Waits(K, {})
  <2>1. ASSUME NEW m \in K, m.status \in {"PENDING", "PENDING_REFUND"}
        PROVE  Newest(K, m)
    <3>1. CASE m \in L
      <4>1. Newest(L, m)
        BY <2>1, <3>1 DEF Released, Waits
      <4>2. m.invoice = r.invoice => r.group <= m.group
        BY <1>2, <1>3, <2>1, <3>1, <4>1 DEF On
      <4> QED
        BY <1>1, <3>1, <4>1, <4>2
    <3> QED
      BY <1>1, <3>1
  <2> QED
    BY <2>1 DEF Waits
<1>5. ASSUME NEW i PROVE Settled(K, {}, i) = Settled(L, {}, i)
  <2>1. InForce(K, r)
    BY <1>1 DEF InForce
  <2>2. \A m \in L : InForce(K, m) => InForce(L, m)
    BY <1>1 DEF InForce
  <2>3. ASSUME NEW m \in L, InForce(L, m) PROVE InForce(K, m)
    <3>1. m.invoice = r.invoice => m.status = "PENDING"
      BY <1>3, <2>3 DEF InForce, On
    <3>2. m.invoice = r.invoice => r.group <= m.group
      BY <1>2, <3>1 DEF On
    <3> QED
      BY <1>1, <2>3, <3>2 DEF InForce
  <2> QED
    BY <2>1, <2>2, <2>3 DEF Settled
<1>6. Nets(K, {}, rows)
  BY <1>5 DEF Released, Nets
<1>7. ASSUME NEW i \in Invoices PROVE RowSays(K, {}, rows[i], i)
  <2>1. RowSays(L, {}, rows[i], i)
    BY DEF Released
  <2>2. i # r.invoice => On(K, i) = On(L, i)
    BY DEF On
  <2>3. i = r.invoice => ~Gone(rows[i]) /\ rows[i].status # "NOT_CREATED"
    BY DEF Gone
  <2>4. ASSUME NEW m \in On(K, i), Newest(K, m), m # r
        PROVE  m \in On(L, i) /\ Newest(L, m)
    BY <1>1, <2>4 DEF On
  <2>5. \A m \in On(K, i) : i # r.invoice /\ InForce(K, m) => InForce(L, m)
    BY <2>2, <1>1 DEF On, InForce
  <2> QED
    BY <2>1, <2>2, <2>3, <2>4, <2>5 DEF RowSays
<1> QED
  BY <1>4, <1>6, <1>7 DEF Released

\* Links in force are to be undone.
LEMMA TodoReleased ==
    ASSUME NEW L \in SUBSET Cil, NEW todo \in SUBSET L, NEW rows,
           Released(L, {}, rows), \A l \in todo : InForce(L, l)
    PROVE  Released(L, todo, rows)
<1>1. \A i : Settled(L, todo, i) = Settled(L, {}, i)
  BY DEF Settled
<1>2. Nets(L, todo, rows)
  BY <1>1 DEF Released, Nets
<1>3. Waits(L, todo)
  BY DEF Released, Waits
<1>4. \A i \in Invoices : RowSays(L, todo, rows[i], i)
  BY DEF Released, RowSays
<1> QED
  BY <1>2, <1>3, <1>4 DEF Released

-----------------------------------------------------------------------------
(* The steps of a request.                                                 *)

OneName == \A c, d \in Credits : DepositedBy[c] = DepositedBy[d]

LEMMA OneNamePays ==
    ASSUME OneName, NEW l \in Cil, NEW m \in Cil
    PROVE  Payer(l) = Payer(m)
  BY CilFields DEF OneName, Payer

\* A step that leads to a good request, or to none.
LEMMA StepRelease ==
    ASSUME ReleaseInv, UNCHANGED <<cils, inv, job>>,
           NEW t, t = NoTxn \/ (TxnRelease(t) /\ ItemOn(t.cils)), txn' = t
    PROVE  ReleaseInv'
<1>1. Released(cils, {}, inv)' /\ ListRelease' /\ ItemOn(cils)'
  BY DEF ReleaseInv, ListRelease, InReturn, ItemOn
<1>2. /\ job.phase \in {"REVERSE", "UNLINKED"}
      /\ job.cur # NoItem
      => ReverseRelease(job.cur.key.invoice)'
  BY DEF ReleaseInv, ReverseRelease, AllReturns, LastKey
<1>3. t # NoTxn => TxnRelease(txn)' /\ ItemOn(txn.cils)'
  BY DEF TxnRelease, LeavesQuiet, ItemOn
<1> QED
  BY <1>1, <1>2, <1>3 DEF ReleaseInv

\* What is known of the request, and of the links of its working copy.
LEMMA ReleaseSets ==
    ASSUME IInv, LinksInv, ReleaseInv, txn.open
    PROVE  /\ TxnRelease(txn) /\ ItemOn(txn.cils)
           /\ \A l \in txn.cils : l.group \in Nat /\ l.group <= txn.group
           /\ txn.group \in Nat /\ Todo(txn)
           /\ \A l \in txn.cils : l.id # txn.lastCil + 1
           /\ job.cur # NoItem => txn.lastCil + 1 \notin job.cur.ids
<1>1. /\ txn \in Txn /\ txn # NoTxn /\ TxnLinks(txn) /\ txn.cils \in SUBSET Cil
  BY TxnSets
<1>2. TxnRelease(txn) /\ ItemOn(txn.cils)
  BY <1>1 DEF ReleaseInv
<1>3. txn.group \in Nat /\ txn.lastCil \in Nat
  BY <1>1, TxnFields
<1>4. \A l \in txn.cils : l.group \in Nat /\ l.id \in Nat
  BY <1>1, CilFields
<1>5. \A l \in txn.cils : l.group <= txn.group
  <2>1. lastGroup <= txn.group /\ \A l \in txn.cils : l.group <= lastGroup
    BY <1>1 DEF TxnLinks, Grouped
  <2>2. lastGroup \in Nat
    BY DEF IInv, TypeOK
  <2> QED
    BY <1>3, <1>4, <2>1, <2>2
<1>6. \A l \in txn.cils : l.id # txn.lastCil + 1
  <2>1. \A l \in txn.cils : l.id <= txn.lastCil
    BY <1>1 DEF TxnLinks, Links, Numbered
  <2> QED
    BY <1>3, <1>4, <2>1
<1>7. ASSUME job.cur # NoItem PROVE txn.lastCil + 1 \notin job.cur.ids
  <2>1. \A n \in job.cur.ids : n <= txn.lastCil
    BY <1>1, <1>7 DEF LinksInv, JobLinks
  <2> QED
    BY <1>3, <2>1
<1> QED
  BY <1>1, <1>2, <1>3, <1>4, <1>5, <1>6, <1>7 DEF TxnLinks

LEMMA UndoneRelease ==
    ASSUME IInv, LinksInv, ReleaseInv, txn.open, ~Returning(txn),
           NEW l \in txn.todo, NEW r \in Cil, UndoneAs(l, r),
           NEW u, SameWork(txn, u), u.todo = txn.todo \ {l},
           u.cils = (txn.cils \ {l}) \cup {r}, u.inv = txn.inv
    PROVE  TxnRelease(u) /\ ItemOn(u.cils)
<1>1. /\ txn.cils \in SUBSET Cil /\ IsFiniteSet(txn.cils)
      /\ txn.todo \in SUBSET txn.cils /\ l \in txn.cils /\ l \in Cil
  BY TxnSets
<1>2. /\ TxnRelease(txn) /\ ItemOn(txn.cils) /\ Todo(txn)
      /\ \A m \in txn.cils : m.group \in Nat
      /\ txn.group \in Nat
  BY ReleaseSets
<1>3. /\ r.invoice = l.invoice /\ r.status = "CANCELLED" /\ r.id = l.id
      /\ r.group = IF txn.mode = "REGROUP" THEN txn.group ELSE l.group
  BY DEF UndoneAs, Undone, SameReceipt, SameCredit
<1>4. l.group <= r.group
  BY <1>1, <1>2, <1>3 DEF Todo
<1>5. /\ u.sn = txn.sn /\ u.group = txn.group /\ u.mode = txn.mode
      /\ u.due = txn.due /\ u.cur = txn.cur
  BY DEF SameWork
<1>6. Released(u.cils, u.todo, u.inv)
  <2>1. \A m \in On(txn.cils, l.invoice) : InForce(txn.cils, m) => m \in txn.todo
    BY <1>2 DEF TxnRelease, WholeWork
  <2>2. \A m \in On(txn.cils, l.invoice) :
          m.status = "PENDING_REFUND" => r.group <= m.group
    <3>1. CASE txn.mode = "CANCEL"
      BY <1>1, <1>2, <1>3, <3>1 DEF TxnRelease, Released, Waits, Newest, On
    <3>2. CASE txn.mode # "CANCEL"
      <4>1. txn.mode = "REGROUP"
        BY <3>2, TxnSets DEF ReturnMode, Returning
      <4> QED
        BY <1>2, <1>3, <3>2, <4>1 DEF TxnRelease, WholeWork
    <3> QED
      BY <3>1, <3>2
  <2>3. Released(txn.cils, txn.todo, txn.inv)
    BY <1>2 DEF TxnRelease
  <2>4. Released(u.cils, u.todo, txn.inv)
    BY <1>1, <1>3, <1>4, <2>1, <2>2, <2>3, CancelledReleased
  <2> QED
    BY <2>4
<1>7. \A m \in txn.cils : m # l => (Newest(u.cils, m) => Newest(txn.cils, m))
  BY <1>1, <1>3, <1>4, ReplacedNewest
<1>8. \A m \in u.cils : m # r => m \in txn.cils /\ m # l
  OBVIOUS
<1>9. WholeWork(u)
  <2>1. SUFFICES ASSUME NEW k \in u.todo
                 PROVE /\ \A m \in On(u.cils, k.invoice) :
                            InForce(u.cils, m) => m \in u.todo
                       /\ u.mode # "CANCEL" => \A m \in On(u.cils, k.invoice) :
                            m.status = "PENDING_REFUND" => m.group = u.group
    BY <1>5 DEF WholeWork, Returning
  <2>2. k \in txn.todo
    OBVIOUS
  <2>3. ASSUME NEW m \in On(u.cils, k.invoice), InForce(u.cils, m)
        PROVE  m \in u.todo
    <3>1. m # r /\ m \in txn.cils /\ m # l /\ m.invoice = k.invoice
      BY <1>3, <1>8, <2>3 DEF InForce, On
    <3>2. InForce(txn.cils, m)
      BY <1>7, <2>3, <3>1 DEF InForce
    <3>3. m \in txn.todo
      BY <1>2, <2>2, <3>1, <3>2 DEF TxnRelease, WholeWork, On
    <3> QED
      BY <3>1, <3>3
  <2>4. ASSUME u.mode # "CANCEL", NEW m \in On(u.cils, k.invoice),
               m.status = "PENDING_REFUND"
        PROVE  m.group = u.group
    <3>1. m \in txn.cils /\ m.invoice = k.invoice
      BY <1>3, <1>8, <2>4 DEF On
    <3> QED
      BY <1>2, <1>5, <2>2, <2>4, <3>1 DEF TxnRelease, WholeWork, On
  <2> QED
    BY <2>3, <2>4
<1>10. LeavesQuiet(u)
  <2>1. \A i \in Invoices : Gone(inv[i]) => u.inv[i].status = inv[i].status
    BY <1>2 DEF TxnRelease, LeavesQuiet
  <2>2. ASSUME NEW i \in Invoices, Quiet(cils, inv[i], i)
        PROVE  /\ Quiet(u.cils, u.inv[i], i)
               /\ \A m \in On(u.cils, i) : m.status = "PENDING_REFUND" => m \in cils
    <3>1. /\ Quiet(txn.cils, txn.inv[i], i)
          /\ \A m \in On(txn.cils, i) : m.status = "PENDING_REFUND" => m \in cils
      BY <1>2, <2>2 DEF TxnRelease, LeavesQuiet
    <3> QED
      BY <1>3, <1>7, <1>8, <3>1 DEF Quiet, On
  <2> QED
    BY <1>5, <2>1, <2>2 DEF LeavesQuiet, Returning
<1>11. PaysOwed(u)
  <2>1. \A i \in Invoices : i \in u.due \/ i = u.cur
          => u.inv[i].status \in {"APPROVED", "OVERDUE"}
    BY <1>2, <1>5 DEF TxnRelease, PaysOwed
  <2>2. ASSUME NEW m \in u.cils, m.status = "PENDING", m.invoice = u.cur,
               Payer(m) = u.sn
        PROVE  m \in u.todo \/ m.group = u.group
    BY <1>2, <1>3, <1>5, <1>8, <2>2 DEF TxnRelease, PaysOwed
  <2> QED
    BY <2>1, <2>2 DEF PaysOwed
<1>12. ItemOn(u.cils)
  BY <1>1, <1>2, <1>3, <1>8 DEF ItemOn
<1> QED
  BY <1>6, <1>9, <1>10, <1>11, <1>12 DEF TxnRelease

LEMMA ReturnedRelease ==
    ASSUME IInv, LinksInv, ReleaseInv, txn.open, Returning(txn),
           NEW l \in txn.todo, NEW x, x = ReturnAmount(l),
           NEW r \in Cil, ReturnOf(l, r, x),
           NEW u, SameWork(txn, u), u.todo = txn.todo \ {l},
           u.cils = txn.cils \cup {r}, u.inv = txn.inv
    PROVE  TxnRelease(u) /\ ItemOn(u.cils)
<1>1. /\ txn.cils \in SUBSET Cil /\ IsFiniteSet(txn.cils)
      /\ txn.todo \in SUBSET txn.cils /\ l \in txn.cils /\ l \in Cil
  BY TxnSets
<1>2. /\ TxnRelease(txn) /\ ItemOn(txn.cils) /\ Todo(txn)
      /\ \A m \in txn.cils : m.group \in Nat /\ m.group <= txn.group
      /\ txn.group \in Nat
      /\ \A m \in txn.cils : m.id # txn.lastCil + 1
      /\ job.cur # NoItem => txn.lastCil + 1 \notin job.cur.ids
  BY ReleaseSets
<1>3. /\ r.invoice = l.invoice /\ r.status = txn.mode /\ r.group = txn.group
      /\ r.id = txn.lastCil + 1 /\ r.amount = x /\ Payer(r) = Payer(l)
  BY DEF ReturnOf, SameReceipt, SameCredit, Payer
<1>4. r \notin txn.cils /\ l.group < r.group /\ IsReturn(r)
      /\ \A m \in txn.todo : m.status = "COMPLETED"
  BY <1>1, <1>2, <1>3 DEF Todo, IsReturn, Returning
<1>5. /\ u.sn = txn.sn /\ u.group = txn.group /\ u.mode = txn.mode
      /\ u.due = txn.due /\ u.cur = txn.cur
  BY DEF SameWork
<1>6. txn.mode # "CANCEL" /\ r.status \notin {"PENDING", "COMPLETED"}
  BY <1>3 DEF Returning
<1>7. Released(u.cils, u.todo, u.inv)
  <2>1. \A m \in On(txn.cils, l.invoice) : InForce(txn.cils, m) => m \in txn.todo
    BY <1>2 DEF TxnRelease, WholeWork
  <2>2. \A m \in On(txn.cils, l.invoice) : m.group <= r.group
    BY <1>2, <1>3 DEF On
  <2>3. \A m \in On(txn.cils, l.invoice) :
          m.status = "PENDING_REFUND" => m.group = r.group
    BY <1>2, <1>3, <1>6 DEF TxnRelease, WholeWork
  <2>4. txn.inv[l.invoice].memo = 0 => r.amount = l.amount /\ Payer(r) = Payer(l)
    <3>1. txn.inv[l.invoice].memo = 0 => txn.mode # "REFUNDED"
      BY <1>2 DEF TxnRelease, WholeWork
    <3> QED
      BY <1>3, <3>1 DEF ReturnAmount
  <2>5. ~Owed(txn.inv[l.invoice])
    BY <1>2 DEF TxnRelease, WholeWork
  <2>6. Released(txn.cils, txn.todo, txn.inv)
    BY <1>2 DEF TxnRelease
  <2>7. Released(u.cils, u.todo, txn.inv)
    BY <1>1, <1>3, <1>4, <2>1, <2>2, <2>3, <2>4, <2>5, <2>6, ReturnedReleased
  <2> QED
    BY <2>7
<1>8. \A m \in txn.cils : Newest(u.cils, m) => Newest(txn.cils, m)
  BY DEF Newest
<1>9. \A m \in u.cils : m # r => m \in txn.cils
  OBVIOUS
<1>10. ~Newest(u.cils, l)
  BY <1>1, <1>2, <1>3, <1>4 DEF Newest
<1>11. WholeWork(u)
  <2>1. SUFFICES ASSUME NEW k \in u.todo
                 PROVE /\ \A m \in On(u.cils, k.invoice) :
                            InForce(u.cils, m) => m \in u.todo
                       /\ ~Owed(u.inv[k.invoice])
                       /\ u.mode = "REFUNDED" => u.inv[k.invoice].memo # 0
                       /\ \A m \in On(u.cils, k.invoice) :
                            m.status = "PENDING_REFUND" => m.group = u.group
    BY DEF WholeWork
  <2>2. k \in txn.todo
    OBVIOUS
  <2>3. ASSUME NEW m \in On(u.cils, k.invoice), InForce(u.cils, m)
        PROVE  m \in u.todo
    <3>1. m # r /\ m \in txn.cils /\ m # l /\ m.invoice = k.invoice
      BY <1>6, <1>9, <1>10, <2>3 DEF InForce, On
    <3>2. InForce(txn.cils, m)
      BY <1>8, <2>3, <3>1 DEF InForce
    <3>3. m \in txn.todo
      BY <1>2, <2>2, <3>1, <3>2 DEF TxnRelease, WholeWork, On
    <3> QED
      BY <3>1, <3>3
  <2>4. /\ ~Owed(u.inv[k.invoice])
        /\ u.mode = "REFUNDED" => u.inv[k.invoice].memo # 0
    BY <1>2, <1>5, <2>2 DEF TxnRelease, WholeWork
  <2>5. ASSUME NEW m \in On(u.cils, k.invoice), m.status = "PENDING_REFUND"
        PROVE  m.group = u.group
    <3>1. CASE m = r
      BY <1>3, <1>5, <3>1
    <3>2. CASE m # r
      BY <1>2, <1>5, <1>6, <1>9, <2>2, <2>5, <3>2 DEF TxnRelease, WholeWork, On
    <3> QED
      BY <3>1, <3>2
  <2> QED
    BY <2>3, <2>4, <2>5
<1>12. LeavesQuiet(u)
  <2>1. \A i \in Invoices : Gone(inv[i]) => u.inv[i].status = inv[i].status
    BY <1>2 DEF TxnRelease, LeavesQuiet
  <2>2. ASSUME NEW i \in Invoices, Quiet(cils, inv[i], i)
        PROVE  /\ Quiet(u.cils, u.inv[i], i)
               /\ \A m \in On(u.cils, i) : m.status = "PENDING_REFUND" => m \in cils
               /\ On(u.todo, i) = {}
    <3>1. /\ Quiet(txn.cils, txn.inv[i], i)
          /\ \A m \in On(txn.cils, i) : m.status = "PENDING_REFUND" => m \in cils
          /\ On(txn.todo, i) = {}
      BY <1>2, <2>2 DEF TxnRelease, LeavesQuiet
    <3>2. l.invoice # i /\ On(u.todo, i) = {}
      BY <3>1 DEF On
    <3>3. On(u.cils, i) = On(txn.cils, i)
      BY <1>3, <3>2 DEF On
    <3>4. Quiet(u.cils, u.inv[i], i)
      BY <1>8, <3>1, <3>3 DEF Quiet, On
    <3> QED
      BY <3>1, <3>2, <3>3, <3>4
  <2> QED
    BY <2>1, <2>2 DEF LeavesQuiet
<1>13. PaysOwed(u)
  <2>1. \A i \in Invoices : i \in u.due \/ i = u.cur
          => u.inv[i].status \in {"APPROVED", "OVERDUE"}
    BY <1>2, <1>5 DEF TxnRelease, PaysOwed
  <2>2. ASSUME NEW m \in u.cils, m.status = "PENDING", m.invoice = u.cur,
               Payer(m) = u.sn
        PROVE  m \in u.todo \/ m.group = u.group
    <3>1. m \in txn.cils /\ (m \in txn.todo \/ m.group = txn.group)
      BY <1>2, <1>5, <1>6, <1>9, <2>2 DEF TxnRelease, PaysOwed
    <3>2. m # l
      BY <1>4, <2>2
    <3> QED
      BY <1>5, <3>1, <3>2
  <2> QED
    BY <2>1, <2>2 DEF PaysOwed
<1>14. ItemOn(u.cils)
  BY <1>2, <1>3, <1>9 DEF ItemOn
<1> QED
  BY <1>7, <1>11, <1>12, <1>13, <1>14 DEF TxnRelease

LEMMA ReturnCreditRelease ==
    ASSUME IInv, LinksInv, ReleaseInv, txn.open, ReturnCredit, UNCHANGED jobVars
    PROVE  ReleaseInv'
<1>1. GoodTxn(txn) /\ txn \in Txn /\ UNCHANGED job
  BY OpenIsGood DEF GoodTxn, jobVars
<1>2. CASE Rollback
  BY <1>1, <1>2, StepRelease DEF Rollback, tables
<1>3. CASE ~ Rollback
  <2>1. PICK u, l, x :
          /\ l \in txn.todo /\ \A k \in txn.todo : l.id <= k.id
          /\ x \in Nat /\ x = ReturnAmount(l)
          /\ txn.rem[l.credit] + x <= Amount[l.credit]
          /\ u = PutBack(txn, txn.todo \ {l}, l.credit,
                         txn.rem[l.credit] + x, Recorded(l, x),
                         IF AddsReturn THEN txn.lastCil + 1
                         ELSE txn.lastCil)
          /\ txn' = u /\ UNCHANGED tables
    BY <1>3, ReturnCreditSteps
  <2> DEFINE todo == txn.todo \ {l}
             c == l.credit
             amount == txn.rem[c] + x
             L == Recorded(l, x)
             last == IF AddsReturn THEN txn.lastCil + 1 ELSE txn.lastCil
  <2>2. /\ c \in Credits /\ todo \in SUBSET Cil /\ last \in Nat
        /\ amount \in Nat /\ L \in SUBSET Cil
    <3>1. /\ c \in Credits /\ todo \in SUBSET Cil /\ last \in Nat
          /\ txn.rem \in [Credits -> Nat]
      BY <1>1, <2>1, TxnFields, CilFields DEF GoodTxn
    <3>2. L \in SUBSET Cil
      BY <1>1, <2>1, RecordedType
    <3>3. txn.rem[c] \in Nat
      BY <3>1
    <3> QED
      BY <2>1, <3>1, <3>2, <3>3
  <2>3. u = PutBack(txn, todo, c, amount, L, last)
    BY <2>1
  <2> HIDE DEF todo, c, amount, last
  <2>4. SameWork(txn, u) /\ u.todo = todo /\ u.cils = L /\ u.inv = txn.inv
    <3> HIDE DEF L
    <3>1. /\ u \in Txn
          /\ u.inv = txn.inv /\ u.due = txn.due /\ u.cils = L
          /\ u.todo = todo
          /\ u.rem = [txn.rem EXCEPT ![c] = amount]
          /\ u.lastCil = last /\ u.sn = txn.sn /\ u.group = txn.group
          /\ u.mode = txn.mode /\ u.cur = txn.cur /\ u.need = txn.need
          /\ u.refill = txn.refill /\ u.refunds = txn.refunds
      BY <1>1, <2>2, <2>3, PutBackType
    <3> QED
      BY <3>1 DEF SameWork
  <2>5. PICK r \in Cil :
          \/ /\ txn.mode = "CANCEL" /\ Undone(l, r, l.group)
             /\ Recorded(l, x) = (txn.cils \ {l}) \cup {r}
          \/ /\ txn.mode = "REGROUP" /\ Undone(l, r, txn.group)
             /\ Recorded(l, x) = (txn.cils \ {l}) \cup {r}
          \/ /\ Returning(txn) /\ ReturnOf(l, r, x)
             /\ Recorded(l, x) = txn.cils \cup {r}
    BY <1>1, <2>1, RecordedShape
  <2>6. u.todo = txn.todo \ {l} /\ l \in txn.todo /\ x = ReturnAmount(l)
    BY <2>1, <2>4 DEF todo
  <2>7. TxnRelease(u) /\ ItemOn(u.cils)
    <3>1. CASE Returning(txn)
      <4>1. ReturnOf(l, r, x) /\ u.cils = txn.cils \cup {r}
        BY <2>4, <2>5, <3>1 DEF Returning
      <4> QED
        BY <2>4, <2>6, <3>1, <4>1, ReturnedRelease
    <3>2. CASE ~Returning(txn)
      <4>1. UndoneAs(l, r) /\ u.cils = (txn.cils \ {l}) \cup {r}
        BY <2>4, <2>5, <3>2 DEF UndoneAs
      <4> QED
        BY <2>4, <2>6, <3>2, <4>1, UndoneRelease
    <3> QED
      BY <3>1, <3>2
  <2> QED
    BY <1>1, <2>1, <2>7, StepRelease DEF tables
<1> QED
  BY <1>2, <1>3

\* What waits for a payment that is begun anew is all that is in force.
LEMMA NextInvoiceRelease ==
    ASSUME OneName, IInv, LinksInv, ReleaseInv, txn.open, NextInvoice,
           UNCHANGED jobVars
    PROVE  ReleaseInv'
<1>1. /\ txn \in Txn /\ txn.cils \in SUBSET Cil /\ TxnLinks(txn)
      /\ txn.due \in SUBSET Invoices /\ UNCHANGED job
  BY TxnSets, TxnFields DEF jobVars
<1>2. TxnRelease(txn) /\ ItemOn(txn.cils)
  BY ReleaseSets
<1>3. txn.todo = {} /\ txn.due # {} /\ txn.mode = "CANCEL"
  BY <1>1 DEF NextInvoice, TxnLinks, Pays
<1>4. PICK u, i :
        /\ i \in txn.due
        /\ u.due = txn.due \ {i} /\ u.cur = i
        /\ u.todo = PendingLinks(txn.cils, txn.sn, i)
        /\ u.cils = txn.cils
        /\ u.sn = txn.sn /\ u.group = txn.group /\ u.mode = txn.mode
        /\ u.inv = txn.inv
        /\ txn' = u /\ UNCHANGED tables
  BY NextInvoiceSteps
<1>5. i \in Invoices /\ txn.inv[i].status \in {"APPROVED", "OVERDUE"}
  BY <1>1, <1>2, <1>4 DEF TxnRelease, PaysOwed
<1>6. Released(txn.cils, {}, txn.inv)
  BY <1>2, <1>3 DEF TxnRelease
<1>7. Released(u.cils, u.todo, u.inv)
  <2>1. u.todo \in SUBSET txn.cils
    BY <1>4 DEF PendingLinks
  <2>2. \A l \in u.todo : InForce(txn.cils, l)
    BY <1>4, <1>6 DEF PendingLinks, InForce, Released, Waits
  <2>3. Released(txn.cils, u.todo, txn.inv)
    BY <1>1, <1>6, <2>1, <2>2, TodoReleased
  <2> QED
    BY <1>4, <2>3
<1>8. WholeWork(u)
  <2>1. ASSUME NEW l \in u.todo, NEW m \in On(u.cils, l.invoice),
               InForce(u.cils, m)
        PROVE  m \in u.todo
    <3>1. /\ l \in Cil /\ m \in Cil /\ m \in txn.cils /\ l.invoice = i
          /\ m.invoice = i /\ Payer(l) = txn.sn
      BY <1>1, <1>4, <2>1 DEF PendingLinks, On, Payer
    <3>2. Payer(m) = txn.sn
      BY <3>1, OneNamePays
    <3>3. m.status \notin {"COMPLETED", "PENDING_REFUND"}
      BY <1>4, <1>5, <1>6, <2>1, <3>1
         DEF Released, RowSays, Owed, InForce, On
    <3>4. m.status = "PENDING"
      BY <2>1, <3>3 DEF InForce
    <3> QED
      BY <1>4, <3>1, <3>2, <3>4 DEF PendingLinks, Payer
  <2> QED
    BY <1>3, <1>4, <2>1 DEF WholeWork, Returning
<1>9. LeavesQuiet(u)
  BY <1>2, <1>3, <1>4 DEF TxnRelease, LeavesQuiet, Returning
<1>10. PaysOwed(u)
  <2>1. \A j \in Invoices : j \in u.due \/ j = u.cur
          => u.inv[j].status \in {"APPROVED", "OVERDUE"}
    BY <1>2, <1>4, <1>5 DEF TxnRelease, PaysOwed
  <2>2. \A l \in u.cils :
          l.status = "PENDING" /\ l.invoice = u.cur /\ Payer(l) = u.sn
            => l \in u.todo
    BY <1>4 DEF PendingLinks, Payer
  <2> QED
    BY <2>1, <2>2 DEF PaysOwed
<1>11. TxnRelease(u) /\ ItemOn(u.cils)
  BY <1>2, <1>4, <1>7, <1>8, <1>9, <1>10 DEF TxnRelease
<1> QED
  BY <1>1, <1>4, <1>11, StepRelease DEF tables

\* A step that changes no link and no row.
LEMMA SameRelease ==
    ASSUME IInv, LinksInv, ReleaseInv, txn.open,
           NEW u, SameWork(txn, u), u.todo = txn.todo, u.cils = txn.cils,
           u.inv = txn.inv, txn' = u, UNCHANGED <<cils, inv, job>>
    PROVE  ReleaseInv'
<1>1. TxnRelease(txn) /\ ItemOn(txn.cils)
  BY ReleaseSets
<1>2. /\ u.sn = txn.sn /\ u.group = txn.group /\ u.mode = txn.mode
      /\ u.due = txn.due /\ u.cur = txn.cur
  BY DEF SameWork
<1>3. WholeWork(u) /\ LeavesQuiet(u) /\ PaysOwed(u)
  BY <1>1, <1>2 DEF TxnRelease, WholeWork, LeavesQuiet, PaysOwed, Returning
<1>4. TxnRelease(u) /\ ItemOn(u.cils)
  BY <1>1, <1>3 DEF TxnRelease
<1> QED
  BY <1>4, StepRelease

LEMMA LinkedRelease ==
    ASSUME OneName, IInv, LinksInv, ReleaseInv, txn.open, txn.todo = {},
           txn.cur # NoInvoice, NEW r \in Cil, r.id = txn.lastCil + 1,
           r.invoice = txn.cur, Payer(r) = txn.sn, r.group = txn.group,
           r.status = "PENDING",
           NEW u, SameWork(txn, u), u.todo = {}, u.cils = txn.cils \cup {r},
           u.inv = txn.inv
    PROVE  TxnRelease(u) /\ ItemOn(u.cils)
<1>1. /\ txn.cils \in SUBSET Cil /\ TxnLinks(txn) /\ r.invoice \in Invoices
      /\ txn.mode = "CANCEL"
  BY TxnSets, CilFields DEF TxnLinks, Pays
<1>2. /\ TxnRelease(txn) /\ ItemOn(txn.cils)
      /\ \A m \in txn.cils : m.group \in Nat /\ m.group <= txn.group
      /\ job.cur # NoItem => txn.lastCil + 1 \notin job.cur.ids
  BY ReleaseSets
<1>3. /\ u.sn = txn.sn /\ u.group = txn.group /\ u.mode = txn.mode
      /\ u.due = txn.due /\ u.cur = txn.cur
  BY DEF SameWork
<1>4. \A m \in txn.cils : m.status = "PENDING" /\ m.invoice = txn.cur
                            => m.group = txn.group
  <2> SUFFICES ASSUME NEW m \in txn.cils, m.status = "PENDING",
                      m.invoice = txn.cur
               PROVE  m.group = txn.group
    OBVIOUS
  <2>1. Payer(m) = txn.sn
    BY <1>1, OneNamePays
  <2> QED
    BY <1>2, <2>1 DEF TxnRelease, PaysOwed
<1>5. txn.inv[r.invoice].status \in {"APPROVED", "OVERDUE"}
  BY <1>1, <1>2 DEF TxnRelease, PaysOwed
<1>6. Released(u.cils, {}, txn.inv)
  <2>1. Released(txn.cils, {}, txn.inv)
    BY <1>2 DEF TxnRelease
  <2>2. \A m \in On(txn.cils, r.invoice) : m.group <= r.group
    BY <1>2 DEF On
  <2>3. \A m \in On(txn.cils, r.invoice) :
          m.status = "PENDING" => m.group = r.group
    BY <1>4 DEF On
  <2> QED
    BY <1>1, <1>5, <2>1, <2>2, <2>3, PaidReleased
<1>7. WholeWork(u)
  BY DEF WholeWork
<1>8. LeavesQuiet(u)
  <2>1. \A i \in Invoices : Gone(inv[i]) => u.inv[i].status = inv[i].status
    BY <1>2 DEF TxnRelease, LeavesQuiet
  <2>2. ASSUME NEW i \in Invoices, Quiet(cils, inv[i], i)
        PROVE  /\ Quiet(u.cils, u.inv[i], i)
               /\ \A m \in On(u.cils, i) : m.status = "PENDING_REFUND" => m \in cils
    <3>1. /\ Quiet(txn.cils, txn.inv[i], i)
          /\ \A m \in On(txn.cils, i) : m.status = "PENDING_REFUND" => m \in cils
      BY <1>2, <2>2 DEF TxnRelease, LeavesQuiet
    <3>2. \A m \in On(u.cils, i) : m = r \/ m \in On(txn.cils, i)
      BY DEF On
    <3>3. \A m \in txn.cils : Newest(u.cils, m) => Newest(txn.cils, m)
      BY DEF Newest
    <3> QED
      BY <3>1, <3>2, <3>3 DEF Quiet, On
  <2> QED
    BY <1>1, <1>3, <2>1, <2>2 DEF LeavesQuiet, Returning
<1>9. PaysOwed(u)
  <2>1. \A i \in Invoices : i \in u.due \/ i = u.cur
          => u.inv[i].status \in {"APPROVED", "OVERDUE"}
    BY <1>2, <1>3 DEF TxnRelease, PaysOwed
  <2>2. \A m \in u.cils : m.status = "PENDING" /\ m.invoice = u.cur
                            => m.group = u.group
    BY <1>3, <1>4
  <2> QED
    BY <2>1, <2>2 DEF PaysOwed
<1>10. ItemOn(u.cils)
  BY <1>2 DEF ItemOn
<1> QED
  BY <1>6, <1>7, <1>8, <1>9, <1>10 DEF TxnRelease

LEMMA TakeCreditRelease ==
    ASSUME OneName, IInv, LinksInv, ReleaseInv, txn.open, TakeCredit,
           UNCHANGED jobVars
    PROVE  ReleaseInv'
<1>1. txn \in Txn /\ txn.need \in Nat /\ UNCHANGED job
  BY TxnSets, TxnFields DEF jobVars
<1>2. txn.todo = {} /\ txn.need > 0 /\ UNCHANGED tables
  BY TakeCreditSteps
<1>3. CASE txn' = [txn EXCEPT !.need = 0]
  <2>1. PICK u : u = [txn EXCEPT !.need = 0]
    OBVIOUS
  <2>2. SameWork(txn, u) /\ u.todo = txn.todo /\ u.cils = txn.cils /\ u.inv = txn.inv
    BY <1>1, <2>1 DEF SameWork, Txn
  <2> QED
    BY <1>1, <1>2, <1>3, <2>1, <2>2, SameRelease DEF tables
<1>4. CASE txn' # [txn EXCEPT !.need = 0]
  <2>1. PICK c, x, L, last : Takes(c, x, L, last)
    BY <1>4, TakeCreditSteps
  <2> DEFINE n == txn.rem[c] - x
             need == txn.need - x
  <2>2. /\ txn.rem \in [Credits -> Nat] /\ txn.need \in Nat
        /\ txn.cils \in SUBSET Cil /\ txn.lastCil \in Nat /\ txn.refill \in Nat
    BY <1>1, TxnFields
  <2>3. /\ c \in Credits /\ c \in CreditsOf(txn.sn) /\ txn.rem[c] \in Nat
        /\ x \in Nat /\ x <= txn.rem[c] /\ x <= txn.need
    BY <2>1, <2>2 DEF Takes, CreditsOf
  <2>4. n \in Nat /\ need \in Nat
    BY <2>2, <2>3
  <2>5. L \in SUBSET Cil /\ last \in Nat
    BY <2>1, <2>2 DEF Takes, PaidBy
  <2>6. PICK u : u = SetCredit(txn, c, n, need, txn.refill, L, last) /\ txn' = u
    BY <2>1 DEF Takes
  <2> HIDE DEF n, need
  <2>7. SameWork(txn, u) /\ u.todo = txn.todo /\ u.cils = L /\ u.inv = txn.inv
    <3>1. /\ u \in Txn
          /\ u.inv = txn.inv /\ u.due = txn.due /\ u.cils = L
          /\ u.todo = txn.todo
          /\ u.rem = [txn.rem EXCEPT ![c] = n]
          /\ u.lastCil = last /\ u.sn = txn.sn /\ u.group = txn.group
          /\ u.mode = txn.mode /\ u.cur = txn.cur /\ u.need = need
          /\ u.refill = txn.refill /\ u.refunds = txn.refunds
      BY <1>1, <2>2, <2>3, <2>4, <2>5, <2>6, SetCreditType
    <3> QED
      BY <3>1 DEF SameWork
  <2>8. CASE txn.cur = NoInvoice
    <3>1. L = txn.cils
      BY <2>1, <2>8 DEF Takes, PaidBy
    <3> QED
      BY <1>1, <1>2, <2>6, <2>7, <3>1, SameRelease DEF tables
  <2>9. CASE txn.cur # NoInvoice
    <3>1. PICK r \in Cil : /\ r.id = last /\ r.invoice = txn.cur
                           /\ r.credit = c /\ r.group = txn.group
                           /\ r.status = "PENDING"
                           /\ L = txn.cils \cup {r} /\ last = txn.lastCil + 1
      BY <2>1, <2>9 DEF Takes, PaidBy
    <3>2. Payer(r) = txn.sn
      BY <2>3, <3>1 DEF Payer, CreditsOf
    <3>3. TxnRelease(u) /\ ItemOn(u.cils)
      BY <1>2, <2>7, <2>9, <3>1, <3>2, LinkedRelease
    <3> QED
      BY <1>1, <1>2, <2>6, <3>3, StepRelease DEF tables
  <2> QED
    BY <2>8, <2>9
<1> QED
  BY <1>3, <1>4

LEMMA RefillCreditRelease ==
    ASSUME IInv, LinksInv, ReleaseInv, txn.open, RefillCredit,
           UNCHANGED jobVars
    PROVE  ReleaseInv'
<1>1. txn \in Txn /\ UNCHANGED job
  BY TxnSets DEF jobVars
<1>2. CASE Rollback
  BY <1>1, <1>2, StepRelease DEF Rollback, tables
<1>3. CASE ~ Rollback
  <2>1. PICK u, c, x :
          /\ txn.refill > 0 /\ UNCHANGED tables
          /\ c \in CreditsOf(txn.sn) /\ c <= deposits
          /\ x \in Nat /\ x <= txn.refill
          /\ txn.rem[c] + x <= Amount[c]
          /\ u = SetCredit(txn, c, txn.rem[c] + x, txn.need,
                           txn.refill - x, txn.cils, txn.lastCil)
          /\ txn' = u
    BY <1>3, RefillCreditSteps
  <2> DEFINE n == txn.rem[c] + x
             refill == txn.refill - x
             need == txn.need
             L == txn.cils
             last == txn.lastCil
  <2>2. /\ txn.rem \in [Credits -> Nat] /\ need \in Nat
        /\ txn.refill \in Nat
        /\ L \in SUBSET Cil /\ last \in Nat /\ c \in Credits
    BY <1>1, <2>1, TxnFields DEF CreditsOf
  <2>3. txn.rem[c] \in Nat
    BY <2>2
  <2>4. n \in Nat /\ refill \in Nat
    BY <2>1, <2>2, <2>3
  <2>5. u = SetCredit(txn, c, n, need, refill, L, last)
    BY <2>1
  <2> HIDE DEF n, refill, need, L, last
  <2>6. SameWork(txn, u) /\ u.todo = txn.todo /\ u.cils = L /\ u.inv = txn.inv
    <3>1. /\ u \in Txn
          /\ u.inv = txn.inv /\ u.due = txn.due /\ u.cils = L
          /\ u.todo = txn.todo
          /\ u.rem = [txn.rem EXCEPT ![c] = n]
          /\ u.lastCil = last /\ u.sn = txn.sn /\ u.group = txn.group
          /\ u.mode = txn.mode /\ u.cur = txn.cur /\ u.need = need
          /\ u.refill = refill /\ u.refunds = txn.refunds
      <4>1. need \in Nat /\ L \in SUBSET Cil /\ last \in Nat /\ c \in Credits
        BY <2>2
      <4> QED
        BY <1>1, <2>4, <2>5, <4>1, SetCreditType
    <3> QED
      BY <3>1 DEF SameWork
  <2> QED
    BY <1>1, <2>1, <2>6, SameRelease DEF tables, L
<1> QED
  BY <1>2, <1>3

\* An invoice that is refunded has no payment that could be returned.
LEMMA GoneIsQuiet ==
    ASSUME Released(cils, {}, inv), NEW i \in Invoices, Gone(inv[i])
    PROVE  Quiet(cils, inv[i], i)
BY DEF Released, RowSays, Quiet, Gone, Owed, InForce, On

LEMMA CommitRelease ==
    ASSUME IInv, LinksInv, ReleaseInv, txn.open, Commit, UNCHANGED jobVars
    PROVE  ReleaseInv'
<1>1. /\ txn.todo = {} /\ cils' = txn.cils /\ inv' = txn.inv /\ txn' = NoTxn
      /\ UNCHANGED job
  BY DEF Commit, Finished, jobVars
<1>2. /\ TxnRelease(txn) /\ ItemOn(txn.cils) /\ ListRelease /\ job \in Job
      /\ Released(cils, {}, inv)
      /\ \A k \in job.todo : k.invoice \in Invoices
  BY ReleaseSets, JobTables DEF ReleaseInv, Job, RollupKey
<1>3. Released(cils, {}, inv)'
  BY <1>1, <1>2 DEF TxnRelease
<1>4. \A i \in Invoices : Gone(inv[i]) => Quiet(cils, inv[i], i)
  BY <1>2, GoneIsQuiet
<1>5. ASSUME NEW i \in Invoices, Gone(inv[i])
      PROVE  /\ Gone(inv'[i]) /\ inv'[i].status = inv[i].status
             /\ ~InReturn(cils, i) => ~InReturn(cils', i)
  <2>1. txn.inv[i].status = inv[i].status
    BY <1>2, <1>5 DEF TxnRelease, LeavesQuiet
  <2>2. \A l \in On(txn.cils, i) : l.status = "PENDING_REFUND" => l \in cils
    BY <1>2, <1>4, <1>5 DEF TxnRelease, LeavesQuiet
  <2> QED
    BY <1>1, <1>5, <2>1, <2>2 DEF Gone, InReturn, On
<1>6. ListRelease'
  <2>1. \A k \in job.todo : Gone(inv[k.invoice]) =>
          /\ Gone(inv'[k.invoice]) /\ inv'[k.invoice].status = inv[k.invoice].status
          /\ ~InReturn(cils, k.invoice) => ~InReturn(cils', k.invoice)
    BY <1>2, <1>5
  <2> QED
    BY <1>1, <1>2, <2>1 DEF ListRelease, Gone, InReturn
<1>7. ItemOn(cils)'
  BY <1>1, <1>2 DEF ItemOn
<1>8. ASSUME job.phase \in {"REVERSE", "UNLINKED"}, job.cur # NoItem
      PROVE  ReverseRelease(job.cur.key.invoice)'
  <2> DEFINE i == job.cur.key.invoice
  <2>1. i \in Invoices
    BY <1>2, <1>8 DEF Job, Item, RollupKey
  <2> HIDE DEF i
  <2>2. ReverseRelease(i)
    BY <1>8 DEF ReleaseInv, i
  <2>3. Quiet(cils, inv[i], i)
    BY <1>4, <2>1, <2>2 DEF ReverseRelease
  <2>4. /\ Quiet(txn.cils, txn.inv[i], i)
        /\ \A l \in On(txn.cils, i) : l.status = "PENDING_REFUND" => l \in cils
    BY <1>2, <2>1, <2>3 DEF TxnRelease, LeavesQuiet
  <2>5. AllReturns(i) => \A l \in On(cils', i) :
          l.status = "PENDING_REFUND" => l.id \in job.cur.ids
    BY <1>1, <2>4 DEF AllReturns, On
  <2>6. Gone(inv[i]) => Gone(inv'[i])
    BY <1>5, <2>1
  <2>7. /\ job.phase = "UNLINKED" => job.cur.refunding
        /\ job.cur.refunding => Gone(inv'[i])
        /\ ~job.cur.refunding =>
             /\ Quiet(cils', inv'[i], i) /\ LastKey(i)
             /\ \A l \in On(cils', i) :
                  l.status = "PENDING_REFUND" => l.id \in job.cur.ids
        /\ job.phase = "REVERSE" =>
             \/ LastKey(i)
             \/ \A l \in On(cils', i) :
                  l.status = "PENDING_REFUND" => l.id \in job.cur.ids
    BY <1>1, <2>2, <2>4, <2>5, <2>6 DEF ReverseRelease
  <2>8. ReverseRelease(i)'
    BY <1>1, <2>7 DEF ReverseRelease, AllReturns, LastKey, i
  <2> QED
    BY <2>8 DEF i
<1> QED
  BY <1>1, <1>3, <1>6, <1>7, <1>8 DEF ReleaseInv

LEMMA TxnStepRelease ==
    ASSUME OneName, IInv, LinksInv, ReleaseInv, TxnStep, UNCHANGED jobVars
    PROVE  ReleaseInv'
BY ReturnCreditRelease, NextInvoiceRelease, TakeCreditRelease,
   RefillCreditRelease, CommitRelease DEF TxnStep

-----------------------------------------------------------------------------
(* The start of a request.                                                 *)

LEMMA BegunRelease ==
    ASSUME ReleaseInv, NEW t, t.cils = cils, TxnRelease(t),
           Begin(t) \/ BeginGroup(t), UNCHANGED jobVars
    PROVE  ReleaseInv'
<1>1. UNCHANGED <<cils, inv, job>> /\ txn' = t
  BY DEF Begin, BeginGroup, tables, jobVars
<1>2. ItemOn(t.cils)
  BY DEF ReleaseInv
<1> QED
  BY <1>1, <1>2, StepRelease

\* The latest links of an invoice are one group.
LEMMA NewestAlike ==
    ASSUME IInv, LinksInv, NEW l \in cils, NEW m \in cils,
           l.invoice = m.invoice, Newest(cils, l), Newest(cils, m)
    PROVE  l.group = m.group /\ l.status = m.status /\ l.receipt = m.receipt
           /\ Payer(l) = Payer(m)
<1>1. l.group \in Nat /\ m.group \in Nat /\ l.group <= m.group
      /\ m.group <= l.group
  BY CilFields DEF IInv, TypeOK, Newest
<1>2. Siblings(l, m)
  BY <1>1 DEF Siblings
<1> QED
  BY <1>1, <1>2 DEF LinksInv, Links, Groups, OnePayer, Alike

\* A request that is to pay, or to refund a short name.
LEMMA StartPaysRelease ==
    ASSUME IInv, LinksInv, ReleaseInv, NEW sn, NEW due, NEW need, NEW refill,
           NEW refs, \A i \in due : Unpaid(i),
           NEW t, AtStart(t, sn, {}, "CANCEL", due, need, refill, inv, refs)
    PROVE  TxnRelease(t)
<1>1. /\ t.todo = {} /\ t.mode = "CANCEL" /\ t.due = due /\ t.cur = NoInvoice
      /\ t.cils = cils /\ t.inv = inv
  BY DEF AtStart
<1>2. Released(t.cils, t.todo, t.inv)
  BY <1>1 DEF ReleaseInv
<1>3. WholeWork(t) /\ LeavesQuiet(t)
  BY <1>1 DEF WholeWork, LeavesQuiet, On
<1>4. PaysOwed(t)
  <2>1. NoInvoice \notin Invoices /\ \A l \in cils : l.invoice \in Invoices
    BY CilFields DEF NoInvoice, Invoices, IInv, TypeOK
  <2> QED
    BY <1>1, <2>1 DEF PaysOwed, Unpaid
<1> QED
  BY <1>2, <1>3, <1>4 DEF TxnRelease

LEMMA ApplyPaymentRelease ==
    ASSUME IInv, LinksInv, ReleaseInv, NEW sn \in ShortNames,
           NEW a \in Accounts, NEW S, ApplyPayment(sn, a, S), UNCHANGED jobVars
    PROVE  ReleaseInv'
<1>1. PICK t : /\ t = Started(NewTxn(sn), active, {}, "CANCEL",
                              Owing(a, S), 0, 0, inv, refunds)
               /\ BeginGroup(t)
  BY ApplyPaymentStarts
<1>2. AtStart(t, sn, {}, "CANCEL", Owing(a, S), 0, 0, inv, refunds)
  BY <1>1, StartsAt
<1>3. \A i \in Owing(a, S) : Unpaid(i)
  BY TotalDueIsCost
<1>4. TxnRelease(t)
  BY <1>2, <1>3, StartPaysRelease
<1> QED
  BY <1>1, <1>2, <1>4, BegunRelease DEF AtStart

LEMMA CreateShortNameLinkRelease ==
    ASSUME IInv, LinksInv, ReleaseInv, NEW sn \in ShortNames,
           NEW a \in Accounts, CreateShortNameLink(sn, a), UNCHANGED jobVars
    PROVE  ReleaseInv'
<1>1. PICK t, due :
        /\ t = Started(NewTxn(sn), active \cup {<<sn, a>>}, {}, "CANCEL",
                       due, 0, 0, inv, refunds)
        /\ \/ due = {} /\ Begin(t)
           \/ due = Owing(a, Statements) /\ BeginGroup(t)
  BY CreateShortNameLinkStarts
<1>2. AtStart(t, sn, {}, "CANCEL", due, 0, 0, inv, refunds)
  BY <1>1, StartsAt
<1>3. \A i \in due : Unpaid(i)
  BY <1>1, TotalDueIsCost
<1>4. TxnRelease(t)
  BY <1>2, <1>3, StartPaysRelease
<1> QED
  BY <1>1, <1>2, <1>4, BegunRelease DEF AtStart

LEMMA ShortNameRefundRelease ==
    ASSUME IInv, LinksInv, ReleaseInv, NEW r \in Refunds,
           \/ \E sn \in ShortNames, x \in RefundAmounts :
                CreateShortNameRefund(r, sn, x)
           \/ DeclineShortNameRefund(r),
           UNCHANGED jobVars
    PROVE  ReleaseInv'
<1>1. ASSUME NEW sn, NEW need, NEW refill, NEW refs, NEW t, Begin(t),
             AtStart(t, sn, {}, "CANCEL", {}, need, refill, inv, refs)
      PROVE  ReleaseInv'
  <2>1. TxnRelease(t)
    BY <1>1, StartPaysRelease
  <2> QED
    BY <1>1, <2>1, BegunRelease DEF AtStart
<1>2. ASSUME NEW sn \in ShortNames, NEW x \in RefundAmounts,
             CreateShortNameRefund(r, sn, x)
      PROVE  ReleaseInv'
  <2>1. PICK t :
          /\ t = Started(NewTxn(sn), active, {}, "CANCEL", {}, x, 0, inv,
                         [refunds EXCEPT ![r] = NewRefund(sn, x)])
          /\ Begin(t)
    BY <1>2, CreateShortNameRefundStarts
  <2> QED
    BY <1>1, <2>1, StartsAt
<1>3. CASE DeclineShortNameRefund(r)
  <2>1. PICK t, row :
          /\ t = Started(NewTxn(refunds[r].sn), active, {}, "CANCEL", {}, 0,
                         refunds[r].amount, inv, [refunds EXCEPT ![r] = row])
          /\ Begin(t)
    BY <1>3, DeclineShortNameRefundStarts
  <2> QED
    BY <1>1, <2>1, StartsAt
<1> QED
  BY <1>2, <1>3

\* Pending links of an invoice are one group, and cancelled as a whole.
LEMMA CancelPaymentRelease ==
    ASSUME IInv, LinksInv, ReleaseInv, NEW sn \in ShortNames,
           NEW a \in Accounts, NEW S, CancelPayment(sn, a, S), UNCHANGED jobVars
    PROVE  ReleaseInv'
<1> DEFINE P == PendingOf(sn, a, S)
<1>1. PICK t : /\ t = Started(NewTxn(sn), active, P, "CANCEL", {}, 0, 0, inv,
                              refunds)
               /\ Begin(t)
  BY CancelPaymentStarts
<1>2. AtStart(t, sn, P, "CANCEL", {}, 0, 0, inv, refunds)
  <2> HIDE DEF P
  <2> QED
    BY <1>1, StartsAt
<1>3. /\ t.todo = P /\ t.mode = "CANCEL" /\ t.due = {} /\ t.cur = NoInvoice
      /\ t.cils = cils /\ t.inv = inv
  BY <1>2 DEF AtStart
<1>4. Released(cils, {}, inv) /\ cils \in SUBSET Cil
  BY DEF ReleaseInv, IInv, TypeOK
<1>5. P \in SUBSET cils /\ \A l \in P : InForce(cils, l)
  BY <1>4 DEF PendingOf, Released, Waits, InForce
<1>6. Released(t.cils, t.todo, t.inv)
  <2> HIDE DEF P
  <2>1. Released(cils, P, inv)
    BY <1>4, <1>5, TodoReleased
  <2> QED
    BY <1>3, <2>1
<1>7. WholeWork(t)
  <2>1. ASSUME NEW l \in P, NEW m \in On(cils, l.invoice), InForce(cils, m)
        PROVE  m \in P
    <3>1. /\ l \in cils /\ m \in cils /\ l.invoice = m.invoice
          /\ Newest(cils, l) /\ Newest(cils, m)
      BY <1>5, <2>1 DEF InForce, On
    <3>2. m.status = l.status /\ Payer(m) = Payer(l)
      BY <3>1, NewestAlike
    <3> QED
      BY <2>1, <3>1, <3>2 DEF PendingOf, Payer
  <2> QED
    BY <1>3, <2>1 DEF WholeWork, Returning
<1>8. LeavesQuiet(t)
  BY <1>3 DEF LeavesQuiet, Returning, On
<1>9. PaysOwed(t)
  <2>1. NoInvoice \notin Invoices /\ \A l \in cils : l.invoice \in Invoices
    BY CilFields DEF NoInvoice, Invoices, IInv, TypeOK
  <2> QED
    BY <1>3, <2>1 DEF PaysOwed
<1>10. TxnRelease(t)
  BY <1>6, <1>7, <1>8, <1>9 DEF TxnRelease
<1> QED
  BY <1>1, <1>3, <1>10, BegunRelease

\* A reversal returns the latest group of an invoice as a whole.
LEMMA ReversePaymentRelease ==
    ASSUME IInv, LinksInv, ReleaseInv, NEW sn \in ShortNames,
           NEW s \in Statements, ReversePayment(sn, s), UNCHANGED jobVars
    PROVE  ReleaseInv'
<1>1. PICK t, todo :
        /\ Reverses(sn, s, todo)
        /\ t = Started(NewTxn(sn), active, todo, "PENDING_REFUND",
                       {}, 0, 0, inv, refunds)
        /\ BeginGroup(t)
  BY ReversePaymentTodo
<1>2. AtStart(t, sn, todo, "PENDING_REFUND", {}, 0, 0, inv, refunds)
  BY <1>1, StartsAt
<1>3. /\ t.todo = todo /\ t.mode = "PENDING_REFUND" /\ t.due = {}
      /\ t.cur = NoInvoice /\ t.cils = cils /\ t.inv = inv
  BY <1>2 DEF AtStart
<1>4. \A l \in todo :
        /\ l \in cils /\ Payer(l) = sn /\ Newest(cils, l)
        /\ l.status = "COMPLETED" /\ inv[l.invoice].status = "PAID"
        /\ StatementOf[l.invoice] = s
  BY <1>1 DEF Reverses, ReversibleLinks, Payer, Newest, LinksOf
<1>5. Released(cils, {}, inv) /\ cils \in SUBSET Cil
  BY DEF ReleaseInv, IInv, TypeOK
<1>6. Released(t.cils, t.todo, t.inv)
  <2>1. todo \in SUBSET cils /\ \A l \in todo : InForce(cils, l)
    BY <1>4 DEF InForce
  <2>2. Released(cils, todo, inv)
    BY <1>5, <2>1, TodoReleased
  <2> QED
    BY <1>3, <2>2
<1>7. ASSUME NEW l \in todo, NEW m \in On(cils, l.invoice), Newest(cils, m)
      PROVE  m \in todo
  <2>1. l \in cils /\ m \in cils /\ l.invoice = m.invoice
    BY <1>4 DEF On
  <2>2. m.status = "COMPLETED" /\ Payer(m) = sn
    BY <1>4, <1>7, <2>1, NewestAlike
  <2>3. \A k \in LinksOf(m.invoice) : k.group <= m.group
    BY <1>7 DEF Newest, LinksOf
  <2> QED
    BY <1>1, <1>4, <2>1, <2>2, <2>3 DEF Reverses, ReversibleLinks, Payer
<1>8. WholeWork(t)
  <2>1. \A l \in todo : \A m \in On(cils, l.invoice) :
          InForce(cils, m) => m \in todo
    BY <1>7 DEF InForce
  <2>2. \A l \in todo : ~Owed(inv[l.invoice])
    BY <1>4 DEF Owed
  <2>3. \A l \in todo : \A m \in On(cils, l.invoice) :
          m.status # "PENDING_REFUND"
    <3> SUFFICES ASSUME NEW l \in todo, NEW m \in On(cils, l.invoice),
                        m.status = "PENDING_REFUND"
                 PROVE  FALSE
      OBVIOUS
    <3>1. Newest(cils, m)
      BY <1>5 DEF Released, Waits, On
    <3> QED
      BY <1>4, <1>7, <3>1
  <2> QED
    BY <1>3, <2>1, <2>2, <2>3 DEF WholeWork
<1>9. LeavesQuiet(t)
  <2>1. ASSUME NEW i \in Invoices, Quiet(cils, inv[i], i)
        PROVE  On(todo, i) = {}
    BY <1>4, <2>1 DEF Quiet, On
  <2> QED
    BY <1>3, <2>1 DEF LeavesQuiet, On
<1>10. PaysOwed(t)
  <2>1. NoInvoice \notin Invoices /\ \A l \in cils : l.invoice \in Invoices
    BY CilFields DEF NoInvoice, Invoices, IInv, TypeOK
  <2> QED
    BY <1>3, <2>1 DEF PaysOwed
<1>11. TxnRelease(t)
  BY <1>6, <1>8, <1>9, <1>10 DEF TxnRelease
<1> QED
  BY <1>1, <1>3, <1>11, BegunRelease

\* A refund of an invoice with its latest link takes over the latest group, if
\* that is in force.
TakesOver(t, i, latest) ==
    /\ latest \in LinksOf(i) /\ IsLatest(latest)
    /\ t.cils = cils /\ t.due = {} /\ t.cur = NoInvoice
    /\ t.todo = IF latest.status \in {"PENDING", "COMPLETED"}
                THEN GroupOf(i, latest) ELSE {}
    /\ \A j \in Invoices \ {i} : t.inv[j] = inv[j]
    /\ t.inv[i].requested
    /\ \/ /\ t.mode = IF latest.status = "PENDING" THEN "REGROUP"
                      ELSE "PENDING_REFUND"
          /\ t.inv[i].status = "REFUND_REQUESTED"
          /\ t.inv[i].memo = inv[i].memo
       \/ /\ t.mode = "REFUNDED"
          /\ t.inv[i].status \in {"CREDITED", "PAID"}
          /\ t.inv[i].memo > 0
          /\ \A l \in LinksOf(i) : l.status = "COMPLETED"

LEMMA RefundTakesOver ==
    ASSUME IInv, NEW i \in Invoices, RefundLinkedInvoice(i)
    PROVE  \E t, latest : BeginGroup(t) /\ TakesOver(t, i, latest)
<1>1. PICK latest \in LinksOf(i) :
        /\ IsLatest(latest)
        /\ BeginGroup([NewTxn(DepositedBy[latest.credit]) EXCEPT
              !.inv[i].requested = TRUE,
              !.inv[i].refund = Total[i],
              !.inv[i].status = "REFUND_REQUESTED",
              !.mode = IF latest.status = "PENDING" THEN "REGROUP"
                       ELSE "PENDING_REFUND",
              !.todo = IF latest.status \in {"PENDING", "COMPLETED"}
                       THEN GroupOf(i, latest) ELSE {}])
  BY ZenonT(40) DEF RefundLinkedInvoice, GroupOf
<1> DEFINE sn == DepositedBy[latest.credit]
           n == NewTxn(sn)
           mode == IF latest.status = "PENDING" THEN "REGROUP"
                   ELSE "PENDING_REFUND"
           todo == IF latest.status \in {"PENDING", "COMPLETED"}
                   THEN GroupOf(i, latest) ELSE {}
           t == [n EXCEPT !.inv[i].requested = TRUE,
                          !.inv[i].refund = Total[i],
                          !.inv[i].status = "REFUND_REQUESTED",
                          !.mode = mode, !.todo = todo]
<1>2. BeginGroup(t)
  BY <1>1
<1>3. n \in Txn /\ n.inv = inv /\ n.cils = cils /\ n.due = {} /\ n.cur = NoInvoice
  <2>1. sn \in ShortNames
    BY DepositorType DEF LinksOf
  <2>2. n \in Txn /\ n.inv = inv /\ n.due = {}
    BY <2>1, NewTxnFields
  <2> QED
    BY <2>2 DEF NewTxn
<1>4. inv \in [Invoices -> Invoice] /\ inv[i] \in Invoice
  BY TablesType
<1> HIDE DEF n, mode, todo
<1>5. /\ t.inv = [inv EXCEPT ![i].requested = TRUE, ![i].refund = Total[i],
                             ![i].status = "REFUND_REQUESTED"]
      /\ t.cils = cils /\ t.due = {} /\ t.cur = NoInvoice
      /\ t.mode = mode /\ t.todo = todo
  BY <1>3 DEF Txn
<1> HIDE DEF t
<1>6. /\ t.inv[i].status = "REFUND_REQUESTED" /\ t.inv[i].memo = inv[i].memo
      /\ t.inv[i].requested
      /\ \A j \in Invoices \ {i} : t.inv[j] = inv[j]
  BY <1>4, <1>5 DEF Invoice
<1>7. TakesOver(t, i, latest)
  BY <1>1, <1>5, <1>6 DEF TakesOver, mode, todo
<1> QED
  BY <1>2, <1>7

LEMMA PartialTakesOver ==
    ASSUME IInv, NEW i \in Invoices, NEW x \in PartialAmounts,
           PartialRefund(i, x)
    PROVE  \E t, latest : BeginGroup(t) /\ TakesOver(t, i, latest)
<1> DEFINE status == IF x = Total[i] THEN "CREDITED" ELSE "PAID"
<1>1. PICK latest \in LinksOf(i) :
        /\ IsLatest(latest)
        /\ BeginGroup([NewTxn(DepositedBy[latest.credit]) EXCEPT
              !.inv[i].requested = TRUE, !.inv[i].refund = x,
              !.inv[i].memo = x, !.inv[i].status = status,
              !.mode = "REFUNDED", !.todo = GroupOf(i, latest)])
  BY ZenonT(40) DEF PartialRefund, GroupOf
<1> DEFINE sn == DepositedBy[latest.credit]
           n == NewTxn(sn)
           todo == GroupOf(i, latest)
           t == [n EXCEPT !.inv[i].requested = TRUE, !.inv[i].refund = x,
                          !.inv[i].memo = x, !.inv[i].status = status,
                          !.mode = "REFUNDED", !.todo = todo]
<1>2. BeginGroup(t)
  BY <1>1
<1>3. n \in Txn /\ n.inv = inv /\ n.cils = cils /\ n.due = {} /\ n.cur = NoInvoice
  <2>1. sn \in ShortNames
    BY DepositorType DEF LinksOf
  <2>2. n \in Txn /\ n.inv = inv /\ n.due = {}
    BY <2>1, NewTxnFields
  <2> QED
    BY <2>2 DEF NewTxn
<1>4. inv \in [Invoices -> Invoice] /\ inv[i] \in Invoice
  BY TablesType
<1>5. /\ status \in {"CREDITED", "PAID"} /\ x > 0
      /\ \A l \in LinksOf(i) : l.status = "COMPLETED"
  BY DEF PartialRefund
<1> HIDE DEF n, status, todo
<1>6. /\ t.inv = [inv EXCEPT ![i].requested = TRUE, ![i].refund = x,
                             ![i].memo = x, ![i].status = status]
      /\ t.cils = cils /\ t.due = {} /\ t.cur = NoInvoice
      /\ t.mode = "REFUNDED" /\ t.todo = todo
  BY <1>3 DEF Txn
<1> HIDE DEF t
<1>7. /\ t.inv[i].status = status /\ t.inv[i].memo = x /\ t.inv[i].requested
      /\ \A j \in Invoices \ {i} : t.inv[j] = inv[j]
  BY <1>4, <1>6 DEF Invoice
<1>8. latest.status = "COMPLETED"
  BY <1>1, <1>5
<1>9. TakesOver(t, i, latest)
  BY <1>1, <1>5, <1>6, <1>7, <1>8 DEF TakesOver, todo
<1> QED
  BY <1>2, <1>9

LEMMA TakesOverRelease ==
    ASSUME IInv, LinksInv, ReleaseInv, NEW i \in Invoices, Refundable(i),
           NEW t, NEW latest, TakesOver(t, i, latest)
    PROVE  TxnRelease(t)
<1>1. Released(cils, {}, inv) /\ cils \in SUBSET Cil /\ inv[i] \in Invoice
  BY TablesType DEF ReleaseInv
<1>2. /\ latest \in cils /\ latest.invoice = i /\ Newest(cils, latest)
      /\ \A l \in GroupOf(i, latest) :
           l \in cils /\ l.invoice = i /\ Newest(cils, l) /\ l.status = latest.status
  <2>1. /\ latest \in LinksOf(i) /\ IsLatest(latest)
    BY DEF TakesOver
  <2>2. latest \in GroupOf(i, latest)
    BY <2>1 DEF GroupOf
  <2> QED
    BY <2>1, <2>2, LatestGroup DEF GroupOf, LinksOf, Newest
<1>3. ~Gone(inv[i]) /\ inv[i].memo = 0
  <2>1. inv[i].memo \in Nat /\ ~inv[i].requested
    BY <1>1 DEF Invoice, Refundable
  <2>2. inv[i].memo > 0 => inv[i].requested
    BY <1>1 DEF Released, RowSays
  <2> QED
    BY <2>1, <2>2 DEF Refundable, Gone
<1>4. t.inv[i].memo = 0 \/ t.inv[i].memo > 0
  BY <1>3 DEF TakesOver
<1>5. ASSUME NEW m \in On(cils, i), Newest(cils, m)
      PROVE  m.group = latest.group /\ m.status = latest.status
             /\ m \in GroupOf(i, latest)
  BY <1>2, <1>5, NewestAlike DEF On, GroupOf, LinksOf
<1>6. t.todo \in SUBSET cils /\ \A l \in t.todo : l.invoice = i /\ InForce(cils, l)
  BY <1>2 DEF TakesOver, InForce
<1>7. \A m \in On(cils, i) : InForce(cils, m) => m \in t.todo
  BY <1>5 DEF InForce, TakesOver
<1>8. Released(t.cils, t.todo, t.inv)
  <2>1. Released(cils, t.todo, inv)
    BY <1>1, <1>6, TodoReleased
  <2>2. Nets(cils, t.todo, t.inv)
    BY <1>3, <2>1 DEF Released, Nets, TakesOver
  <2>3. RowSays(cils, t.todo, t.inv[i], i)
    BY <1>3, <1>7 DEF TakesOver, RowSays, Gone, Owed
  <2>4. \A j \in Invoices : RowSays(cils, t.todo, t.inv[j], j)
    BY <2>1, <2>3 DEF Released, TakesOver
  <2> QED
    BY <2>1, <2>2, <2>4 DEF Released, TakesOver
<1>9. ~Owed(t.inv[i])
  BY DEF TakesOver, Owed
<1>10. WholeWork(t)
  <2>1. \A l \in t.todo : \A m \in On(cils, l.invoice) :
          InForce(cils, m) => m \in t.todo
    BY <1>6, <1>7
  <2>2. \A l \in t.todo : ~Owed(t.inv[l.invoice])
    BY <1>6, <1>9
  <2>3. t.mode = "REFUNDED" => \A l \in t.todo : t.inv[l.invoice].memo # 0
    BY <1>4, <1>6 DEF TakesOver
  <2>4. ASSUME NEW l \in t.todo, NEW m \in On(cils, l.invoice),
               m.status = "PENDING_REFUND"
        PROVE  FALSE
    <3>1. Newest(cils, m) /\ m \in On(cils, i)
      BY <1>1, <1>6, <2>4 DEF Released, Waits, On
    <3>2. latest.status = "PENDING_REFUND"
      BY <1>5, <2>4, <3>1
    <3> QED
      BY <2>4, <3>2 DEF TakesOver
  <2> QED
    BY <2>1, <2>2, <2>3, <2>4 DEF WholeWork, TakesOver
<1>11. LeavesQuiet(t)
  <2>1. ASSUME NEW j \in Invoices, Gone(inv[j])
        PROVE  t.inv[j].status = inv[j].status
    BY <1>3, <2>1 DEF TakesOver
  <2>2. ASSUME NEW j \in Invoices, Quiet(cils, inv[j], j)
        PROVE  /\ Quiet(cils, t.inv[j], j)
               /\ Returning(t) => On(t.todo, j) = {}
    <3>1. CASE j # i
      <4>1. t.inv[j] = inv[j] /\ On(t.todo, j) = {}
        BY <1>6, <3>1 DEF TakesOver, On
      <4> QED
        BY <2>2, <4>1
    <3>2. CASE j = i
      <4>1. latest.status # "COMPLETED"
        BY <1>2, <2>2, <3>2 DEF Quiet, On
      <4>2. Returning(t) => t.todo = {}
        BY <4>1 DEF TakesOver, Returning
      <4>3. Quiet(cils, t.inv[i], i)
        BY <1>9, <2>2, <3>2 DEF Quiet
      <4> QED
        BY <3>2, <4>2, <4>3 DEF On
    <3> QED
      BY <3>1, <3>2
  <2> QED
    BY <2>1, <2>2 DEF LeavesQuiet, On, TakesOver
<1>12. PaysOwed(t)
  <2>1. NoInvoice \notin Invoices /\ \A l \in cils : l.invoice \in Invoices
    BY CilFields DEF NoInvoice, Invoices, IInv, TypeOK
  <2> QED
    BY <2>1 DEF PaysOwed, TakesOver
<1> QED
  BY <1>8, <1>10, <1>11, <1>12 DEF TxnRelease

LEMMA RefundRelease ==
    ASSUME IInv, LinksInv, ReleaseInv, NEW i \in Invoices,
           \/ RefundLinkedInvoice(i)
           \/ \E x \in PartialAmounts : PartialRefund(i, x),
           UNCHANGED jobVars
    PROVE  ReleaseInv'
<1>1. PICK t, latest : BeginGroup(t) /\ TakesOver(t, i, latest)
  BY RefundTakesOver, PartialTakesOver
<1>2. Refundable(i)
  BY ZenonT(40) DEF RefundLinkedInvoice, PartialRefund
<1>3. TxnRelease(t) /\ t.cils = cils
  BY <1>1, <1>2, TakesOverRelease DEF TakesOver
<1> QED
  BY <1>1, <1>3, BegunRelease

-----------------------------------------------------------------------------
(* Steps of the tables.                                                    *)

\* A row that says of the links what the old one did, or what holds of them.
KeepsRelease(row, i) ==
    \/ row = inv[i]
    \/ /\ ~Gone(inv[i]) /\ row.memo = inv[i].memo
       /\ Owed(row) => Owed(inv[i])
       /\ RowSays(cils, {}, row, i)

LEMMA RowsRelease ==
    ASSUME IInv, ReleaseInv, Idle, UNCHANGED <<cils, txn, job>>,
           \A i \in Invoices : KeepsRelease(inv'[i], i)
    PROVE  ReleaseInv'
<1>1. /\ job \in Job /\ \A k \in job.todo : k.invoice \in Invoices
      /\ job.cur # NoItem => job.cur.key.invoice \in Invoices
  BY JobTables DEF Job, Item, RollupKey
<1>2. Released(cils, {}, inv) /\ ListRelease /\ ItemOn(cils) /\ txn = NoTxn
  BY DEF ReleaseInv, Idle
<1>3. \A i \in Invoices : Gone(inv[i]) => inv'[i] = inv[i]
  BY DEF KeepsRelease
<1>4. Released(cils, {}, inv')
  <2>1. Nets(cils, {}, inv')
    BY <1>2 DEF Released, Nets, KeepsRelease
  <2>2. \A i \in Invoices : RowSays(cils, {}, inv'[i], i)
    BY <1>2 DEF Released, KeepsRelease
  <2> QED
    BY <1>2, <2>1, <2>2 DEF Released
<1>5. Released(cils, {}, inv)'
  BY <1>4
<1>6. ListRelease'
  <2>1. \A k \in job.todo : Gone(inv[k.invoice])
                              => inv'[k.invoice] = inv[k.invoice]
    BY <1>1, <1>3
  <2> QED
    BY <1>2, <2>1 DEF ListRelease, Gone, InReturn
<1>7. ItemOn(cils)'
  BY <1>2 DEF ItemOn
<1>8. ASSUME job.phase \in {"REVERSE", "UNLINKED"}, job.cur # NoItem
      PROVE  ReverseRelease(job.cur.key.invoice)'
  <2> DEFINE i == job.cur.key.invoice
  <2>1. i \in Invoices
    BY <1>1, <1>8
  <2> HIDE DEF i
  <2>2. ReverseRelease(i)
    BY <1>8 DEF ReleaseInv, i
  <2>3. Gone(inv[i]) => Gone(inv'[i])
    BY <1>3, <2>1
  <2>4. Quiet(cils, inv[i], i) => Quiet(cils, inv'[i], i)
    BY <2>1 DEF Quiet, KeepsRelease
  <2>5. ReverseRelease(i)'
    BY <2>2, <2>3, <2>4 DEF ReverseRelease, AllReturns, LastKey, i
  <2> QED
    BY <2>5 DEF i
<1> QED
  BY <1>2, <1>5, <1>6, <1>7, <1>8 DEF ReleaseInv

LEMMA SetInvoiceRelease ==
    ASSUME IInv, ReleaseInv, Idle, UNCHANGED jobVars, NEW i \in Invoices,
           NEW row, SetInvoice(i, row), KeepsRelease(row, i)
    PROVE  ReleaseInv'
<1>1. UNCHANGED <<cils, txn, job>> /\ inv' = [inv EXCEPT ![i] = row]
  BY DEF SetInvoice, jobVars
<1>2. \A j \in Invoices : KeepsRelease(inv'[j], j)
  BY <1>1, TablesType DEF KeepsRelease
<1> QED
  BY <1>1, <1>2, RowsRelease

LEMMA OtherRequestRelease ==
    ASSUME IInv, ReleaseInv, Idle, UNCHANGED jobVars,
           \/ CreateCredit
           \/ \E i \in Invoices : CreateInvoice(i) \/ RefundUnlinkedInvoice(i)
           \/ \E s \in Statements : GenerateStatement(s)
           \/ \E sn \in ShortNames, a \in Accounts : PatchShortNameLink(sn, a)
           \/ \E r \in Refunds : ApproveShortNameRefund(r)
    PROVE  ReleaseInv'
<1>1. ASSUME UNCHANGED <<cils, txn, inv>>
      PROVE  ReleaseInv'
  <2>1. UNCHANGED <<cils, txn, job>>
        /\ \A i \in Invoices : KeepsRelease(inv'[i], i)
    BY <1>1 DEF KeepsRelease, jobVars
  <2> QED
    BY <2>1, RowsRelease
<1>2. ASSUME NEW i \in Invoices, CreateInvoice(i)
      PROVE  ReleaseInv'
  <2>1. inv[i] \in Invoice /\ inv[i].status = "NOT_CREATED"
    BY <1>2, TablesType DEF CreateInvoice
  <2> DEFINE row == [inv[i] EXCEPT !.status = "APPROVED"]
  <2>2. SetInvoice(i, row)
    BY <1>2 DEF CreateInvoice
  <2>3. /\ row.memo = inv[i].memo /\ row.status = "APPROVED"
        /\ row.requested = inv[i].requested
    BY <2>1 DEF Invoice
  <2> HIDE DEF row
  <2>4. RowSays(cils, {}, inv[i], i)
    BY DEF ReleaseInv, Released
  <2>5. KeepsRelease(row, i)
    BY <2>1, <2>3, <2>4 DEF KeepsRelease, RowSays, Gone, Owed
  <2> QED
    BY <2>2, <2>5, SetInvoiceRelease
<1>3. ASSUME NEW i \in Invoices, RefundUnlinkedInvoice(i)
      PROVE  ReleaseInv'
  <2>1. /\ inv[i] \in Invoice /\ LinksOf(i) = {} /\ Refundable(i)
        /\ inv[i].memo \in Nat
    BY <1>3, TablesType, ZenonT(40) DEF RefundUnlinkedInvoice, Invoice
  <2> DEFINE row == [inv[i] EXCEPT !.requested = TRUE, !.refund = Total[i],
                                   !.status = UnlinkedStatus(i)]
  <2>2. SetInvoice(i, row)
    BY <1>3, ZenonT(40) DEF RefundUnlinkedInvoice
  <2>3. /\ row.memo = inv[i].memo /\ row.status = UnlinkedStatus(i)
        /\ row.requested
    BY <2>1 DEF Invoice
  <2> HIDE DEF row
  <2>4. row.status \in {"CANCELLED", "REFUND_REQUESTED"}
    BY <2>3 DEF UnlinkedStatus
  <2>5. inv[i].memo = 0
    BY <2>1 DEF ReleaseInv, Released, RowSays, Refundable
  <2>6. On(cils, i) = {} /\ ~Gone(inv[i])
    BY <2>1 DEF On, LinksOf, Refundable, Gone
  <2>7. KeepsRelease(row, i)
    BY <2>3, <2>4, <2>5, <2>6 DEF KeepsRelease, RowSays, Owed
  <2> QED
    BY <2>2, <2>7, SetInvoiceRelease
<1>4. CASE CreateCredit
  BY <1>1, <1>4 DEF CreateCredit
<1>5. CASE \E s \in Statements : GenerateStatement(s)
  BY <1>1, <1>5 DEF GenerateStatement
<1>6. CASE \E sn \in ShortNames, a \in Accounts : PatchShortNameLink(sn, a)
  BY <1>1, <1>6 DEF PatchShortNameLink
<1>7. CASE \E r \in Refunds : ApproveShortNameRefund(r)
  BY <1>1, <1>7 DEF ApproveShortNameRefund
<1> QED
  BY <1>2, <1>3, <1>4, <1>5, <1>6, <1>7

LEMMA RequestRelease ==
    ASSUME IInv, LinksInv, ReleaseInv, Request, UNCHANGED jobVars
    PROVE  ReleaseInv'
<1>1. Idle
  BY DEF Request
<1>2. ASSUME NEW sn \in ShortNames, NEW a \in Accounts,
             \/ CreateShortNameLink(sn, a)
             \/ \E S \in StatementChoice :
                  ApplyPayment(sn, a, S) \/ CancelPayment(sn, a, S)
      PROVE  ReleaseInv'
  BY <1>2, CreateShortNameLinkRelease, ApplyPaymentRelease,
     CancelPaymentRelease
<1>3. CASE \E sn \in ShortNames, s \in Statements : ReversePayment(sn, s)
  BY <1>3, ReversePaymentRelease
<1>4. CASE \E i \in Invoices : \/ RefundLinkedInvoice(i)
                               \/ \E x \in PartialAmounts : PartialRefund(i, x)
  BY <1>4, RefundRelease
<1>5. CASE \E r \in Refunds : \/ \E sn \in ShortNames, x \in RefundAmounts :
                                   CreateShortNameRefund(r, sn, x)
                              \/ DeclineShortNameRefund(r)
  BY <1>5, ShortNameRefundRelease
<1>6. CASE \/ CreateCredit
           \/ \E i \in Invoices : CreateInvoice(i) \/ RefundUnlinkedInvoice(i)
           \/ \E s \in Statements : GenerateStatement(s)
           \/ \E sn \in ShortNames, a \in Accounts : PatchShortNameLink(sn, a)
           \/ \E r \in Refunds : ApproveShortNameRefund(r)
  BY <1>1, <1>6, OtherRequestRelease
<1> QED
  BY <1>2, <1>3, <1>4, <1>5, <1>6 DEF Request

LEMMA StatementDueRelease ==
    ASSUME IInv, ReleaseInv, Idle, StatementDueJob
    PROVE  ReleaseInv'
<1>1. UNCHANGED <<cils, txn, job>>
  BY DEF StatementDueJob
<1>2. ASSUME NEW i \in Invoices
      PROVE  KeepsRelease(inv'[i], i)
  <2>1. inv[i] \in Invoice
    BY TablesType
  <2>2. inv'[i] = inv[i] \/ /\ inv[i].status \in {"APPROVED", "OVERDUE"}
                            /\ inv'[i] = [inv[i] EXCEPT !.status = "OVERDUE"]
    BY DEF StatementDueJob, NowOverdue, Unpaid
  <2>3. CASE /\ inv[i].status \in {"APPROVED", "OVERDUE"}
             /\ inv'[i] = [inv[i] EXCEPT !.status = "OVERDUE"]
    <3>1. /\ inv'[i].memo = inv[i].memo /\ inv'[i].status = "OVERDUE"
          /\ inv'[i].requested = inv[i].requested
      BY <2>1, <2>3 DEF Invoice
    <3>2. RowSays(cils, {}, inv[i], i)
      BY DEF ReleaseInv, Released
    <3> QED
      BY <2>3, <3>1, <3>2 DEF KeepsRelease, RowSays, Gone, Owed
  <2> QED
    BY <2>2, <2>3 DEF KeepsRelease
<1> QED
  BY <1>1, <1>2, RowsRelease

-----------------------------------------------------------------------------
(* Steps of the job.                                                       *)

\* A step of the job that writes no table of ours.
LEMMA JobStepRelease ==
    ASSUME ReleaseInv, Idle, UNCHANGED <<cils, inv, txn>>,
           ListRelease', ItemOn(cils)',
           job'.phase \in {"REVERSE", "UNLINKED"} /\ job'.cur # NoItem
             => ReverseRelease(job.cur.key.invoice)'
    PROVE  ReleaseInv'
<1>1. Released(cils, {}, inv)' /\ txn' = NoTxn
  BY DEF ReleaseInv, Idle
<1> QED
  BY <1>1 DEF ReleaseInv

\* The queries.
LEMMA QueriedRelease ==
    ASSUME IInv, LinksInv, ReleaseInv, Idle,
           (EftJobStart \/ UnlinkedJobStart \/ EftJobEnd \/ JobDies)
             \/ UnlockOverdueAccounts
    PROVE  ReleaseInv'
<1>1. UNCHANGED <<cils, inv, txn>>
  BY DEF EftJobStart, UnlinkedJobStart, EftJobEnd, JobDies, WithinJob, eftVars,
     UnlockOverdueAccounts
<1>2. \/ job' = Queried("LINK", ToLink)
      \/ job' = Queried("REVERSE", ToReverse)
      \/ job' = Queried("UNLINKED", Unlinked)
      \/ job' = IdleJob
  BY DEF EftJobStart, UnlinkedJobStart, EftJobEnd, JobDies,
     UnlockOverdueAccounts
<1>3. job'.cur = NoItem
  BY <1>2, QueriedFields DEF IdleJob
<1>4. job'.phase = "REVERSE" => \A k \in job'.todo : k.status = "CANCELLED" =>
        /\ k.receipt = NoReceipt
        /\ inv[k.invoice].status = "REFUND_REQUESTED"
  <2> SUFFICES ASSUME job'.phase = "REVERSE"
               PROVE  \A k \in job'.todo : k.status = "CANCELLED" =>
                        /\ k.receipt = NoReceipt
                        /\ inv[k.invoice].status = "REFUND_REQUESTED"
    OBVIOUS
  <2>1. job'.todo = ToReverse
    BY <1>2, QueriedFields DEF IdleJob
  <2>2. ASSUME NEW k \in ToReverse, k.status = "CANCELLED"
        PROVE  /\ k.receipt = NoReceipt
               /\ inv[k.invoice].status = "REFUND_REQUESTED"
    <3>1. RolledUp(k) # {} /\ inv[k.invoice].status = "REFUND_REQUESTED"
      BY <2>2 DEF ToReverse, Rollups, InRollup
    <3>2. PICK l \in cils : l.status = "CANCELLED" /\ l.receipt = k.receipt
      BY <2>2, <3>1 DEF RolledUp
    <3> QED
      BY <3>1, <3>2 DEF LinksInv, Links, Receipted
  <2> QED
    BY <2>1, <2>2
<1>5. job'.phase = "UNLINKED" => \A k \in job'.todo : Gone(inv[k.invoice])
  <2> SUFFICES ASSUME job'.phase = "UNLINKED", NEW k \in job'.todo
               PROVE  Gone(inv[k.invoice])
    OBVIOUS
  <2>1. job'.todo = Unlinked
    BY <1>2, QueriedFields DEF IdleJob
  <2> QED
    BY <2>1 DEF Unlinked, RefundKey, Gone
<1>6. ListRelease'
  BY <1>1, <1>4, <1>5 DEF ListRelease
<1>7. ItemOn(cils)'
  BY <1>3 DEF ItemOn
<1> QED
  BY <1>1, <1>3, <1>6, <1>7, JobStepRelease

\* Returns that wait for an invoice are all of one receipt.
LEMMA ReturnsTogether ==
    ASSUME IInv, LinksInv, ReleaseInv, NEW k \in RollupKey,
           k.status = "PENDING_REFUND", InRollup(k), NEW item, item = ItemOf(k)
    PROVE  /\ InReturn(cils, k.invoice)
           /\ \A l \in On(cils, k.invoice) :
                l.status = "PENDING_REFUND" => l.id \in item.ids
           /\ ~item.refunding => Quiet(cils, inv[k.invoice], k.invoice)
<1>1. PICK m \in cils : /\ m.invoice = k.invoice
                        /\ m.status = "PENDING_REFUND"
                        /\ m.receipt = k.receipt
  BY DEF InRollup, RolledUp
<1>2. k.invoice \in Invoices
  BY DEF RollupKey
<1>3. \A l \in cils : l.status = "PENDING_REFUND" => Newest(cils, l)
  BY DEF ReleaseInv, Released, Waits
<1>4. \A l \in cils : l.invoice = k.invoice /\ Newest(cils, l)
        => l.status = "PENDING_REFUND" /\ l.receipt = k.receipt
  BY <1>1, <1>3, NewestAlike
<1>5. \A l \in On(cils, k.invoice) :
        l.status = "PENDING_REFUND" => l.id \in item.ids
  <2>1. item.ids = {l.id : l \in RolledUp(k)}
    BY ItemOfType
  <2> QED
    BY <1>3, <1>4, <2>1 DEF On, RolledUp
<1>6. Quiet(cils, inv[k.invoice], k.invoice)
  <2>1. ~Owed(inv[k.invoice])
    BY <1>1, <1>2, <1>3 DEF ReleaseInv, Released, RowSays, On
  <2> QED
    BY <1>4, <2>1 DEF Quiet, On
<1> QED
  BY <1>1, <1>5, <1>6 DEF InReturn

\* What the job knows of an item to reverse.
LEMMA ReverseItemKnows ==
    ASSUME IInv, LinksInv, ReleaseInv, job.phase = "REVERSE",
           NEW k \in job.todo, InRollup(k), NEW item, item = ItemOf(k)
    PROVE  /\ item.refunding => Gone(inv[k.invoice])
           /\ ~item.refunding =>
                /\ Quiet(cils, inv[k.invoice], k.invoice)
                /\ \A l \in On(cils, k.invoice) :
                     l.status = "PENDING_REFUND" => l.id \in item.ids
                /\ \A j \in job.todo \ {k} :
                     j.invoice = k.invoice => j.status # "CANCELLED"
           /\ \/ \A l \in On(cils, k.invoice) :
                   l.status = "PENDING_REFUND" => l.id \in item.ids
              \/ \A j \in job.todo \ {k} :
                   j.invoice = k.invoice => j.status # "CANCELLED"
<1>1. /\ job.todo \subseteq RollupKey /\ k \in RollupKey /\ ListRelease
      /\ k.status \in {"PENDING_REFUND", "CANCELLED"}
      /\ k.invoice \in Invoices
  BY JobTables DEF Job, RollupKey, ReleaseInv, LinksInv, JobTodo
<1>2. item.refunding <=> inv[k.invoice].status = "REFUND_REQUESTED"
  BY DEF ItemOf
<1>3. item.refunding => Gone(inv[k.invoice])
  BY <1>2 DEF Gone
<1>4. CASE k.status = "PENDING_REFUND"
  <2>1. /\ InReturn(cils, k.invoice)
        /\ \A l \in On(cils, k.invoice) :
             l.status = "PENDING_REFUND" => l.id \in item.ids
        /\ ~item.refunding => Quiet(cils, inv[k.invoice], k.invoice)
    BY <1>1, <1>4, ReturnsTogether
  <2>2. ~item.refunding => \A j \in job.todo \ {k} :
          j.invoice = k.invoice => j.status # "CANCELLED"
    BY <1>1, <1>2, <2>1 DEF ListRelease
  <2> QED
    BY <1>3, <2>1, <2>2
<1>5. CASE k.status = "CANCELLED"
  <2>1. \A j \in job.todo \ {k} : j.invoice = k.invoice => j.status # "CANCELLED"
    BY <1>1, <1>5 DEF ListRelease, RollupKey
  <2>2. ~item.refunding =>
          Gone(inv[k.invoice]) /\ ~InReturn(cils, k.invoice)
    BY <1>1, <1>2, <1>5 DEF ListRelease
  <2>3. ~item.refunding => Quiet(cils, inv[k.invoice], k.invoice)
    BY <1>1, <2>2, GoneIsQuiet DEF ReleaseInv
  <2>4. ~item.refunding => \A l \in On(cils, k.invoice) :
          l.status = "PENDING_REFUND" => l.id \in item.ids
    BY <2>2 DEF InReturn, On
  <2> QED
    BY <1>3, <2>1, <2>3, <2>4
<1> QED
  BY <1>1, <1>4, <1>5

LEMMA ItemStartsRelease ==
    ASSUME IInv, LinksInv, ReleaseInv, Idle, WithinJob,
           NEW k \in job.todo, ItemStarts(k)
    PROVE  ReleaseInv'
<1>1. UNCHANGED <<cils, inv, txn>>
  BY DEF WithinJob, eftVars
<1>2. k \in RollupKey /\ job.cur = NoItem /\ k.invoice \in Invoices
  BY ItemStartSteps DEF RollupKey
<1>3. PICK item :
        /\ \/ job' = Noted(k)
           \/ job' = [Noted(k) EXCEPT !.cur = item]
           \/ job' = IdleJob
        /\ job' = [Noted(k) EXCEPT !.cur = item] =>
             \/ item = ItemOf(k) /\ job.phase \in {"LINK", "REVERSE"}
             \/ item = UnlinkedItemOf(k) /\ job.phase = "UNLINKED"
  <2>1. \/ job' = Noted(k)
        \/ /\ job' = [Noted(k) EXCEPT !.cur = ItemOf(k)]
           /\ job.phase \in {"LINK", "REVERSE"}
        \/ /\ job' = [Noted(k) EXCEPT !.cur = UnlinkedItemOf(k)]
           /\ job.phase = "UNLINKED"
        \/ job' = IdleJob
    BY ItemStartSteps
  <2> DEFINE noted == Noted(k)
             linked == ItemOf(k)
             unlinked == UnlinkedItemOf(k)
  <2>2. noted \in Job /\ noted.cur = NoItem
    BY <1>2, NotedType
  <2>3. linked.key = k /\ linked \in Item /\ NoItem \notin Item
    BY <1>2, ItemOfType, JobTables
  <2> HIDE DEF noted, linked, unlinked
  <2>4. \A x : job' = [noted EXCEPT !.cur = x] => job'.cur = x
    BY <2>2 DEF Job
  <2> QED
    BY <2>1, <2>4 DEF noted, linked, unlinked
<1>4. /\ job'.todo \subseteq job.todo \ {k}
      /\ job'.phase \in {job.phase, "IDLE"}
      /\ \/ job'.cur = NoItem
         \/ job'.cur = item /\ job' = [Noted(k) EXCEPT !.cur = item]
  BY <1>2, <1>3, LooksAt
<1>5. job'.cur # NoItem =>
        /\ job'.cur = item
        /\ \/ item = ItemOf(k) /\ job.phase \in {"LINK", "REVERSE"}
           \/ item = UnlinkedItemOf(k) /\ job.phase = "UNLINKED"
  BY <1>3, <1>4
<1>6. item = ItemOf(k) =>
        item.key = k /\ item.ids = {l.id : l \in RolledUp(k)}
  BY <1>2, ItemOfType
<1>7. item = UnlinkedItemOf(k) =>
        item.key = k /\ item.refunding /\ item.ids = {}
  <2>1. ItemOf(k) \in Item /\ ItemOf(k).key = k
    BY <1>2, ItemOfType
  <2> QED
    BY <2>1 DEF UnlinkedItemOf, Item
<1>8. ListRelease'
  <2>1. ListRelease
    BY DEF ReleaseInv
  <2> QED
    BY <1>1, <1>4, <2>1 DEF ListRelease, InReturn
<1>9. ItemOn(cils)'
  <2>1. job'.cur # NoItem =>
          \A l \in cils : l.id \in job'.cur.ids => l.invoice = job'.cur.key.invoice
    <3>1. item = ItemOf(k) =>
            \A l \in cils : l.id \in item.ids => l.invoice = k.invoice
      BY <1>6 DEF RolledUp, LinksInv, Links, Numbered
    <3> QED
      BY <1>5, <1>6, <1>7, <3>1
  <2> QED
    BY <1>1, <2>1 DEF ItemOn
<1>10. ASSUME job'.phase \in {"REVERSE", "UNLINKED"}, job'.cur # NoItem
       PROVE  ReverseRelease(job.cur.key.invoice)'
  <2>1. job'.cur = item /\ job'.phase = job.phase /\ item.key = k
    BY <1>4, <1>5, <1>6, <1>7, <1>10
  <2>2. CASE job.phase = "UNLINKED"
    <3>1. item.refunding /\ Gone(inv[k.invoice])
      BY <1>5, <1>7, <1>10, <2>2 DEF ReleaseInv, ListRelease
    <3> QED
      BY <1>1, <2>1, <2>2, <3>1 DEF ReverseRelease
  <2>3. CASE job.phase = "REVERSE"
    <3>1. item = ItemOf(k)
      BY <1>5, <1>10, <2>3
    <3>2. InRollup(k)
      <4>1. ReverseItemStart(k) \/ job' = Noted(k)
        BY <2>3, GivenUp DEF ItemStarts, LinkItemStart, UnlinkedItemStart, Skip
      <4>2. ~(job' = Noted(k)) /\ job' # IdleJob
        BY <1>2, <1>10, NotedType DEF IdleJob
      <4> QED
        BY <4>1, <4>2 DEF ReverseItemStart, JobAborts
    <3>3. /\ item.refunding => Gone(inv[k.invoice])
          /\ ~item.refunding =>
               /\ Quiet(cils, inv[k.invoice], k.invoice)
               /\ \A l \in On(cils, k.invoice) :
                    l.status = "PENDING_REFUND" => l.id \in item.ids
               /\ \A j \in job.todo \ {k} :
                    j.invoice = k.invoice => j.status # "CANCELLED"
          /\ \/ \A l \in On(cils, k.invoice) :
                  l.status = "PENDING_REFUND" => l.id \in item.ids
             \/ \A j \in job.todo \ {k} :
                  j.invoice = k.invoice => j.status # "CANCELLED"
      BY <2>3, <3>1, <3>2, ReverseItemKnows
    <3>4. /\ AllReturns(k.invoice)' <=>
               \A l \in On(cils, k.invoice) :
                 l.status = "PENDING_REFUND" => l.id \in item.ids
          /\ (\A j \in job.todo \ {k} :
                 j.invoice = k.invoice => j.status # "CANCELLED")
               => LastKey(k.invoice)'
      BY <1>1, <1>4, <2>1 DEF AllReturns, LastKey, On
    <3>5. Quiet(cils, inv[k.invoice], k.invoice) =>
            Quiet(cils, inv[k.invoice], k.invoice)'
      BY <1>1
    <3>6. ReverseRelease(k.invoice)'
      BY <1>1, <2>1, <2>3, <3>3, <3>4, <3>5 DEF ReverseRelease
    <3> QED
      BY <2>1, <3>6
  <2> QED
    BY <1>10, <2>1, <2>2, <2>3
<1> QED
  BY <1>1, <1>8, <1>9, <1>10, JobStepRelease

-----------------------------------------------------------------------------
(* The end of an item.                                                     *)

\* The links of the item keep their weight, and whether they are in force.
Renewed(K, U) ==
    /\ \A l, m \in cils : U[l] = U[m] => l = m
    /\ \A l \in cils :
         /\ \A sn : Weight(U[l], sn) = Weight(l, sn)
         /\ U[l].status \in {"PENDING", "COMPLETED"}
              <=> l.status \in {"PENDING", "COMPLETED"}
         /\ U[l].status = "PENDING" => U[l] = l
         /\ U[l].status = "COMPLETED" /\ job.phase # "LINK" => U[l] = l
         /\ U[l].status = "PENDING_REFUND" =>
              U[l] = l /\ (job.phase # "LINK" => l.id \notin job.cur.ids)
    /\ \A l \in cils : Newest(K, U[l]) <=> Newest(cils, l)

LEMMA RenewedTable ==
    ASSUME IInv, LinksInv, job.cur # NoItem, NEW status \in CilStatus,
           NEW receipt \in Nat,
           \/ job.phase = "LINK" /\ status = "COMPLETED"
           \/ job.phase # "LINK" /\ status = "REFUNDED",
           NEW i, \A l \in cils : l.id \in job.cur.ids => l.invoice = i,
           NEW K, K = UpdateLinks(job.cur, status, receipt),
           NEW U, U = [l \in cils |-> Updated(l, status, receipt)]
    PROVE  UpdatedTo(K, U, i, status) /\ Renewed(K, U)
<1>1. UpdatedTo(K, U, i, status)
  BY UpdatedTable
<1>2. cils \in SUBSET Cil /\ Links(cils, lastCil) /\ JobLinks(cils, lastCil)
  BY JobTables DEF LinksInv
<1>3. \A l \in cils :
        /\ U[l].id = l.id /\ SameCredit(l, U[l]) /\ U[l].amount = l.amount
        /\ l.id \in job.cur.ids /\ l.status # "CANCELLED"
             => U[l].status = status
        /\ l.id \notin job.cur.ids \/ l.status = "CANCELLED" => U[l] = l
  BY <1>2, UpdatedFields
<1>4. \A l \in cils : l.id \in job.cur.ids =>
        IF job.phase = "LINK" THEN l.status \in {"PENDING", "CANCELLED"}
        ELSE l.status \in {"PENDING_REFUND", "CANCELLED"}
  BY <1>2 DEF JobLinks
<1>5. \A l \in cils : \A sn : Weight(U[l], sn) = Weight(l, sn)
  BY <1>3, <1>4 DEF Weight, Payer, SameCredit, IsReturn
<1>6. \A l, m \in cils : U[l] = U[m] => l = m
  BY <1>2, <1>3 DEF Links, Numbered
<1>7. \A l \in cils :
        /\ U[l].status \in {"PENDING", "COMPLETED"}
             <=> l.status \in {"PENDING", "COMPLETED"}
        /\ U[l].status = "PENDING" => U[l] = l
        /\ U[l].status = "COMPLETED" /\ job.phase # "LINK" => U[l] = l
        /\ U[l].status = "PENDING_REFUND" =>
             U[l] = l /\ (job.phase # "LINK" => l.id \notin job.cur.ids)
  BY <1>3, <1>4
<1>8. \A l \in cils : Newest(K, U[l]) <=> Newest(cils, l)
  <2>1. /\ \A l \in cils : /\ U[l].invoice = l.invoice /\ U[l].group = l.group
                           /\ U[l] \in K
        /\ \A k \in K : \E l \in cils : k = U[l]
    BY <1>1 DEF UpdatedTo
  <2> QED
    BY <2>1 DEF Newest
<1> QED
  BY <1>1, <1>5, <1>6, <1>7, <1>8 DEF Renewed

\* What is settled takes what it took.
LEMMA RenewedNets ==
    ASSUME IInv, LinksInv, NEW i, NEW status, NEW K, NEW U,
           UpdatedTo(K, U, i, status), Renewed(K, U), NEW j, NEW sn
    PROVE  HeldOf(Settled(K, {}, j), sn) = HeldOf(Settled(cils, {}, j), sn)
<1> DEFINE S == Settled(cils, {}, j)
           T == Settled(K, {}, j)
           f == [l \in S |-> Weight(l, sn)]
           g == [l \in T |-> Weight(l, sn)]
<1>1. /\ cils \in SUBSET Cil /\ IsFiniteSet(cils)
      /\ K \in SUBSET Cil /\ IsFiniteSet(K)
  BY JobTables DEF LinksInv, Links, Numbered, UpdatedTo
<1>2. /\ S \in SUBSET Cil /\ IsFiniteSet(S) /\ S \subseteq cils
      /\ T \in SUBSET Cil /\ IsFiniteSet(T) /\ T \subseteq K
  <2>1. S \in SUBSET Cil /\ IsFiniteSet(S)
    BY <1>1, SettledType
  <2>2. T \in SUBSET Cil /\ IsFiniteSet(T)
    BY <1>1, SettledType
  <2>3. S \subseteq cils /\ T \subseteq K
    BY DEF Settled
  <2> QED
    BY <2>1, <2>2, <2>3
<1>3. ASSUME NEW l \in cils
      PROVE  InForce(K, U[l]) <=> InForce(cils, l)
  <2>1. Newest(K, U[l]) <=> Newest(cils, l)
    BY DEF Renewed
  <2>2. U[l].status \in {"PENDING", "COMPLETED"}
          <=> l.status \in {"PENDING", "COMPLETED"}
    BY DEF Renewed
  <2> QED
    BY <2>1, <2>2 DEF InForce
<1>4. \A l \in S : U[l] \in T
  BY <1>2, <1>3 DEF UpdatedTo, Settled
<1>5. \A k \in T : \E l \in S : U[l] = k
  BY <1>2, <1>3 DEF UpdatedTo, Settled
<1>6. \A l, m \in S : U[l] = U[m] => l = m
  BY <1>2 DEF Renewed
<1>7. \A l \in S : g[U[l]] = f[l]
  BY <1>2, <1>4 DEF Renewed
<1>8. \A k \in T : g[k] \in Int
  BY <1>2, WeightType
<1> HIDE DEF f, g, S, T
<1>9. SumFunctionOnSet(f, S) = SumFunctionOnSet(g, T)
  BY <1>2, <1>4, <1>5, <1>6, <1>7, <1>8, SumAlong
<1> QED
  BY <1>9 DEF HeldOf, f, g, S, T

\* The tables after an item.
LEMMA RenewedReleased ==
    ASSUME IInv, LinksInv, ReleaseInv, NEW i \in Invoices, NEW status,
           NEW K, NEW U, UpdatedTo(K, U, i, status), Renewed(K, U),
           NEW rows, \A j \in Invoices \ {i} : rows[j] = inv[j],
           rows[i].memo = inv[i].memo, RowSays(K, {}, rows[i], i)
    PROVE  Released(K, {}, rows)
<1>1. Released(cils, {}, inv)
  BY DEF ReleaseInv
<1>2. /\ K = {U[l] : l \in cils}
      /\ \A j : j # i => On(K, j) = On(cils, j)
  BY DEF UpdatedTo
<1>3. Waits(K, {})
  <2>1. \A l \in cils :
          /\ U[l].status = "PENDING" => Newest(cils, l)
          /\ U[l].status = "PENDING_REFUND" => Newest(cils, l)
    BY <1>1 DEF Released, Waits, Renewed
  <2>2. \A l \in cils : Newest(cils, l) => Newest(K, U[l])
    BY DEF Renewed
  <2> QED
    BY <1>2, <2>1, <2>2 DEF Waits
<1>4. Nets(K, {}, rows)
  <2>1. \A j \in Invoices : rows[j].memo = inv[j].memo
    OBVIOUS
  <2>2. \A j \in Invoices, sn \in ShortNames :
          HeldOf(Settled(K, {}, j), sn) = HeldOf(Settled(cils, {}, j), sn)
    BY RenewedNets
  <2> QED
    BY <1>1, <2>1, <2>2 DEF Released, Nets
<1>5. ASSUME NEW j \in Invoices \ {i}
      PROVE  RowSays(K, {}, rows[j], j)
  <2>1. RowSays(cils, {}, rows[j], j)
    BY <1>1 DEF Released
  <2>2. On(K, j) = On(cils, j)
    BY <1>2
  <2>3. \A l \in On(K, j) : /\ Newest(K, l) <=> Newest(cils, l)
                            /\ InForce(K, l) <=> InForce(cils, l)
    BY <2>2 DEF Newest, On, InForce
  <2> QED
    BY <2>1, <2>2, <2>3 DEF RowSays
<1>6. \A j \in Invoices : RowSays(K, {}, rows[j], j)
  BY <1>5
<1> QED
  BY <1>3, <1>4, <1>6 DEF Released

LEMMA LinkItemEndRelease ==
    ASSUME IInv, LinksInv, ReleaseInv, Idle, LinkItemEnd
    PROVE  ReleaseInv'
<1>1. /\ job.cur \in Item /\ job.cur # NoItem /\ job.cur.ids # {}
      /\ job.phase = "LINK" /\ job \in Job
  BY JobTables DEF LinkItemEnd, GoodJob, Job
<1>2. job.cur.key.invoice \in Invoices /\ job.cur.ids \in SUBSET Nat
  BY <1>1 DEF Item, RollupKey
<1>3. PICK i \in Invoices : i = job.cur.key.invoice
  BY <1>2
<1>4. PICK receipt \in Nat : receipt = MinId(job.cur.ids)
  BY <1>1, <1>2, MinIdType
<1>5. PICK K : K = UpdateLinks(job.cur, "COMPLETED", receipt)
  OBVIOUS
<1>6. PICK U : U = [l \in cils |-> Updated(l, "COMPLETED", receipt)]
  OBVIOUS
<1>7. \A l \in cils : l.id \in job.cur.ids => l.invoice = i
  BY <1>1, <1>3 DEF ReleaseInv, ItemOn
<1>8. UpdatedTo(K, U, i, "COMPLETED") /\ Renewed(K, U)
  BY <1>1, <1>5, <1>6, <1>7, RenewedTable DEF CilStatus
<1>9. /\ cils' = K /\ txn' = NoTxn /\ job' = [job EXCEPT !.cur = NoItem]
      /\ inv' = [inv EXCEPT ![i].status = "PAID", ![i].paid = job.cur.ids]
  BY <1>3, <1>4, <1>5 DEF LinkItemEnd, Idle
<1>10. inv[i] \in Invoice /\ inv \in [Invoices -> Invoice]
  BY TablesType
<1>11. /\ inv'[i].status = "PAID" /\ inv'[i].memo = inv[i].memo
       /\ inv'[i].requested = inv[i].requested
       /\ \A j \in Invoices \ {i} : inv'[j] = inv[j]
  BY <1>9, <1>10 DEF Invoice
<1>12. RowSays(K, {}, inv'[i], i)
  <2>1. RowSays(cils, {}, inv[i], i)
    BY DEF ReleaseInv, Released
  <2> QED
    BY <1>11, <2>1 DEF RowSays, Gone, Owed
<1>13. Released(K, {}, inv')
  BY <1>8, <1>11, <1>12, RenewedReleased
<1>14. job'.cur = NoItem /\ job'.phase = "LINK" /\ job'.todo = job.todo
  BY <1>1, <1>9 DEF Job
<1>15. Released(cils, {}, inv)'
  BY <1>9, <1>13
<1>16. ListRelease' /\ ItemOn(cils)'
  BY <1>14 DEF ListRelease, ItemOn
<1> QED
  BY <1>9, <1>14, <1>15, <1>16 DEF ReleaseInv

\* The row of the invoice once the item is through.
LEMMA ReversedRow ==
    ASSUME IInv, LinksInv, ReleaseInv, NEW i \in Invoices,
           i = job.cur.key.invoice, job.phase \in {"REVERSE", "UNLINKED"},
           job.cur # NoItem, NEW K, NEW U,
           UpdatedTo(K, U, i, "REFUNDED"), Renewed(K, U),
           NEW row, row.memo = inv[i].memo, row.requested = inv[i].requested,
           job.cur.refunding => row.status \in {"CANCELLED", "REFUNDED"},
           ~job.cur.refunding => row.status = "APPROVED"
    PROVE  RowSays(K, {}, row, i)
<1>1. ReverseRelease(i) /\ RowSays(cils, {}, inv[i], i)
  BY DEF ReleaseInv, Released
<1>2. row.memo > 0 => row.requested
  BY <1>1 DEF RowSays
<1>3. \A l \in On(K, i) : \E m \in On(cils, i) : l = U[m]
  BY DEF UpdatedTo, On
<1>4. Gone(row) => /\ row.memo = 0
                   /\ \A l \in On(K, i) : InForce(K, l) => l \in {}
  <2> SUFFICES ASSUME Gone(row)
               PROVE  row.memo = 0 /\ \A l \in On(K, i) : ~InForce(K, l)
    OBVIOUS
  <2>1. Gone(inv[i])
    BY <1>1 DEF ReverseRelease, Gone
  <2>2. inv[i].memo = 0 /\ \A m \in On(cils, i) : ~InForce(cils, m)
    BY <1>1, <2>1 DEF RowSays
  <2>3. \A m \in On(cils, i) : ~InForce(K, U[m])
    BY <2>2 DEF Renewed, InForce, On
  <2> QED
    BY <1>3, <2>2, <2>3
<1>5. Owed(row) => \A l \in On(K, i) :
        Newest(K, l) => l.status \notin {"COMPLETED", "PENDING_REFUND"}
  <2> SUFFICES ASSUME Owed(row), NEW m \in On(cils, i), Newest(K, U[m])
               PROVE  U[m].status \notin {"COMPLETED", "PENDING_REFUND"}
    BY <1>3
  <2>1. Quiet(cils, inv[i], i) /\ AllReturns(i)
    BY <1>1 DEF ReverseRelease, Owed
  <2>2. m \in cils /\ Newest(cils, m)
    BY DEF Renewed, On
  <2>3. m.status # "COMPLETED"
    BY <2>1, <2>2 DEF Quiet
  <2>4. m.status = "PENDING_REFUND" => m.id \in job.cur.ids
    BY <2>1 DEF AllReturns
  <2> QED
    BY <2>2, <2>3, <2>4 DEF Renewed
<1>6. row.status # "NOT_CREATED"
  OBVIOUS
<1> QED
  BY <1>2, <1>4, <1>5, <1>6 DEF RowSays

LEMMA ReverseItemEndRelease ==
    ASSUME IInv, LinksInv, ReleaseInv, Idle, ReverseItemEnd
    PROVE  ReleaseInv'
<1>1. /\ job.cur \in Item /\ job.cur # NoItem /\ job \in Job
      /\ job.phase \in {"REVERSE", "UNLINKED"}
      /\ \A k \in job.todo : k.invoice \in Invoices
  BY JobTables DEF ReverseItemEnd, Job, RollupKey
<1>2. /\ job.cur.key.invoice \in Invoices /\ job.cur.key.receipt \in Nat
      /\ job.cur.refunding \in BOOLEAN
  BY <1>1 DEF Item, RollupKey
<1>3. PICK i \in Invoices : i = job.cur.key.invoice
  BY <1>2
<1>4. PICK receipt \in Nat : receipt = job.cur.key.receipt
  BY <1>2
<1>5. PICK K : K = UpdateLinks(job.cur, "REFUNDED", receipt)
  OBVIOUS
<1>6. PICK U : U = [l \in cils |-> Updated(l, "REFUNDED", receipt)]
  OBVIOUS
<1>7. \A l \in cils : l.id \in job.cur.ids => l.invoice = i
  BY <1>1, <1>3 DEF ReleaseInv, ItemOn
<1>8. UpdatedTo(K, U, i, "REFUNDED") /\ Renewed(K, U)
  BY <1>1, <1>5, <1>6, <1>7, RenewedTable DEF CilStatus
<1>9. /\ cils' = K /\ txn' = NoTxn /\ job' = [job EXCEPT !.cur = NoItem]
      /\ inv' = [inv EXCEPT ![i] =
             IF job.cur.refunding
             THEN [@ EXCEPT !.status = RefundedStatus(job.cur),
                            !.refund = Total[i]]
             ELSE ReversedInvoice(@)]
  BY <1>3, <1>4, <1>5 DEF ReverseItemEnd, Idle
<1>10. inv[i] \in Invoice /\ inv \in [Invoices -> Invoice]
  BY TablesType
<1>11. /\ inv'[i].memo = inv[i].memo /\ inv'[i].requested = inv[i].requested
       /\ job.cur.refunding => inv'[i].status \in {"CANCELLED", "REFUNDED"}
       /\ ~job.cur.refunding => inv'[i].status = "APPROVED"
       /\ \A j \in Invoices \ {i} : inv'[j] = inv[j]
  BY <1>9, <1>10 DEF Invoice, RefundedStatus, ReversedInvoice
<1>12. RowSays(K, {}, inv'[i], i)
  BY <1>1, <1>3, <1>8, <1>11, ReversedRow
<1>13. Released(K, {}, inv')
  BY <1>8, <1>11, <1>12, RenewedReleased
<1>14. job'.cur = NoItem /\ job'.phase = job.phase /\ job'.todo = job.todo
  BY <1>1, <1>9 DEF Job
<1>15. Released(cils, {}, inv)'
  BY <1>9, <1>13
<1>16. ItemOn(cils)'
  BY <1>14 DEF ItemOn
<1>17. ReverseRelease(i) /\ ListRelease
  BY <1>1, <1>3 DEF ReleaseInv
<1>18. ASSUME NEW k \in job.todo
       PROVE  /\ job.phase = "UNLINKED" => Gone(inv'[k.invoice])
              /\ job.phase = "REVERSE" /\ k.status = "CANCELLED" =>
                   /\ k.receipt = NoReceipt
                   /\ \/ inv'[k.invoice].status = "REFUND_REQUESTED"
                      \/ Gone(inv'[k.invoice]) /\ ~InReturn(K, k.invoice)
  <2>1. CASE k.invoice # i
    <3>1. inv'[k.invoice] = inv[k.invoice]
      BY <1>1, <1>11, <2>1
    <3>2. InReturn(K, k.invoice) <=> InReturn(cils, k.invoice)
      BY <1>8, <2>1, PageCopied DEF UpdatedTo
    <3> QED
      BY <1>17, <3>1, <3>2 DEF ListRelease
  <2>2. CASE k.invoice = i /\ job.phase = "UNLINKED"
    BY <1>11, <1>17, <2>2 DEF ReverseRelease, Gone
  <2>3. CASE k.invoice = i /\ job.phase = "REVERSE" /\ k.status = "CANCELLED"
    <3>1. ~LastKey(i)
      BY <2>3 DEF LastKey
    <3>2. job.cur.refunding /\ AllReturns(i)
      BY <1>17, <2>3, <3>1 DEF ReverseRelease
    <3>3. ~InReturn(K, i)
      <4>1. ASSUME NEW l \in cils, l.invoice = i
            PROVE  U[l].status # "PENDING_REFUND"
        <5>1. U[l].status = "PENDING_REFUND"
                => U[l] = l /\ l.id \notin job.cur.ids
          BY <1>8, <2>3 DEF Renewed
        <5>2. l.status = "PENDING_REFUND" => l.id \in job.cur.ids
          BY <3>2, <4>1 DEF AllReturns, On
        <5> QED
          BY <5>1, <5>2
      <4>2. /\ K = {U[l] : l \in cils}
            /\ \A l \in cils : U[l].invoice = l.invoice
        BY <1>8 DEF UpdatedTo
      <4>3. \A r \in K : r.invoice = i => r.status # "PENDING_REFUND"
        BY <4>1, <4>2
      <4> QED
        BY <4>3 DEF InReturn
    <3> QED
      BY <1>11, <1>17, <2>3, <3>2, <3>3 DEF ListRelease, Gone
  <2> QED
    BY <1>1, <2>1, <2>2, <2>3
<1>19. ListRelease'
  BY <1>9, <1>14, <1>18 DEF ListRelease
<1> QED
  BY <1>9, <1>14, <1>15, <1>16, <1>19 DEF ReleaseInv

-----------------------------------------------------------------------------
(* Every step.                                                             *)

\* A step that leaves the links and the invoices alone.
LEMMA KeptRelease ==
    ASSUME IInv, ReleaseInv, UNCHANGED <<cils, inv, txn, job>>
    PROVE  ReleaseInv'
<1>1. txn = NoTxn \/ (TxnRelease(txn) /\ ItemOn(txn.cils))
  BY DEF ReleaseInv
<1> QED
  BY <1>1, StepRelease

LEMMA RolledBackRelease ==
    ASSUME IInv, ReleaseInv, Idle, ItemRollsBack
    PROVE  ReleaseInv'
<1>1. /\ UNCHANGED <<cils, inv, txn>>
      /\ job'.cur = NoItem /\ job'.phase = job.phase /\ job'.todo = job.todo
  BY RolledBack DEF eftVars
<1>2. ListRelease'
  BY <1>1 DEF ReleaseInv, ListRelease, InReturn
<1>3. ItemOn(cils)'
  BY <1>1 DEF ItemOn
<1> QED
  BY <1>1, <1>2, <1>3, JobStepRelease

LEMMA InitRelease ==
    ASSUME TaskInit
    PROVE  ReleaseInv
<1>1. /\ cils = {} /\ txn = NoTxn /\ job = IdleJob
      /\ \A i \in Invoices : /\ inv[i].status = "NOT_CREATED"
                             /\ inv[i].memo = 0
  BY DEF TaskInit, Init
<1>2. \A i : On(cils, i) = {} /\ Settled(cils, {}, i) = {}
  BY <1>1 DEF On, Settled
<1>3. Waits(cils, {})
  BY <1>1 DEF Waits
<1>4. Nets(cils, {}, inv)
  BY <1>2, HeldEmpty DEF Nets
<1>5. \A i \in Invoices : RowSays(cils, {}, inv[i], i)
  BY <1>1, <1>2 DEF RowSays, Gone
<1>6. job.phase = "IDLE" /\ job.cur = NoItem
  BY <1>1 DEF IdleJob
<1>7. ListRelease /\ ItemOn(cils)
  BY <1>6 DEF ListRelease, ItemOn
<1> QED
  BY <1>1, <1>3, <1>4, <1>5, <1>6, <1>7 DEF ReleaseInv, Released

LEMMA NextRelease ==
    ASSUME OneName, IInv, LinksInv, ReleaseInv, [Next]_vars
    PROVE  ReleaseInv'
<1>1. CASE TxnStep /\ UNCHANGED jobVars
  BY <1>1, TxnStepRelease
<1>2. CASE Idle /\ EftJob
  <2>1. CASE \/ EftJobStart \/ UnlinkedJobStart \/ EftJobEnd
             \/ UnlockOverdueAccounts
    BY <1>2, <2>1, QueriedRelease
  <2>2. CASE \E k \in job.todo : \/ LinkItemStart(k) \/ ReverseItemStart(k)
                                 \/ UnlinkedItemStart(k)
    <3>1. WithinJob
      BY <2>2 DEF LinkItemStart, ReverseItemStart, UnlinkedItemStart
    <3> QED
      BY <1>2, <2>2, <3>1, ItemStartsRelease DEF ItemStarts
  <2>3. CASE LinkItemEnd \/ ReverseItemEnd
    BY <1>2, <2>3, LinkItemEndRelease, ReverseItemEndRelease
  <2> QED
    BY <1>2, <2>1, <2>2, <2>3 DEF EftJob
<1>3. CASE Idle /\ JobFailure
  <2>1. CASE \E k \in job.todo : ItemGivenUp(k)
    BY <1>3, <2>1, GivenUp, ItemStartsRelease DEF ItemStarts
  <2>2. CASE \E i \in cfsTodo : CfsInvoiceItemGivenUp(i)
    <3>1. UNCHANGED <<cils, inv, txn, job>>
      BY <2>2 DEF CfsInvoiceItemGivenUp, CfsInvoiceItemFails,
         CfsInvoiceItemLost, eftVars
    <3> QED
      BY <3>1, KeptRelease
  <2>3. CASE JobDies
    BY <1>3, <2>3, QueriedRelease
  <2>4. CASE ItemRollsBack
    BY <1>3, <2>4, RolledBackRelease
  <2> QED
    BY <1>3, <2>1, <2>2, <2>3, <2>4 DEF JobFailure, ItemGivenUp,
       CfsInvoiceItemGivenUp
<1>4. CASE Idle /\ CfsInvoiceJob
  <2>1. UNCHANGED <<cils, inv, txn, job>>
    BY <1>4 DEF CfsInvoiceJob, CfsInvoiceJobStart, CfsInvoiceItem, eftVars
  <2> QED
    BY <2>1, KeptRelease
<1>5. CASE Idle /\ StatementDueJob
  BY <1>5, StatementDueRelease
<1>6. CASE Idle /\ \E i \in Invoices : OverdueDatePasses(i)
  <2>1. UNCHANGED <<cils, inv, txn, job>>
    BY <1>6 DEF OverdueDatePasses, eftVars
  <2> QED
    BY <2>1, KeptRelease
<1>7. CASE Request /\ UNCHANGED jobVars
  BY <1>7, RequestRelease
<1>8. CASE UNCHANGED vars
  <2>1. UNCHANGED <<cils, inv, txn, job>>
    BY <1>8 DEF vars, eftVars, jobVars
  <2> QED
    BY <2>1, KeptRelease
<1> QED
  BY <1>1, <1>2, <1>3, <1>4, <1>5, <1>6, <1>7, <1>8 DEF Next

LEMMA ReleaseInvariance ==
    ASSUME OneName
    PROVE  Spec => []ReleaseInv
<1>1. TaskInit => ReleaseInv
  BY InitRelease
<1>2. IInv /\ LinksInv /\ ReleaseInv /\ [Next]_vars => ReleaseInv'
  BY NextRelease
<1> QED
  BY <1>1, <1>2, Invariance, LinksInvariance, PTL DEF Spec

\* Of an invoice that is gone, all links are settled.
LEMMA GoneIsSettled ==
    ASSUME IInv, LinksInv, ReleaseInv, NEW i \in Invoices, Gone(inv[i])
    PROVE  /\ Held(LinksOf(i)) = 0
           /\ \A l \in LinksOf(i) : l.status # "PENDING"
<1>1. /\ RowSays(cils, {}, inv[i], i) /\ Nets(cils, {}, inv)
      /\ Waits(cils, {})
  BY DEF ReleaseInv, Released
<1>2. inv[i].memo = 0 /\ \A l \in On(cils, i) : ~InForce(cils, l)
  BY <1>1 DEF RowSays
<1>3. LinksOf(i) = Settled(cils, {}, i)
  BY <1>2 DEF LinksOf, Settled, On
<1>4. \A l \in LinksOf(i) : l.status # "PENDING"
  BY <1>1, <1>2 DEF Waits, InForce, LinksOf, On
<1>5. \A p \in Payers : HeldOf(LinksOf(i), p) = 0
  BY <1>1, <1>2, <1>3, PayersType DEF Nets
<1>6. LinksOf(i) \in SUBSET Cil /\ IsFiniteSet(LinksOf(i))
  <2>1. cils \in SUBSET Cil /\ IsFiniteSet(cils)
    BY JobTables DEF LinksInv, Links, Numbered
  <2> QED
    BY <1>3, <2>1, SettledType
<1>7. PICK sn \in ShortNames : TRUE
  BY EFTConstants
<1>8. Held(LinksOf(i)) = HeldOf(LinksOf(i), sn)
  BY <1>5, <1>6, HeldOfOne
<1>9. HeldOf(LinksOf(i), sn) = 0
  BY <1>1, <1>2, <1>3, <1>7 DEF Nets
<1> QED
  BY <1>4, <1>8, <1>9

\* RefundReleasesCredits: where all deposits come from one short name, the
\* links of an invoice that is refunded or cancelled hold no credit, and none
\* of them is pending, whichever requests come between the steps of the job,
\* whatever calls to CFS fail and whenever a job is killed: a refund undoes
\* the whole latest group (process_cfs_refund), a later payment of a short name
\* cancels what it asked for before (apply_eft_credit), and the job settles
\* the links it rolled up and no other (handle_invoice_refund).
THEOREM RefundsReleaseCredits ==
    ASSUME \A c, d \in Credits : DepositedBy[c] = DepositedBy[d]
    PROVE  Spec => []RefundReleasesCredits
<1>1. OneName
  BY DEF OneName
<1>2. IInv /\ LinksInv /\ ReleaseInv => RefundReleasesCredits
  BY GoneIsSettled DEF RefundReleasesCredits, Gone
<1> QED
  BY <1>1, <1>2, Invariance, LinksInvariance, ReleaseInvariance, PTL

=============================================================================
