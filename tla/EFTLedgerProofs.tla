--------------------------- MODULE EFTLedgerProofs ---------------------------
(***************************************************************************)
(* Proofs that EFTTask keeps the account book of EFTLedger, for any number *)
(* of short names, accounts, deposits and invoices, whatever calls to CFS  *)
(* fail and whenever a job is killed, if requests and jobs take turns and  *)
(* no invoice is refunded in part: every commit is one entry of the book,  *)
(* and an invoice that counts as paid is funded.                           *)
(*                                                                         *)
(* The invariant reads the links of an invoice as a page of the book: what *)
(* a short name is asked for by the pending links, and what the others     *)
(* have taken and not returned, are each the whole total or nothing.  The  *)
(* working copy of a request need not satisfy it; it differs from the      *)
(* table by links of the request's short name, and the request says for    *)
(* each invoice what is still missing until it does.                       *)
(*                                                                         *)
(* The last part proves that the links of an invoice say whether it has a  *)
(* receipt in CFS, if no item of it was given up half done.                *)
(***************************************************************************)
EXTENDS EFTTaskProofs

-----------------------------------------------------------------------------
(* The invariant: the pages of the book.                                   *)

AllOrNothing(L) ==
    \A sn \in ShortNames, i \in Invoices : Done(L, sn, i) \in {0, Total[i]}

OneHolder(L) ==
    \A sn \in ShortNames, tn \in ShortNames, i \in Invoices :
        Done(L, sn, i) # 0 /\ Done(L, tn, i) # 0 => sn = tn

\* A payment that is under way is one group, for the whole total, and later
\* than any that was made.
Wanted(L) ==
    \A l \in L : l.status = "PENDING" =>
        /\ Asked(L, Payer(l), l.invoice) = Total[l.invoice]
        /\ Done(L, Payer(l), l.invoice) = 0
        /\ \A m \in L : m.invoice = l.invoice =>
             /\ m.status = "PENDING" /\ Payer(m) = Payer(l) => Siblings(l, m)
             /\ m.status = "COMPLETED" => m.group < l.group

\* The latest group, if it is completed, is a whole payment and stands.
Stands(L) ==
    \A l \in L : l.status = "COMPLETED" /\ Newest(L, l) =>
        /\ Done(L, Payer(l), l.invoice) = Total[l.invoice]
        /\ HeldOf(Family(L, l), Payer(l)) = Total[l.invoice]

\* A return that waits for the job is the last thing done to its invoice.
Reversing(L) ==
    \A r \in L : r.status = "PENDING_REFUND" =>
        Newest(L, r) /\ \A sn \in ShortNames : Done(L, sn, r.invoice) = 0

Pages(L) == /\ AllOrNothing(L) /\ OneHolder(L) /\ Wanted(L) /\ Stands(L)
            /\ Reversing(L)

\* What the status of an invoice says of its page.
Books(L, rows) ==
    \A i \in Invoices :
        /\ rows[i].memo = 0
        /\ Owed(rows[i]) => /\ ~InReturn(L, i)
                            /\ \A sn \in ShortNames : Done(L, sn, i) = 0
        /\ rows[i].status = "PAID" =>
             /\ \A l \in L : l.invoice = i => l.status # "PENDING"
             /\ ~InReturn(L, i) => \E sn \in ShortNames : Done(L, sn, i) = Total[i]

-----------------------------------------------------------------------------
(* The invariant: the request in progress.                                 *)

\* How its copy of the links may differ from the table.
Frame(t) ==
    /\ t.mode # "REFUNDED"
    /\ \A l \in t.todo : Payer(l) = t.sn
    /\ \A l \in cils : \/ l \in t.cils
                       \/ /\ l.status = "PENDING" /\ Payer(l) = t.sn
                          /\ t.mode # "PENDING_REFUND"
    /\ \A m \in t.cils :
         \/ m \in cils
         \/ /\ Payer(m) = t.sn
            /\ \/ m.group = t.group
               \/ /\ t.mode = "CANCEL" /\ m.status = "CANCELLED"
                  /\ \E l \in cils : l.status = "PENDING" /\ Siblings(l, m)
    /\ \A l \in cils : \E m \in t.cils : m.invoice = l.invoice
                                           /\ l.group <= m.group

\* And its copy of the invoices.
Rows(t) ==
    \A i \in Invoices :
        /\ t.inv[i].memo = 0
        /\ Owed(t.inv[i]) \/ t.inv[i].status = "PAID"
             => t.inv[i].status = inv[i].status

\* The links it makes, and those they undo.
Touched(t) == {l \in t.cils : \/ l.group = t.group
                              \/ t.mode # "CANCEL" /\ l \in t.todo}

Touches(t) ==
    \A l \in Touched(t) :
        /\ t.mode = "CANCEL" => Unpaid(l.invoice)
        /\ ~InReturn(cils, l.invoice)
        /\ t.mode = "PENDING_REFUND" =>
             /\ ~Owed(t.inv[l.invoice])
             /\ Done(cils, t.sn, l.invoice) = Total[l.invoice]
             /\ Done(t.cils, t.sn, l.invoice)
                  = HeldOf(On(t.todo, l.invoice), t.sn)

Same(t, i) == Mine(t.cils, t.sn, i) = Mine(cils, t.sn, i)

Covered(t, i) ==
    /\ Unpaid(i)
    /\ Asked(t.cils, t.sn, i) = Total[i]
    /\ \A l \in Mine(t.cils, t.sn, i) : l.group = t.group

\* A payment has what it takes to pay all that is due, and pays one invoice
\* after the other.
Paying(t) ==
    /\ t.mode = "CANCEL" /\ t.refill = 0 /\ t.refunds = refunds
    /\ t.inv = inv
    /\ t.need + Cost(t.due) <= Balance(t.rem, t.sn) + HeldOf(t.todo, t.sn)
    /\ \A i \in t.due : Unpaid(i) /\ Same(t, i)
    /\ t.cur = NoInvoice => t.todo = {} /\ t.need = 0
    /\ t.cur # NoInvoice =>
         /\ Unpaid(t.cur) /\ t.todo \subseteq Mine(t.cils, t.sn, t.cur)
         /\ Asked(t.cils, t.sn, t.cur) + t.need
              = HeldOf(t.todo, t.sn) + Total[t.cur]
         /\ \A l \in Mine(t.cils, t.sn, t.cur) :
              l \in t.todo \/ l.group = t.group
    /\ \A i \in Invoices : i \notin t.due /\ i # t.cur
                             => Same(t, i) \/ Covered(t, i)

\* A cancellation or return comes to all pending links of an invoice, or none.
Undoing(t) ==
    /\ t.due = {} /\ t.cur = NoInvoice /\ t.need = 0 /\ t.refill = 0
    /\ t.refunds = refunds
    /\ t.mode # "PENDING_REFUND" =>
         \A i \in Invoices : \/ Same(t, i) /\ On(t.todo, i) = {}
                             \/ Mine(t.cils, t.sn, i) = On(t.todo, i)

\* A refund of a short name, or its being declined, or a link that pays nothing.
Refunding(t) ==
    /\ t.mode = "CANCEL" /\ t.cils = cils /\ t.todo = {} /\ t.due = {}
    /\ t.cur = NoInvoice /\ t.inv = inv
    /\ \A sn \in ShortNames : sn # t.sn => Out(t.refunds, sn) = Out(refunds, sn)

TxnBook(t) ==
    /\ Frame(t) /\ Rows(t) /\ Touches(t)
    /\ Paying(t) \/ Undoing(t) \/ Refunding(t)

-----------------------------------------------------------------------------
(* The invariant: the job.                                                 *)

LinkBook ==
    /\ \A k \in job.todo :
         /\ k.receipt = NoReceipt /\ k.status = "PENDING"
         /\ Unpaid(k.invoice)
         /\ LinkSum(Open(cils, k.invoice)) = Total[k.invoice]
    /\ job.cur # NoItem =>
         /\ Unpaid(job.cur.key.invoice)
         /\ job.cur.ids = {l.id : l \in Open(cils, job.cur.key.invoice)}
         /\ LinkSum(Open(cils, job.cur.key.invoice))
              = Total[job.cur.key.invoice]
         /\ \A k \in job.todo : k.invoice # job.cur.key.invoice

\* A reversal that is not a refund returns the invoice to those owed, so it
\* must not come to one that is gone.
ReverseBook ==
    /\ \A k \in job.todo :
         /\ k.status = "PENDING_REFUND" =>
              /\ RolledUp(k) # {}
              /\ inv[k.invoice].status \in {"PAID", "REFUND_REQUESTED"}
         /\ k.status # "PENDING_REFUND" =>
              \/ inv[k.invoice].status = "REFUND_REQUESTED"
              \/ Gone(inv[k.invoice]) /\ ref[k.invoice] # "ACTIVE"
    /\ job.cur # NoItem =>
         /\ \A l \in cils : l.id \in job.cur.ids
                             => l.invoice = job.cur.key.invoice
         /\ \A k \in job.todo : k.status = "PENDING_REFUND"
                                  => k.invoice # job.cur.key.invoice
         /\ job.cur.refunding /\ job.cur.found = "NONE"
              => ref[job.cur.key.invoice] # "ACTIVE"
         /\ ~job.cur.refunding =>
              /\ inv[job.cur.key.invoice].status = "PAID"
              /\ InReturn(cils, job.cur.key.invoice)
              /\ \A l \in On(cils, job.cur.key.invoice) :
                   l.status = "PENDING_REFUND" => l.id \in job.cur.ids

JobBook ==
    /\ job.phase = "LINK" => LinkBook
    /\ job.phase = "REVERSE" => ReverseBook
    /\ job.phase = "UNLINKED" /\ job.cur # NoItem
         => job.cur.refunding /\ job.cur.ids = {}

BookInv ==
    /\ OneAtATime
    /\ Pages(cils) /\ Books(cils, inv)
    /\ txn # NoTxn => TxnBook(txn)
    /\ JobBook

-----------------------------------------------------------------------------
(* What a request leaves alone.                                            *)

\* The links that a request has made.
LEMMA NewLinks ==
    ASSUME IInv, LinksInv, txn.open, Frame(txn), NEW m \in txn.cils, m \notin cils
    PROVE  /\ Payer(m) = txn.sn
           /\ \/ /\ m.status = "PENDING" /\ m.group = txn.group
                 /\ txn.mode = "CANCEL"
              \/ m.status = "CANCELLED" /\ txn.mode \in {"CANCEL", "REGROUP"}
              \/ /\ m.status = "PENDING_REFUND" /\ m.group = txn.group
                 /\ txn.mode = "PENDING_REFUND"
<1>1. /\ Payer(m) = txn.sn /\ txn.mode # "REFUNDED"
      /\ \/ m.group = txn.group
         \/ txn.mode = "CANCEL" /\ m.status = "CANCELLED"
  BY DEF Frame
<1>2. NewGroup(txn) /\ txn.mode \in ReturnMode
  BY TxnSets DEF TxnLinks
<1>3. m.group = txn.group => m.status = NewStatus(txn)
  BY <1>2 DEF NewGroup
<1> QED
  BY <1>1, <1>2, <1>3 DEF NewStatus, ReturnMode

LEMMA OldLinks ==
    ASSUME IInv, LinksInv, txn.open, Frame(txn), NEW l
    PROVE  /\ l.status = "COMPLETED" => (l \in txn.cils <=> l \in cils)
           /\ l \in cils /\ l \notin txn.cils =>
                /\ l.status = "PENDING" /\ Payer(l) = txn.sn
                /\ txn.mode # "PENDING_REFUND"
<1>1. l \in cils /\ l \notin txn.cils =>
        /\ l.status = "PENDING" /\ Payer(l) = txn.sn
        /\ txn.mode # "PENDING_REFUND"
  BY DEF Frame
<1>2. l \in txn.cils /\ l \notin cils => l.status # "COMPLETED"
  BY NewLinks
<1> QED
  BY <1>1, <1>2

\* The pages of other short names are the same.
LEMMA OtherPages ==
    ASSUME IInv, LinksInv, txn.open, Frame(txn), NEW sn, sn # txn.sn, NEW i
    PROVE  /\ Asked(txn.cils, sn, i) = Asked(cils, sn, i)
           /\ Done(txn.cils, sn, i) = Done(cils, sn, i)
           /\ Mine(txn.cils, sn, i) = Mine(cils, sn, i)
<1> DEFINE L == txn.cils
<1>1. /\ cils \in SUBSET Cil /\ IsFiniteSet(cils)
      /\ L \in SUBSET Cil /\ IsFiniteSet(L)
  BY TxnSets
<1>2. /\ \A l \in L : l \notin cils => Payer(l) # sn
      /\ \A l \in cils : l \notin L => Payer(l) # sn
  BY NewLinks, OldLinks
<1> HIDE DEF L
<1>3. /\ Open(L, i) \in SUBSET Cil /\ IsFiniteSet(Open(L, i))
      /\ Closed(L, i) \in SUBSET Cil /\ IsFiniteSet(Closed(L, i))
      /\ Open(cils, i) \in SUBSET Cil /\ IsFiniteSet(Open(cils, i))
      /\ Closed(cils, i) \in SUBSET Cil /\ IsFiniteSet(Closed(cils, i))
  BY <1>1, PageType
<1>4. /\ \A l \in Open(L, i) : l \notin Open(cils, i) => Weight(l, sn) = 0
      /\ \A l \in Open(cils, i) : l \notin Open(L, i) => Weight(l, sn) = 0
      /\ \A l \in Closed(L, i) : l \notin Closed(cils, i) => Weight(l, sn) = 0
      /\ \A l \in Closed(cils, i) : l \notin Closed(L, i) => Weight(l, sn) = 0
  BY <1>2 DEF Open, Closed, Weight
<1>5. /\ HeldOf(Open(L, i), sn) = HeldOf(Open(cils, i), sn)
      /\ HeldOf(Closed(L, i), sn) = HeldOf(Closed(cils, i), sn)
  BY <1>3, <1>4, HeldAgree
<1>6. Mine(L, sn, i) = Mine(cils, sn, i)
  BY <1>2 DEF Mine
<1> QED
  BY <1>5, <1>6 DEF Asked, Done, L

\* A request that returns nothing leaves what was taken.
LEMMA KeptDone ==
    ASSUME IInv, LinksInv, txn.open, Frame(txn), txn.mode # "PENDING_REFUND",
           NEW sn, NEW i
    PROVE  /\ Done(txn.cils, sn, i) = Done(cils, sn, i)
           /\ \A l : l.status = "PENDING_REFUND"
                       => (l \in txn.cils <=> l \in cils)
           /\ InReturn(txn.cils, i) <=> InReturn(cils, i)
<1> DEFINE L == txn.cils
<1>1. /\ cils \in SUBSET Cil /\ IsFiniteSet(cils)
      /\ L \in SUBSET Cil /\ IsFiniteSet(L)
  BY TxnSets
<1>2. /\ \A l \in L : l \notin cils => l.status \in {"PENDING", "CANCELLED"}
      /\ \A l \in cils : l \notin L => l.status = "PENDING"
  BY NewLinks, OldLinks
<1> HIDE DEF L
<1>3. /\ Closed(L, i) \in SUBSET Cil /\ IsFiniteSet(Closed(L, i))
      /\ Closed(cils, i) \in SUBSET Cil /\ IsFiniteSet(Closed(cils, i))
  BY <1>1, PageType
<1>4. /\ \A l \in Closed(L, i) : l \notin Closed(cils, i) => Weight(l, sn) = 0
      /\ \A l \in Closed(cils, i) : l \notin Closed(L, i) => Weight(l, sn) = 0
  BY <1>2 DEF Closed, Weight, IsReturn
<1>5. HeldOf(Closed(L, i), sn) = HeldOf(Closed(cils, i), sn)
  BY <1>3, <1>4, HeldAgree
<1> QED
  BY <1>2, <1>5 DEF Done, InReturn, L

\* One that returns leaves what is pending, and the pages it does not come to.
LEMMA KeptOpen ==
    ASSUME IInv, LinksInv, txn.open, Frame(txn), txn.mode = "PENDING_REFUND",
           NEW sn, NEW i
    PROVE  /\ Open(txn.cils, i) = Open(cils, i)
           /\ Asked(txn.cils, sn, i) = Asked(cils, sn, i)
           /\ Mine(txn.cils, sn, i) = Mine(cils, sn, i)
           /\ (\A l \in txn.cils : l.invoice = i => l.group # txn.group) =>
                /\ On(txn.cils, i) = On(cils, i)
                /\ Done(txn.cils, sn, i) = Done(cils, sn, i)
                /\ InReturn(txn.cils, i) <=> InReturn(cils, i)
<1>1. /\ \A l \in txn.cils : l \notin cils =>
           l.status = "PENDING_REFUND" /\ l.group = txn.group
      /\ \A l \in cils : l \in txn.cils
  BY NewLinks, OldLinks
<1>2. /\ Open(txn.cils, i) = Open(cils, i)
      /\ Mine(txn.cils, sn, i) = Mine(cils, sn, i)
  BY <1>1 DEF Open, Mine
<1>3. ASSUME \A l \in txn.cils : l.invoice = i => l.group # txn.group
      PROVE  /\ On(txn.cils, i) = On(cils, i)
             /\ Closed(txn.cils, i) = Closed(cils, i)
             /\ InReturn(txn.cils, i) <=> InReturn(cils, i)
  BY <1>1, <1>3 DEF On, Closed, InReturn
<1> QED
  BY <1>2, <1>3 DEF Asked, Done

\* The latest group is the latest of the table, but for the links made now.
LEMMA KeptNewest ==
    ASSUME IInv, LinksInv, txn.open, Frame(txn), NEW l \in cils
    PROVE  /\ Newest(txn.cils, l) => Newest(cils, l)
           /\ /\ Newest(cils, l)
              /\ \A m \in txn.cils : m.invoice = l.invoice => m.group # txn.group
              => Newest(txn.cils, l)
<1>1. /\ \A k \in cils : \E m \in txn.cils : m.invoice = k.invoice
                                               /\ k.group <= m.group
      /\ \A m \in txn.cils : \/ m \in cils \/ m.group = txn.group
                             \/ \E k \in cils : Siblings(k, m)
  BY DEF Frame
<1>2. /\ \A k \in cils : k.group \in Nat
      /\ \A k \in txn.cils : k.group \in Nat
  BY TxnSets, CilFields
<1>3. ASSUME Newest(txn.cils, l), NEW k \in cils, k.invoice = l.invoice
      PROVE  k.group <= l.group
  <2>1. PICK m \in txn.cils : m.invoice = k.invoice /\ k.group <= m.group
    BY <1>1
  <2>2. m.group <= l.group
    BY <1>3, <2>1 DEF Newest
  <2> QED
    BY <1>2, <2>1, <2>2
<1>4. ASSUME Newest(cils, l), NEW m \in txn.cils, m.invoice = l.invoice,
             m.group # txn.group
      PROVE  m.group <= l.group
  <2>1. \E k \in cils : k.invoice = m.invoice /\ k.group = m.group
    BY <1>1, <1>4 DEF Siblings
  <2> QED
    BY <1>4, <2>1 DEF Newest
<1> QED
  BY <1>3, <1>4 DEF Newest

\* Links that a request makes are in a later group than those that are paid.
LEMMA PaidBefore ==
    ASSUME IInv, LinksInv, txn.open, NEW l \in txn.cils, l.status = "COMPLETED",
           txn.mode # "REFUNDED"
    PROVE  l.group < txn.group /\ l.group # txn.group
<1>1. Grouped(txn) /\ NewGroup(txn) /\ txn.mode \in ReturnMode
  BY TxnSets DEF TxnLinks
<1>2. l.group # txn.group
  BY <1>1 DEF NewGroup, NewStatus, ReturnMode
<1>3. l.group \in Nat /\ lastGroup \in Nat /\ txn.group \in Nat
  BY TxnSets, CilFields, TxnFields DEF IInv, TypeOK
<1> QED
  BY <1>1, <1>2, <1>3 DEF Grouped

-----------------------------------------------------------------------------
(* A step of a request that cancels a link.                                *)

LEMMA HeldBut ==
    ASSUME NEW L \in SUBSET Cil, IsFiniteSet(L), NEW l \in L, NEW sn
    PROVE  /\ HeldOf(L \ {l}, sn) \in Int
           /\ HeldOf(L, sn) = HeldOf(L \ {l}, sn) + Weight(l, sn)
<1> DEFINE K == L \ {l}
<1>1. K \in SUBSET Cil /\ IsFiniteSet(K) /\ l \in Cil /\ l \notin K
      /\ K \cup {l} = L
  BY FS_Difference, FS_Singleton
<1> HIDE DEF K
<1>2. HeldOf(K \cup {l}, sn) = HeldOf(K, sn) + Weight(l, sn)
  BY <1>1, HeldAdd
<1>3. HeldOf(K, sn) \in Int
  BY <1>1, HeldType
<1> QED
  BY <1>1, <1>2, <1>3 DEF K

\* What is to be undone is in the table.
LEMMA TodoIsOld ==
    ASSUME IInv, LinksInv, txn.open, Frame(txn), NEW l \in txn.todo
    PROVE  /\ l \in cils /\ l \in txn.cils /\ l \in Cil /\ Payer(l) = txn.sn
           /\ l.group < txn.group /\ l.group \in Nat /\ txn.group \in Nat
           /\ l.status = IF Returning(txn) THEN "COMPLETED" ELSE "PENDING"
<1>1. Todo(txn) /\ txn.group \in Nat /\ l \in Cil
  BY TxnSets, TxnFields DEF TxnLinks
<1>2. l \in txn.cils /\ l.group < txn.group
      /\ l.status = IF Returning(txn) THEN "COMPLETED" ELSE "PENDING"
  BY <1>1 DEF Todo
<1>3. l.group \in Nat
  BY <1>1, CilFields
<1>4. l.group # txn.group
  BY <1>1, <1>2, <1>3
<1>5. l \in cils
  BY <1>2, <1>4 DEF Frame
<1> QED
  BY <1>1, <1>2, <1>3, <1>5 DEF Frame

LEMMA UndoneFrame ==
    ASSUME IInv, LinksInv, txn.open, Frame(txn), NEW l \in txn.todo,
           NEW r \in Cil, UndoneAs(l, r),
           NEW u, SameWork(txn, u), u.todo = txn.todo \ {l},
           u.cils = (txn.cils \ {l}) \cup {r}
    PROVE  Frame(u)
<1>1. /\ l \in cils /\ l \in txn.cils /\ Payer(l) = txn.sn
      /\ l.group < txn.group /\ l.group \in Nat /\ txn.group \in Nat
      /\ l.status = "PENDING"
  BY TodoIsOld DEF UndoneAs, Returning
<1>2. /\ r.invoice = l.invoice /\ Payer(r) = txn.sn /\ r.status = "CANCELLED"
      /\ \/ txn.mode = "CANCEL" /\ r.group = l.group
         \/ txn.mode = "REGROUP" /\ r.group = txn.group
  BY <1>1 DEF UndoneAs, Undone, SameReceipt, SameCredit, Payer
<1>3. u.mode = txn.mode /\ u.sn = txn.sn /\ u.group = txn.group
  BY DEF SameWork
<1>4. u.mode # "REFUNDED" /\ \A k \in u.todo : Payer(k) = u.sn
  BY <1>3 DEF Frame
<1>5. \A k \in cils : \/ k \in u.cils
                      \/ /\ k.status = "PENDING" /\ Payer(k) = u.sn
                         /\ u.mode # "PENDING_REFUND"
  BY <1>1, <1>2, <1>3 DEF Frame
<1>6. \A m \in u.cils :
         \/ m \in cils
         \/ /\ Payer(m) = u.sn
            /\ \/ m.group = u.group
               \/ /\ u.mode = "CANCEL" /\ m.status = "CANCELLED"
                  /\ \E k \in cils : k.status = "PENDING" /\ Siblings(k, m)
  <2>1. ASSUME NEW m \in txn.cils
        PROVE \/ m \in cils
              \/ /\ Payer(m) = u.sn
                 /\ \/ m.group = u.group
                    \/ /\ u.mode = "CANCEL" /\ m.status = "CANCELLED"
                       /\ \E k \in cils : k.status = "PENDING" /\ Siblings(k, m)
    BY <1>3 DEF Frame
  <2>2. txn.mode = "CANCEL" => Siblings(l, r)
    BY <1>2 DEF Siblings
  <2> QED
    BY <1>1, <1>2, <1>3, <2>1, <2>2
<1>7. \A k \in cils : \E m \in u.cils : m.invoice = k.invoice
                                           /\ k.group <= m.group
  <2> SUFFICES ASSUME NEW k \in cils
               PROVE  \E m \in u.cils : m.invoice = k.invoice
                                           /\ k.group <= m.group
    OBVIOUS
  <2>1. PICK m \in txn.cils : m.invoice = k.invoice /\ k.group <= m.group
    BY DEF Frame
  <2>2. k.group \in Nat
    BY TxnSets, CilFields
  <2>3. CASE m = l
    <3>1. r \in u.cils /\ r.invoice = k.invoice /\ k.group <= r.group
      BY <1>1, <1>2, <2>1, <2>2, <2>3
    <3> QED
      BY <3>1
  <2>4. CASE m # l
    BY <2>1, <2>4
  <2> QED
    BY <2>3, <2>4
<1> QED
  BY <1>4, <1>5, <1>6, <1>7 DEF Frame

LEMMA UndoneTouches ==
    ASSUME IInv, LinksInv, txn.open, Frame(txn), Touches(txn),
           NEW l \in txn.todo,
           NEW r \in Cil, UndoneAs(l, r),
           NEW u, SameWork(txn, u), u.todo = txn.todo \ {l},
           u.cils = (txn.cils \ {l}) \cup {r}
    PROVE  Touches(u)
<1>1. /\ l \in txn.cils /\ l.group # txn.group
  BY TodoIsOld
<1>2. /\ r.invoice = l.invoice
      /\ \/ txn.mode = "CANCEL" /\ r.group = l.group
         \/ txn.mode = "REGROUP" /\ r.group = txn.group
  BY DEF UndoneAs, Undone, SameReceipt, SameCredit
<1>3. u.mode = txn.mode /\ u.sn = txn.sn /\ u.group = txn.group
  BY DEF SameWork
<1> SUFFICES ASSUME NEW m \in Touched(u)
             PROVE  /\ u.mode = "CANCEL" => Unpaid(m.invoice)
                    /\ ~InReturn(cils, m.invoice)
  BY <1>2, <1>3 DEF Touches
<1>4. \E k \in Touched(txn) : k.invoice = m.invoice
  BY <1>1, <1>2, <1>3 DEF Touched
<1> QED
  BY <1>3, <1>4 DEF Touches

\* The pending links of the request's short name, after one is cancelled.
LessPending(u, l) ==
    /\ \A i \in Invoices :
         /\ Mine(u.cils, txn.sn, i) = Mine(txn.cils, txn.sn, i) \ {l}
         /\ i # l.invoice =>
              /\ Mine(u.cils, txn.sn, i) = Mine(txn.cils, txn.sn, i)
              /\ Asked(u.cils, txn.sn, i) = Asked(txn.cils, txn.sn, i)
    /\ Asked(u.cils, txn.sn, l.invoice) + l.amount
         = Asked(txn.cils, txn.sn, l.invoice)
    /\ HeldOf(txn.todo \ {l}, txn.sn) + l.amount = HeldOf(txn.todo, txn.sn)
    /\ HeldOf(txn.todo \ {l}, txn.sn) \in Int

LEMMA UndoneMine ==
    ASSUME IInv, LinksInv, txn.open, Frame(txn), NEW l \in txn.todo,
           NEW r \in Cil, UndoneAs(l, r),
           NEW u, u.cils = (txn.cils \ {l}) \cup {r}, IsFiniteSet(u.cils)
    PROVE  LessPending(u, l)
<1> DEFINE sn == txn.sn
           L == txn.cils
           K == u.cils
<1>1. /\ l \in L /\ Payer(l) = sn /\ l.status = "PENDING" /\ l \in Cil
      /\ l.invoice \in Invoices
  BY TodoIsOld, CilFields DEF UndoneAs, Returning
<1>2. r.status = "CANCELLED"
  BY DEF UndoneAs, Undone
<1>3. /\ L \in SUBSET Cil /\ IsFiniteSet(L) /\ K \in SUBSET Cil
      /\ txn.todo \in SUBSET Cil /\ IsFiniteSet(txn.todo)
      /\ K = (L \ {l}) \cup {r} /\ IsFiniteSet(K)
  BY TxnSets
<1> HIDE DEF sn, L, K
<1>4. \A i \in Invoices : Mine(K, sn, i) = Mine(L, sn, i) \ {l}
  BY <1>2, <1>3 DEF Mine
<1>5. l \in Mine(L, sn, l.invoice)
  BY <1>1 DEF Mine
<1>6. ASSUME NEW i \in Invoices, i # l.invoice
      PROVE  /\ Mine(K, sn, i) = Mine(L, sn, i)
             /\ Asked(K, sn, i) = Asked(L, sn, i)
  <2>1. l \notin Mine(L, sn, i)
    BY <1>6 DEF Mine
  <2>2. Mine(K, sn, i) = Mine(L, sn, i)
    BY <1>4, <2>1
  <2> QED
    BY <1>3, <2>2, PageType
<1>7. Weight(l, sn) = l.amount
  BY <1>1 DEF Weight
<1>8. Asked(K, sn, l.invoice) + l.amount = Asked(L, sn, l.invoice)
  <2>1. /\ Mine(L, sn, l.invoice) \in SUBSET Cil
        /\ IsFiniteSet(Mine(L, sn, l.invoice))
        /\ Asked(L, sn, l.invoice) = HeldOf(Mine(L, sn, l.invoice), sn)
        /\ Asked(K, sn, l.invoice) = HeldOf(Mine(K, sn, l.invoice), sn)
    BY <1>3, PageType
  <2>2. /\ HeldOf(Mine(L, sn, l.invoice) \ {l}, sn) \in Int
        /\ HeldOf(Mine(L, sn, l.invoice), sn)
             = HeldOf(Mine(L, sn, l.invoice) \ {l}, sn) + Weight(l, sn)
    BY <1>5, <2>1, HeldBut
  <2> QED
    BY <1>1, <1>4, <1>7, <2>1, <2>2
<1>9. /\ HeldOf(txn.todo \ {l}, sn) + l.amount = HeldOf(txn.todo, sn)
      /\ HeldOf(txn.todo \ {l}, sn) \in Int
  BY <1>3, <1>7, HeldBut
<1> QED
  BY <1>4, <1>5, <1>6, <1>8, <1>9 DEF LessPending, sn, L, K

LEMMA UndonePays ==
    ASSUME IInv, LinksInv, txn.open, Frame(txn), Paying(txn), NEW l \in txn.todo,
           NEW r \in Cil, UndoneAs(l, r),
           NEW u, SameWork(txn, u), u.todo = txn.todo \ {l},
           u.cils = (txn.cils \ {l}) \cup {r}, IsFiniteSet(u.cils),
           u.rem = [txn.rem EXCEPT ![l.credit] = txn.rem[l.credit] + l.amount],
           u.need = txn.need, u.refill = txn.refill, u.inv = txn.inv,
           u.refunds = txn.refunds
    PROVE  Paying(u)
<1>1. /\ u.mode = "CANCEL" /\ u.sn = txn.sn /\ u.group = txn.group
      /\ u.due = txn.due /\ u.cur = txn.cur /\ u.refill = 0 /\ u.refunds = refunds
      /\ u.inv = inv
  BY DEF SameWork, Paying
<1>2. txn.cur # NoInvoice /\ txn.todo \subseteq Mine(txn.cils, txn.sn, txn.cur)
      /\ l.invoice = txn.cur /\ Unpaid(txn.cur)
      /\ Asked(txn.cils, txn.sn, txn.cur) + txn.need = HeldOf(txn.todo, txn.sn) + Total[txn.cur]
      /\ \A k \in Mine(txn.cils, txn.sn, txn.cur) : k \in txn.todo \/ k.group = txn.group
  BY DEF Paying, Mine
<1>9. LessPending(u, l)
  BY UndoneMine
<1>3. /\ \A j \in Invoices : Mine(u.cils, txn.sn, j) = Mine(txn.cils, txn.sn, j) \ {l}
      /\ \A j \in Invoices : j # txn.cur => /\ Mine(u.cils, txn.sn, j) = Mine(txn.cils, txn.sn, j)
                         /\ Asked(u.cils, txn.sn, j) = Asked(txn.cils, txn.sn, j)
      /\ Asked(u.cils, txn.sn, txn.cur) + l.amount = Asked(txn.cils, txn.sn, txn.cur)
      /\ HeldOf(u.todo, txn.sn) + l.amount = HeldOf(txn.todo, txn.sn)
      /\ HeldOf(u.todo, txn.sn) \in Int
  BY <1>2, <1>9 DEF LessPending
<1>4. u.need + Cost(u.due) <= Balance(u.rem, txn.sn) + HeldOf(u.todo, txn.sn)
  <2>1. /\ l \in Cil /\ DepositedBy[l.credit] = txn.sn
        /\ txn.rem \in [Credits -> Nat]
    BY TodoIsOld, TxnSets, TxnFields DEF Payer
  <2>2. /\ l.credit \in Credits /\ txn.rem[l.credit] + l.amount \in Nat
        /\ l.amount \in Nat /\ txn.rem[l.credit] \in Nat
    BY <2>1, CilFields
  <2>3. /\ Balance(txn.rem, txn.sn) \in Int
        /\ Balance(u.rem, txn.sn) = Balance(txn.rem, txn.sn)
             + ((txn.rem[l.credit] + l.amount) - txn.rem[l.credit])
    BY <2>1, <2>2, BalanceSet
  <2>4. Balance(u.rem, txn.sn) + HeldOf(u.todo, txn.sn)
          = Balance(txn.rem, txn.sn) + HeldOf(txn.todo, txn.sn)
    BY <1>3, <2>2, <2>3
  <2>5. txn.need + Cost(txn.due) <= Balance(txn.rem, txn.sn) + HeldOf(txn.todo, txn.sn)
    BY DEF Paying
  <2> QED
    BY <1>1, <2>4, <2>5
<1>10. ASSUME NEW j \in Invoices, j # txn.cur
       PROVE  /\ Same(txn, j) => Same(u, j)
              /\ Covered(txn, j) => Covered(u, j)
  <2>1. /\ Mine(u.cils, u.sn, j) = Mine(txn.cils, txn.sn, j)
        /\ Asked(u.cils, u.sn, j) = Asked(txn.cils, txn.sn, j)
    BY <1>1, <1>3, <1>10
  <2>2. Same(txn, j) => Same(u, j)
    BY <1>1, <2>1 DEF Same
  <2>3. Covered(txn, j) => Covered(u, j)
    BY <1>1, <2>1 DEF Covered
  <2> QED
    BY <2>2, <2>3
<1>5. \A j \in u.due : Unpaid(j) /\ Same(u, j)
  <2>1. txn.cur \notin txn.due /\ txn.due \subseteq Invoices
    BY TxnSets, TxnFields DEF TxnLinks, Pays
  <2>2. \A j \in txn.due : Unpaid(j) /\ Same(txn, j)
    BY DEF Paying
  <2> QED
    BY <1>1, <1>10, <2>1, <2>2
<1>6. /\ u.todo \subseteq Mine(u.cils, txn.sn, txn.cur)
      /\ \A k \in Mine(u.cils, txn.sn, txn.cur) : k \in u.todo \/ k.group = u.group
  <2>1. txn.cur \in Invoices
    BY <1>2, TxnSets, TxnFields
  <2>2. Mine(u.cils, txn.sn, txn.cur) = Mine(txn.cils, txn.sn, txn.cur) \ {l}
    BY <1>3, <2>1
  <2> HIDE <1>3
  <2> QED
    BY <1>1, <1>2, <2>2
<1>7. Asked(u.cils, txn.sn, txn.cur) + u.need = HeldOf(u.todo, txn.sn) + Total[txn.cur]
  <2>1. /\ Asked(u.cils, txn.sn, txn.cur) \in Nat /\ Asked(txn.cils, txn.sn, txn.cur) \in Nat
        /\ l.amount \in Nat /\ txn.need \in Nat
    <3>1. u.cils \in SUBSET Cil /\ txn.cils \in SUBSET Cil /\ IsFiniteSet(txn.cils)
      BY TxnSets
    <3>2. l.amount \in Nat /\ txn.need \in Nat
      BY TodoIsOld, CilFields, TxnSets, TxnFields
    <3>3. IsFiniteSet(u.cils)
      OBVIOUS
    <3> QED
      BY <3>1, <3>2, <3>3, PageType
  <2>2. Total[txn.cur] \in Nat
    BY <1>2, EFTConstants, TxnSets, TxnFields
  <2> QED
    BY <1>2, <1>3, <2>1, <2>2
<1>8. ASSUME NEW j \in Invoices, j \notin u.due, j # u.cur
      PROVE  Same(u, j) \/ Covered(u, j)
  <2>1. Same(txn, j) \/ Covered(txn, j)
    BY <1>1, <1>8 DEF Paying
  <2> QED
    BY <1>1, <1>8, <1>10, <2>1
<1> QED
  BY <1>1, <1>2, <1>4, <1>5, <1>6, <1>7, <1>8 DEF Paying

LEMMA UndoneUndoes ==
    ASSUME IInv, LinksInv, txn.open, Frame(txn), Undoing(txn),
           NEW l \in txn.todo, NEW r \in Cil, UndoneAs(l, r),
           NEW u, SameWork(txn, u), u.todo = txn.todo \ {l},
           u.cils = (txn.cils \ {l}) \cup {r}, IsFiniteSet(u.cils),
           u.need = txn.need, u.refill = txn.refill,
           u.refunds = txn.refunds
    PROVE  Undoing(u)
<1>1. /\ u.mode = txn.mode /\ u.sn = txn.sn /\ u.due = {} /\ u.cur = NoInvoice
      /\ u.need = 0 /\ u.refill = 0 /\ u.refunds = refunds
      /\ u.mode # "PENDING_REFUND"
  BY DEF SameWork, Undoing, UndoneAs
<1>2. /\ \A j \in Invoices : Mine(u.cils, txn.sn, j) = Mine(txn.cils, txn.sn, j) \ {l}
      /\ \A j \in Invoices : j # l.invoice => Mine(u.cils, txn.sn, j) = Mine(txn.cils, txn.sn, j)
  <2>1. LessPending(u, l)
    BY UndoneMine
  <2> QED
    BY <2>1 DEF LessPending
<1>3. ASSUME NEW j \in Invoices
      PROVE  \/ Same(u, j) /\ On(u.todo, j) = {}
             \/ Mine(u.cils, u.sn, j) = On(u.todo, j)
  <2>1. \/ Same(txn, j) /\ On(txn.todo, j) = {}
        \/ Mine(txn.cils, txn.sn, j) = On(txn.todo, j)
    BY <1>1 DEF Undoing
  <2>2. CASE j = l.invoice
    <3>1. l \in On(txn.todo, j)
      BY <2>2 DEF On
    <3>2. Mine(txn.cils, txn.sn, j) = On(txn.todo, j)
      BY <2>1, <3>1
    <3>3. On(u.todo, j) = On(txn.todo, j) \ {l}
      BY DEF On
    <3> QED
      BY <1>1, <1>2, <3>2, <3>3
  <2>3. CASE j # l.invoice
    <3>1. On(u.todo, j) = On(txn.todo, j)
      BY <2>3 DEF On
    <3>2. Mine(u.cils, txn.sn, j) = Mine(txn.cils, txn.sn, j)
      BY <1>2, <2>3
    <3> QED
      BY <1>1, <2>1, <3>1, <3>2 DEF Same
  <2> QED
    BY <2>2, <2>3
<1> QED
  BY <1>1, <1>3 DEF Undoing

-----------------------------------------------------------------------------
(* A step of a request that returns a link.                                *)

\* What is left of a number once that of a link of the invoice i is taken.
Less(n, l, i) == n - (IF i = l.invoice THEN l.amount ELSE 0)

TakenBack(u, l) ==
    \A i \in Invoices :
        /\ Done(txn.cils, txn.sn, i) \in Int
        /\ Done(u.cils, txn.sn, i) = Less(Done(txn.cils, txn.sn, i), l, i)

\* A return of a payment takes from what it has taken.
LEMMA ReturnedDone ==
    ASSUME IInv, LinksInv, txn.open, Frame(txn), Returning(txn),
           NEW l \in txn.todo, NEW r \in Cil, ReturnOf(l, r, l.amount),
           NEW u, u.cils = txn.cils \cup {r}
    PROVE  TakenBack(u, l)
<1> SUFFICES ASSUME NEW i \in Invoices
             PROVE  /\ Done(txn.cils, txn.sn, i) \in Int
                    /\ Done(u.cils, txn.sn, i)
                         = Less(Done(txn.cils, txn.sn, i), l, i)
  BY DEF TakenBack
<1> DEFINE A == Closed(txn.cils, i)
           B == Closed(u.cils, i)
<1>1. /\ txn.cils \in SUBSET Cil /\ IsFiniteSet(txn.cils)
      /\ l \in Cil /\ Payer(l) = txn.sn /\ l.amount \in Nat
  BY TxnSets, TodoIsOld, CilFields
<1>2. /\ r.status = "PENDING_REFUND" /\ r.invoice = l.invoice
      /\ Payer(r) = txn.sn /\ r.amount = l.amount /\ r.id = txn.lastCil + 1
  BY <1>1 DEF ReturnOf, SameReceipt, SameCredit, Payer, Returning, Frame
<1>3. r \notin txn.cils
  <2>1. Links(txn.cils, txn.lastCil) /\ txn.lastCil \in Nat
    BY TxnSets, TxnFields DEF TxnLinks
  <2> QED
    BY <1>2, <2>1 DEF Links, Numbered
<1>4. A \in SUBSET Cil /\ IsFiniteSet(A) /\ Done(txn.cils, txn.sn, i) \in Int
  BY <1>1, PageType
<1>5. CASE i = l.invoice
  <2>1. B = A \cup {r} /\ r \notin A
    BY <1>2, <1>3, <1>5 DEF Closed
  <2>2. Weight(r, txn.sn) = -l.amount
    BY <1>2 DEF Weight, IsReturn
  <2> HIDE DEF A, B
  <2>3. HeldOf(B, txn.sn) = HeldOf(A, txn.sn) + Weight(r, txn.sn)
    BY <1>4, <2>1, HeldAdd
  <2> QED
    BY <1>1, <1>4, <1>5, <2>2, <2>3 DEF Done, A, B, Less
<1>6. CASE i # l.invoice
  <2>1. B = A
    BY <1>2, <1>6 DEF Closed
  <2> QED
    BY <1>4, <1>6, <2>1 DEF Done, Less
<1> QED
  BY <1>5, <1>6

\* And what is still to be returned is as much less.
LEMMA ReturnedTodo ==
    ASSUME IInv, LinksInv, txn.open, Frame(txn), NEW l \in txn.todo, NEW i
    PROVE  /\ HeldOf(On(txn.todo, i), txn.sn) \in Int
           /\ HeldOf(On(txn.todo \ {l}, i), txn.sn)
                = Less(HeldOf(On(txn.todo, i), txn.sn), l, i)
<1> DEFINE A == On(txn.todo, i)
           B == On(txn.todo \ {l}, i)
<1>1. /\ txn.todo \in SUBSET Cil /\ IsFiniteSet(txn.todo)
      /\ l \in Cil /\ Payer(l) = txn.sn /\ l.amount \in Nat
      /\ l.status \in {"PENDING", "COMPLETED"}
  BY TxnSets, TodoIsOld, CilFields
<1>2. A \in SUBSET Cil /\ IsFiniteSet(A) /\ HeldOf(A, txn.sn) \in Int
  <2>0. A \in SUBSET txn.todo
    BY DEF On
  <2> HIDE DEF A
  <2>1. A \in SUBSET Cil /\ IsFiniteSet(A)
    BY <1>1, <2>0, FS_Subset
  <2> QED
    BY <2>1, HeldType
<1>3. CASE i = l.invoice
  <2>1. B = A \ {l} /\ l \in A
    BY <1>3 DEF On
  <2>2. Weight(l, txn.sn) = l.amount
    BY <1>1 DEF Weight
  <2> HIDE DEF A, B
  <2>3. /\ HeldOf(A \ {l}, txn.sn) \in Int
        /\ HeldOf(A, txn.sn) = HeldOf(A \ {l}, txn.sn) + Weight(l, txn.sn)
    BY <1>2, <2>1, HeldBut
  <2>4. HeldOf(B, txn.sn) = HeldOf(A \ {l}, txn.sn)
    BY <2>1
  <2>5. HeldOf(B, txn.sn) = HeldOf(A, txn.sn) - l.amount
    BY <1>1, <2>2, <2>3, <2>4
  <2> QED
    BY <1>2, <1>3, <2>5 DEF A, B, Less
<1>4. CASE i # l.invoice
  <2>1. B = A
    BY <1>4 DEF On
  <2> QED
    BY <1>2, <1>4, <2>1 DEF Less
<1> QED
  BY <1>3, <1>4

LEMMA ReturnsBook ==
    ASSUME IInv, LinksInv, txn.open, TxnBook(txn), Returning(txn),
           NEW l \in txn.todo, NEW r \in Cil, ReturnOf(l, r, l.amount),
           NEW u, SameWork(txn, u), u.todo = txn.todo \ {l},
           u.cils = txn.cils \cup {r}, u.need = txn.need,
           u.refill = txn.refill, u.inv = txn.inv, u.refunds = txn.refunds
    PROVE  TxnBook(u)
<1>1. /\ Frame(txn) /\ Rows(txn) /\ Touches(txn) /\ Undoing(txn)
      /\ txn.mode = "PENDING_REFUND"
  BY DEF TxnBook, Frame, Returning, Paying, Refunding
<1>2. /\ u.mode = txn.mode /\ u.sn = txn.sn /\ u.group = txn.group
      /\ u.due = txn.due /\ u.cur = txn.cur
  BY DEF SameWork
<1>3. /\ l \in txn.cils /\ Payer(l) = txn.sn /\ r.invoice = l.invoice
      /\ Payer(r) = txn.sn /\ r.group = txn.group
  BY <1>1, TodoIsOld DEF ReturnOf, SameReceipt, SameCredit, Payer
<1>4. Frame(u)
  BY <1>1, <1>2, <1>3 DEF Frame
<1>5. Rows(u)
  BY <1>1 DEF Rows
<1>6. Touches(u)
  <2> SUFFICES ASSUME NEW m \in Touched(u)
               PROVE  /\ ~InReturn(cils, m.invoice)
                      /\ ~Owed(txn.inv[m.invoice])
                      /\ Done(cils, txn.sn, m.invoice) = Total[m.invoice]
                      /\ Done(u.cils, txn.sn, m.invoice)
                           = HeldOf(On(u.todo, m.invoice), txn.sn)
    BY <1>1, <1>2 DEF Touches
  <2>1. \E k \in Touched(txn) : k.invoice = m.invoice
    BY <1>1, <1>2, <1>3 DEF Touched
  <2>2. /\ ~InReturn(cils, m.invoice) /\ ~Owed(txn.inv[m.invoice])
        /\ Done(cils, txn.sn, m.invoice) = Total[m.invoice]
        /\ Done(txn.cils, txn.sn, m.invoice)
             = HeldOf(On(txn.todo, m.invoice), txn.sn)
    BY <1>1, <2>1 DEF Touches
  <2>3. /\ Done(txn.cils, txn.sn, m.invoice) \in Int
        /\ Done(u.cils, txn.sn, m.invoice)
             = Less(Done(txn.cils, txn.sn, m.invoice), l, m.invoice)
    <3>1. /\ l \in txn.todo /\ r \in Cil /\ ReturnOf(l, r, l.amount)
          /\ u.cils = txn.cils \cup {r} /\ Frame(txn)
      BY <1>1
    <3>2. TakenBack(u, l)
      BY <3>1, ReturnedDone
    <3>3. m \in Cil
      BY <1>1, <1>2, TxnSets DEF Touched
    <3> QED
      BY <3>2, <3>3, CilFields DEF TakenBack
  <2>4. HeldOf(On(txn.todo \ {l}, m.invoice), txn.sn)
          = Less(HeldOf(On(txn.todo, m.invoice), txn.sn), l, m.invoice)
    BY <1>1, ReturnedTodo
  <2> QED
    BY <2>2, <2>3, <2>4
<1>7. Undoing(u)
  BY <1>1, <1>2 DEF Undoing
<1> QED
  BY <1>4, <1>5, <1>6, <1>7 DEF TxnBook

-----------------------------------------------------------------------------
(* What keeps the invariant while a request runs.                          *)

\* A step of a request that leads to a good one, or ends it.
LEMMA StepBook ==
    ASSUME BookInv, txn # NoTxn, NEW t, t = NoTxn \/ TxnBook(t), txn' = t,
           UNCHANGED tables, UNCHANGED jobVars
    PROVE  BookInv'
<1>1. job = IdleJob /\ cfsTodo = {}
  BY DEF BookInv, OneAtATime
<1>2. UNCHANGED <<cils, inv, refunds, job, cfsTodo>>
  BY DEF tables, jobVars
<1>3. OneAtATime'
  BY <1>1, <1>2 DEF OneAtATime
<1>4. Pages(cils)' /\ Books(cils, inv)'
  BY <1>2 DEF BookInv
<1>5. ASSUME t # NoTxn PROVE TxnBook(txn)'
  <2>1. TxnBook(t)
    BY <1>5
  <2>2. Frame(txn)' /\ Rows(txn)'
    BY <1>2, <2>1 DEF TxnBook, Frame, Rows
  <2>3. Touches(txn)'
    BY <1>2, <2>1 DEF TxnBook, Touches, Touched, Unpaid
  <2>4. Paying(t) => Paying(txn)'
    BY <1>2 DEF Paying, Same, Covered, Unpaid
  <2>5. Undoing(t) => Undoing(txn)'
    BY <1>2 DEF Undoing, Same
  <2>6. Refunding(t) => Refunding(txn)'
    BY <1>2 DEF Refunding
  <2> QED
    BY <2>1, <2>2, <2>3, <2>4, <2>5, <2>6 DEF TxnBook
<1>6. JobBook'
  BY <1>1, <1>2 DEF JobBook, IdleJob
<1> QED
  BY <1>3, <1>4, <1>5, <1>6 DEF BookInv

LEMMA ReturnCreditBook ==
    ASSUME IInv, LinksInv, BookInv, txn.open, ReturnCredit, UNCHANGED jobVars
    PROVE  BookInv'
<1>1. GoodTxn(txn) /\ txn \in Txn /\ txn # NoTxn /\ TxnBook(txn)
  BY OpenIsGood DEF GoodTxn, NoTxn, BookInv
<1>2. CASE Rollback
  BY <1>1, <1>2, StepBook DEF Rollback
<1>3. CASE ~ Rollback
  <2>1. PICK u, l, x :
          /\ l \in txn.todo /\ \A k \in txn.todo : l.id <= k.id
          /\ x \in Nat /\ x = ReturnAmount(l)
          /\ txn.rem[l.credit] + x <= Amount[l.credit]
          /\ u = PutBack(txn, txn.todo \ {l}, l.credit,
                         txn.rem[l.credit] + x, Recorded(l, x),
                         IF AddsReturn THEN txn.lastCil + 1
                         ELSE txn.lastCil)
          /\ txn' = u /\ UNCHANGED tables
    BY <1>3, ReturnCreditSteps
  <2> DEFINE todo == txn.todo \ {l}
             c == l.credit
             amount == txn.rem[c] + x
             L == Recorded(l, x)
             last == IF AddsReturn THEN txn.lastCil + 1 ELSE txn.lastCil
  <2>2. /\ c \in Credits /\ todo \in SUBSET Cil /\ last \in Nat
             /\ amount \in Nat
        /\ L \in SUBSET Cil /\ txn.rem \in [Credits -> Nat]
    <3>1. /\ c \in Credits /\ todo \in SUBSET Cil /\ last \in Nat
          /\ txn.rem \in [Credits -> Nat]
      BY <1>1, <2>1, TxnFields, CilFields DEF GoodTxn
    <3>2. L \in SUBSET Cil
      BY <1>1, <2>1, RecordedType
    <3>3. txn.rem[c] \in Nat
      BY <3>1
    <3>4. amount \in Nat
      BY <2>1, <3>3
    <3> QED
      BY <3>1, <3>2, <3>4
  <2>3. u = PutBack(txn, todo, c, amount, L, last)
    BY <2>1
  <2>4. x = l.amount /\ txn.mode # "REFUNDED" /\ Frame(txn)
    BY <1>1, <2>1 DEF ReturnAmount, TxnBook, Frame
  <2> HIDE DEF todo, c, amount, last
  <2>5. /\ SameWork(txn, u) /\ u.todo = todo /\ u.cils = L
        /\ u.need = txn.need /\ u.refill = txn.refill
        /\ u.rem = [txn.rem EXCEPT ![c] = amount]
        /\ u.inv = txn.inv /\ u.refunds = txn.refunds
    <3> HIDE DEF L
    <3> QED
      BY <1>1, <2>2, <2>3, PutBackType DEF SameWork
  <2>6. PICK r \in Cil :
          \/ /\ txn.mode = "CANCEL" /\ Undone(l, r, l.group)
             /\ Recorded(l, x) = (txn.cils \ {l}) \cup {r}
          \/ /\ txn.mode = "REGROUP" /\ Undone(l, r, txn.group)
             /\ Recorded(l, x) = (txn.cils \ {l}) \cup {r}
          \/ /\ Returning(txn) /\ ReturnOf(l, r, x)
             /\ Recorded(l, x) = txn.cils \cup {r}
    BY <1>1, <2>1, RecordedShape
  <2>7. u.todo = txn.todo \ {l} /\ l \in txn.todo
    BY <2>1, <2>5 DEF todo
  <2>8. TxnBook(u)
    <3>1. CASE Returning(txn)
      <4>1. ReturnOf(l, r, l.amount) /\ u.cils = txn.cils \cup {r}
        BY <2>4, <2>5, <2>6, <3>1 DEF Returning
      <4> QED
        BY <1>1, <2>5, <2>7, <3>1, <4>1, ReturnsBook
    <3>2. CASE ~Returning(txn)
      <4>1. UndoneAs(l, r) /\ u.cils = (txn.cils \ {l}) \cup {r}
        BY <2>5, <2>6, <3>2 DEF UndoneAs
      <4>2. IsFiniteSet(u.cils)
        <5>1. IsFiniteSet(txn.cils)
          BY TxnSets
        <5>2. IsFiniteSet(txn.cils \ {l})
          BY <5>1, FS_Difference
        <5> QED
          BY <4>1, <5>2, FS_AddElement
      <4>3. /\ Frame(txn) /\ Rows(txn) /\ Touches(txn)
            /\ Paying(txn) \/ Undoing(txn)
        BY <1>1, <2>7 DEF TxnBook, Refunding
      <4>4. Frame(u)
        BY <2>5, <2>7, <4>1, <4>3, UndoneFrame
      <4>5. Touches(u)
        BY <2>5, <2>7, <4>1, <4>3, UndoneTouches
      <4>6. Rows(u)
        BY <2>5, <4>3 DEF Rows
      <4>7. Paying(txn) => Paying(u)
        <5>1. u.rem = [txn.rem EXCEPT ![l.credit] = txn.rem[l.credit] + l.amount]
          BY <2>4, <2>5 DEF c, amount
        <5> QED
          BY <2>5, <2>7, <4>1, <4>2, <4>3, <5>1, UndonePays
      <4>8. Undoing(txn) => Undoing(u)
        BY <2>5, <2>7, <4>1, <4>2, <4>3, UndoneUndoes
      <4> QED
        BY <4>3, <4>4, <4>5, <4>6, <4>7, <4>8 DEF TxnBook
    <3> QED
      BY <3>1, <3>2
  <2> QED
    BY <1>1, <2>1, <2>8, StepBook
<1> QED
  BY <1>2, <1>3

-----------------------------------------------------------------------------
(* The other steps of a request.                                           *)

LEMMA CostOut ==
    ASSUME NEW I \in SUBSET Invoices, NEW i \in I
    PROVE  Cost(I) = Total[i] + Cost(I \ {i})
<1>1. IsFiniteSet(I)
  BY CostType
<1>2. \A j \in I : Total[j] \in Int
  BY EFTConstants
<1>3. SumFunctionOnSet(Total, I) = Total[i] + SumFunctionOnSet(Total, I \ {i})
  BY <1>1, <1>2, SumOut
<1> QED
  BY <1>3 DEF Cost

\* The old invoice is covered, and what is due is what is left of it.
LEMMA NextInvoiceBook ==
    ASSUME IInv, LinksInv, BookInv, txn.open, NextInvoice, UNCHANGED jobVars
    PROVE  BookInv'
<1>1. /\ txn \in Txn /\ txn # NoTxn /\ TxnBook(txn)
      /\ txn.cils \in SUBSET Cil /\ IsFiniteSet(txn.cils)
      /\ txn.sn \in ShortNames
  BY TxnSets DEF BookInv
<1>2. txn.todo = {} /\ txn.need = 0 /\ txn.due # {}
  BY DEF NextInvoice
<1>3. /\ Frame(txn) /\ Rows(txn) /\ Touches(txn) /\ Paying(txn)
      /\ txn.mode = "CANCEL"
  BY <1>1, <1>2 DEF TxnBook, Undoing, Refunding, Paying
<1>4. PICK u, i :
        /\ i \in txn.due
        /\ u.due = txn.due \ {i} /\ u.cur = i /\ u.need = Total[i]
        /\ u.todo = PendingLinks(txn.cils, txn.sn, i)
        /\ u.cils = txn.cils
        /\ u.sn = txn.sn /\ u.group = txn.group /\ u.mode = txn.mode
        /\ u.refill = txn.refill /\ u.rem = txn.rem
        /\ u.inv = txn.inv /\ u.refunds = txn.refunds
        /\ txn' = u /\ UNCHANGED tables
  BY NextInvoiceSteps
<1>5. /\ i \in Invoices /\ txn.due \in SUBSET Invoices
      /\ Total[i] \in Nat
  BY <1>1, <1>4, TxnFields, EFTConstants
<1>6. u.todo = Mine(txn.cils, txn.sn, i)
  BY <1>4 DEF PendingLinks, Mine, Payer
<1>7. Frame(u)
  <2>1. \A l \in u.todo : Payer(l) = u.sn
    BY <1>4, <1>6 DEF Mine
  <2> QED
    BY <1>3, <1>4, <2>1 DEF Frame
<1>8. Rows(u)
  BY <1>3, <1>4 DEF Rows
<1>9. Touches(u)
  <2>1. Touched(u) = Touched(txn)
    BY <1>3, <1>4 DEF Touched
  <2> QED
    BY <1>3, <1>4, <2>1 DEF Touches
<1>10. Paying(u)
  <2>1. u.mode = "CANCEL" /\ u.refill = 0 /\ u.refunds = refunds /\ u.inv = inv
    BY <1>3, <1>4 DEF Paying
  <2>2. /\ IsFiniteSet(u.todo) /\ u.todo \in SUBSET Cil
        /\ Asked(txn.cils, txn.sn, i) = HeldOf(u.todo, txn.sn)
        /\ HeldOf(u.todo, txn.sn) \in Nat
    BY <1>1, <1>6, PageType
  <2>3. u.need + Cost(u.due) <= Balance(u.rem, u.sn) + HeldOf(u.todo, u.sn)
    <3>1. Cost(txn.due) = Total[i] + Cost(txn.due \ {i})
      BY <1>4, <1>5, CostOut
    <3>2. txn.need + Cost(txn.due)
            <= Balance(txn.rem, txn.sn) + HeldOf(txn.todo, txn.sn)
      BY <1>3 DEF Paying
    <3>3. HeldOf(txn.todo, txn.sn) = 0
      BY <1>2, HeldEmpty
    <3>4. Balance(txn.rem, txn.sn) \in Nat
      BY <1>1, TxnFields, BalanceType
    <3>5. Cost(txn.due) \in Nat /\ Cost(txn.due \ {i}) \in Nat
      BY <1>5, CostType
    <3> QED
      BY <1>2, <1>4, <1>5, <2>2, <3>1, <3>2, <3>3, <3>4, <3>5
  <2>4. \A j \in u.due : Unpaid(j) /\ Same(u, j)
    BY <1>3, <1>4 DEF Paying, Same
  <2>5. u.cur # NoInvoice
    BY <1>4, <1>5 DEF Invoices, NoInvoice
  <2>6. Unpaid(u.cur)
    BY <1>3, <1>4 DEF Paying
  <2>7. Asked(u.cils, u.sn, u.cur) + u.need
          = HeldOf(u.todo, u.sn) + Total[u.cur]
    BY <1>4, <2>2
  <2>8. u.todo = Mine(u.cils, u.sn, u.cur)
    BY <1>4, <1>6
  <2>9. ASSUME NEW j \in Invoices, j \notin u.due, j # u.cur
        PROVE  Same(u, j) \/ Covered(u, j)
    <3>1. j \notin txn.due
      BY <1>4, <2>9
    <3>2. CASE j = txn.cur
      <4>1. txn.cur # NoInvoice
        BY <3>2 DEF Invoices, NoInvoice
      <4>2. /\ Unpaid(j)
            /\ Asked(txn.cils, txn.sn, j) + 0
                 = HeldOf({}, txn.sn) + Total[j]
            /\ \A l \in Mine(txn.cils, txn.sn, j) : l.group = txn.group
        BY <1>2, <1>3, <3>2, <4>1 DEF Paying
      <4>3. Asked(txn.cils, txn.sn, j) = Total[j]
        BY <1>1, <2>9, <4>2, PageType, HeldEmpty, EFTConstants
      <4> QED
        BY <1>4, <4>2, <4>3 DEF Covered
    <3>3. CASE j # txn.cur
      BY <1>3, <1>4, <3>1, <3>3 DEF Paying, Same, Covered
    <3> QED
      BY <3>2, <3>3
  <2> QED
    BY <2>1, <2>3, <2>4, <2>5, <2>6, <2>7, <2>8, <2>9 DEF Paying
<1>11. TxnBook(u)
  BY <1>7, <1>8, <1>9, <1>10 DEF TxnBook
<1> QED
  BY <1>1, <1>4, <1>11, StepBook

\* A request that links nothing leaves the pages alone.
LEMMA SameBook ==
    ASSUME TxnBook(txn), Refunding(txn),
           NEW u, SameWork(txn, u), u.todo = txn.todo, u.cils = txn.cils,
           u.inv = txn.inv, u.refunds = txn.refunds
    PROVE  TxnBook(u)
<1>1. /\ u.sn = txn.sn /\ u.group = txn.group /\ u.mode = txn.mode
      /\ u.due = txn.due /\ u.cur = txn.cur
  BY DEF SameWork
<1>2. Frame(u)
  BY <1>1 DEF TxnBook, Frame
<1>3. Rows(u)
  BY DEF TxnBook, Rows
<1>4. Touches(u)
  <2>1. Touched(u) = Touched(txn) /\ u.mode = "CANCEL"
    BY <1>1 DEF Touched, Refunding
  <2> QED
    BY <1>1, <2>1 DEF TxnBook, Touches
<1>5. Refunding(u)
  BY <1>1 DEF Refunding
<1> QED
  BY <1>2, <1>3, <1>4, <1>5 DEF TxnBook

\* A link of the new group pays more of the invoice.
LEMMA PaysBook ==
    ASSUME IInv, LinksInv, Books(cils, inv), txn.open, TxnBook(txn),
           txn.todo = {}, txn.cur # NoInvoice, txn.need > 0,
           NEW c \in CreditsOf(txn.sn),
           NEW x \in Nat, x <= txn.rem[c], x <= txn.need,
           NEW r \in Cil, r.id = txn.lastCil + 1, r.invoice = txn.cur,
           r.credit = c, r.amount = x, r.group = txn.group,
           r.status = "PENDING",
           NEW u, SameWork(txn, u), u.todo = {}, u.refill = txn.refill,
           u.cils = txn.cils \cup {r}, u.need = txn.need - x,
           u.rem = [txn.rem EXCEPT ![c] = txn.rem[c] - x],
           u.inv = txn.inv, u.refunds = txn.refunds
    PROVE  TxnBook(u)
<1> DEFINE sn == txn.sn
           i == txn.cur
           L == txn.cils
           K == txn.cils \cup {r}
<1>1. /\ txn \in Txn /\ L \in SUBSET Cil /\ IsFiniteSet(L)
      /\ sn \in ShortNames /\ i \in Invoices /\ txn.need \in Nat
      /\ txn.rem \in [Credits -> Nat] /\ txn.due \in SUBSET Invoices
      /\ TxnLinks(txn)
  BY TxnSets, TxnFields
<1>2. /\ Frame(txn) /\ Rows(txn) /\ Touches(txn) /\ Paying(txn)
      /\ txn.mode = "CANCEL"
  BY DEF TxnBook, Undoing, Refunding, Paying
<1>3. /\ u.sn = sn /\ u.group = txn.group /\ u.mode = "CANCEL"
      /\ u.due = txn.due /\ u.cur = i /\ u.cils = K
  BY <1>2 DEF SameWork
<1>4. Payer(r) = sn /\ c \in Credits /\ DepositedBy[c] = sn
  BY DEF Payer, CreditsOf
<1>5. Unpaid(i)
  BY <1>2 DEF Paying
<1>6. r \notin L
  <2>1. Links(L, txn.lastCil) /\ txn.lastCil \in Nat
    BY <1>1, TxnFields DEF TxnLinks
  <2> QED
    BY <2>1 DEF Links, Numbered
<1>7. K \in SUBSET Cil /\ IsFiniteSet(K)
  BY <1>1, FS_AddElement
<1>8. Frame(u)
  BY <1>2, <1>3, <1>4 DEF Frame
<1>9. Rows(u)
  BY <1>2 DEF Rows
<1>10. Touches(u)
  <2>1. ~InReturn(cils, i)
    BY <1>1, <1>5 DEF Books, Owed, Unpaid
  <2>2. \A m \in Touched(u) : m \in Touched(txn) \/ m = r
    BY <1>2, <1>3 DEF Touched
  <2> QED
    BY <1>2, <1>3, <1>5, <2>1, <2>2 DEF Touches
<1>11. \A j \in Invoices : j # i => Mine(K, sn, j) = Mine(L, sn, j)
  BY DEF Mine
<1>12. Mine(K, sn, i) = Mine(L, sn, i) \cup {r}
  BY <1>4 DEF Mine
<1>13. Asked(K, sn, i) = Asked(L, sn, i) + x /\ Asked(L, sn, i) \in Nat
  <2> DEFINE A == Mine(L, sn, i)
             B == Mine(K, sn, i)
  <2>1. /\ A \in SUBSET Cil /\ IsFiniteSet(A) /\ r \notin A
        /\ Asked(L, sn, i) = HeldOf(A, sn) /\ Asked(L, sn, i) \in Nat
    <3>1. r \notin A
      BY <1>6 DEF Mine
    <3> HIDE DEF L
    <3> QED
      BY <1>1, <3>1, PageType
  <2>2. Asked(K, sn, i) = HeldOf(B, sn)
    <3> HIDE DEF K
    <3> QED
      BY <1>7, PageType
  <2>3. Weight(r, sn) = x
    BY <1>4 DEF Weight
  <2> HIDE DEF A, K, L
  <2>4. HeldOf(A \cup {r}, sn) = HeldOf(A, sn) + Weight(r, sn)
    BY <2>1, HeldAdd
  <2>5. HeldOf(B, sn) = HeldOf(A \cup {r}, sn)
    BY <1>12 DEF A
  <2> QED
    BY <2>1, <2>2, <2>3, <2>4, <2>5
<1>14. HeldOf({}, sn) = 0
  BY HeldEmpty
<1>15. Balance(u.rem, sn) = Balance(txn.rem, sn) - x
       /\ Balance(txn.rem, sn) \in Nat
  <2> DEFINE n == txn.rem[c] - x
             new == u.rem
  <2>1. n \in Nat /\ txn.rem[c] \in Nat /\ new = [txn.rem EXCEPT ![c] = n]
    BY <1>1, <1>4
  <2> HIDE DEF n, new
  <2>2. Balance(new, sn) = Balance(txn.rem, sn) + (n - txn.rem[c])
    BY <1>1, <1>4, <2>1, BalanceSet
  <2>3. Balance(txn.rem, sn) \in Nat
    BY <1>1, BalanceType
  <2> QED
    BY <2>1, <2>2, <2>3 DEF n, new
<1>16. ASSUME NEW j \in Invoices, j # i
       PROVE  /\ Same(txn, j) => Same(u, j)
              /\ Covered(txn, j) => Covered(u, j)
  <2>1. Mine(K, sn, j) = Mine(L, sn, j)
    BY <1>11, <1>16
  <2>2. Asked(K, sn, j) = Asked(L, sn, j)
    <3> HIDE DEF K, L
    <3> QED
      BY <1>1, <1>7, <2>1, PageType
  <2>3. /\ Mine(u.cils, u.sn, j) = Mine(txn.cils, txn.sn, j)
        /\ Asked(u.cils, u.sn, j) = Asked(txn.cils, txn.sn, j)
    <3> HIDE DEF K
    <3> QED
      BY <1>3, <2>1, <2>2
  <2>4. Same(txn, j) => Same(u, j)
    BY <1>3, <2>3 DEF Same
  <2>5. Covered(txn, j) => Covered(u, j)
    BY <1>3, <2>3 DEF Covered
  <2> QED
    BY <2>4, <2>5
<1>17. Paying(u)
  <2>1. u.refill = 0 /\ u.refunds = refunds /\ u.inv = inv
    BY <1>2 DEF Paying
  <2>2. u.need + Cost(u.due) <= Balance(u.rem, u.sn) + HeldOf(u.todo, u.sn)
    <3>1. txn.need + Cost(txn.due) <= Balance(txn.rem, sn) + HeldOf({}, sn)
      BY <1>2 DEF Paying
    <3>2. Cost(txn.due) \in Nat
      BY <1>1, CostType
    <3> QED
      BY <1>1, <1>3, <1>14, <1>15, <3>1, <3>2
  <2>3. \A j \in u.due : Unpaid(j) /\ Same(u, j)
    <3>1. \A j \in txn.due : Unpaid(j) /\ Same(txn, j) /\ j \in Invoices
          /\ j # i
      BY <1>1, <1>2 DEF Paying, TxnLinks, Pays
    <3> QED
      BY <1>3, <1>16, <3>1
  <2>4. Asked(u.cils, u.sn, u.cur) + u.need
          = HeldOf(u.todo, u.sn) + Total[u.cur]
    <3>1. Asked(L, sn, i) + txn.need = HeldOf({}, sn) + Total[i]
      BY <1>2 DEF Paying
    <3> QED
      BY <1>1, <1>3, <1>13, <1>14, <3>1, EFTConstants
  <2>5. \A l \in Mine(u.cils, u.sn, u.cur) : l.group = u.group
    <3>1. \A l \in Mine(L, sn, i) : l.group = txn.group
      BY <1>2 DEF Paying
    <3> QED
      BY <1>3, <1>12, <3>1
  <2>6. ASSUME NEW j \in Invoices, j \notin u.due, j # u.cur
        PROVE  Same(u, j) \/ Covered(u, j)
    <3>1. Same(txn, j) \/ Covered(txn, j)
      BY <1>2, <1>3, <2>6 DEF Paying
    <3> QED
      BY <1>3, <1>16, <2>6, <3>1
  <2> QED
    BY <1>3, <1>5, <2>1, <2>2, <2>3, <2>4, <2>5, <2>6 DEF Paying
<1> QED
  BY <1>8, <1>9, <1>10, <1>17 DEF TxnBook

\* There is always enough for what is being paid.
LEMMA NeverShort ==
    ASSUME IInv, LinksInv, MoneyInv, txn.open, TxnBook(txn),
           txn.todo = {}, txn.need > 0
    PROVE  /\ Balance(txn.rem, txn.sn) >= txn.need
           /\ txn.cur = NoInvoice => Refunding(txn)
<1>1. /\ txn \in Txn /\ txn # NoTxn /\ txn.need \in Nat
      /\ txn.due \in SUBSET Invoices /\ txn.rem \in [Credits -> Nat]
      /\ txn.sn \in ShortNames
  BY TxnSets, TxnFields
<1>2. Balance(txn.rem, txn.sn) \in Nat /\ Cost(txn.due) \in Nat
  BY <1>1, BalanceType, CostType
<1>3. Paying(txn) \/ Refunding(txn)
  BY <1>1 DEF TxnBook, Undoing
<1>4. CASE txn.cur = NoInvoice
  <2>1. txn.need <= Balance(txn.rem, txn.sn)
    BY <1>1, <1>4 DEF MoneyInv, MoneyTxn
  <2>2. ~Paying(txn)
    BY <1>1, <1>4 DEF Paying
  <2> QED
    BY <1>1, <1>2, <1>3, <2>1, <2>2
<1>5. CASE txn.cur # NoInvoice
  <2>1. txn.need + Cost(txn.due)
          <= Balance(txn.rem, txn.sn) + HeldOf({}, txn.sn)
    BY <1>3, <1>5 DEF Paying, Refunding
  <2>2. HeldOf({}, txn.sn) = 0
    BY HeldEmpty
  <2> QED
    BY <1>1, <1>2, <1>5, <2>1, <2>2
<1> QED
  BY <1>4, <1>5

LEMMA TakeCreditBook ==
    ASSUME IInv, LinksInv, MoneyInv, BookInv, txn.open, TakeCredit,
           UNCHANGED jobVars
    PROVE  BookInv'
<1>1. /\ txn \in Txn /\ txn # NoTxn /\ TxnBook(txn) /\ Books(cils, inv)
      /\ txn.need \in Nat
  BY TxnSets, TxnFields DEF BookInv
<1>2. txn.todo = {} /\ txn.need > 0 /\ UNCHANGED tables
  BY TakeCreditSteps
<1>3. /\ Balance(txn.rem, txn.sn) >= txn.need
      /\ txn.cur = NoInvoice => Refunding(txn)
  BY <1>1, <1>2, NeverShort
<1>4. Balance(txn.rem, txn.sn) \in Nat
  BY <1>1, TxnFields, BalanceType
<1>5. PICK c, x, L, last : Takes(c, x, L, last)
  BY <1>1, <1>3, <1>4, TakeCreditSteps
<1> DEFINE u == txn'
           n == txn.rem[c] - x
           need == txn.need - x
<1>6. /\ txn.rem \in [Credits -> Nat] /\ txn.need \in Nat
      /\ txn.cils \in SUBSET Cil /\ txn.lastCil \in Nat /\ txn.refill \in Nat
  BY <1>1, TxnFields
<1>7. /\ c \in Credits /\ c \in CreditsOf(txn.sn) /\ txn.rem[c] \in Nat
      /\ x \in Nat /\ x <= txn.rem[c] /\ x <= txn.need
  BY <1>5, <1>6 DEF Takes, CreditsOf
<1>8. n \in Nat /\ need \in Nat
  BY <1>6, <1>7
<1>9. L \in SUBSET Cil /\ last \in Nat
  BY <1>5, <1>6 DEF Takes, PaidBy
<1>10. u = SetCredit(txn, c, n, need, txn.refill, L, last)
  BY <1>5 DEF Takes
<1> HIDE DEF n, need, u
<1>11. /\ u.due = txn.due /\ u.cils = L /\ u.todo = txn.todo
       /\ u.rem = [txn.rem EXCEPT ![c] = n] /\ u.lastCil = last
       /\ u.sn = txn.sn /\ u.group = txn.group /\ u.mode = txn.mode
       /\ u.cur = txn.cur /\ u.need = need /\ u.refill = txn.refill
       /\ u.inv = txn.inv /\ u.refunds = txn.refunds
  BY <1>1, <1>6, <1>7, <1>8, <1>9, <1>10, SetCreditType
<1>12. SameWork(txn, u) /\ u.todo = {}
  BY <1>2, <1>11 DEF SameWork
<1>13. TxnBook(u)
  <2>1. CASE txn.cur = NoInvoice
    <3>1. L = txn.cils
      BY <1>5, <2>1 DEF Takes, PaidBy
    <3> QED
      BY <1>1, <1>3, <1>11, <1>12, <2>1, <3>1, SameBook
  <2>2. CASE txn.cur # NoInvoice
    <3>1. PICK r \in Cil : /\ r.id = last /\ r.invoice = txn.cur
                           /\ r.credit = c /\ r.amount = x
                           /\ r.group = txn.group
                           /\ r.receipt = NoReceipt /\ r.status = "PENDING"
                           /\ L = txn.cils \cup {r} /\ last = txn.lastCil + 1
      BY <1>5, <2>2 DEF Takes, PaidBy
    <3>2. u.cils = txn.cils \cup {r} /\ r.id = txn.lastCil + 1
      BY <1>11, <3>1
    <3>3. u.rem = [txn.rem EXCEPT ![c] = txn.rem[c] - x]
          /\ u.need = txn.need - x
      BY <1>11 DEF n, need
    <3>4. /\ u.refill = txn.refill /\ u.inv = txn.inv
          /\ u.refunds = txn.refunds
      BY <1>11
    <3> QED
      BY <1>1, <1>2, <1>7, <1>12, <2>2, <3>1, <3>2, <3>3, <3>4, PaysBook
  <2> QED
    BY <2>1, <2>2
<1> QED
  BY <1>1, <1>2, <1>13, StepBook DEF u

LEMMA RefillCreditBook ==
    ASSUME IInv, LinksInv, BookInv, txn.open, RefillCredit, UNCHANGED jobVars
    PROVE  BookInv'
<1>1. txn \in Txn /\ txn # NoTxn /\ TxnBook(txn)
  BY TxnSets DEF BookInv
<1>2. CASE Rollback
  BY <1>1, <1>2, StepBook DEF Rollback
<1>3. CASE ~ Rollback
  <2>1. PICK u, c, x :
          /\ txn.refill > 0 /\ UNCHANGED tables
          /\ c \in CreditsOf(txn.sn) /\ c <= deposits
          /\ x \in Nat /\ x <= txn.refill
          /\ txn.rem[c] + x <= Amount[c]
          /\ u = SetCredit(txn, c, txn.rem[c] + x, txn.need,
                           txn.refill - x, txn.cils, txn.lastCil)
          /\ txn' = u
    BY <1>3, RefillCreditSteps
  <2> DEFINE n == txn.rem[c] + x
             refill == txn.refill - x
             need == txn.need
             L == txn.cils
             last == txn.lastCil
  <2>2. /\ txn.rem \in [Credits -> Nat] /\ need \in Nat
             /\ txn.refill \in Nat
        /\ L \in SUBSET Cil /\ last \in Nat /\ c \in Credits
    BY <1>1, <2>1, TxnFields DEF CreditsOf
  <2>3. txn.rem[c] \in Nat
    BY <2>2
  <2>4. n \in Nat /\ refill \in Nat
    BY <2>1, <2>2, <2>3
  <2>5. u = SetCredit(txn, c, n, need, refill, L, last)
    BY <2>1
  <2> HIDE DEF n, refill, need, L, last
  <2>6. /\ u.due = txn.due /\ u.cils = L /\ u.todo = txn.todo
        /\ u.sn = txn.sn /\ u.group = txn.group
        /\ u.mode = txn.mode /\ u.cur = txn.cur
        /\ u.inv = txn.inv /\ u.refunds = txn.refunds
    <3>1. /\ u \in Txn
          /\ u.inv = txn.inv /\ u.due = txn.due /\ u.cils = L
          /\ u.todo = txn.todo
          /\ u.rem = [txn.rem EXCEPT ![c] = n]
          /\ u.lastCil = last /\ u.sn = txn.sn /\ u.group = txn.group
          /\ u.mode = txn.mode /\ u.cur = txn.cur /\ u.need = need
          /\ u.refill = refill /\ u.refunds = txn.refunds
      <4>1. /\ need \in Nat /\ L \in SUBSET Cil /\ last \in Nat
            /\ c \in Credits
        BY <2>2
      <4> QED
        BY <1>1, <2>4, <2>5, <4>1, SetCreditType
    <3> QED
      BY <3>1
  <2>7. Refunding(txn)
    BY <1>1, <2>1, <2>2 DEF TxnBook, Paying, Undoing
  <2>8. TxnBook(u)
    BY <1>1, <2>6, <2>7, SameBook DEF SameWork, L
  <2> QED
    BY <1>1, <2>1, <2>8, StepBook
<1> QED
  BY <1>2, <1>3

-----------------------------------------------------------------------------
(* The start of a request.                                                 *)

LEMMA BegunBook ==
    ASSUME BookInv, job = IdleJob, cfsTodo = {}, NEW t, t # NoTxn, TxnBook(t),
           Begin(t) \/ BeginGroup(t), UNCHANGED jobVars
    PROVE  BookInv'
<1>1. UNCHANGED <<cils, inv, refunds, job, cfsTodo>> /\ txn' = t
  BY DEF Begin, BeginGroup, tables, jobVars
<1>2. OneAtATime'
  BY <1>1 DEF OneAtATime
<1>3. Pages(cils)' /\ Books(cils, inv)'
  BY <1>1 DEF BookInv
<1>4. Frame(txn)' /\ Rows(txn)'
  BY <1>1 DEF TxnBook, Frame, Rows
<1>5. Touches(txn)'
  BY <1>1 DEF TxnBook, Touches, Touched, Unpaid
<1>6. Paying(t) => Paying(txn)'
  BY <1>1 DEF Paying, Same, Covered, Unpaid
<1>7. Undoing(t) => Undoing(txn)'
  BY <1>1 DEF Undoing, Same
<1>8. Refunding(t) => Refunding(txn)'
  BY <1>1 DEF Refunding
<1>9. TxnBook(txn)'
  BY <1>4, <1>5, <1>6, <1>7, <1>8 DEF TxnBook
<1>10. JobBook'
  BY <1>1 DEF JobBook, IdleJob
<1> QED
  BY <1>2, <1>3, <1>9, <1>10 DEF BookInv

\* No link has the new group.
LEMMA StartFrame ==
    ASSUME IInv, LinksInv, NEW t, t.cils = cils, t.group = lastGroup + 1,
           t.mode # "REFUNDED", \A l \in t.todo : Payer(l) = t.sn
    PROVE  /\ Frame(t)
           /\ \A l \in cils : l.group # t.group
<1>1. lastGroup \in Nat /\ \A l \in cils : l.group \in Nat /\ l.group <= lastGroup
  BY CilFields DEF IInv, TypeOK, LinksInv, Groups
<1>2. \A l \in cils : l.group # t.group
  BY <1>1
<1>3. \A l \in cils : \E m \in t.cils : m.invoice = l.invoice
                                           /\ l.group <= m.group
  BY <1>1
<1> QED
  BY <1>2, <1>3 DEF Frame

\* The invoices of the table.
LEMMA StartRows ==
    ASSUME BookInv, NEW t, t.inv = inv
    PROVE  Rows(t)
BY DEF BookInv, Books, Rows

LEMMA StartPays ==
    ASSUME IInv, LinksInv, BookInv, NEW sn, NEW due \in SUBSET Invoices,
           \A i \in due : Unpaid(i),
           Balance(remaining, sn) >= Cost(due),
           NEW t, AtStart(t, sn, {}, "CANCEL", due, 0, 0, inv, refunds)
    PROVE  TxnBook(t)
<1>1. /\ t.sn = sn /\ t.group = lastGroup + 1 /\ t.todo = {}
      /\ t.mode = "CANCEL" /\ t.due = due /\ t.cur = NoInvoice
      /\ t.need = 0 /\ t.refill = 0 /\ t.rem = remaining
      /\ t.cils = cils /\ t.inv = inv /\ t.refunds = refunds
  BY DEF AtStart
<1>2. Frame(t) /\ \A l \in cils : l.group # t.group
  BY <1>1, StartFrame
<1>3. Rows(t)
  BY <1>1, StartRows
<1>4. Touches(t)
  BY <1>1, <1>2 DEF Touches, Touched
<1>5. HeldOf({}, sn) = 0
  BY HeldEmpty
<1>6. Balance(remaining, sn) \in Nat /\ Cost(due) \in Nat
  BY BalanceType, CostType DEF IInv, TypeOK
<1>7. t.need + Cost(t.due) <= Balance(t.rem, t.sn) + HeldOf(t.todo, t.sn)
  BY <1>1, <1>5, <1>6
<1>8. \A i : Same(t, i)
  BY <1>1 DEF Same
<1>9. Paying(t)
  BY <1>1, <1>7, <1>8 DEF Paying
<1> QED
  BY <1>2, <1>3, <1>4, <1>9 DEF TxnBook

LEMMA ApplyPaymentBook ==
    ASSUME IInv, LinksInv, BookInv, job = IdleJob, cfsTodo = {},
           NEW sn \in ShortNames, NEW a \in Accounts, NEW S,
           ApplyPayment(sn, a, S), UNCHANGED jobVars
    PROVE  BookInv'
<1>1. PICK t : /\ t = Started(NewTxn(sn), active, {}, "CANCEL",
                              Owing(a, S), 0, 0, inv, refunds)
               /\ BeginGroup(t)
  BY ApplyPaymentStarts
<1>2. AtStart(t, sn, {}, "CANCEL", Owing(a, S), 0, 0, inv, refunds)
  BY <1>1, StartsAt
<1>3. /\ Owing(a, S) \in SUBSET Invoices
      /\ \A i \in Owing(a, S) : Unpaid(i)
      /\ TotalDue(a, S) = Cost(Owing(a, S))
  BY TotalDueIsCost
<1>4. Balance(remaining, sn) >= TotalDue(a, S)
  BY DEF ApplyPayment
<1>5. TxnBook(t)
  BY <1>2, <1>3, <1>4, StartPays
<1> QED
  BY <1>1, <1>2, <1>5, BegunBook DEF AtStart

\* A refund of a short name, or its being declined, or a link that pays nothing.
LEMMA StartRefunds ==
    ASSUME IInv, LinksInv, BookInv, NEW sn, NEW need, NEW refill, NEW refs,
           \A s \in ShortNames : s # sn => Out(refs, s) = Out(refunds, s),
           NEW t, AtStart(t, sn, {}, "CANCEL", {}, need, refill, inv, refs)
    PROVE  TxnBook(t)
<1>1. /\ t.sn = sn /\ t.group = lastGroup + 1 /\ t.todo = {}
      /\ t.mode = "CANCEL" /\ t.due = {} /\ t.cur = NoInvoice
      /\ t.cils = cils /\ t.inv = inv /\ t.refunds = refs
  BY DEF AtStart
<1>2. Frame(t) /\ \A l \in cils : l.group # t.group
  BY <1>1, StartFrame
<1>3. Rows(t)
  BY <1>1, StartRows
<1>4. Touches(t)
  BY <1>1, <1>2 DEF Touches, Touched
<1>5. Refunding(t)
  BY <1>1 DEF Refunding
<1> QED
  BY <1>2, <1>3, <1>4, <1>5 DEF TxnBook

LEMMA CreateShortNameLinkBook ==
    ASSUME IInv, LinksInv, BookInv, job = IdleJob, cfsTodo = {},
           NEW sn \in ShortNames, NEW a \in Accounts,
           CreateShortNameLink(sn, a), UNCHANGED jobVars
    PROVE  BookInv'
<1>1. PICK t, due :
        /\ t = Started(NewTxn(sn), active \cup {<<sn, a>>}, {}, "CANCEL",
                       due, 0, 0, inv, refunds)
        /\ \/ due = {} /\ Begin(t)
           \/ due = Owing(a, Statements) /\ BeginGroup(t)
  BY CreateShortNameLinkStarts
<1>2. AtStart(t, sn, {}, "CANCEL", due, 0, 0, inv, refunds)
  BY <1>1, StartsAt
<1>3. due = {} => TxnBook(t)
  BY <1>2, StartRefunds
<1>4. /\ Owing(a, Statements) \in SUBSET Invoices
      /\ \A i \in Owing(a, Statements) : Unpaid(i)
      /\ TotalDue(a, Statements) = Cost(Owing(a, Statements))
  BY TotalDueIsCost
<1>5. ASSUME due # {}
      PROVE  Balance(remaining, sn) >= TotalDue(a, Statements)
  <2> DEFINE linked == [NewTxn(sn) EXCEPT !.active = @ \cup {<<sn, a>>}]
             owing == Owing(a, Statements)
             short == Balance(remaining, sn) < TotalDue(a, Statements)
  <2>1. IF owing = {} \/ short THEN Begin(linked)
        ELSE BeginGroup([linked EXCEPT !.due = owing])
    BY DEF CreateShortNameLink
  <2>2. txn' = t /\ t.due # {}
    BY <1>1, <1>2, <1>5 DEF AtStart, Begin, BeginGroup
  <2>3. linked.due = {}
    BY DEF NewTxn
  <2>4. Begin(linked) => txn' = linked
    <3> HIDE DEF linked
    <3> QED
      BY DEF Begin
  <2>5. ~short
    <3> HIDE DEF linked, owing, short
    <3> QED
      BY <2>1, <2>2, <2>3, <2>4
  <2>6. Balance(remaining, sn) \in Nat /\ Cost(owing) \in Nat
    BY <1>4, BalanceType, CostType DEF IInv, TypeOK
  <2> QED
    BY <1>4, <2>5, <2>6
<1>6. due = Owing(a, Statements) /\ due # {} => TxnBook(t)
  BY <1>2, <1>4, <1>5, StartPays
<1>7. TxnBook(t)
  BY <1>1, <1>3, <1>6
<1> QED
  BY <1>1, <1>2, <1>7, BegunBook DEF AtStart

\* A cancellation comes to all pending links of an invoice, or none.
LEMMA CancelPaymentBook ==
    ASSUME IInv, LinksInv, BookInv, job = IdleJob, cfsTodo = {},
           NEW sn \in ShortNames, NEW a \in Accounts, NEW S,
           CancelPayment(sn, a, S), UNCHANGED jobVars
    PROVE  BookInv'
<1> DEFINE P == PendingOf(sn, a, S)
<1>1. PICK t : /\ t = Started(NewTxn(sn), active, P, "CANCEL", {}, 0, 0, inv,
                              refunds)
               /\ Begin(t)
  BY CancelPaymentStarts
<1>2. AtStart(t, sn, P, "CANCEL", {}, 0, 0, inv, refunds)
  <2> HIDE DEF P
  <2> QED
    BY <1>1, StartsAt
<1>3. /\ t.sn = sn /\ t.group = lastGroup + 1 /\ t.todo = P
      /\ t.mode = "CANCEL" /\ t.due = {} /\ t.cur = NoInvoice
      /\ t.need = 0 /\ t.refill = 0
      /\ t.cils = cils /\ t.inv = inv /\ t.refunds = refunds
  BY <1>2 DEF AtStart
<1>4. Frame(t) /\ \A l \in cils : l.group # t.group
  <2>1. \A l \in P : Payer(l) = sn
    BY DEF PendingOf, Payer
  <2> HIDE DEF P
  <2> QED
    BY <1>3, <2>1, StartFrame
<1>5. Rows(t)
  BY <1>3, StartRows
<1>6. Touches(t)
  BY <1>3, <1>4 DEF Touches, Touched
<1>7. ASSUME NEW i \in Invoices
      PROVE  \/ Same(t, i) /\ On(t.todo, i) = {}
             \/ Mine(t.cils, t.sn, i) = On(t.todo, i)
  <2>1. CASE AccountOf[i] = a /\ StatementOf[i] \in S \cap statements
    <3>1. Mine(cils, sn, i) = On(P, i)
      BY <2>1 DEF Mine, On, PendingOf, Payer
    <3> QED
      BY <1>3, <3>1
  <2>2. CASE ~ (AccountOf[i] = a /\ StatementOf[i] \in S \cap statements)
    <3>1. On(P, i) = {}
      BY <2>2 DEF On, PendingOf
    <3> QED
      BY <1>3, <3>1 DEF Same
  <2> QED
    BY <2>1, <2>2
<1>8. Undoing(t)
  BY <1>3, <1>7 DEF Undoing
<1>9. TxnBook(t)
  BY <1>4, <1>5, <1>6, <1>8 DEF TxnBook
<1> QED
  BY <1>1, <1>2, <1>9, BegunBook DEF AtStart

-----------------------------------------------------------------------------
(* The start of a return.                                                  *)

\* The latest group of an invoice is not one of returns, if it has a link
\* of another kind.
LEMMA LatestStands ==
    ASSUME IInv, LinksInv, BookInv, NEW l \in cils, Newest(cils, l),
           l.status # "PENDING_REFUND"
    PROVE  /\ ~InReturn(cils, l.invoice)
           /\ \A k \in Family(cils, l) : k.status = l.status /\ Payer(k) = Payer(l)
           /\ l \in Family(cils, l)
<1>1. Groups /\ OnePayer(cils) /\ \A k \in cils : k.group \in Nat
  BY CilFields DEF LinksInv, Links, IInv, TypeOK
<1>2. \A k \in Family(cils, l) : k.status = l.status /\ Payer(k) = Payer(l)
  BY <1>1 DEF Groups, Alike, OnePayer, Family
<1>3. ASSUME NEW r \in cils, r.invoice = l.invoice, r.status = "PENDING_REFUND"
      PROVE  FALSE
  <2>1. Newest(cils, r)
    BY <1>3 DEF BookInv, Pages, Reversing
  <2>2. r.group <= l.group /\ l.group <= r.group
    BY <1>3, <2>1 DEF Newest
  <2>3. r.group = l.group
    BY <1>1, <2>2
  <2> QED
    BY <1>1, <1>3, <2>3 DEF Groups, Siblings, Alike
<1>4. l \in Family(cils, l)
  BY DEF Family, Siblings
<1> QED
  BY <1>2, <1>3, <1>4 DEF InReturn

LEMMA ReversePaymentBook ==
    ASSUME IInv, LinksInv, BookInv, job = IdleJob, cfsTodo = {},
           NEW sn \in ShortNames, NEW s \in Statements,
           ReversePayment(sn, s), UNCHANGED jobVars
    PROVE  BookInv'
<1>1. PICK t, todo :
        /\ Reverses(sn, s, todo)
        /\ t = Started(NewTxn(sn), active, todo, "PENDING_REFUND",
                       {}, 0, 0, inv, refunds)
        /\ BeginGroup(t)
  BY ReversePaymentTodo
<1>2. AtStart(t, sn, todo, "PENDING_REFUND", {}, 0, 0, inv, refunds)
  BY <1>1, StartsAt
<1>3. /\ t.sn = sn /\ t.group = lastGroup + 1 /\ t.todo = todo
      /\ t.mode = "PENDING_REFUND" /\ t.due = {} /\ t.cur = NoInvoice
      /\ t.need = 0 /\ t.refill = 0
      /\ t.cils = cils /\ t.inv = inv /\ t.refunds = refunds
  BY <1>2 DEF AtStart
<1>4. \A l \in todo :
        /\ l \in cils /\ Payer(l) = sn /\ Newest(cils, l)
        /\ l.status = "COMPLETED" /\ inv[l.invoice].status = "PAID"
        /\ StatementOf[l.invoice] = s
  BY <1>1 DEF Reverses, ReversibleLinks, Payer, Newest, LinksOf
<1>5. Frame(t) /\ \A l \in cils : l.group # t.group
  BY <1>3, <1>4, StartFrame
<1>6. Rows(t)
  BY <1>3, StartRows
<1>7. Touches(t)
  <2> SUFFICES ASSUME NEW l \in todo
               PROVE  /\ ~InReturn(cils, l.invoice)
                      /\ ~Owed(inv[l.invoice])
                      /\ Done(cils, sn, l.invoice) = Total[l.invoice]
                      /\ HeldOf(On(todo, l.invoice), sn) = Total[l.invoice]
    BY <1>3, <1>5 DEF Touches, Touched
  <2>1. /\ ~InReturn(cils, l.invoice)
        /\ \A k \in Family(cils, l) : k.status = l.status /\ Payer(k) = Payer(l)
    BY <1>4, LatestStands
  <2>2. ~Owed(inv[l.invoice])
    BY <1>4 DEF Owed
  <2>3. /\ Done(cils, sn, l.invoice) = Total[l.invoice]
        /\ HeldOf(Family(cils, l), sn) = Total[l.invoice]
    BY <1>4 DEF BookInv, Pages, Stands
  <2>4. On(todo, l.invoice) = Family(cils, l)
    <3>1. \A k \in todo : k.invoice = l.invoice => k.group = l.group
      <4>1. \A k \in cils : k.group \in Nat
        BY CilFields DEF IInv, TypeOK
      <4> QED
        BY <1>4, <4>1 DEF Newest
    <3>2. ASSUME NEW k \in Family(cils, l)
          PROVE  k \in todo
      <4>1. /\ k \in cils /\ k.invoice = l.invoice /\ k.group = l.group
            /\ k.status = "COMPLETED" /\ Payer(k) = sn
        BY <1>4, <2>1, <3>2 DEF Family, Siblings
      <4>2. \A m \in LinksOf(k.invoice) : m.group <= k.group
        BY <1>4, <4>1 DEF Newest, LinksOf
      <4> QED
        BY <1>1, <1>4, <4>1, <4>2 DEF Reverses, ReversibleLinks, Payer
    <3> QED
      BY <1>4, <3>1, <3>2 DEF On, Family, Siblings
  <2> QED
    BY <2>1, <2>2, <2>3, <2>4
<1>8. Undoing(t)
  BY <1>3 DEF Undoing
<1>9. TxnBook(t)
  BY <1>5, <1>6, <1>7, <1>8 DEF TxnBook
<1> QED
  BY <1>1, <1>2, <1>9, BegunBook DEF AtStart

\* A refund takes over the invoice, which is the only one that it changes.
LEMMA RefundRows ==
    ASSUME IInv, NEW i \in Invoices, RefundLinkedInvoice(i)
    PROVE  /\ Refundable(i)
           /\ txn'.inv[i].status = "REFUND_REQUESTED"
           /\ txn'.inv[i].memo = inv[i].memo
           /\ \A j \in Invoices : j # i => txn'.inv[j] = inv[j]
<1>1. PICK latest \in LinksOf(i) :
        BeginGroup([NewTxn(DepositedBy[latest.credit]) EXCEPT
              !.inv[i].requested = TRUE,
              !.inv[i].refund = Total[i],
              !.inv[i].status = "REFUND_REQUESTED",
              !.mode = IF latest.status = "PENDING" THEN "REGROUP"
                       ELSE "PENDING_REFUND",
              !.todo = IF latest.status \in {"PENDING", "COMPLETED"}
                       THEN {l \in LinksOf(i) : l.group = latest.group}
                       ELSE {}])
  BY ZenonT(40) DEF RefundLinkedInvoice
<1> DEFINE sn == DepositedBy[latest.credit]
           n == NewTxn(sn)
           mode == IF latest.status = "PENDING" THEN "REGROUP"
                   ELSE "PENDING_REFUND"
           todo == IF latest.status \in {"PENDING", "COMPLETED"}
                   THEN {l \in LinksOf(i) : l.group = latest.group} ELSE {}
           t == [n EXCEPT !.inv[i].requested = TRUE,
                          !.inv[i].refund = Total[i],
                          !.inv[i].status = "REFUND_REQUESTED",
                          !.mode = mode, !.todo = todo]
<1>2. txn' = t
  <2>1. BeginGroup(t)
    BY <1>1
  <2> HIDE DEF t
  <2> QED
    BY <2>1 DEF BeginGroup
<1>3. n \in Txn /\ n.inv = inv
  <2>1. sn \in ShortNames
    BY DepositorType DEF LinksOf
  <2> QED
    BY <2>1, NewTxnFields
<1>4. inv \in [Invoices -> Invoice] /\ inv[i] \in Invoice
  BY TablesType
<1> HIDE DEF n, mode, todo
<1>5. t.inv = [inv EXCEPT ![i].requested = TRUE, ![i].refund = Total[i],
                          ![i].status = "REFUND_REQUESTED"]
  BY <1>3 DEF Txn
<1> HIDE DEF t
<1>6. /\ t.inv[i].status = "REFUND_REQUESTED" /\ t.inv[i].memo = inv[i].memo
      /\ \A j \in Invoices : j # i => t.inv[j] = inv[j]
  BY <1>4, <1>5 DEF Invoice
<1> QED
  BY <1>2, <1>6 DEF RefundLinkedInvoice

LEMMA RefundLinkedInvoiceBook ==
    ASSUME IInv, LinksInv, BookInv, job = IdleJob, cfsTodo = {},
           NEW i \in Invoices, RefundLinkedInvoice(i), UNCHANGED jobVars
    PROVE  BookInv'
<1>1. PICK t, latest, todo, mode, rows :
        /\ latest \in LinksOf(i) /\ IsLatest(latest)
        /\ \/ /\ latest.status = "PENDING" /\ mode = "REGROUP"
              /\ todo = GroupOf(i, latest)
           \/ /\ latest.status = "COMPLETED" /\ mode = "PENDING_REFUND"
              /\ todo = GroupOf(i, latest)
           \/ mode = "PENDING_REFUND" /\ todo = {}
        /\ t = Started(NewTxn(DepositedBy[latest.credit]), active, todo,
                       mode, {}, 0, 0, rows, refunds)
        /\ BeginGroup(t)
  BY RefundLinkedInvoiceStarts, ZenonT(40)
<1> DEFINE sn == Payer(latest)
<1>2. AtStart(t, sn, todo, mode, {}, 0, 0, rows, refunds)
  BY <1>1, StartsAt DEF Payer
<1>3. /\ t.sn = sn /\ t.group = lastGroup + 1 /\ t.todo = todo
      /\ t.mode = mode /\ t.due = {} /\ t.cur = NoInvoice
      /\ t.need = 0 /\ t.refill = 0
      /\ t.cils = cils /\ t.inv = rows /\ t.refunds = refunds
  BY <1>2 DEF AtStart
<1>4. /\ rows[i].status = "REFUND_REQUESTED" /\ rows[i].memo = inv[i].memo
      /\ \A j \in Invoices : j # i => rows[j] = inv[j]
  <2>1. txn' = t
    BY <1>1 DEF BeginGroup
  <2>2. /\ txn'.inv[i].status = "REFUND_REQUESTED"
        /\ txn'.inv[i].memo = inv[i].memo
        /\ \A j \in Invoices : j # i => txn'.inv[j] = inv[j]
    BY RefundRows
  <2> QED
    BY <1>3, <2>1, <2>2
<1>5. /\ latest \in cils /\ latest.invoice = i
      /\ \A l \in GroupOf(i, latest), m \in cils :
           l.invoice = m.invoice => m.group <= l.group
      /\ latest \in GroupOf(i, latest)
      /\ GroupOf(i, latest) = Family(cils, latest)
  BY <1>1, LatestGroup DEF LinksOf, GroupOf, Family, Siblings
<1>6. Newest(cils, latest)
  BY <1>5 DEF Newest
<1>7. \A l \in GroupOf(i, latest) :
        l \in cils /\ l.invoice = i /\ Payer(l) = sn
  <2>1. OnePayer(cils)
    BY DEF LinksInv, Links
  <2> QED
    BY <1>5, <2>1 DEF Family, OnePayer, Siblings
<1> HIDE DEF sn
<1>8. Frame(t) /\ \A l \in cils : l.group # t.group
  BY <1>1, <1>3, <1>7, StartFrame
<1>9. Rows(t)
  BY <1>3, <1>4 DEF Rows, Owed, BookInv, Books
<1>10. Touches(t)
  <2> SUFFICES ASSUME NEW l \in todo
               PROVE  /\ ~InReturn(cils, i)
                      /\ mode # "CANCEL"
                      /\ mode = "PENDING_REFUND" =>
                           /\ ~Owed(rows[i])
                           /\ Done(cils, sn, i) = Total[i]
                           /\ HeldOf(On(todo, i), sn) = Total[i]
    BY <1>1, <1>3, <1>7, <1>8 DEF Touches, Touched
  <2>1. ~InReturn(cils, i)
    BY <1>1, <1>5, <1>6, LatestStands
  <2>2. CASE mode = "PENDING_REFUND"
    <3>1. latest.status = "COMPLETED" /\ todo = GroupOf(i, latest)
      BY <1>1, <2>2
    <3>2. /\ Done(cils, sn, i) = Total[i]
          /\ HeldOf(Family(cils, latest), sn) = Total[i]
      BY <1>5, <1>6, <3>1 DEF BookInv, Pages, Stands, sn
    <3>3. On(todo, i) = Family(cils, latest)
      BY <1>5, <1>7, <3>1 DEF On
    <3> QED
      BY <1>4, <2>1, <2>2, <3>2, <3>3 DEF Owed
  <2> QED
    BY <1>1, <2>1, <2>2
<1>11. Undoing(t)
  <2> SUFFICES ASSUME mode # "PENDING_REFUND", NEW j \in Invoices
               PROVE  \/ Same(t, j) /\ On(todo, j) = {}
                      \/ Mine(t.cils, t.sn, j) = On(todo, j)
    BY <1>3 DEF Undoing
  <2>1. latest.status = "PENDING" /\ todo = GroupOf(i, latest)
    BY <1>1
  <2>2. CASE j # i
    <3>1. On(todo, j) = {}
      BY <1>7, <2>1, <2>2 DEF On
    <3> QED
      BY <1>3, <3>1 DEF Same
  <2>3. CASE j = i
    <3>1. \A m \in Mine(cils, sn, i) : m \in Family(cils, latest)
      BY <1>5, <2>1 DEF BookInv, Pages, Wanted, Mine, Family, Siblings, sn
    <3>2. \A m \in Family(cils, latest) : m.status = "PENDING"
      BY <1>5, <1>6, <2>1, LatestStands
    <3>3. Mine(cils, sn, i) = On(todo, i)
      BY <1>5, <1>7, <2>1, <3>1, <3>2 DEF Mine, On
    <3> QED
      BY <1>3, <2>3, <3>3
  <2> QED
    BY <2>2, <2>3
<1>12. TxnBook(t)
  BY <1>8, <1>9, <1>10, <1>11 DEF TxnBook
<1> QED
  BY <1>1, <1>2, <1>12, BegunBook DEF AtStart

\* A refund of credits changes what is out of its short name only.
LEMMA ShortNameRefundBook ==
    ASSUME IInv, LinksInv, BookInv, job = IdleJob, cfsTodo = {},
           NEW r \in Refunds,
           \/ \E sn \in ShortNames, x \in RefundAmounts :
                CreateShortNameRefund(r, sn, x)
           \/ DeclineShortNameRefund(r),
           UNCHANGED jobVars
    PROVE  BookInv'
<1>1. refunds \in [Refunds -> EftRefund]
  BY TablesType
<1>2. ASSUME NEW sn, NEW row \in EftRefund,
             refunds[r].sn = sn \/ refunds[r].status = "NONE", row.sn = sn,
             NEW t, NEW need, NEW refill,
             AtStart(t, sn, {}, "CANCEL", {}, need, refill, inv,
                     [refunds EXCEPT ![r] = row]), Begin(t)
      PROVE  BookInv'
  <2> DEFINE refs == [refunds EXCEPT ![r] = row]
  <2>1. /\ refunds \in RefundTable /\ refs \in RefundTable /\ refs[r] = row
        /\ \A q \in Refunds \ {r} : refunds[q] = refs[q]
    BY <1>1 DEF RefundTable
  <2> HIDE DEF refs
  <2>2. ASSUME NEW s \in ShortNames, s # sn
        PROVE  Out(refs, s) = Out(refunds, s)
    <3>1. Out(refs, s)
            = Out(refunds, s) + (Share(refs[r], s) - Share(refunds[r], s))
      BY <2>1, OutBut
    <3>2. Share(refs[r], s) = 0 /\ Share(refunds[r], s) = 0
      BY <1>2, <2>1, <2>2 DEF Share
    <3>3. Out(refunds, s) \in Int
      BY <1>1, OutType
    <3> QED
      BY <3>1, <3>2, <3>3
  <2>3. AtStart(t, sn, {}, "CANCEL", {}, need, refill, inv, refs)
    BY <1>2 DEF refs
  <2>4. TxnBook(t)
    BY <2>2, <2>3, StartRefunds
  <2> QED
    BY <1>2, <2>3, <2>4, BegunBook DEF AtStart
<1>3. ASSUME NEW sn \in ShortNames, NEW x \in RefundAmounts,
             CreateShortNameRefund(r, sn, x)
      PROVE  BookInv'
  <2>1. PICK t :
          /\ t = Started(NewTxn(sn), active, {}, "CANCEL", {}, x, 0, inv,
                         [refunds EXCEPT ![r] = NewRefund(sn, x)])
          /\ Begin(t)
    BY <1>3, CreateShortNameRefundStarts
  <2>2. NewRefund(sn, x) \in EftRefund /\ NewRefund(sn, x).sn = sn
    BY <1>3, CreateShortNameRefundStarts DEF NewRefund
  <2>3. refunds[r].status = "NONE"
    BY <1>3, ZenonT(40) DEF CreateShortNameRefund
  <2> QED
    BY <1>2, <2>1, <2>2, <2>3, StartsAt
<1>4. CASE DeclineShortNameRefund(r)
  <2>1. PICK t, row :
          /\ row \in EftRefund /\ row.sn = refunds[r].sn
          /\ t = Started(NewTxn(refunds[r].sn), active, {}, "CANCEL", {}, 0,
                         refunds[r].amount, inv, [refunds EXCEPT ![r] = row])
          /\ Begin(t)
    BY <1>4, DeclineShortNameRefundStarts
  <2> QED
    BY <1>2, <2>1, StartsAt
<1> QED
  BY <1>3, <1>4

-----------------------------------------------------------------------------
(* The end of a request.                                                   *)

\* An invoice whose payment the request has returned.
GivenBack(i) == /\ txn.mode = "PENDING_REFUND"
                /\ \E l \in txn.cils : l.invoice = i /\ l.group = txn.group

SameDone(i) ==
    /\ InReturn(txn.cils, i) <=> InReturn(cils, i)
    /\ \A sn \in ShortNames : Done(txn.cils, sn, i) = Done(cils, sn, i)

\* What is taken stays, or is given back as a whole.
LEMMA CommitDone ==
    ASSUME IInv, LinksInv, Pages(cils), txn.open, Frame(txn), Touches(txn),
           txn.todo = {}, NEW i \in Invoices
    PROVE  /\ ~GivenBack(i) => SameDone(i)
           /\ GivenBack(i) => /\ NothingDone(txn.cils, i)
                              /\ InReturn(txn.cils, i) /\ ~InReturn(cils, i)
                              /\ ~Owed(txn.inv[i])
<1>1. txn.sn \in ShortNames /\ NewGroup(txn)
  BY TxnSets DEF TxnLinks
<1>2. ASSUME ~GivenBack(i)
      PROVE  SameDone(i)
  <2>1. CASE txn.mode # "PENDING_REFUND"
    <3>1. \A sn : Done(txn.cils, sn, i) = Done(cils, sn, i)
      BY <2>1, KeptDone
    <3>2. InReturn(txn.cils, i) <=> InReturn(cils, i)
      BY <1>1, <2>1, KeptDone
    <3> QED
      BY <3>1, <3>2 DEF SameDone
  <2>2. CASE txn.mode = "PENDING_REFUND"
    <3>1. \A l \in txn.cils : l.invoice = i => l.group # txn.group
      BY <1>2, <2>2 DEF GivenBack
    <3>2. \A sn : Done(txn.cils, sn, i) = Done(cils, sn, i)
      BY <2>2, <3>1, KeptOpen
    <3>3. InReturn(txn.cils, i) <=> InReturn(cils, i)
      BY <1>1, <2>2, <3>1, KeptOpen
    <3> QED
      BY <3>2, <3>3 DEF SameDone
  <2> QED
    BY <2>1, <2>2
<1>3. ASSUME GivenBack(i)
      PROVE  /\ NothingDone(txn.cils, i)
             /\ InReturn(txn.cils, i) /\ ~InReturn(cils, i)
             /\ ~Owed(txn.inv[i])
  <2>1. PICK l \in txn.cils : l.invoice = i /\ l.group = txn.group
    BY <1>3 DEF GivenBack
  <2>2. txn.mode = "PENDING_REFUND" /\ l \in Touched(txn)
    BY <1>3, <2>1 DEF GivenBack, Touched
  <2>3. /\ ~InReturn(cils, i) /\ ~Owed(txn.inv[i])
        /\ Done(cils, txn.sn, i) = Total[i]
        /\ Done(txn.cils, txn.sn, i) = HeldOf(On(txn.todo, i), txn.sn)
    BY <2>1, <2>2 DEF Touches
  <2>4. InReturn(txn.cils, i)
    BY <1>1, <2>1, <2>2 DEF NewGroup, NewStatus, InReturn
  <2>5. Done(txn.cils, txn.sn, i) = 0
    <3>1. On(txn.todo, i) = {}
      BY DEF On
    <3> QED
      BY <2>3, <3>1, HeldEmpty
  <2>6. ASSUME NEW sn \in ShortNames, sn # txn.sn
        PROVE  Done(txn.cils, sn, i) = 0
    <3>1. Done(txn.cils, sn, i) = Done(cils, sn, i)
      BY <2>6, OtherPages
    <3>2. Done(cils, sn, i) \in {0, Total[i]}
      BY DEF Pages, AllOrNothing
    <3>3. Total[i] # 0 => Done(cils, sn, i) = 0
      BY <1>1, <2>3, <2>6 DEF Pages, OneHolder
    <3> QED
      BY <3>1, <3>2, <3>3
  <2>7. NothingDone(txn.cils, i)
    BY <2>5, <2>6 DEF NothingDone
  <2> QED
    BY <2>3, <2>4, <2>7
<1> QED
  BY <1>2, <1>3

\* A payment leaves the pending links of an invoice, or makes those of a whole
\* payment.
LEMMA CommitCovered ==
    ASSUME IInv, LinksInv, Paying(txn), txn.open, Finished, NEW i \in Invoices
    PROVE  Same(txn, i) \/ Covered(txn, i)
<1>1. txn.todo = {} /\ txn.due = {} /\ txn.need = 0
  BY DEF Finished
<1>2. CASE i = txn.cur
  <2>1. txn.cur # NoInvoice
    BY <1>2 DEF Invoices, NoInvoice
  <2>2. /\ Unpaid(i)
        /\ Asked(txn.cils, txn.sn, i) + 0 = HeldOf({}, txn.sn) + Total[i]
        /\ \A l \in Mine(txn.cils, txn.sn, i) : l.group = txn.group
    BY <1>1, <1>2, <2>1 DEF Paying
  <2>3. Asked(txn.cils, txn.sn, i) = Total[i]
    BY <2>2, TxnSets, PageType, HeldEmpty, EFTConstants
  <2> QED
    BY <2>2, <2>3 DEF Covered
<1>3. CASE i # txn.cur
  BY <1>1, <1>3 DEF Paying
<1> QED
  BY <1>2, <1>3

\* The pending links of its short name are the old ones, or those of a whole
\* payment, or none.
LEMMA CommitMine ==
    ASSUME IInv, LinksInv, TxnBook(txn), txn.open, Finished,
           NEW i \in Invoices
    PROVE  Same(txn, i) \/ Covered(txn, i) \/ Mine(txn.cils, txn.sn, i) = {}
<1>1. txn.todo = {} /\ txn.due = {} /\ txn.need = 0
  BY DEF Finished
<1>2. CASE Paying(txn)
  BY <1>2, CommitCovered
<1>3. CASE Undoing(txn)
  <2>1. CASE txn.mode = "PENDING_REFUND"
    <3>1. Frame(txn)
      BY DEF TxnBook
    <3> QED
      BY <2>1, <3>1, KeptOpen DEF Same
  <2>2. CASE txn.mode # "PENDING_REFUND"
    BY <1>1, <1>3, <2>2 DEF Undoing, On
  <2> QED
    BY <2>1, <2>2
<1>4. CASE Refunding(txn)
  BY <1>4 DEF Refunding, Same
<1> QED
  BY <1>2, <1>3, <1>4 DEF TxnBook

LEMMA CommitWanted ==
    ASSUME IInv, LinksInv, BookInv, txn.open, Finished, NEW l \in txn.cils,
           l.status = "PENDING"
    PROVE  /\ Asked(txn.cils, Payer(l), l.invoice) = Total[l.invoice]
           /\ Done(txn.cils, Payer(l), l.invoice) = 0
           /\ \A m \in txn.cils : m.invoice = l.invoice =>
                /\ m.status = "PENDING" /\ Payer(m) = Payer(l) => Siblings(l, m)
                /\ m.status = "COMPLETED" => m.group < l.group
<1> DEFINE p == Payer(l)
           i == l.invoice
<1>1. /\ TxnBook(txn) /\ Pages(cils) /\ Books(cils, inv) /\ Frame(txn)
      /\ Touches(txn) /\ txn.todo = {}
      /\ txn.sn \in ShortNames /\ txn.cils \in SUBSET Cil
      /\ IsFiniteSet(txn.cils) /\ cils \in SUBSET Cil /\ IsFiniteSet(cils)
  BY TxnSets DEF BookInv, TxnBook, Finished
<1>2. i \in Invoices /\ p \in ShortNames /\ l \in Cil
  BY <1>1, CilFields, EFTConstants DEF Payer
<1>3. \A m \in txn.cils : m.status = "COMPLETED" => m \in cils
  BY <1>1, OldLinks
\* What is in the table is wanted there.
<1>4. ASSUME l \in cils, Asked(txn.cils, p, i) = Asked(cils, p, i),
             \A m \in txn.cils :
                m.invoice = i /\ m.status = "PENDING" /\ Payer(m) = p => m \in cils
      PROVE  /\ Asked(txn.cils, p, i) = Total[i]
             /\ Done(txn.cils, p, i) = 0
             /\ \A m \in txn.cils : m.invoice = i =>
                  /\ m.status = "PENDING" /\ Payer(m) = p => Siblings(l, m)
                  /\ m.status = "COMPLETED" => m.group < l.group
  <2>1. /\ Asked(cils, p, i) = Total[i] /\ Done(cils, p, i) = 0
        /\ \A m \in cils : m.invoice = i =>
             /\ m.status = "PENDING" /\ Payer(m) = p => Siblings(l, m)
             /\ m.status = "COMPLETED" => m.group < l.group
    BY <1>1, <1>4 DEF Pages, Wanted
  <2>2. Done(txn.cils, p, i) = 0
    BY <1>1, <1>2, <2>1, CommitDone DEF SameDone, NothingDone
  <2> QED
    BY <1>3, <1>4, <2>1, <2>2
<1>5. CASE p # txn.sn
  <2>1. \A m \in txn.cils : Payer(m) = p => m \in cils
    BY <1>1, <1>5, NewLinks
  <2>2. Asked(txn.cils, p, i) = Asked(cils, p, i)
    BY <1>1, <1>5, OtherPages
  <2> QED
    BY <1>4, <2>1, <2>2
<1>6. CASE p = txn.sn
  <2>1. l \in Mine(txn.cils, txn.sn, i)
    BY <1>6 DEF Mine
  <2>2. CASE Same(txn, i)
    <3>1. Asked(txn.cils, p, i) = Asked(cils, p, i)
      <4>1. /\ Asked(txn.cils, p, i) = HeldOf(Mine(txn.cils, p, i), p)
            /\ Asked(cils, p, i) = HeldOf(Mine(cils, p, i), p)
        BY <1>1, PageType
      <4>2. Mine(txn.cils, p, i) = Mine(cils, p, i)
        BY <1>6, <2>2 DEF Same
      <4> QED
        BY <4>1, <4>2
    <3>2. \A m \in txn.cils :
            m.invoice = i /\ m.status = "PENDING" /\ Payer(m) = p => m \in cils
      BY <1>6, <2>2 DEF Same, Mine
    <3> QED
      BY <1>4, <3>1, <3>2
  <2>3. CASE Covered(txn, i)
    <3>1. Unpaid(i) /\ Asked(txn.cils, p, i) = Total[i]
      BY <1>6, <2>3 DEF Covered
    <3>2. \A m \in txn.cils : m.invoice = i /\ m.status = "PENDING" /\ Payer(m) = p
            => m.group = txn.group
      BY <1>6, <2>3 DEF Covered, Mine
    <3>3. l.group = txn.group
      BY <3>2
    <3>4. \A m \in txn.cils : m.status = "COMPLETED" => m.group < l.group
      BY <1>1, <3>3, PaidBefore DEF Frame
    <3>5. Done(txn.cils, p, i) = 0
      <4>1. Done(cils, p, i) = 0
        BY <1>1, <1>2, <3>1 DEF Books, Owed, Unpaid
      <4> QED
        BY <1>1, <1>2, <4>1, CommitDone DEF SameDone, NothingDone
    <3> QED
      BY <3>1, <3>2, <3>3, <3>4, <3>5 DEF Siblings
  <2> QED
    BY <1>1, <1>2, <2>1, <2>2, <2>3, CommitMine
<1> QED
  BY <1>5, <1>6

LEMMA CommitStands ==
    ASSUME IInv, LinksInv, BookInv, txn.open, Finished, NEW l \in txn.cils,
           l.status = "COMPLETED", Newest(txn.cils, l)
    PROVE  /\ Done(txn.cils, Payer(l), l.invoice) = Total[l.invoice]
           /\ HeldOf(Family(txn.cils, l), Payer(l)) = Total[l.invoice]
<1>1. /\ TxnBook(txn) /\ Pages(cils) /\ Frame(txn) /\ Touches(txn)
      /\ txn.todo = {} /\ txn.cils \in SUBSET Cil
      /\ \A m \in txn.cils : m.group \in Nat
      /\ txn.group \in Nat
  BY TxnSets, TxnFields, CilFields DEF BookInv, TxnBook, Finished
<1>2. l.invoice \in Invoices /\ Payer(l) \in ShortNames
  BY <1>1, CilFields, EFTConstants DEF Payer
<1>3. l \in cils /\ Newest(cils, l)
  BY <1>1, OldLinks, KeptNewest
<1>4. \A m \in txn.cils : m.invoice = l.invoice => m.group # txn.group
  <2>1. l.group < txn.group
    BY <1>1, PaidBefore DEF Frame
  <2> QED
    BY <1>1, <2>1 DEF Newest
<1>5. /\ Done(cils, Payer(l), l.invoice) = Total[l.invoice]
      /\ HeldOf(Family(cils, l), Payer(l)) = Total[l.invoice]
  BY <1>1, <1>3 DEF Pages, Stands
<1>6. Done(txn.cils, Payer(l), l.invoice) = Done(cils, Payer(l), l.invoice)
  BY <1>1, <1>2, <1>4, CommitDone DEF GivenBack, SameDone
<1>7. Family(txn.cils, l) = Family(cils, l)
  <2>1. \A k \in cils : Siblings(k, l) => k.status = "COMPLETED"
    BY <1>3 DEF LinksInv, Groups, Alike
  <2>2. ASSUME NEW k \in txn.cils, Siblings(k, l)
        PROVE  k \in cils
    <3>1. k.group # txn.group
      BY <1>4, <2>2 DEF Siblings
    <3>2. \A j \in cils : j.status = "PENDING" => ~Siblings(j, k)
      BY <2>1, <2>2 DEF Siblings
    <3> QED
      BY <1>1, <3>1, <3>2 DEF Frame
  <2>3. \A k \in cils : Siblings(k, l) => k \in txn.cils
    BY <1>1, <2>1, OldLinks
  <2> QED
    BY <2>2, <2>3 DEF Family
<1> QED
  BY <1>5, <1>6, <1>7

LEMMA CommitReversing ==
    ASSUME IInv, LinksInv, BookInv, txn.open, Finished, NEW r \in txn.cils,
           r.status = "PENDING_REFUND"
    PROVE  Newest(txn.cils, r) /\ NothingDone(txn.cils, r.invoice)
<1>1. /\ TxnBook(txn) /\ Pages(cils) /\ Frame(txn) /\ Touches(txn)
      /\ txn.todo = {} /\ txn.cils \in SUBSET Cil
      /\ \A m \in txn.cils : m.group \in Nat
      /\ txn.group \in Nat /\ lastGroup \in Nat
  BY TxnSets, TxnFields, CilFields DEF BookInv, TxnBook, Finished, IInv, TypeOK
<1>2. r.invoice \in Invoices
  BY <1>1, CilFields
<1>3. CASE r \in cils
  <2>1. /\ Newest(cils, r) /\ NothingDone(cils, r.invoice)
        /\ InReturn(cils, r.invoice)
    BY <1>1, <1>3 DEF Pages, Reversing, NothingDone, InReturn
  <2>2. \A m \in txn.cils : m.invoice = r.invoice => m.group # txn.group
    BY <1>1, <2>1 DEF Touches, Touched
  <2>3. Newest(txn.cils, r)
    BY <1>1, <1>3, <2>1, <2>2, KeptNewest
  <2>4. NothingDone(txn.cils, r.invoice)
    BY <1>1, <1>2, <2>1, <2>2, CommitDone DEF GivenBack, SameDone, NothingDone
  <2> QED
    BY <2>3, <2>4
<1>4. CASE r \notin cils
  <2>1. r.group = txn.group /\ txn.mode = "PENDING_REFUND"
    BY <1>1, <1>4, NewLinks
  <2>2. NothingDone(txn.cils, r.invoice)
    BY <1>1, <1>2, <2>1, CommitDone DEF GivenBack
  <2>3. \A m \in txn.cils : m.group <= lastGroup /\ lastGroup <= txn.group
    BY TxnSets DEF TxnLinks, Grouped
  <2>4. Newest(txn.cils, r)
    BY <1>1, <2>1, <2>3 DEF Newest
  <2> QED
    BY <2>2, <2>4
<1> QED
  BY <1>3, <1>4

LEMMA CommitPages ==
    ASSUME IInv, LinksInv, BookInv, txn.open, Finished
    PROVE  Pages(txn.cils)
<1>1. /\ TxnBook(txn) /\ Pages(cils) /\ Frame(txn) /\ Touches(txn)
      /\ txn.todo = {}
  BY TxnSets DEF BookInv, TxnBook, Finished
<1>2. ASSUME NEW i \in Invoices
      PROVE  SameDone(i) \/ NothingDone(txn.cils, i)
  BY <1>1, CommitDone
<1>3. AllOrNothing(txn.cils)
  BY <1>1, <1>2 DEF Pages, AllOrNothing, SameDone, NothingDone
<1>4. OneHolder(txn.cils)
  BY <1>1, <1>2 DEF Pages, OneHolder, SameDone, NothingDone
<1>5. Wanted(txn.cils)
  BY CommitWanted DEF Wanted
<1>6. Stands(txn.cils)
  BY CommitStands DEF Stands
<1>7. Reversing(txn.cils)
  BY CommitReversing DEF Reversing, NothingDone
<1> QED
  BY <1>3, <1>4, <1>5, <1>6, <1>7 DEF Pages

LEMMA CommitBooks ==
    ASSUME IInv, LinksInv, BookInv, txn.open, Finished
    PROVE  Books(txn.cils, txn.inv)
<1>1. /\ TxnBook(txn) /\ Pages(cils) /\ Books(cils, inv) /\ Frame(txn)
      /\ Touches(txn) /\ Rows(txn) /\ txn.todo = {}
  BY TxnSets DEF BookInv, TxnBook, Finished
<1> SUFFICES ASSUME NEW i \in Invoices
             PROVE  /\ txn.inv[i].memo = 0
                    /\ Owed(txn.inv[i]) => /\ ~InReturn(txn.cils, i)
                                           /\ NothingDone(txn.cils, i)
                    /\ txn.inv[i].status = "PAID" =>
                         /\ \A l \in txn.cils : l.invoice = i
                                                  => l.status # "PENDING"
                         /\ ~InReturn(txn.cils, i) =>
                              \E sn \in ShortNames :
                                Done(txn.cils, sn, i) = Total[i]
  BY DEF Books, NothingDone
<1>2. /\ txn.inv[i].memo = 0
      /\ Owed(txn.inv[i]) \/ txn.inv[i].status = "PAID"
           => txn.inv[i].status = inv[i].status
  BY <1>1 DEF Rows
<1>3. /\ ~GivenBack(i) => SameDone(i)
      /\ GivenBack(i) => InReturn(txn.cils, i) /\ ~Owed(txn.inv[i])
  BY <1>1, CommitDone
<1>4. ASSUME Owed(txn.inv[i])
      PROVE  ~InReturn(txn.cils, i) /\ NothingDone(txn.cils, i)
  <2>1. Owed(inv[i])
    BY <1>2, <1>4 DEF Owed
  <2>2. ~InReturn(cils, i) /\ NothingDone(cils, i)
    BY <1>1, <2>1 DEF Books, NothingDone
  <2> QED
    BY <1>3, <1>4, <2>2 DEF SameDone, NothingDone
<1>5. ASSUME txn.inv[i].status = "PAID"
      PROVE  /\ \A l \in txn.cils : l.invoice = i => l.status # "PENDING"
             /\ ~InReturn(txn.cils, i) =>
                  \E sn \in ShortNames : Done(txn.cils, sn, i) = Total[i]
  <2>1. inv[i].status = "PAID"
    BY <1>2, <1>5
  <2>2. /\ \A l \in cils : l.invoice = i => l.status # "PENDING"
        /\ ~InReturn(cils, i) =>
             \E sn \in ShortNames : Done(cils, sn, i) = Total[i]
    BY <1>1, <2>1 DEF Books
  <2>3. ASSUME NEW l \in txn.cils, l.invoice = i, l.status = "PENDING"
        PROVE  FALSE
    <3>1. l \notin cils
      BY <2>2, <2>3
    <3>2. txn.mode = "CANCEL" /\ l.group = txn.group
      BY <1>1, <2>3, <3>1, NewLinks
    <3>3. Unpaid(i)
      BY <1>1, <2>3, <3>2 DEF Touches, Touched
    <3> QED
      BY <2>1, <3>3 DEF Unpaid
  <2>4. ASSUME ~InReturn(txn.cils, i)
        PROVE  \E sn \in ShortNames : Done(txn.cils, sn, i) = Total[i]
    BY <1>3, <2>2, <2>4 DEF SameDone
  <2> QED
    BY <2>3, <2>4
<1> QED
  BY <1>2, <1>4, <1>5

LEMMA CommitBook ==
    ASSUME IInv, LinksInv, BookInv, txn.open, Commit, UNCHANGED jobVars
    PROVE  BookInv'
<1>1. /\ Finished /\ cils' = txn.cils /\ inv' = txn.inv /\ txn' = NoTxn
      /\ UNCHANGED <<job, cfsTodo>>
  BY DEF Commit, jobVars
<1>2. job = IdleJob /\ cfsTodo = {}
  BY TxnSets DEF BookInv, OneAtATime
<1>3. Pages(cils)'
  BY <1>1, CommitPages
<1>4. Books(cils, inv)'
  BY <1>1, CommitBooks
<1>5. OneAtATime' /\ JobBook'
  BY <1>1, <1>2 DEF OneAtATime, JobBook, IdleJob
<1> QED
  BY <1>1, <1>3, <1>4, <1>5 DEF BookInv

LEMMA TxnStepBook ==
    ASSUME IInv, LinksInv, MoneyInv, BookInv, TxnStep, UNCHANGED jobVars
    PROVE  BookInv'
BY ReturnCreditBook, NextInvoiceBook, TakeCreditBook, RefillCreditBook,
   CommitBook DEF TxnStep

-----------------------------------------------------------------------------
(* Requests that are one step.                                             *)

\* Rows that are owed or paid only if they were.
KeepsBooks(rows) ==
    \A i \in Invoices : /\ rows[i].memo = inv[i].memo
                        /\ Owed(rows[i]) => Owed(inv[i])
                        /\ rows[i].status = "PAID" => inv[i].status = "PAID"

LEMMA RowsBook ==
    ASSUME Books(cils, inv), NEW rows, KeepsBooks(rows)
    PROVE  Books(cils, rows)
BY DEF Books, KeepsBooks

\* A step of a table while no job runs.
LEMMA IdleBook ==
    ASSUME BookInv, Idle, job = IdleJob, UNCHANGED <<cils, txn, job>>,
           KeepsBooks(inv')
    PROVE  BookInv'
<1>1. txn = NoTxn /\ txn' = NoTxn /\ job' = IdleJob
  BY DEF Idle
<1>2. Books(cils, inv')
  BY RowsBook DEF BookInv
<1>3. Books(cils, inv)'
  BY <1>2 DEF Books, InReturn, Done, Closed
<1>4. Pages(cils)'
  BY DEF BookInv
<1>5. OneAtATime' /\ JobBook'
  BY <1>1 DEF OneAtATime, JobBook, IdleJob
<1> QED
  BY <1>1, <1>3, <1>4, <1>5 DEF BookInv

LEMMA SetInvoiceBook ==
    ASSUME IInv, BookInv, Idle, job = IdleJob, UNCHANGED jobVars,
           NEW i \in Invoices, NEW row, SetInvoice(i, row),
           row.memo = inv[i].memo, Owed(row) => Owed(inv[i]),
           row.status # "PAID"
    PROVE  BookInv'
<1>1. UNCHANGED <<cils, txn, job>> /\ inv' = [inv EXCEPT ![i] = row]
  BY DEF SetInvoice, jobVars
<1>2. KeepsBooks(inv')
  BY <1>1, TablesType DEF KeepsBooks
<1> QED
  BY <1>1, <1>2, IdleBook

LEMMA OtherRequestBook ==
    ASSUME IInv, BookInv, Idle, job = IdleJob, UNCHANGED jobVars,
           \/ CreateCredit
           \/ \E i \in Invoices : CreateInvoice(i) \/ RefundUnlinkedInvoice(i)
           \/ \E s \in Statements : GenerateStatement(s)
           \/ \E sn \in ShortNames, a \in Accounts : PatchShortNameLink(sn, a)
           \/ \E r \in Refunds : ApproveShortNameRefund(r)
    PROVE  BookInv'
<1>1. ASSUME UNCHANGED <<cils, txn, inv>>
      PROVE  BookInv'
  <2>1. UNCHANGED <<cils, txn, job>> /\ KeepsBooks(inv')
    BY <1>1 DEF KeepsBooks, jobVars
  <2> QED
    BY <2>1, IdleBook
<1>2. ASSUME NEW i \in Invoices, CreateInvoice(i)
      PROVE  BookInv'
  <2>1. inv[i] \in Invoice /\ inv[i].status = "NOT_CREATED"
    BY <1>2, TablesType DEF CreateInvoice
  <2> DEFINE row == [inv[i] EXCEPT !.status = "APPROVED"]
  <2>2. SetInvoice(i, row)
    BY <1>2 DEF CreateInvoice
  <2>3. row.memo = inv[i].memo /\ row.status = "APPROVED"
    BY <2>1 DEF Invoice
  <2> HIDE DEF row
  <2>4. Owed(inv[i])
    BY <2>1 DEF Owed
  <2> QED
    BY <2>2, <2>3, <2>4, SetInvoiceBook
<1>3. ASSUME NEW i \in Invoices, RefundUnlinkedInvoice(i)
      PROVE  BookInv'
  <2>1. inv[i] \in Invoice
    BY TablesType
  <2> DEFINE row == [inv[i] EXCEPT !.requested = TRUE, !.refund = Total[i],
                                   !.status = UnlinkedStatus(i)]
  <2>2. SetInvoice(i, row)
    BY <1>3, ZenonT(40) DEF RefundUnlinkedInvoice
  <2>3. row.memo = inv[i].memo /\ row.status = UnlinkedStatus(i)
    BY <2>1 DEF Invoice
  <2> HIDE DEF row
  <2>4. ~Owed(row) /\ row.status # "PAID"
    BY <2>3 DEF Owed, UnlinkedStatus
  <2> QED
    BY <2>2, <2>3, <2>4, SetInvoiceBook
<1>4. CASE CreateCredit
  BY <1>1, <1>4 DEF CreateCredit
<1>5. CASE \E s \in Statements : GenerateStatement(s)
  BY <1>1, <1>5 DEF GenerateStatement
<1>6. CASE \E sn \in ShortNames, a \in Accounts : PatchShortNameLink(sn, a)
  BY <1>1, <1>6 DEF PatchShortNameLink
<1>7. CASE \E r \in Refunds : ApproveShortNameRefund(r)
  BY <1>1, <1>7 DEF ApproveShortNameRefund
<1> QED
  BY <1>2, <1>3, <1>4, <1>5, <1>6, <1>7

LEMMA RequestBook ==
    ASSUME PartialAmounts = {}, IInv, LinksInv, BookInv, JobsIdle, Request,
           UNCHANGED jobVars
    PROVE  BookInv'
<1>1. job = IdleJob /\ cfsTodo = {} /\ Idle
  BY DEF JobsIdle, Request
<1>2. ASSUME NEW sn \in ShortNames, NEW a \in Accounts,
             \/ CreateShortNameLink(sn, a)
             \/ \E S \in StatementChoice :
                  ApplyPayment(sn, a, S) \/ CancelPayment(sn, a, S)
      PROVE  BookInv'
  BY <1>1, <1>2, CreateShortNameLinkBook, ApplyPaymentBook, CancelPaymentBook
<1>3. CASE \E sn \in ShortNames, s \in Statements : ReversePayment(sn, s)
  BY <1>1, <1>3, ReversePaymentBook
<1>4. CASE \E i \in Invoices : RefundLinkedInvoice(i)
  BY <1>1, <1>4, RefundLinkedInvoiceBook
<1>5. CASE \E r \in Refunds : \/ \E sn \in ShortNames, x \in RefundAmounts :
                                   CreateShortNameRefund(r, sn, x)
                              \/ DeclineShortNameRefund(r)
  BY <1>1, <1>5, ShortNameRefundBook
<1>6. CASE \/ CreateCredit
           \/ \E i \in Invoices : CreateInvoice(i) \/ RefundUnlinkedInvoice(i)
           \/ \E s \in Statements : GenerateStatement(s)
           \/ \E sn \in ShortNames, a \in Accounts : PatchShortNameLink(sn, a)
           \/ \E r \in Refunds : ApproveShortNameRefund(r)
  BY <1>1, <1>6, OtherRequestBook
<1> QED
  BY <1>2, <1>3, <1>4, <1>5, <1>6 DEF Request

-----------------------------------------------------------------------------
(* The lists of the job, and its looking at an item.                       *)

\* The links of a row to be linked are all pending links of the invoice.
LEMMA ToLinkOpen ==
    ASSUME IInv, LinksInv, NEW k, k.status = "PENDING", k.receipt = NoReceipt
    PROVE  RolledUp(k) = Open(cils, k.invoice)
<1>1. \A l \in cils : l.status = "PENDING" => l.receipt = NoReceipt
  BY DEF LinksInv, Links, Receipted
<1> QED
  BY <1>1 DEF RolledUp, Open

\* A return that waits for the job is one row of the list.
LEMMA OneReturn ==
    ASSUME IInv, LinksInv, BookInv, NEW l \in cils, NEW m \in cils,
           l.status = "PENDING_REFUND", m.status = "PENDING_REFUND",
           l.invoice = m.invoice
    PROVE  l.receipt = m.receipt
<1>1. Newest(cils, l) /\ Newest(cils, m)
  BY DEF BookInv, Pages, Reversing
<1>2. l.group \in Nat /\ m.group \in Nat
  BY JobTables, CilFields
<1>3. l.group = m.group
  BY <1>1, <1>2 DEF Newest
<1> QED
  BY <1>3 DEF LinksInv, Groups, Siblings, Alike

\* A step of the job that writes no table of ours.
LEMMA JobStepBook ==
    ASSUME BookInv, Idle, cfsTodo = {}, UNCHANGED <<cils, inv, cfsTodo, txn>>,
           JobBook'
    PROVE  BookInv'
<1>1. txn' = NoTxn /\ cfsTodo' = {}
  BY DEF Idle
<1>2. Pages(cils)' /\ Books(cils, inv)'
  BY DEF BookInv
<1> QED
  BY <1>1, <1>2 DEF BookInv, OneAtATime

LEMMA EftJobStartBook ==
    ASSUME IInv, LinksInv, BookInv, JobsIdle, Idle, EftJobStart
    PROVE  BookInv'
<1>1. cfsTodo = {} /\ UNCHANGED <<inv, cils, cfsTodo, txn>>
  BY DEF JobsIdle, EftJobStart, WithinJob, eftVars
<1>2. job'.phase = "LINK" /\ job'.todo = ToLink /\ job'.cur = NoItem
  BY QueriedFields DEF EftJobStart
<1>3. ASSUME NEW k \in ToLink
      PROVE  /\ k.receipt = NoReceipt /\ k.status = "PENDING"
             /\ Unpaid(k.invoice)
             /\ LinkSum(Open(cils, k.invoice)) = Total[k.invoice]
  <2>1. k.receipt = NoReceipt /\ k.status = "PENDING"
    BY <1>3, LinkListGood
  <2>2. Unpaid(k.invoice) /\ LinkSum(RolledUp(k)) = Total[k.invoice]
    BY <1>3 DEF ToLink, Rollups, Unpaid
  <2> QED
    BY <2>1, <2>2, ToLinkOpen
<1>4. LinkBook'
  <2>1. ASSUME NEW k \in ToLink
        PROVE  /\ Unpaid(k.invoice)'
               /\ (LinkSum(Open(cils, k.invoice)) = Total[k.invoice])'
    BY <1>1, <1>3 DEF Unpaid, Open
  <2> QED
    BY <1>2, <1>3, <2>1 DEF LinkBook
<1>5. JobBook'
  BY <1>2, <1>4 DEF JobBook
<1> QED
  BY <1>1, <1>5, JobStepBook

LEMMA UnlockBook ==
    ASSUME IInv, LinksInv, BookInv, Idle, UnlockOverdueAccounts
    PROVE  BookInv'
<1>1. cfsTodo = {} /\ UNCHANGED <<inv, cils, ref, cfsTodo, txn>>
  BY DEF UnlockOverdueAccounts, BookInv, OneAtATime, IdleJob
<1>2. job'.phase = "REVERSE" /\ job'.todo = ToReverse /\ job'.cur = NoItem
  BY QueriedFields DEF UnlockOverdueAccounts
<1>3. ASSUME NEW k \in ToReverse
      PROVE  /\ k.status = "PENDING_REFUND" =>
                  /\ RolledUp(k) # {}
                  /\ inv[k.invoice].status \in {"PAID", "REFUND_REQUESTED"}
             /\ k.status # "PENDING_REFUND"
                  => inv[k.invoice].status = "REFUND_REQUESTED"
  BY <1>3 DEF ToReverse, Rollups, InRollup
<1>4. ReverseBook'
  <2>1. \A k : RolledUp(k)' = RolledUp(k)
    BY <1>1 DEF RolledUp
  <2> QED
    BY <1>1, <1>2, <1>3, <2>1 DEF ReverseBook
<1>5. JobBook'
  BY <1>2, <1>4 DEF JobBook
<1> QED
  BY <1>1, <1>5, JobStepBook

LEMMA UnlinkedBook ==
    ASSUME BookInv, Idle, UnlinkedJobStart \/ EftJobEnd \/ JobDies
    PROVE  BookInv'
<1>1. cfsTodo = {} /\ UNCHANGED <<inv, cils, cfsTodo, txn>>
  BY DEF UnlinkedJobStart, EftJobEnd, JobDies, BookInv, OneAtATime, IdleJob,
     WithinJob, eftVars
<1>2. job'.phase \notin {"LINK", "REVERSE"} /\ job'.cur = NoItem
  BY QueriedFields DEF UnlinkedJobStart, EftJobEnd, JobDies, IdleJob
<1> QED
  BY <1>1, <1>2, JobStepBook DEF JobBook

LEMMA LinkItemBook ==
    ASSUME IInv, LinksInv, BookInv, Idle, WithinJob, job.phase = "LINK",
           NEW k \in job.todo, ItemStarts(k)
    PROVE  BookInv'
<1> DEFINE item == ItemOf(k)
<1>1. cfsTodo = {} /\ UNCHANGED <<inv, cils, cfsTodo, txn>>
  BY DEF BookInv, OneAtATime, IdleJob, WithinJob, eftVars
<1>2. /\ k \in RollupKey /\ job.cur = NoItem
      /\ \/ job' = Noted(k)
         \/ job' = [Noted(k) EXCEPT !.cur = ItemOf(k)]
         \/ job' = IdleJob
  BY ItemStartSteps
<1>3. LinkBook
  BY DEF BookInv, JobBook
<1>4. item.key = k /\ item.ids = {l.id : l \in RolledUp(k)}
  BY <1>2, ItemOfType
<1>5. item.ids = {l.id : l \in Open(cils, k.invoice)}
  <2>1. RolledUp(k) = Open(cils, k.invoice)
    BY <1>3, ToLinkOpen DEF LinkBook
  <2> QED
    BY <1>4, <2>1
<1> HIDE DEF item
<1>6. /\ job'.todo \subseteq job.todo \ {k}
      /\ job'.phase \in {job.phase, "IDLE"}
      /\ job'.cur = NoItem \/ job'.cur = item
  BY <1>2, LooksAt DEF item
<1>7. \A j \in job.todo \ {k} : j.invoice # k.invoice
  <2>1. job.todo \subseteq RollupKey
    BY JobTables DEF Job
  <2>2. \A j \in job.todo : j.status = "PENDING" /\ j.receipt = NoReceipt
    BY <1>3 DEF LinkBook
  <2> QED
    BY <2>1, <2>2 DEF RollupKey
<1>8. /\ \A j \in job'.todo :
           /\ j.receipt = NoReceipt /\ j.status = "PENDING"
           /\ Unpaid(j.invoice)
           /\ LinkSum(Open(cils, j.invoice)) = Total[j.invoice]
      /\ job'.cur # NoItem =>
           /\ Unpaid(job'.cur.key.invoice)
           /\ job'.cur.ids = {l.id : l \in Open(cils, job'.cur.key.invoice)}
           /\ LinkSum(Open(cils, job'.cur.key.invoice))
                = Total[job'.cur.key.invoice]
           /\ \A j \in job'.todo : j.invoice # job'.cur.key.invoice
  BY <1>3, <1>4, <1>5, <1>6, <1>7 DEF LinkBook
<1>9. LinkBook'
  BY <1>1, <1>8 DEF LinkBook, Unpaid
<1>10. JobBook'
  BY <1>6, <1>9 DEF JobBook
<1> QED
  BY <1>1, <1>10, JobStepBook

\* What the job knows of an item to reverse when it has called CFS.
LEMMA ReverseItemKnown ==
    ASSUME IInv, LinksInv, BookInv, job.phase = "REVERSE", NEW k \in job.todo,
           ReverseItemStart(k), job' # Noted(k), job' # IdleJob,
           NEW item, item = ItemOf(k)
    PROVE  /\ \A l \in cils : l.id \in item.ids => l.invoice = k.invoice
           /\ item.refunding /\ item.found = "NONE"
                => ref[k.invoice] # "ACTIVE"
           /\ ~item.refunding =>
                /\ inv[k.invoice].status = "PAID"
                /\ InReturn(cils, k.invoice)
                /\ \A l \in On(cils, k.invoice) :
                     l.status = "PENDING_REFUND" => l.id \in item.ids
<1>1. /\ k \in RollupKey /\ ReverseBook
      /\ k.status \in {"PENDING_REFUND", "CANCELLED"}
  BY JobTables DEF Job, BookInv, JobBook, LinksInv, JobTodo
<1>2. /\ item.ids = {l.id : l \in RolledUp(k)}
      /\ item.found = FoundRef(k)
      /\ item.refunding <=> inv[k.invoice].status = "REFUND_REQUESTED"
  BY <1>1, ItemOfType DEF ItemOf
<1>3. item.found = "NONE" => k.status = "CANCELLED" /\ item.refunding
  <2>1. ~ LacksRef(k)
    BY DEF ReverseItemStart, Skip, JobAborts
  <2> QED
    BY <1>2, <2>1 DEF LacksRef
<1>4. item.found = "NONE" => ref[k.invoice] # "ACTIVE"
  BY <1>2, <1>3 DEF FoundRef
<1>5. ASSUME ~item.refunding
      PROVE  k.status = "PENDING_REFUND" /\ inv[k.invoice].status = "PAID"
             /\ RolledUp(k) # {}
  <2>1. item.found # "NONE" /\ inv[k.invoice].status # "REFUND_REQUESTED"
    BY <1>2, <1>3, <1>5
  <2>2. k.status = "PENDING_REFUND"
    <3>1. SUFFICES ASSUME k.status # "PENDING_REFUND"
                   PROVE  FALSE
      OBVIOUS
    <3>2. ref[k.invoice] # "ACTIVE"
      BY <1>1, <2>1, <3>1 DEF ReverseBook
    <3>3. item.found = "NONE"
      BY <1>1, <1>2, <3>1, <3>2 DEF FoundRef
    <3> QED
      BY <2>1, <3>3
  <2> QED
    BY <1>1, <2>1, <2>2 DEF ReverseBook
<1>6. ASSUME ~item.refunding
      PROVE  /\ InReturn(cils, k.invoice)
             /\ \A l \in On(cils, k.invoice) :
                  l.status = "PENDING_REFUND" => l.id \in item.ids
  <2>1. PICK m \in cils : /\ m.invoice = k.invoice
                          /\ m.status = "PENDING_REFUND"
                          /\ m.receipt = k.receipt
    BY <1>5, <1>6 DEF RolledUp
  <2>2. \A l \in cils : l.invoice = k.invoice /\ l.status = "PENDING_REFUND"
          => l.receipt = k.receipt
    BY <2>1, OneReturn
  <2>3. \A l \in On(cils, k.invoice) :
          l.status = "PENDING_REFUND" => l \in RolledUp(k)
    BY <1>5, <1>6, <2>2 DEF On, RolledUp
  <2> QED
    BY <1>2, <2>1, <2>3 DEF InReturn
<1>7. \A l \in cils : l.id \in item.ids => l.invoice = k.invoice
  BY <1>2 DEF RolledUp, LinksInv, Links, Numbered
<1> QED
  BY <1>4, <1>5, <1>6, <1>7

LEMMA ReverseItemBook ==
    ASSUME IInv, LinksInv, BookInv, Idle, WithinJob, job.phase = "REVERSE",
           NEW k \in job.todo, ItemStarts(k)
    PROVE  BookInv'
<1> DEFINE item == ItemOf(k)
<1>1. cfsTodo = {} /\ UNCHANGED <<inv, cils, ref, cfsTodo, txn>>
  BY DEF BookInv, OneAtATime, IdleJob, WithinJob, eftVars
<1>2. /\ k \in RollupKey /\ job.cur = NoItem
      /\ \/ job' = Noted(k)
         \/ job' = [Noted(k) EXCEPT !.cur = ItemOf(k)]
         \/ job' = IdleJob
  BY ItemStartSteps
<1>3. ReverseBook
  BY DEF BookInv, JobBook
<1>4. item.key = k
  BY <1>2, ItemOfType
<1>5. ReverseItemStart(k) \/ job' = Noted(k)
  BY GivenUp DEF ItemStarts, LinkItemStart, UnlinkedItemStart, Skip
<1>6. ~(job' = Noted(k)) /\ job' # IdleJob =>
        /\ \A l \in cils : l.id \in item.ids => l.invoice = k.invoice
        /\ item.refunding /\ item.found = "NONE" => ref[k.invoice] # "ACTIVE"
        /\ ~item.refunding =>
             /\ inv[k.invoice].status = "PAID"
             /\ InReturn(cils, k.invoice)
             /\ \A l \in On(cils, k.invoice) :
                  l.status = "PENDING_REFUND" => l.id \in item.ids
  BY <1>5, ReverseItemKnown
<1> HIDE DEF item
<1>7. /\ job'.todo \subseteq job.todo \ {k}
      /\ job'.phase \in {job.phase, "IDLE"}
      /\ \/ job'.cur = NoItem
         \/ job'.cur = item /\ job' = [Noted(k) EXCEPT !.cur = item]
  BY <1>2, LooksAt DEF item
<1>8. job'.cur # NoItem => ~(job' = Noted(k)) /\ job' # IdleJob
  BY <1>2, NotedType DEF IdleJob
\* Returns come first, and there is one of an invoice.
<1>9. job'.cur # NoItem => \A j \in job.todo \ {k} :
        j.status = "PENDING_REFUND" => j.invoice # k.invoice
  <2> SUFFICES ASSUME job'.cur # NoItem, NEW j \in job.todo \ {k},
                      j.status = "PENDING_REFUND", j.invoice = k.invoice
               PROVE  FALSE
    OBVIOUS
  <2>1. k.status = "PENDING_REFUND"
    BY <1>5, <1>8 DEF ReverseItemStart, AtReverseItem
  <2>2. RolledUp(j) # {} /\ RolledUp(k) # {}
    BY <1>3, <2>1 DEF ReverseBook
  <2>3. PICK l \in cils, m \in cils :
          /\ l.invoice = k.invoice /\ l.status = "PENDING_REFUND"
          /\ l.receipt = j.receipt
          /\ m.invoice = k.invoice /\ m.status = "PENDING_REFUND"
          /\ m.receipt = k.receipt
    BY <2>1, <2>2 DEF RolledUp
  <2>4. j.receipt = k.receipt
    BY <2>3, OneReturn
  <2>5. j \in RollupKey
    BY JobTables DEF Job
  <2> QED
    BY <1>2, <2>1, <2>4, <2>5 DEF RollupKey
<1>10. /\ \A j \in job'.todo :
            /\ j.status = "PENDING_REFUND" =>
                 /\ RolledUp(j) # {}
                 /\ inv[j.invoice].status \in {"PAID", "REFUND_REQUESTED"}
            /\ j.status # "PENDING_REFUND" =>
                 \/ inv[j.invoice].status = "REFUND_REQUESTED"
                 \/ Gone(inv[j.invoice]) /\ ref[j.invoice] # "ACTIVE"
       /\ job'.cur # NoItem =>
            /\ job'.cur = item
            /\ \A j \in job'.todo : j.status = "PENDING_REFUND"
                                      => j.invoice # k.invoice
  BY <1>3, <1>7, <1>9 DEF ReverseBook
<1>11. ReverseBook'
  <2>1. \A j : RolledUp(j)' = RolledUp(j)
    BY <1>1 DEF RolledUp
  <2>2. job'.cur # NoItem =>
          /\ \A l \in cils : l.id \in item.ids => l.invoice = k.invoice
          /\ item.refunding /\ item.found = "NONE"
               => ref[k.invoice] # "ACTIVE"
          /\ ~item.refunding =>
               /\ inv[k.invoice].status = "PAID"
               /\ InReturn(cils, k.invoice)
               /\ \A l \in On(cils, k.invoice) :
                    l.status = "PENDING_REFUND" => l.id \in item.ids
    BY <1>6, <1>8
  <2> QED
    BY <1>1, <1>4, <1>10, <2>1, <2>2 DEF ReverseBook
<1>12. JobBook'
  BY <1>7, <1>11 DEF JobBook
<1> QED
  BY <1>1, <1>12, JobStepBook

LEMMA UnlinkedItemBook ==
    ASSUME IInv, BookInv, Idle, WithinJob, job.phase \notin {"LINK", "REVERSE"},
           NEW k \in job.todo, ItemStarts(k)
    PROVE  BookInv'
<1> DEFINE item == UnlinkedItemOf(k)
<1>1. job # IdleJob
  BY DEF IdleJob
<1>2. cfsTodo = {} /\ UNCHANGED <<inv, cils, cfsTodo, txn>>
  BY <1>1 DEF BookInv, OneAtATime, WithinJob, eftVars
<1>3. /\ k \in RollupKey /\ job.cur = NoItem
      /\ \/ job' = Noted(k)
         \/ job' = [Noted(k) EXCEPT !.cur = item]
         \/ job' = IdleJob
  BY ItemStartSteps
<1>4. item.refunding /\ item.ids = {}
  <2>1. ItemOf(k) \in Item
    BY <1>3, ItemOfType
  <2> QED
    BY <2>1 DEF UnlinkedItemOf, Item
<1> HIDE DEF item
<1>5. /\ job'.phase \notin {"LINK", "REVERSE"}
      /\ job'.cur = NoItem \/ job'.cur = item
  BY <1>3, LooksAt
<1> QED
  BY <1>2, <1>4, <1>5, JobStepBook DEF JobBook

-----------------------------------------------------------------------------
(* The page of one invoice.                                                *)

LEMMA PagesAt ==
    ASSUME NEW L \in SUBSET Cil
    PROVE  Pages(L) <=> \A i \in Invoices : PageAt(L, i)
<1>1. \A l \in L : l.invoice \in Invoices
  BY CilFields
<1>2. Pages(L) => \A i \in Invoices : PageAt(L, i)
  BY DEF Pages, PageAt, AllOrNothing, OneHolder, Wanted, Stands, Reversing, On,
     Open, NothingDone
<1>3. ASSUME \A i \in Invoices : PageAt(L, i)
      PROVE  Pages(L)
  <2>1. AllOrNothing(L) /\ OneHolder(L)
    BY <1>3 DEF PageAt, AllOrNothing, OneHolder
  <2>2. Wanted(L)
    <3> SUFFICES ASSUME NEW l \in L, l.status = "PENDING"
                 PROVE  /\ Asked(L, Payer(l), l.invoice) = Total[l.invoice]
                        /\ Done(L, Payer(l), l.invoice) = 0
                        /\ \A m \in L : m.invoice = l.invoice =>
                             /\ m.status = "PENDING" /\ Payer(m) = Payer(l)
                                  => Siblings(l, m)
                             /\ m.status = "COMPLETED" => m.group < l.group
      BY DEF Wanted
    <3>1. l \in Open(L, l.invoice) /\ PageAt(L, l.invoice)
      BY <1>1, <1>3 DEF Open
    <3> QED
      BY <3>1 DEF PageAt, On
  <2>3. Stands(L)
    <3> SUFFICES ASSUME NEW l \in L, l.status = "COMPLETED", Newest(L, l)
                 PROVE  /\ Done(L, Payer(l), l.invoice) = Total[l.invoice]
                        /\ HeldOf(Family(L, l), Payer(l)) = Total[l.invoice]
      BY DEF Stands
    <3>1. l \in On(L, l.invoice) /\ PageAt(L, l.invoice)
      BY <1>1, <1>3 DEF On
    <3> QED
      BY <3>1 DEF PageAt
  <2>4. Reversing(L)
    <3> SUFFICES ASSUME NEW r \in L, r.status = "PENDING_REFUND"
                 PROVE  Newest(L, r) /\ NothingDone(L, r.invoice)
      BY DEF Reversing, NothingDone
    <3>1. r \in On(L, r.invoice) /\ PageAt(L, r.invoice)
      BY <1>1, <1>3 DEF On
    <3> QED
      BY <3>1 DEF PageAt
  <2> QED
    BY <2>1, <2>2, <2>3, <2>4 DEF Pages
<1> QED
  BY <1>2, <1>3

LEMMA BooksAt ==
    ASSUME NEW L, NEW rows
    PROVE  Books(L, rows) <=> \A i \in Invoices : BookAt(L, i, rows[i])
BY DEF Books, BookAt, NothingDone, Open

\* What two short names are asked for is no more than there is.
LEMMA TwoPayers ==
    ASSUME NEW L \in SUBSET Cil, IsFiniteSet(L),
           \A l \in L : l.status = "PENDING", NEW p, NEW q, p # q
    PROVE  /\ LinkSum(L) \in Int
           /\ HeldOf(L, p) + HeldOf(L, q) <= LinkSum(L)
<1> DEFINE a == [l \in L |-> l.amount]
           f == [l \in L |-> Weight(l, p)]
           g == [l \in L |-> Weight(l, q)]
           h == [l \in L |-> Weight(l, p) + Weight(l, q)]
           r == [l \in L |-> l.amount - (Weight(l, p) + Weight(l, q))]
<1>1. \A l \in L : /\ f[l] \in Int /\ g[l] \in Int /\ h[l] = f[l] + g[l]
                   /\ h[l] \in Int /\ r[l] \in Nat /\ a[l] = h[l] + r[l]
                   /\ r[l] \in Int
  BY CilFields DEF Weight
<1> HIDE DEF a, f, g, h, r
<1>2. SumFunctionOnSet(h, L) = SumFunctionOnSet(f, L) + SumFunctionOnSet(g, L)
  BY <1>1, SumPlus
<1>3. SumFunctionOnSet(a, L) = SumFunctionOnSet(h, L) + SumFunctionOnSet(r, L)
  BY <1>1, SumPlus
<1>4. /\ SumFunctionOnSet(f, L) \in Int /\ SumFunctionOnSet(g, L) \in Int
      /\ SumFunctionOnSet(r, L) \in Nat
  BY <1>1, SumInt, SumNat
<1> QED
  BY <1>2, <1>3, <1>4 DEF LinkSum, HeldOf, a, f, g

-----------------------------------------------------------------------------
(* The end of an item.                                                     *)

\* The tables after an item whose invoice has a proper page.
LEMMA PagesBut ==
    ASSUME IInv, BookInv, NEW i \in Invoices, NEW K \in SUBSET Cil,
           \A j : j # i => On(K, j) = On(cils, j),
           NEW rows, \A j \in Invoices \ {i} : rows[j] = inv[j],
           PageAt(K, i), BookAt(K, i, rows[i])
    PROVE  Pages(K) /\ Books(K, rows)
<1>1. cils \in SUBSET Cil /\ Pages(cils) /\ Books(cils, inv)
  BY JobTables DEF BookInv
<1>2. \A j \in Invoices : PageAt(cils, j) /\ BookAt(cils, j, inv[j])
  BY <1>1, PagesAt, BooksAt
<1>3. \A j \in Invoices \ {i} : PageAt(K, j) /\ BookAt(K, j, inv[j])
  BY <1>2, PageCopied
<1>4. \A j \in Invoices : PageAt(K, j) /\ BookAt(K, j, rows[j])
  BY <1>3
<1> QED
  BY <1>4, PagesAt, BooksAt

\* What the links of an invoice to be linked are.
LinkPage(i) ==
    /\ i \in Invoices /\ PageAt(cils, i) /\ BookAt(cils, i, inv[i])
    /\ NothingDone(cils, i) /\ ~InReturn(cils, i)
    /\ Open(cils, i) # {} /\ IsFiniteSet(Open(cils, i))
    /\ LinkSum(Open(cils, i)) = Total[i]
    /\ \A l \in cils : l.id \in job.cur.ids <=> l \in Open(cils, i)

LEMMA LinkItemPage ==
    ASSUME IInv, LinksInv, BookInv, job.phase = "LINK", job.cur # NoItem,
           NEW i, i = job.cur.key.invoice
    PROVE  LinkPage(i)
<1>1. /\ job.cur \in Item /\ job.cur.ids # {} /\ i \in Invoices
      /\ cils \in SUBSET Cil /\ IsFiniteSet(cils)
  BY JobTables DEF GoodJob, Job, Item, RollupKey, LinksInv, Links, Numbered
<1>2. /\ Unpaid(i) /\ job.cur.ids = {l.id : l \in Open(cils, i)}
      /\ LinkSum(Open(cils, i)) = Total[i]
      /\ Pages(cils) /\ Books(cils, inv)
  BY DEF BookInv, JobBook, LinkBook
<1>3. PageAt(cils, i) /\ BookAt(cils, i, inv[i])
  BY <1>1, <1>2, PagesAt, BooksAt
<1>4. NothingDone(cils, i) /\ ~InReturn(cils, i)
  BY <1>2, <1>3 DEF BookAt, Owed, Unpaid
<1>5. \A l \in cils : l.id \in job.cur.ids <=> l \in Open(cils, i)
  BY <1>2 DEF Open, LinksInv, Links, Numbered
<1>6. Open(cils, i) # {} /\ IsFiniteSet(Open(cils, i))
  BY <1>1, <1>2, PageType
<1> QED
  BY <1>1, <1>2, <1>3, <1>4, <1>5, <1>6 DEF LinkPage

\* A link of the invoice was pending and is completed, or is what it was.
Completes(K, U, i) ==
    /\ \A l \in On(cils, i) :
         /\ U[l] \in On(K, i)
         /\ l \in Open(cils, i) => U[l].status = "COMPLETED"
         /\ l \notin Open(cils, i) => U[l] = l
    /\ \A k \in On(K, i) : \E l \in On(cils, i) : k = U[l]

LEMMA LinkedLinks ==
    ASSUME IInv, NEW i, LinkPage(i), NEW K, NEW U,
           UpdatedTo(K, U, i, "COMPLETED")
    PROVE  Completes(K, U, i)
<1>1. \A l \in cils :
        /\ l \in Open(cils, i) => U[l].status = "COMPLETED"
        /\ l \notin Open(cils, i) => U[l] = l
  BY DEF UpdatedTo, LinkPage, Open
<1>2. /\ \A l \in cils : U[l].invoice = l.invoice /\ U[l] \in K
      /\ \A k \in K : \E l \in cils : k = U[l]
  BY DEF UpdatedTo
<1> QED
  BY <1>1, <1>2 DEF Completes, On

\* What was asked for is done.
LEMMA LinkedDone ==
    ASSUME IInv, LinksInv, NEW i, LinkPage(i), NEW K, NEW U,
           UpdatedTo(K, U, i, "COMPLETED"), NEW sn \in ShortNames
    PROVE  /\ Open(K, i) = {} /\ ~InReturn(K, i)
           /\ Done(K, sn, i) = Asked(cils, sn, i)
           /\ Asked(cils, sn, i) \in Nat
           /\ Asked(cils, sn, i) # 0 =>
                /\ Asked(cils, sn, i) = Total[i]
                /\ \E l \in Open(cils, i) : Payer(l) = sn
<1>1. Completes(K, U, i) /\ i \in Invoices
  BY LinkedLinks DEF LinkPage
<1>2. /\ cils \in SUBSET Cil /\ IsFiniteSet(cils)
      /\ K \in SUBSET Cil /\ IsFiniteSet(K)
  BY JobTables DEF LinksInv, Links, Numbered, UpdatedTo
<1>3. \A k \in On(K, i) : k.status \notin {"PENDING", "PENDING_REFUND"}
  <2>1. ASSUME NEW l \in On(cils, i)
        PROVE  U[l].status \notin {"PENDING", "PENDING_REFUND"}
    <3>1. l.status # "PENDING_REFUND"
      BY <2>1 DEF LinkPage, InReturn, On
    <3>2. l.status = "PENDING" => l \in Open(cils, i)
      BY <2>1 DEF On, Open
    <3> QED
      BY <1>1, <2>1, <3>1, <3>2 DEF Completes
  <2> QED
    BY <1>1, <2>1 DEF Completes
<1>4. Open(K, i) = {} /\ ~InReturn(K, i) /\ Closed(K, i) = On(K, i)
  BY <1>3 DEF On, Open, Closed, InReturn
<1>5. Done(K, sn, i) = Asked(cils, sn, i)
  <2>1. Done(K, sn, i) = HeldOf(On(K, i), sn)
    BY <1>4 DEF Done
  <2>2. HeldOf(On(K, i), sn) = HeldOf(On(cils, i), sn)
    BY DEF UpdatedTo
  <2>3. /\ HeldOf(On(cils, i), sn) = Asked(cils, sn, i) + Done(cils, sn, i)
        /\ Asked(cils, sn, i) \in Nat
    BY <1>2, PageType
  <2>4. Done(cils, sn, i) = 0
    BY DEF LinkPage, NothingDone
  <2> QED
    BY <2>1, <2>2, <2>3, <2>4
<1>6. Asked(cils, sn, i) \in Nat
  BY <1>2, PageType
<1>7. ASSUME Asked(cils, sn, i) # 0
      PROVE  /\ Asked(cils, sn, i) = Total[i]
             /\ \E l \in Open(cils, i) : Payer(l) = sn
  <2>1. Mine(cils, sn, i) # {}
    <3>1. Asked(cils, sn, i) = HeldOf(Mine(cils, sn, i), sn)
      BY <1>2, PageType
    <3> QED
      BY <1>7, <3>1, HeldEmpty
  <2>2. PICK l \in Open(cils, i) : Payer(l) = sn
    BY <2>1 DEF Mine, Open
  <2>3. Asked(cils, Payer(l), i) = Total[i]
    BY <2>2 DEF LinkPage, PageAt
  <2> QED
    BY <2>2, <2>3
<1> QED
  BY <1>4, <1>5, <1>6, <1>7

\* The latest group is the payment that is completed now.
LEMMA LinkedStands ==
    ASSUME IInv, LinksInv, NEW i, LinkPage(i), NEW K, NEW U,
           UpdatedTo(K, U, i, "COMPLETED"), NEW l \in On(K, i),
           l.status = "COMPLETED", Newest(K, l)
    PROVE  /\ Done(K, Payer(l), i) = Total[i]
           /\ HeldOf(Family(K, l), Payer(l)) = Total[i]
<1>1. /\ Completes(K, U, i) /\ i \in Invoices /\ PageAt(cils, i)
      /\ Open(cils, i) # {}
      /\ \A k \in cils : /\ U[k].invoice = k.invoice /\ U[k].group = k.group
                         /\ Payer(U[k]) = Payer(k)
      /\ On(K, i) \in SUBSET K
  BY LinkedLinks DEF LinkPage, UpdatedTo, On
<1>2. /\ cils \in SUBSET Cil /\ IsFiniteSet(cils)
      /\ K \in SUBSET Cil /\ IsFiniteSet(K) /\ \A k \in cils : k.group \in Nat
  BY JobTables, CilFields DEF LinksInv, Links, Numbered, UpdatedTo
<1>3. PICK old \in On(cils, i) : l = U[old]
  BY <1>1 DEF Completes
<1>4. old \in cils /\ old.invoice = i /\ l.invoice = i /\ l.group = old.group
      /\ Payer(l) = Payer(old)
  BY <1>1, <1>3 DEF On
<1>5. old \in Open(cils, i)
  <2> SUFFICES ASSUME old \notin Open(cils, i)
               PROVE  FALSE
    OBVIOUS
  <2>1. PICK m \in Open(cils, i) : TRUE
    BY <1>1
  <2>2. old.status = "COMPLETED"
    BY <1>1, <1>3 DEF Completes
  <2>3. old.group < m.group
    BY <1>1, <2>2 DEF PageAt
  <2>4. m \in cils /\ m \in On(cils, i)
    BY DEF Open, On
  <2>5. U[m] \in K /\ U[m].invoice = i /\ U[m].group = m.group
    BY <1>1, <2>4 DEF Completes, On
  <2>6. m.group <= l.group
    BY <1>4, <2>5 DEF Newest
  <2> QED
    BY <1>2, <1>4, <2>3, <2>4, <2>6
<1> DEFINE p == Payer(l)
           F == Family(K, l)
           A == On(K, i)
           R == A \ F
           C == Closed(cils, i)
<1>6. p \in ShortNames
  BY <1>2, <1>4, DepositorType DEF Payer
<1>7. Done(K, p, i) = Total[i] /\ Done(K, p, i) = HeldOf(A, p)
  <2>1. Asked(cils, p, i) = Total[i]
    BY <1>1, <1>4, <1>5 DEF PageAt
  <2>2. Open(K, i) = {} /\ Done(K, p, i) = Asked(cils, p, i)
    BY <1>6, LinkedDone
  <2>3. Closed(K, i) = On(K, i)
    BY <2>2 DEF Open, Closed, On
  <2> QED
    BY <2>1, <2>2, <2>3 DEF Done
<1>8. HeldOf(C, p) = 0
  BY <1>6 DEF LinkPage, NothingDone, Done
<1>9. ASSUME NEW k \in R, k \notin C
      PROVE  Weight(k, p) = 0
  <2>1. PICK m \in On(cils, i) : k = U[m]
    BY <1>1 DEF Completes
  <2>2. m \in Open(cils, i)
    <3>1. m \notin Open(cils, i) => m \in C /\ k = m
      BY <1>1, <2>1 DEF Completes, On, Open, Closed
    <3> QED
      BY <1>9, <3>1
  <2>3. m \in cils /\ m.invoice = i /\ m.status = "PENDING"
    BY <2>2 DEF Open
  <2>4. Payer(m) # p
    <3> SUFFICES ASSUME Payer(m) = p
                 PROVE  FALSE
      OBVIOUS
    <3>1. Siblings(old, m)
      BY <1>1, <1>4, <1>5, <2>1, <2>3 DEF PageAt
    <3>2. Siblings(k, l)
      BY <1>1, <1>4, <2>1, <2>3, <3>1 DEF Siblings
    <3>3. k \in F
      BY <1>1, <3>2 DEF Family
    <3> QED
      BY <3>3
  <2>5. Payer(k) # p
    BY <1>1, <2>1, <2>3, <2>4
  <2> QED
    BY <2>5 DEF Weight
<1>10. ASSUME NEW k \in C
       PROVE  k \in R
  <2>1. k \in cils /\ k.invoice = i /\ k.status # "PENDING"
    BY DEF Closed
  <2>2. k \in A
    BY <1>1, <2>1 DEF Completes, On, Open
  <2>3. ~Siblings(k, old)
    BY <1>4, <1>5, <2>1 DEF LinksInv, Groups, Alike, Open
  <2>4. ~Siblings(k, l)
    BY <1>4, <2>3 DEF Siblings
  <2> QED
    BY <2>2, <2>4 DEF Family
<1>11. F \in SUBSET A
  <2>1. \A k \in F : k \in K /\ k.invoice = l.invoice
    BY DEF Family, Siblings
  <2> QED
    BY <1>4, <2>1 DEF On
<1>12. /\ A \in SUBSET Cil /\ IsFiniteSet(A) /\ C \in SUBSET Cil
       /\ IsFiniteSet(C)
  BY <1>2, PageType
<1> HIDE DEF F, A, C
<1>13. /\ F \in SUBSET Cil /\ IsFiniteSet(F) /\ R \in SUBSET Cil
       /\ IsFiniteSet(R) /\ A = F \cup R /\ F \cap R = {}
  BY <1>11, <1>12, FS_Subset, FS_Difference
<1> HIDE DEF R, p
<1>14. HeldOf(R, p) = HeldOf(C, p)
  BY <1>9, <1>10, <1>12, <1>13, HeldAgree
<1>15. /\ HeldOf(A, p) = HeldOf(F, p) + HeldOf(R, p)
       /\ HeldOf(F, p) \in Int
  BY <1>13, HeldParts
<1>16. HeldOf(F, p) = Total[i]
  BY <1>7, <1>8, <1>14, <1>15
<1> QED
  BY <1>7, <1>16 DEF F, p

LEMMA LinkedPage ==
    ASSUME IInv, LinksInv, NEW i, LinkPage(i), NEW K, NEW U,
           UpdatedTo(K, U, i, "COMPLETED")
    PROVE  /\ PageAt(K, i) /\ Open(K, i) = {} /\ ~InReturn(K, i)
           /\ \E sn \in ShortNames : Done(K, sn, i) = Total[i]
<1>1. /\ cils \in SUBSET Cil /\ IsFiniteSet(cils) /\ i \in Invoices
      /\ Total[i] \in Nat /\ IsFiniteSet(Open(cils, i))
  BY JobTables, EFTConstants DEF LinksInv, Links, Numbered, LinkPage
<1>2. PICK m \in Open(cils, i) : TRUE
  BY DEF LinkPage
<1>3. Payer(m) \in ShortNames /\ Asked(cils, Payer(m), i) = Total[i]
  <2>1. m \in cils
    BY DEF Open
  <2> QED
    BY <2>1, DepositorType DEF LinkPage, PageAt, Payer
<1>4. Open(K, i) = {} /\ ~InReturn(K, i) /\ Done(K, Payer(m), i) = Total[i]
  BY <1>3, LinkedDone
<1>5. ASSUME NEW sn \in ShortNames
      PROVE  Done(K, sn, i) \in {0, Total[i]}
  <2>1. /\ Done(K, sn, i) = Asked(cils, sn, i)
        /\ Asked(cils, sn, i) # 0 => Asked(cils, sn, i) = Total[i]
    BY LinkedDone
  <2> QED
    BY <2>1
\* Two payments are more than the item adds up to.
<1>6. ASSUME NEW sn \in ShortNames, NEW tn \in ShortNames, sn # tn
      PROVE  Done(K, sn, i) = 0 \/ Done(K, tn, i) = 0
  <2>1. /\ Done(K, sn, i) = Asked(cils, sn, i)
        /\ Asked(cils, sn, i) \in Nat
        /\ Asked(cils, sn, i) # 0 => Asked(cils, sn, i) = Total[i]
    BY LinkedDone
  <2>2. /\ Done(K, tn, i) = Asked(cils, tn, i)
        /\ Asked(cils, tn, i) \in Nat
        /\ Asked(cils, tn, i) # 0 => Asked(cils, tn, i) = Total[i]
    BY LinkedDone
  <2>3. Open(cils, i) \in SUBSET Cil /\ \A l \in Open(cils, i) : l.status = "PENDING"
    BY <1>1 DEF Open
  <2> DEFINE O == Open(cils, i)
  <2>4. O \in SUBSET Cil /\ IsFiniteSet(O) /\ \A l \in O : l.status = "PENDING"
    BY <1>1, <2>3
  <2>5. LinkSum(O) = Total[i]
    BY DEF LinkPage
  <2>6. Asked(cils, sn, i) = HeldOf(O, sn) /\ Asked(cils, tn, i) = HeldOf(O, tn)
    BY DEF Asked
  <2> HIDE DEF O
  <2>7. HeldOf(O, sn) + HeldOf(O, tn) <= LinkSum(O)
    BY <1>6, <2>4, TwoPayers
  <2>8. Asked(cils, sn, i) + Asked(cils, tn, i) <= Total[i]
    BY <2>5, <2>6, <2>7
  <2> QED
    BY <1>1, <2>1, <2>2, <2>8
<1>7. \A l \in On(K, i) : l.status = "COMPLETED" /\ Newest(K, l) =>
        /\ Done(K, Payer(l), i) = Total[i]
        /\ HeldOf(Family(K, l), Payer(l)) = Total[i]
  BY LinkedStands
<1>8. \A r \in On(K, i) : r.status # "PENDING_REFUND"
  BY <1>4 DEF InReturn, On
<1>9. PageAt(K, i)
  BY <1>4, <1>5, <1>6, <1>7, <1>8 DEF PageAt
<1> QED
  BY <1>3, <1>4, <1>9

LEMMA LinkItemEndBook ==
    ASSUME IInv, LinksInv, BookInv, Idle, LinkItemEnd
    PROVE  BookInv'
<1> DEFINE item == job.cur
           i == item.key.invoice
           receipt == MinId(item.ids)
           K == cils'
           rows == inv'
<1>1. /\ job.phase = "LINK" /\ item # NoItem /\ job # IdleJob
      /\ cils' = UpdateLinks(item, "COMPLETED", receipt)
      /\ job' = [job EXCEPT !.cur = NoItem] /\ UNCHANGED <<txn, cfsTodo>>
      /\ inv' = [inv EXCEPT ![i].status = "PAID", ![i].paid = item.ids]
  BY DEF LinkItemEnd, IdleJob
<1>2. /\ job \in Job /\ item \in Item /\ item.ids # {}
      /\ i \in Invoices /\ item.ids \in SUBSET Nat
  BY <1>1, JobTables DEF GoodJob, Job, Item, RollupKey
<1>3. receipt \in Nat
  BY <1>2, MinIdType
<1>4. LinkPage(i)
  BY <1>1, LinkItemPage
<1>5. \A l \in cils : l.id \in item.ids => l.invoice = i
  BY <1>4 DEF LinkPage, Open
<1> HIDE DEF receipt, i
<1>6. PICK U : U = [l \in cils |-> Updated(l, "COMPLETED", receipt)]
  OBVIOUS
<1>7. UpdatedTo(K, U, i, "COMPLETED")
  <2>1. "COMPLETED" \in CilStatus
    BY DEF CilStatus
  <2>2. PICK N : N = UpdateLinks(job.cur, "COMPLETED", receipt)
    OBVIOUS
  <2>3. UpdatedTo(N, U, i, "COMPLETED")
    BY <1>1, <1>3, <1>5, <1>6, <2>1, <2>2, UpdatedTable
  <2> QED
    BY <1>1, <2>2, <2>3
<1>8. /\ \A j \in Invoices \ {i} : rows[j] = inv[j]
      /\ rows[i].memo = inv[i].memo /\ rows[i].status = "PAID"
  <2>1. inv \in [Invoices -> Invoice] /\ inv[i] \in Invoice /\ i \in Invoices
    BY <1>2, TablesType DEF i
  <2>2. rows = [inv EXCEPT ![i] = [inv[i] EXCEPT !.status = "PAID",
                                                 !.paid = item.ids]]
    BY <1>1, <1>2, <2>1 DEF i, Invoice
  <2> QED
    BY <2>1, <2>2 DEF Invoice
<1> HIDE DEF K, rows
<1>9. /\ PageAt(K, i) /\ Open(K, i) = {} /\ ~InReturn(K, i)
      /\ \E sn \in ShortNames : Done(K, sn, i) = Total[i]
  BY <1>4, <1>7, LinkedPage
<1>10. BookAt(K, i, rows[i])
  <2>1. inv[i].memo = 0
    BY <1>4 DEF LinkPage, BookAt
  <2> QED
    BY <1>8, <1>9, <2>1 DEF BookAt, Owed
<1>11. /\ K \in SUBSET Cil /\ \A j : j # i => On(K, j) = On(cils, j)
       /\ i \in Invoices
  BY <1>4, <1>7 DEF UpdatedTo, LinkPage
<1>12. Pages(K) /\ Books(K, rows)
  BY <1>8, <1>9, <1>10, <1>11, PagesBut
<1>13. LinkBook'
  <2>1. job'.todo = job.todo /\ job'.cur = NoItem
    BY <1>1, <1>2 DEF Job
  <2>2. ASSUME NEW k \in job.todo
        PROVE  /\ k.receipt = NoReceipt /\ k.status = "PENDING"
               /\ rows[k.invoice].status \in {"APPROVED", "OVERDUE"}
               /\ LinkSum(Open(K, k.invoice)) = Total[k.invoice]
    <3>1. /\ k.receipt = NoReceipt /\ k.status = "PENDING"
          /\ Unpaid(k.invoice) /\ k.invoice # i
          /\ LinkSum(Open(cils, k.invoice)) = Total[k.invoice]
      BY <1>1 DEF BookInv, JobBook, LinkBook, i
    <3>2. k.invoice \in Invoices
      BY <1>2 DEF Job, RollupKey
    <3>3. On(K, k.invoice) = On(cils, k.invoice)
      BY <1>11, <3>1
    <3>4. Open(K, k.invoice) = Open(cils, k.invoice)
      BY <3>3, PageCopied
    <3> QED
      BY <1>8, <3>1, <3>2, <3>4 DEF Unpaid
  <2> QED
    BY <2>1, <2>2 DEF LinkBook, Unpaid, K, rows
<1>14. JobBook'
  <2>1. job'.phase = "LINK"
    BY <1>1, <1>2 DEF Job
  <2> QED
    BY <1>13, <2>1 DEF JobBook
<1>15. OneAtATime' /\ txn' = NoTxn
  BY <1>1 DEF OneAtATime, BookInv, Idle
<1> QED
  BY <1>12, <1>14, <1>15 DEF BookInv, K, rows

\* A reversal leaves what was done; the return was counted when it was asked.
LEMMA ReversedPage ==
    ASSUME IInv, LinksInv, NEW i \in Invoices, PageAt(cils, i),
           \A l \in cils : l.id \in job.cur.ids
             => l.status \in {"PENDING_REFUND", "CANCELLED"},
           NEW K, NEW U, UpdatedTo(K, U, i, "REFUNDED")
    PROVE  /\ PageAt(K, i) /\ Open(K, i) = Open(cils, i)
           /\ \A r \in K : r.status = "PENDING_REFUND" =>
                r \in cils /\ r.id \notin job.cur.ids
           /\ \A sn \in ShortNames : Done(K, sn, i) = Done(cils, sn, i)
<1>1. /\ cils \in SUBSET Cil /\ IsFiniteSet(cils)
      /\ K \in SUBSET Cil /\ IsFiniteSet(K)
      /\ K = {U[l] : l \in cils}
  BY JobTables DEF LinksInv, Links, Numbered, UpdatedTo
<1>2. \A l \in cils :
        /\ U[l].invoice = l.invoice /\ U[l].group = l.group
        /\ \/ U[l] = l /\ (l.id \in job.cur.ids => l.status = "CANCELLED")
           \/ l.status = "PENDING_REFUND" /\ U[l].status = "REFUNDED"
  BY DEF UpdatedTo
<1>3. \A k \in K : k.status # "REFUNDED" =>
        k \in cils /\ (k.status = "PENDING_REFUND" => k.id \notin job.cur.ids)
  BY <1>1, <1>2
<1>4. \A l \in cils : l.status # "PENDING_REFUND" => U[l] = l /\ l \in K
  BY <1>1, <1>2
<1>5. Open(K, i) = Open(cils, i)
  BY <1>3, <1>4 DEF Open
<1>6. ASSUME NEW sn
      PROVE  /\ Asked(K, sn, i) = Asked(cils, sn, i)
             /\ Done(K, sn, i) = Done(cils, sn, i)
  <2>1. Asked(K, sn, i) = Asked(cils, sn, i)
    BY <1>5 DEF Asked
  <2>2. HeldOf(On(K, i), sn) = HeldOf(On(cils, i), sn)
    BY DEF UpdatedTo
  <2>3. /\ HeldOf(On(K, i), sn) = Asked(K, sn, i) + Done(K, sn, i)
        /\ Asked(K, sn, i) \in Nat /\ Done(K, sn, i) \in Int
    BY <1>1, PageType
  <2>4. /\ HeldOf(On(cils, i), sn) = Asked(cils, sn, i) + Done(cils, sn, i)
        /\ Asked(cils, sn, i) \in Nat /\ Done(cils, sn, i) \in Int
    BY <1>1, PageType
  <2>5. Asked(cils, sn, i) + Done(K, sn, i)
          = Asked(cils, sn, i) + Done(cils, sn, i)
    BY <2>1, <2>2, <2>3, <2>4
  <2>6. Done(K, sn, i) = Done(cils, sn, i)
    BY <2>3, <2>4, <2>5, SameRest
  <2> QED
    BY <2>1, <2>6
<1>7. NothingDone(K, i) <=> NothingDone(cils, i)
  BY <1>6 DEF NothingDone
<1>8. \A k \in On(K, i) : \E l \in On(cils, i) : k = U[l] /\ k.group = l.group
  BY <1>1, <1>2 DEF On
<1>9. \A l \in cils : l.invoice = i =>
        (Newest(cils, l) => \A k \in K : k.invoice = i => k.group <= l.group)
  BY <1>8 DEF Newest, On
<1>10. \A l \in On(K, i) : l \in cils /\ Newest(cils, l) => Newest(K, l)
  BY <1>9 DEF Newest, On
<1>11. \A l \in On(K, i) : l \in cils /\ Newest(K, l) => Newest(cils, l)
  BY <1>1, <1>2 DEF Newest, On
<1>12. ASSUME NEW l \in On(K, i), l.status = "COMPLETED", Newest(K, l)
       PROVE  /\ Done(K, Payer(l), i) = Total[i]
              /\ HeldOf(Family(K, l), Payer(l)) = Total[i]
  <2>1. l \in cils /\ l \in On(cils, i) /\ Newest(cils, l)
    BY <1>3, <1>11, <1>12 DEF On
  <2>2. /\ Done(cils, Payer(l), i) = Total[i]
        /\ HeldOf(Family(cils, l), Payer(l)) = Total[i]
    BY <1>12, <2>1 DEF PageAt
  <2>3. \A k \in cils : Siblings(k, l) => k.status = "COMPLETED"
    BY <1>12, <2>1 DEF LinksInv, Groups, Alike
  <2>4. Family(K, l) = Family(cils, l)
    <3>1. \A k \in cils : Siblings(k, l) => k \in K
      BY <1>4, <2>3
    <3>2. ASSUME NEW k \in K, Siblings(k, l)
          PROVE  k \in cils
      <4>1. PICK m \in cils : k = U[m]
        BY <1>1
      <4>2. Siblings(m, l)
        BY <1>2, <3>2, <4>1 DEF Siblings
      <4> QED
        BY <1>4, <2>3, <4>1, <4>2
    <3> QED
      BY <3>1, <3>2 DEF Family
  <2> QED
    BY <1>6, <2>2, <2>4
<1>13. ASSUME NEW r \in On(K, i), r.status = "PENDING_REFUND"
       PROVE  Newest(K, r) /\ NothingDone(K, i)
  <2>1. r \in cils /\ r \in On(cils, i)
    BY <1>3, <1>13 DEF On
  <2>2. Newest(cils, r) /\ NothingDone(cils, i)
    BY <1>13, <2>1 DEF PageAt
  <2> QED
    BY <1>7, <1>10, <2>1, <2>2
<1>14. ASSUME NEW l \in Open(K, i)
       PROVE  /\ Asked(K, Payer(l), i) = Total[i]
              /\ Done(K, Payer(l), i) = 0
              /\ \A m \in On(K, i) :
                   /\ m.status = "PENDING" /\ Payer(m) = Payer(l)
                        => Siblings(l, m)
                   /\ m.status = "COMPLETED" => m.group < l.group
  <2>1. /\ Asked(cils, Payer(l), i) = Total[i]
        /\ Done(cils, Payer(l), i) = 0
        /\ \A m \in On(cils, i) :
             /\ m.status = "PENDING" /\ Payer(m) = Payer(l) => Siblings(l, m)
             /\ m.status = "COMPLETED" => m.group < l.group
    BY <1>5, <1>14 DEF PageAt
  <2>2. \A m \in On(K, i) : m.status \in {"PENDING", "COMPLETED"}
          => m \in On(cils, i)
    BY <1>3 DEF On
  <2> QED
    BY <1>6, <2>1, <2>2
<1>15. PageAt(K, i)
  <2>1. \A sn \in ShortNames : Done(K, sn, i) \in {0, Total[i]}
    BY <1>6 DEF PageAt
  <2>2. \A sn \in ShortNames, tn \in ShortNames :
          Done(K, sn, i) # 0 /\ Done(K, tn, i) # 0 => sn = tn
    BY <1>6 DEF PageAt
  <2> QED
    BY <1>12, <1>13, <1>14, <2>1, <2>2 DEF PageAt
<1> QED
  BY <1>3, <1>5, <1>6, <1>15

\* What the job knows of the item it reverses.
LEMMA ReverseItemPage ==
    ASSUME IInv, LinksInv, BookInv, job.cur # NoItem, job.phase # "LINK",
           job.phase \in {"REVERSE", "UNLINKED"},
           NEW i, i = job.cur.key.invoice
    PROVE  /\ i \in Invoices /\ job \in Job /\ job.cur \in Item
           /\ PageAt(cils, i) /\ inv[i].memo = 0 /\ inv[i] \in Invoice
           /\ inv \in [Invoices -> Invoice] /\ ref \in [Invoices -> RefStatus]
           /\ job.cur.key.receipt \in Nat
           /\ \A l \in cils : l.id \in job.cur.ids =>
                /\ l.invoice = i
                /\ l.status \in {"PENDING_REFUND", "CANCELLED"}
           /\ ~job.cur.refunding =>
                /\ job.phase = "REVERSE" /\ inv[i].status = "PAID"
                /\ NothingDone(cils, i)
                /\ \A l \in On(cils, i) :
                     l.status = "PENDING_REFUND" => l.id \in job.cur.ids
<1>1. /\ job \in Job /\ job.cur \in Item /\ i \in Invoices
      /\ cils \in SUBSET Cil /\ job.cur.key.receipt \in Nat
      /\ inv \in [Invoices -> Invoice] /\ ref \in [Invoices -> RefStatus]
  BY JobTables DEF Job, Item, RollupKey
<1>2. Pages(cils) /\ Books(cils, inv) /\ inv[i] \in Invoice
  BY <1>1 DEF BookInv
<1>3. PageAt(cils, i) /\ BookAt(cils, i, inv[i])
  BY <1>1, <1>2, PagesAt, BooksAt
<1>4. \A l \in cils : l.id \in job.cur.ids =>
        /\ l.invoice = i
        /\ l.status \in {"PENDING_REFUND", "CANCELLED"}
  <2>1. \A l \in cils : l.id \in job.cur.ids => l.invoice = i
    BY DEF BookInv, JobBook, ReverseBook
  <2>2. \A l \in cils : l.id \in job.cur.ids =>
          l.status \in {"PENDING_REFUND", "CANCELLED"}
    BY DEF LinksInv, JobLinks
  <2> QED
    BY <2>1, <2>2
<1>5. ASSUME ~job.cur.refunding
      PROVE  /\ job.phase = "REVERSE" /\ inv[i].status = "PAID"
             /\ NothingDone(cils, i)
             /\ \A l \in On(cils, i) :
                  l.status = "PENDING_REFUND" => l.id \in job.cur.ids
  <2>1. job.phase = "REVERSE"
    BY <1>5 DEF BookInv, JobBook
  <2>2. /\ inv[i].status = "PAID" /\ InReturn(cils, i)
        /\ \A l \in On(cils, i) :
             l.status = "PENDING_REFUND" => l.id \in job.cur.ids
    BY <1>5, <2>1 DEF BookInv, JobBook, ReverseBook
  <2>3. NothingDone(cils, i)
    BY <1>2, <2>2 DEF InReturn, Pages, Reversing, NothingDone
  <2> QED
    BY <2>1, <2>2, <2>3
<1> QED
  BY <1>1, <1>2, <1>3, <1>4, <1>5 DEF BookAt

LEMMA ReverseItemEndBook ==
    ASSUME IInv, LinksInv, BookInv, Idle, ReverseItemEnd
    PROVE  BookInv'
<1> DEFINE item == job.cur
           i == item.key.invoice
           receipt == item.key.receipt
           K == cils'
           rows == inv'
<1>1. /\ job.phase \in {"REVERSE", "UNLINKED"} /\ job.phase # "LINK"
      /\ item # NoItem /\ job # IdleJob
      /\ cils' = UpdateLinks(item, "REFUNDED", receipt)
      /\ job' = [job EXCEPT !.cur = NoItem] /\ UNCHANGED <<txn, cfsTodo>>
  BY DEF ReverseItemEnd, IdleJob
<1>2. /\ i \in Invoices /\ job \in Job /\ item \in Item
      /\ PageAt(cils, i) /\ inv[i].memo = 0 /\ inv[i] \in Invoice
      /\ inv \in [Invoices -> Invoice] /\ ref \in [Invoices -> RefStatus]
      /\ receipt \in Nat
      /\ \A l \in cils : l.id \in item.ids =>
           /\ l.invoice = i
           /\ l.status \in {"PENDING_REFUND", "CANCELLED"}
      /\ ~item.refunding =>
           /\ job.phase = "REVERSE" /\ inv[i].status = "PAID"
           /\ NothingDone(cils, i)
           /\ \A l \in On(cils, i) :
                l.status = "PENDING_REFUND" => l.id \in item.ids
  BY <1>1, ReverseItemPage
<1>3. /\ \A j \in Invoices \ {i} : rows[j] = inv[j] /\ ref'[j] = ref[j]
      /\ rows[i].memo = inv[i].memo
      /\ item.refunding => /\ rows[i].status \in {"CANCELLED", "REFUNDED"}
                           /\ item.found # "NONE" => ref'[i] # "ACTIVE"
                           /\ item.found = "NONE" => ref'[i] = ref[i]
      /\ ~item.refunding => rows[i].status = "APPROVED"
  <2>1. CASE item.refunding
    <3>1. /\ inv' = [inv EXCEPT ![i] = [inv[i] EXCEPT
                                         !.status = RefundedStatus(item),
                                         !.refund = Total[i]]]
          /\ ref' = [ref EXCEPT ![i] = IF item.found # "NONE"
                                       THEN "CANCELLED" ELSE ref[i]]
      BY <1>2, <2>1 DEF ReverseItemEnd
    <3> HIDE DEF i
    <3> QED
      BY <1>2, <2>1, <3>1 DEF Invoice, RefundedStatus
  <2>2. CASE ~item.refunding
    <3>1. /\ inv' = [inv EXCEPT ![i] = ReversedInvoice(inv[i])]
          /\ ref' = [ref EXCEPT ![i] = "ACTIVE"]
      BY <1>2, <2>2 DEF ReverseItemEnd
    <3> HIDE DEF i
    <3> QED
      BY <1>2, <2>2, <3>1 DEF Invoice, ReversedInvoice
  <2> QED
    BY <2>1, <2>2
<1> HIDE DEF receipt, i
<1>4. PICK U : U = [l \in cils |-> Updated(l, "REFUNDED", receipt)]
  OBVIOUS
<1>5. UpdatedTo(K, U, i, "REFUNDED")
  <2>1. "REFUNDED" \in CilStatus
    BY DEF CilStatus
  <2>2. PICK N : N = UpdateLinks(job.cur, "REFUNDED", receipt)
    OBVIOUS
  <2>3. UpdatedTo(N, U, i, "REFUNDED")
    BY <1>1, <1>2, <1>4, <2>1, <2>2, UpdatedTable
  <2> QED
    BY <1>1, <2>2, <2>3
<1> HIDE DEF K, rows
<1>6. /\ PageAt(K, i)
      /\ \A r \in K : r.status = "PENDING_REFUND" =>
           r \in cils /\ r.id \notin item.ids
      /\ \A sn \in ShortNames : Done(K, sn, i) = Done(cils, sn, i)
  BY <1>2, <1>5, ReversedPage
<1>7. BookAt(K, i, rows[i])
  <2>1. CASE item.refunding
    BY <1>2, <1>3, <2>1 DEF BookAt, Owed
  <2>2. CASE ~item.refunding
    <3>1. ~InReturn(K, i)
      BY <1>2, <1>6, <2>2 DEF InReturn, On
    <3>2. NothingDone(K, i)
      BY <1>2, <1>6, <2>2 DEF NothingDone
    <3> QED
      BY <1>2, <1>3, <2>2, <3>1, <3>2 DEF BookAt
  <2> QED
    BY <2>1, <2>2
<1>8. K \in SUBSET Cil /\ \A j : j # i => On(K, j) = On(cils, j)
  BY <1>5 DEF UpdatedTo
<1>9. Pages(K) /\ Books(K, rows)
  BY <1>2, <1>3, <1>6, <1>7, <1>8, PagesBut
<1>10. /\ job'.todo = job.todo /\ job'.cur = NoItem /\ job'.phase = job.phase
  BY <1>1, <1>2 DEF Job
<1>11. ASSUME job.phase = "REVERSE"
       PROVE  ReverseBook'
  <2>1. ReverseBook
    BY <1>11 DEF BookInv, JobBook
  <2>2. job.todo \in SUBSET RollupKey
    BY <1>2 DEF Job
  <2>3. ASSUME NEW k \in job.todo, k.status = "PENDING_REFUND"
        PROVE  /\ RolledUp(k)' # {}
               /\ inv'[k.invoice].status \in {"PAID", "REFUND_REQUESTED"}
    <3>1. /\ RolledUp(k) # {} /\ k.invoice # i
          /\ inv[k.invoice].status \in {"PAID", "REFUND_REQUESTED"}
      BY <1>1, <2>1, <2>3 DEF ReverseBook, i
    <3>2. k.invoice \in Invoices
      BY <2>2 DEF RollupKey
    <3>3. On(K, k.invoice) = On(cils, k.invoice)
      BY <1>8, <3>1
    <3>4. RolledUp(k)' = RolledUp(k)
      BY <3>3 DEF RolledUp, On, K
    <3> QED
      BY <1>3, <3>1, <3>2, <3>4 DEF rows
  <2>4. ASSUME NEW k \in job.todo, k.status # "PENDING_REFUND"
        PROVE  \/ inv'[k.invoice].status = "REFUND_REQUESTED"
               \/ Gone(inv'[k.invoice]) /\ ref'[k.invoice] # "ACTIVE"
    <3>1. \/ inv[k.invoice].status = "REFUND_REQUESTED"
          \/ Gone(inv[k.invoice]) /\ ref[k.invoice] # "ACTIVE"
      BY <2>1, <2>4 DEF ReverseBook
    <3>2. k.invoice \in Invoices
      BY <2>2 DEF RollupKey
    <3>3. CASE k.invoice # i
      BY <1>3, <3>1, <3>2, <3>3 DEF rows
    <3>4. CASE k.invoice = i
      <4>1. item.refunding
        BY <1>2, <3>1, <3>4 DEF Gone
      <4>2. item.found = "NONE" => ref[i] # "ACTIVE"
        BY <1>1, <2>1, <4>1 DEF ReverseBook, i
      <4> QED
        BY <1>3, <3>4, <4>1, <4>2 DEF rows, Gone
    <3> QED
      BY <3>3, <3>4
  <2> QED
    BY <1>10, <2>3, <2>4 DEF ReverseBook
<1>12. JobBook'
  BY <1>1, <1>10, <1>11 DEF JobBook
<1>13. OneAtATime' /\ txn' = NoTxn
  BY <1>1 DEF OneAtATime, BookInv, Idle
<1> QED
  BY <1>9, <1>12, <1>13 DEF BookInv, K, rows

-----------------------------------------------------------------------------
(* The other jobs.                                                         *)

LEMMA CfsInvoiceJobBook ==
    ASSUME BookInv, Idle,
           \/ CfsInvoiceJobStart /\ JobsIdle
           \/ \E i \in cfsTodo : CfsInvoiceItem(i) \/ CfsInvoiceItemGivenUp(i)
    PROVE  BookInv'
<1>1. job = IdleJob /\ UNCHANGED <<cils, txn, job, inv>>
  BY DEF BookInv, OneAtATime, JobsIdle, CfsInvoiceJobStart, eftVars,
     CfsInvoiceItem, CfsInvoiceItemGivenUp, CfsInvoiceItemFails,
     CfsInvoiceItemLost
<1>2. KeepsBooks(inv')
  BY <1>1 DEF KeepsBooks
<1> QED
  BY <1>1, <1>2, IdleBook

LEMMA StatementDueBook ==
    ASSUME IInv, BookInv, Idle, JobsIdle, StatementDueJob
    PROVE  BookInv'
<1>1. job = IdleJob /\ UNCHANGED <<cils, txn, job>>
  BY DEF JobsIdle, StatementDueJob
<1>2. \A i \in Invoices : inv'[i] = inv[i] \/
        (Unpaid(i) /\ inv'[i] = [inv[i] EXCEPT !.status = "OVERDUE"])
  BY DEF StatementDueJob, NowOverdue
<1>3. \A i \in Invoices : Unpaid(i) =>
        /\ Owed(inv[i])
        /\ [inv[i] EXCEPT !.status = "OVERDUE"].memo = inv[i].memo
        /\ [inv[i] EXCEPT !.status = "OVERDUE"].status = "OVERDUE"
  BY TablesType DEF Unpaid, Owed, Invoice
<1>4. KeepsBooks(inv')
  BY <1>2, <1>3 DEF KeepsBooks
<1> QED
  BY <1>1, <1>4, IdleBook

LEMMA BookKept ==
    ASSUME BookInv, UNCHANGED <<inv, ref, cils, refunds, job, cfsTodo, txn>>
    PROVE  BookInv'
<1>1. OneAtATime' /\ Pages(cils)' /\ Books(cils, inv)'
  BY DEF BookInv, OneAtATime
<1>2. txn' # NoTxn => TxnBook(txn)'
  <2> SUFFICES ASSUME txn' # NoTxn
               PROVE  TxnBook(txn)'
    OBVIOUS
  <2>1. TxnBook(txn)
    BY DEF BookInv
  <2>2. Frame(txn)' /\ Rows(txn)' /\ Touches(txn)'
    BY <2>1 DEF TxnBook, Frame, Rows, Touches, Touched, Unpaid
  <2>3. Paying(txn) => Paying(txn)'
    BY DEF Paying, Unpaid, Same, Covered
  <2>4. Undoing(txn) => Undoing(txn)'
    BY DEF Undoing, Same
  <2>5. Refunding(txn) => Refunding(txn)'
    BY DEF Refunding
  <2> QED
    BY <2>1, <2>2, <2>3, <2>4, <2>5 DEF TxnBook
<1>3. JobBook'
  <2>1. LinkBook => LinkBook'
    BY DEF LinkBook, Unpaid
  <2>2. ReverseBook => ReverseBook'
    <3>1. \A k : RolledUp(k)' = RolledUp(k)
      BY DEF RolledUp
    <3> QED
      BY <3>1 DEF ReverseBook
  <2> QED
    BY <2>1, <2>2 DEF BookInv, JobBook
<1> QED
  BY <1>1, <1>2, <1>3 DEF BookInv

-----------------------------------------------------------------------------
(* The invariant holds.                                                    *)

LEMMA InitBook ==
    ASSUME TaskInit
    PROVE  BookInv
<1>1. cils = {} /\ txn = NoTxn /\ job = IdleJob /\ cfsTodo = {}
      /\ \A i \in Invoices : inv[i].memo = 0 /\ inv[i].status = "NOT_CREATED"
  BY DEF TaskInit, Init
<1>2. \A sn \in ShortNames, i \in Invoices : Done({}, sn, i) = 0
  <2>1. \A i : Closed({}, i) = {}
    BY DEF Closed
  <2> QED
    BY <2>1, HeldEmpty DEF Done
<1>3. Pages(cils)
  BY <1>1, <1>2 DEF Pages, AllOrNothing, OneHolder, Wanted, Stands, Reversing
<1>4. Books(cils, inv)
  BY <1>1, <1>2 DEF Books, Owed, InReturn
<1>5. OneAtATime
  BY <1>1 DEF OneAtATime
<1>6. JobBook
  BY <1>1 DEF JobBook, IdleJob
<1> QED
  BY <1>1, <1>3, <1>4, <1>5, <1>6 DEF BookInv

LEMMA ItemBook ==
    ASSUME IInv, LinksInv, BookInv, Idle, NEW k \in job.todo, WithinJob,
           ItemStarts(k)
    PROVE  BookInv'
BY LinkItemBook, ReverseItemBook, UnlinkedItemBook

LEMMA EftJobBook ==
    ASSUME ~ Overlap, IInv, LinksInv, BookInv, Idle, EftJob
    PROVE  BookInv'
<1>1. CASE EftJobStart
  <2>1. JobsIdle
    BY <1>1 DEF EftJobStart
  <2> QED
    BY <1>1, <2>1, EftJobStartBook
<1>2. CASE \E k \in job.todo : \/ LinkItemStart(k) \/ ReverseItemStart(k)
                               \/ UnlinkedItemStart(k)
  <2>1. WithinJob
    BY <1>2 DEF LinkItemStart, ReverseItemStart, UnlinkedItemStart
  <2> QED
    BY <1>2, <2>1, ItemBook DEF ItemStarts
<1> QED
  BY <1>1, <1>2, LinkItemEndBook, UnlockBook, ReverseItemEndBook, UnlinkedBook
  DEF EftJob

\* An item that is given up leaves the list.
LEMMA RolledBackBook ==
    ASSUME IInv, BookInv, Idle, ItemRollsBack
    PROVE  BookInv'
<1>1. /\ job'.cur = NoItem /\ job'.phase = job.phase /\ job'.todo = job.todo
      /\ UNCHANGED <<inv, ref, cils, txn, cfsTodo>>
  BY RolledBack DEF eftVars
<1>2. cfsTodo = {}
  BY DEF BookInv, OneAtATime, IdleJob, ItemRollsBack
<1>3. LinkBook => LinkBook'
  BY <1>1 DEF LinkBook, Unpaid, Open
<1>4. ReverseBook => ReverseBook'
  <2>1. \A k : RolledUp(k)' = RolledUp(k)
    BY <1>1 DEF RolledUp
  <2> QED
    BY <1>1, <2>1 DEF ReverseBook
<1>5. JobBook'
  BY <1>1, <1>3, <1>4 DEF BookInv, JobBook
<1> QED
  BY <1>1, <1>2, <1>5, JobStepBook

LEMMA JobFailureBook ==
    ASSUME IInv, LinksInv, BookInv, Idle, JobFailure
    PROVE  BookInv'
<1>1. CASE \E k \in job.todo : ItemGivenUp(k)
  BY <1>1, GivenUp, ItemBook DEF ItemStarts
<1>2. CASE \E i \in cfsTodo : CfsInvoiceItemGivenUp(i)
  BY <1>2, CfsInvoiceJobBook
<1> QED
  BY <1>1, <1>2, RolledBackBook, UnlinkedBook
  DEF JobFailure, ItemGivenUp, CfsInvoiceItemGivenUp

LEMMA NextBook ==
    ASSUME ~ Overlap, PartialAmounts = {}, IInv, LinksInv, MoneyInv, BookInv,
           [Next]_vars
    PROVE  BookInv'
<1>1. CASE TxnStep /\ UNCHANGED jobVars
  BY <1>1, TxnStepBook
<1>2. CASE Idle /\ EftJob
  BY <1>2, EftJobBook
<1>3. CASE Idle /\ JobFailure
  BY <1>3, JobFailureBook
<1>4. CASE Idle /\ CfsInvoiceJob
  <2>1. CfsInvoiceJobStart => JobsIdle
    BY DEF CfsInvoiceJobStart
  <2> QED
    BY <1>4, <2>1, CfsInvoiceJobBook DEF CfsInvoiceJob
<1>5. CASE Idle /\ StatementDueJob
  <2>1. JobsIdle
    BY <1>5 DEF StatementDueJob
  <2> QED
    BY <1>5, <2>1, StatementDueBook
<1>6. CASE Idle /\ \E i \in Invoices : OverdueDatePasses(i)
  <2>1. UNCHANGED <<inv, ref, cils, refunds, job, cfsTodo, txn>>
    BY <1>6 DEF OverdueDatePasses, eftVars
  <2> QED
    BY <2>1, BookKept
<1>7. CASE JobsIdle /\ Request /\ UNCHANGED jobVars
  BY <1>7, RequestBook
<1>8. CASE UNCHANGED vars
  <2>1. UNCHANGED <<inv, ref, cils, refunds, job, cfsTodo, txn>>
    BY <1>8 DEF vars, eftVars, jobVars
  <2> QED
    BY <2>1, BookKept
<1> QED
  BY <1>1, <1>2, <1>3, <1>4, <1>5, <1>6, <1>7, <1>8 DEF Next

LEMMA BookInvariance ==
    ASSUME ~ Overlap, PartialAmounts = {}
    PROVE  Spec => []BookInv
<1>1. TaskInit => BookInv
  BY InitBook
<1>2. IInv /\ LinksInv /\ MoneyInv /\ BookInv /\ [Next]_vars => BookInv'
  BY NextBook
<1> QED
  BY <1>1, <1>2, Invariance, LinksInvariance, MoneyInvariance, PTL DEF Spec

-----------------------------------------------------------------------------
(* What the links of an invoice hold of all short names.                   *)

LEMMA PaidPage ==
    ASSUME IInv, LinksInv, BookInv, NEW i \in Invoices, inv[i].status = "PAID"
    PROVE  Held(LinksOf(i)) =
             IF \E l \in LinksOf(i) : l.status = "PENDING_REFUND"
             THEN 0 ELSE Total[i] - inv[i].memo
<1> DEFINE L == On(cils, i)
<1>1. L = LinksOf(i)
  BY DEF On, LinksOf
<1>2. cils \in SUBSET Cil /\ IsFiniteSet(cils) /\ PageAt(cils, i)
        /\ BookAt(cils, i, inv[i])
  <2>1. cils \in SUBSET Cil /\ IsFiniteSet(cils)
    BY JobTables DEF LinksInv, Links, Numbered
  <2> QED
    BY <2>1, PagesAt, BooksAt DEF BookInv
<1>3. ASSUME NEW sn
      PROVE  HeldOf(L, sn) = Done(cils, sn, i) /\ Done(cils, sn, i) \in Int
  <2>1. Open(cils, i) = {}
    BY <1>2 DEF BookAt
  <2>2. Asked(cils, sn, i) = 0
    BY <2>1, HeldEmpty DEF Asked
  <2> QED
    BY <1>2, <2>2, PageType
<1>4. InReturn(cils, i) <=> \E l \in LinksOf(i) : l.status = "PENDING_REFUND"
  BY DEF InReturn, LinksOf
<1>5. inv[i].memo = 0 /\ Total[i] \in Nat
  BY <1>2, EFTConstants DEF BookAt
<1>6. L \in SUBSET Cil /\ IsFiniteSet(L)
  BY <1>2, PageType
<1> HIDE DEF L
<1>7. CASE InReturn(cils, i)
  <2>1. NothingDone(cils, i)
    BY <1>2, <1>7 DEF InReturn, PageAt, On
  <2>2. \A p \in Payers : HeldOf(L, p) = 0
    BY <1>3, <2>1, PayersType DEF NothingDone
  <2>3. PICK sn : sn \in ShortNames
    BY EFTConstants
  <2>4. Held(L) = HeldOf(L, sn)
    BY <1>6, <2>2, HeldOfOne
  <2>5. HeldOf(L, sn) = 0
    BY <1>3, <2>1, <2>3 DEF NothingDone
  <2> QED
    BY <1>1, <1>4, <1>7, <2>4, <2>5
<1>8. CASE ~InReturn(cils, i)
  <2>1. PICK sn \in ShortNames : Done(cils, sn, i) = Total[i]
    BY <1>2, <1>8 DEF BookAt
  <2>2. \A p \in Payers : p # sn => HeldOf(L, p) = 0
    BY <1>2, <1>3, <2>1, PayersType DEF PageAt
  <2>3. Held(L) = HeldOf(L, sn)
    BY <1>6, <2>2, HeldOfOne
  <2> QED
    BY <1>1, <1>3, <1>4, <1>5, <1>8, <2>1, <2>3
<1> QED
  BY <1>7, <1>8

\* PaidIsFunded: where requests and jobs take turns and no invoice is refunded
\* in part, an invoice that counts as paid is paid by its completed links, or
\* their return waits for the job, whatever calls to CFS fail and whenever a
\* job is killed: a payment takes the whole total (apply_eft_credit), each of
\* cancellation, reversal and refund undoes the whole group, and the job moves
\* the invoice with its links.
THEOREM PaidIsAlwaysFunded ==
    ASSUME ~ Overlap, PartialAmounts = {}
    PROVE  Spec => []PaidIsFunded
<1>1. IInv /\ LinksInv /\ BookInv => PaidIsFunded
  BY PaidPage DEF PaidIsFunded
<1> QED
  BY <1>1, Invariance, LinksInvariance, BookInvariance, PTL

-----------------------------------------------------------------------------
(* The entries of the book.                                                *)

FreeOf(sn) == Balance(remaining, sn)

\* The accounts that an entry leaves alone.
Others(sn, I) ==
    /\ \A s \in ShortNames : s # sn => /\ FreeOf(s)' = FreeOf(s)
                                       /\ Refunded(s)' = Refunded(s)
    /\ \A s \in ShortNames, i \in Invoices :
         s # sn \/ i \notin I => HeldBy(s, i)' = HeldBy(s, i)

\* The book adds up as the tables do.
LEMMA LedgerCost ==
    ASSUME NEW I
    PROVE  Ledger!Cost(I) = Cost(I)
BY DEF Ledger!Cost, Cost, Ledger!SumFunctionOnSet, SumFunctionOnSet,
   Ledger!FoldFunctionOnSet, FoldFunctionOnSet, Ledger!MapThenFoldSet,
   MapThenFoldSet

LEMMA NoEntry ==
    ASSUME \A sn \in ShortNames :
             /\ FreeOf(sn)' = FreeOf(sn) /\ Refunded(sn)' = Refunded(sn)
             /\ \A i \in Invoices : HeldBy(sn, i)' = HeldBy(sn, i)
    PROVE  UNCHANGED Ledger!vars
<1>1. [sn \in ShortNames |-> FreeOf(sn)]' = [sn \in ShortNames |-> FreeOf(sn)]
  OBVIOUS
<1>2. [sn \in ShortNames |-> Refunded(sn)]'
        = [sn \in ShortNames |-> Refunded(sn)]
  OBVIOUS
<1>3. [sn \in ShortNames |-> [i \in Invoices |-> HeldBy(sn, i)]]'
        = [sn \in ShortNames |-> [i \in Invoices |-> HeldBy(sn, i)]]
  OBVIOUS
<1> QED
  BY <1>1, <1>2, <1>3 DEF Ledger!vars, FreeOf

LEMMA DepositEntry ==
    ASSUME NEW sn \in ShortNames, NEW x, Others(sn, {}),
           FreeOf(sn)' = FreeOf(sn) + x, Refunded(sn)' = Refunded(sn)
    PROVE  Ledger!Deposit(sn, x)
<1>1. [s \in ShortNames |-> FreeOf(s)]'
        = [[s \in ShortNames |-> FreeOf(s)] EXCEPT ![sn] = @ + x]
  BY DEF Others
<1>2. [s \in ShortNames |-> Refunded(s)]'
        = [s \in ShortNames |-> Refunded(s)]
  BY DEF Others
<1>3. [s \in ShortNames |-> [i \in Invoices |-> HeldBy(s, i)]]'
        = [s \in ShortNames |-> [i \in Invoices |-> HeldBy(s, i)]]
  BY DEF Others
<1> QED
  BY <1>1, <1>2, <1>3 DEF Ledger!Deposit, FreeOf

LEMMA PayEntry ==
    ASSUME NEW sn \in ShortNames, NEW I \in SUBSET Invoices, Others(sn, I),
           Refunded(sn)' = Refunded(sn),
           Cost(I) <= FreeOf(sn), FreeOf(sn)' = FreeOf(sn) - Cost(I),
           \A i \in I : HeldBy(sn, i) = 0 /\ HeldBy(sn, i)' = Total[i]
    PROVE  Ledger!Pay(sn, I)
<1>1. [s \in ShortNames |-> FreeOf(s)]'
        = [[s \in ShortNames |-> FreeOf(s)] EXCEPT ![sn] = @ - Cost(I)]
  BY DEF Others
<1>2. [s \in ShortNames |-> Refunded(s)]'
        = [s \in ShortNames |-> Refunded(s)]
  BY DEF Others
<1>3. [s \in ShortNames |-> [i \in Invoices |-> HeldBy(s, i)]]'
        = [[s \in ShortNames |-> [i \in Invoices |-> HeldBy(s, i)]] EXCEPT
             ![sn] = [i \in Invoices |-> IF i \in I THEN Total[i] ELSE @[i]]]
  BY DEF Others
<1>4. \A i \in I :
        [s \in ShortNames |-> [j \in Invoices |-> HeldBy(s, j)]][sn][i] = 0
  OBVIOUS
<1>5. Cost(I) <= [s \in ShortNames |-> FreeOf(s)][sn]
  OBVIOUS
<1> QED
  BY <1>1, <1>2, <1>3, <1>4, <1>5, LedgerCost DEF Ledger!Pay, FreeOf

LEMMA ReturnEntry ==
    ASSUME NEW sn \in ShortNames, NEW I \in SUBSET Invoices, Others(sn, I),
           Refunded(sn)' = Refunded(sn),
           FreeOf(sn)' = FreeOf(sn) + Cost(I),
           \A i \in I : HeldBy(sn, i) = Total[i] /\ HeldBy(sn, i)' = 0
    PROVE  Ledger!Return(sn, I)
<1>1. [s \in ShortNames |-> FreeOf(s)]'
        = [[s \in ShortNames |-> FreeOf(s)] EXCEPT ![sn] = @ + Cost(I)]
  BY DEF Others
<1>2. [s \in ShortNames |-> Refunded(s)]'
        = [s \in ShortNames |-> Refunded(s)]
  BY DEF Others
<1>3. [s \in ShortNames |-> [i \in Invoices |-> HeldBy(s, i)]]'
        = [[s \in ShortNames |-> [i \in Invoices |-> HeldBy(s, i)]] EXCEPT
             ![sn] = [i \in Invoices |-> IF i \in I THEN 0 ELSE @[i]]]
  BY ZenonT(40) DEF Others
<1>4. \A i \in I : [s \in ShortNames |-> [j \in Invoices |-> HeldBy(s, j)]][sn][i]
                     = Total[i]
  OBVIOUS
<1> QED
  BY <1>1, <1>2, <1>3, <1>4, LedgerCost DEF Ledger!Return, FreeOf

\* What goes out of an account, or comes back to it.
LEMMA RefundEntry ==
    ASSUME NEW sn \in ShortNames, NEW x \in Nat, Others(sn, {})
    PROVE  /\ /\ FreeOf(sn)' = FreeOf(sn) - x /\ x <= FreeOf(sn)
              /\ Refunded(sn)' = Refunded(sn) + x
              => Ledger!PayOut(sn, x)
           /\ /\ FreeOf(sn)' = FreeOf(sn) + x /\ x <= Refunded(sn)
              /\ Refunded(sn)' = Refunded(sn) - x
              => Ledger!PutBack(sn, x)
<1>1. [s \in ShortNames |-> [i \in Invoices |-> HeldBy(s, i)]]'
        = [s \in ShortNames |-> [i \in Invoices |-> HeldBy(s, i)]]
  BY DEF Others
<1>2. ASSUME FreeOf(sn)' = FreeOf(sn) - x, x <= FreeOf(sn),
             Refunded(sn)' = Refunded(sn) + x
      PROVE  Ledger!PayOut(sn, x)
  <2>1. [s \in ShortNames |-> FreeOf(s)]'
          = [[s \in ShortNames |-> FreeOf(s)] EXCEPT ![sn] = @ - x]
    BY <1>2 DEF Others
  <2>2. [s \in ShortNames |-> Refunded(s)]'
          = [[s \in ShortNames |-> Refunded(s)] EXCEPT ![sn] = @ + x]
    BY <1>2 DEF Others
  <2>3. x <= [s \in ShortNames |-> FreeOf(s)][sn]
    BY <1>2
  <2> QED
    BY <1>1, <2>1, <2>2, <2>3 DEF Ledger!PayOut, FreeOf
<1>3. ASSUME FreeOf(sn)' = FreeOf(sn) + x, x <= Refunded(sn),
             Refunded(sn)' = Refunded(sn) - x
      PROVE  Ledger!PutBack(sn, x)
  <2>1. [s \in ShortNames |-> FreeOf(s)]'
          = [[s \in ShortNames |-> FreeOf(s)] EXCEPT ![sn] = @ + x]
    BY <1>3 DEF Others
  <2>2. [s \in ShortNames |-> Refunded(s)]'
          = [[s \in ShortNames |-> Refunded(s)] EXCEPT ![sn] = @ - x]
    BY <1>3 DEF Others
  <2>3. x <= [s \in ShortNames |-> Refunded(s)][sn]
    BY <1>3
  <2> QED
    BY <1>1, <2>1, <2>2, <2>3 DEF Ledger!PutBack, FreeOf
<1> QED
  BY <1>2, <1>3

-----------------------------------------------------------------------------
(* What is held and what there is.                                         *)

LEMMA HeldByIs ==
    ASSUME IInv, LinksInv, NEW sn, NEW i
    PROVE  HeldBy(sn, i) = HeldOf(On(cils, i), sn) /\ HeldBy(sn, i) \in Int
<1>1. cils \in SUBSET Cil /\ IsFiniteSet(cils)
  BY JobTables DEF LinksInv, Links, Numbered
<1>2. On(cils, i) \in SUBSET Cil /\ IsFiniteSet(On(cils, i))
  BY <1>1, PageType
<1>3. On(cils, i) = LinksOf(i)
  BY DEF On, LinksOf
<1>4. HeldBy(sn, i) = HeldOf(On(cils, i), sn)
  BY <1>2, <1>3, HeldIsHeldOf DEF HeldBy
<1> QED
  BY <1>2, <1>4, HeldType

LEMMA HeldByInvoice ==
    ASSUME NEW L \in SUBSET Cil, IsFiniteSet(L), NEW sn,
           NEW g, \A i \in Invoices : g[i] = HeldOf(On(L, i), sn)
    PROVE  /\ HeldOf(L, sn) = SumFunctionOnSet(g, Invoices)
           /\ \A i \in Invoices : g[i] \in Int
<1> DEFINE f == [l \in L |-> Weight(l, sn)]
           k == [l \in L |-> l.invoice]
<1>1. /\ \A l \in L : f[l] = Weight(l, sn) /\ f[l] \in Int /\ k[l] = l.invoice
      /\ \A l \in L : k[l] \in Invoices
  BY CilFields, WeightType
<1>2. HeldOf(L, sn) = SumFunctionOnSet(f, L)
  BY DEF HeldOf
<1> HIDE DEF f, k
<1>3. ASSUME NEW i \in Invoices
      PROVE  g[i] = SumFunctionOnSet(f, {l \in L : k[l] = i}) /\ g[i] \in Int
  <2> DEFINE M == On(L, i)
             h == [l \in M |-> Weight(l, sn)]
  <2>1. M = {l \in L : k[l] = i} /\ M \in SUBSET L
    BY <1>1 DEF On
  <2>2. g[i] = SumFunctionOnSet(h, M)
    BY DEF HeldOf
  <2>3. \A l \in M : h[l] = f[l] /\ f[l] \in Int
    BY <1>1, <2>1
  <2> HIDE DEF M, h
  <2>4. IsFiniteSet(M)
    BY <2>1, FS_Subset
  <2>5. /\ SumFunctionOnSet(h, M) = SumFunctionOnSet(f, M)
        /\ SumFunctionOnSet(f, M) \in Int
    BY <2>3, <2>4, SumSame, SumInt
  <2> QED
    BY <2>1, <2>2, <2>5
<1>4. IsFiniteSet(Invoices)
  BY CostType
<1>5. SumFunctionOnSet(f, L) = SumFunctionOnSet(g, Invoices)
  BY <1>1, <1>3, <1>4, SumByKey
<1> QED
  BY <1>2, <1>3, <1>5

\* Links that take the totals of some invoices more.
LEMMA HeldMoved ==
    ASSUME NEW L \in SUBSET Cil, IsFiniteSet(L), NEW K \in SUBSET Cil,
           IsFiniteSet(K), NEW sn, NEW I \in SUBSET Invoices,
           \A i \in Invoices : HeldOf(On(K, i), sn)
             = HeldOf(On(L, i), sn) + (IF i \in I THEN Total[i] ELSE 0)
    PROVE  HeldOf(K, sn) = HeldOf(L, sn) + Cost(I)
<1> DEFINE f == [i \in Invoices |-> HeldOf(On(L, i), sn)]
           h == [i \in Invoices |-> HeldOf(On(K, i), sn)]
           d == [i \in Invoices |-> IF i \in I THEN Total[i] ELSE 0]
           J == Invoices \ I
<1>1. /\ \A i \in Invoices : /\ f[i] = HeldOf(On(L, i), sn)
                             /\ h[i] = HeldOf(On(K, i), sn)
                             /\ h[i] = f[i] + d[i] /\ d[i] \in Int
      /\ \A i \in I : d[i] = Total[i]
      /\ \A i \in J : d[i] = 0
      /\ J \in SUBSET Invoices
  BY EFTConstants
<1> HIDE DEF f, h, d, J
<1>2. /\ HeldOf(L, sn) = SumFunctionOnSet(f, Invoices)
      /\ \A i \in Invoices : f[i] \in Int
  BY <1>1, HeldByInvoice
<1>3. /\ HeldOf(K, sn) = SumFunctionOnSet(h, Invoices)
      /\ \A i \in Invoices : h[i] \in Int
  BY <1>1, HeldByInvoice
<1>4. IsFiniteSet(Invoices) /\ IsFiniteSet(I) /\ IsFiniteSet(J)
  BY <1>1, CostType
<1>5. SumFunctionOnSet(h, Invoices)
        = SumFunctionOnSet(f, Invoices) + SumFunctionOnSet(d, Invoices)
  <2>1. \A i \in Invoices : f[i] \in Int /\ d[i] \in Int /\ h[i] = f[i] + d[i]
    BY <1>1, <1>2
  <2> QED
    BY <1>4, <2>1, SumPlus
<1>6. SumFunctionOnSet(d, Invoices)
        = SumFunctionOnSet(d, I) + SumFunctionOnSet(d, Invoices \ I)
  BY <1>1, <1>4, SumSplit
<1>7. SumFunctionOnSet(d, I) = SumFunctionOnSet(Total, I)
  BY <1>1, <1>4, SumSame
<1>8. SumFunctionOnSet(d, J) = 0
  BY <1>1, <1>4, SumZero
<1>9. SumFunctionOnSet(Total, I) \in Nat
  BY CostType DEF Cost
<1> QED
  BY <1>2, <1>3, <1>5, <1>6, <1>7, <1>8, <1>9 DEF Cost, J

LEMMA OutNat ==
    ASSUME NEW R \in [Refunds -> EftRefund], NEW sn
    PROVE  Out(R, sn) \in Nat
<1> DEFINE f == [r \in Refunds |-> Share(R[r], sn)]
<1>1. \A r \in Refunds : f[r] \in Nat
  BY DEF Share, EftRefund
<1>2. IsFiniteSet(Refunds)
  BY OutType
<1> HIDE DEF f
<1>3. SumFunctionOnSet(f, Refunds) \in Nat
  BY <1>1, <1>2, SumNat
<1> QED
  BY <1>3 DEF Out, f

MaxAmount == SumFunctionOnSet(Amount, Credits)

\* No balance is more than all deposits.
LEMMA BalanceBound ==
    ASSUME NEW rem \in [Credits -> Nat], Bounded(rem), NEW sn
    PROVE  Balance(rem, sn) \in Nat /\ Balance(rem, sn) <= MaxAmount
<1> DEFINE C == CreditsOf(sn)
           r == [c \in C |-> Amount[c] - rem[c]]
<1>1. /\ IsFiniteSet(Credits) /\ IsFiniteSet(C) /\ C \in SUBSET Credits
      /\ Balance(rem, sn) = SumFunctionOnSet(rem, C)
      /\ SumFunctionOnSet(rem, C) \in Nat
  BY BalanceType DEF Balance, CreditsOf
<1>2. \A c \in C : /\ rem[c] \in Int /\ r[c] \in Nat /\ r[c] \in Int
                   /\ Amount[c] = rem[c] + r[c]
  BY EFTConstants DEF Bounded, CreditsOf
<1> HIDE DEF r, C
<1>3. SumFunctionOnSet(Amount, C)
        = SumFunctionOnSet(rem, C) + SumFunctionOnSet(r, C)
  BY <1>1, <1>2, SumPlus
<1>4. SumFunctionOnSet(r, C) \in Nat
  BY <1>1, <1>2, SumNat
<1>5. /\ SumFunctionOnSet(Amount, C) <= SumFunctionOnSet(Amount, Credits)
      /\ SumFunctionOnSet(Amount, C) \in Nat
      /\ SumFunctionOnSet(Amount, Credits) \in Nat
  <2>1. \A c \in Credits : Amount[c] \in Nat
    BY EFTConstants
  <2> QED
    BY <1>1, <2>1, SumPart
<1> QED
  BY <1>1, <1>3, <1>4, <1>5 DEF MaxAmount

-----------------------------------------------------------------------------
(* A commit is one entry.                                                  *)

\* What the links of an invoice hold of a short name.
HeldAt(L, sn, i) == HeldOf(On(L, i), sn)

\* The book in terms of the tables.
BookValues ==
    \A sn \in ShortNames :
        /\ Refunded(sn) = Out(refunds, sn)
        /\ \A i \in Invoices : HeldBy(sn, i) = HeldAt(cils, sn, i)

LEMMA ValuesNow == IInv /\ LinksInv => BookValues
BY RefundedIsOut, HeldByIs DEF BookValues, HeldAt

LEMMA ValuesNext == IInv' /\ LinksInv' => BookValues'
BY ValuesNow, PTL

\* A page holds the whole total, or nothing.
LEMMA WholePage ==
    ASSUME NEW L \in SUBSET Cil, IsFiniteSet(L), Pages(L),
           NEW sn \in ShortNames, NEW i \in Invoices
    PROVE  /\ Asked(L, sn, i) \in {0, Total[i]} /\ Done(L, sn, i) \in {0, Total[i]}
           /\ Asked(L, sn, i) # 0 => Done(L, sn, i) = 0
           /\ HeldAt(L, sn, i) = Asked(L, sn, i) + Done(L, sn, i)
           /\ Total[i] \in Nat
<1>1. /\ Asked(L, sn, i) = HeldOf(Mine(L, sn, i), sn)
      /\ HeldAt(L, sn, i) = Asked(L, sn, i) + Done(L, sn, i)
  BY PageType DEF HeldAt
<1>2. Done(L, sn, i) \in {0, Total[i]}
  BY DEF Pages, AllOrNothing
<1>3. CASE Mine(L, sn, i) = {}
  <2>1. Asked(L, sn, i) = 0
    BY <1>1, <1>3, HeldEmpty
  <2> QED
    BY <1>1, <1>2, <2>1, EFTConstants
<1>4. CASE Mine(L, sn, i) # {}
  <2>1. PICK l \in Mine(L, sn, i) : TRUE
    BY <1>4
  <2>2. l \in L /\ l.status = "PENDING" /\ Payer(l) = sn /\ l.invoice = i
    BY <2>1 DEF Mine
  <2>3. Asked(L, sn, i) = Total[i] /\ Done(L, sn, i) = 0
    BY <2>2 DEF Pages, Wanted
  <2> QED
    BY <1>1, <1>2, <2>3, EFTConstants
<1> QED
  BY <1>3, <1>4

\* The same pending links ask for the same.
LEMMA SameAsked ==
    ASSUME IInv, LinksInv, txn.open, NEW i \in Invoices
    PROVE  /\ Same(txn, i)
                => Asked(txn.cils, txn.sn, i) = Asked(cils, txn.sn, i)
           /\ Mine(txn.cils, txn.sn, i) = {} => Asked(txn.cils, txn.sn, i) = 0
<1>1. /\ Asked(txn.cils, txn.sn, i)
           = HeldOf(Mine(txn.cils, txn.sn, i), txn.sn)
      /\ Asked(cils, txn.sn, i) = HeldOf(Mine(cils, txn.sn, i), txn.sn)
  BY TxnSets, PageType
<1> QED
  BY <1>1, HeldEmpty DEF Same

\* What a commit does to an invoice of its short name.
Stays(i) == HeldAt(txn.cils, txn.sn, i) = HeldAt(cils, txn.sn, i)

Pays0(i) == /\ HeldAt(cils, txn.sn, i) = 0
            /\ HeldAt(txn.cils, txn.sn, i) = Total[i]

Returns0(i) == /\ HeldAt(cils, txn.sn, i) = Total[i]
               /\ HeldAt(txn.cils, txn.sn, i) = 0

LEMMA CommitKnown ==
    ASSUME IInv, LinksInv, BookInv, txn.open, Finished
    PROVE  /\ TxnBook(txn) /\ Pages(cils) /\ Pages(txn.cils) /\ Frame(txn)
           /\ Touches(txn) /\ txn.todo = {}
           /\ txn.sn \in ShortNames /\ txn.cils \in SUBSET Cil
           /\ IsFiniteSet(txn.cils) /\ cils \in SUBSET Cil /\ IsFiniteSet(cils)
BY TxnSets, CommitPages DEF BookInv, TxnBook, Finished

LEMMA CommitPays ==
    ASSUME IInv, LinksInv, BookInv, txn.open, Finished, Paying(txn),
           NEW i \in Invoices
    PROVE  Stays(i) \/ Pays0(i)
<1> DEFINE sn == txn.sn
           A == Asked(cils, sn, i)
           D == Done(cils, sn, i)
           B == Asked(txn.cils, sn, i)
           E == Done(txn.cils, sn, i)
<1>1. /\ A \in {0, Total[i]} /\ D \in {0, Total[i]} /\ (A # 0 => D = 0)
      /\ B \in {0, Total[i]} /\ E \in {0, Total[i]} /\ (B # 0 => E = 0)
      /\ HeldAt(cils, sn, i) = A + D /\ HeldAt(txn.cils, sn, i) = B + E
      /\ Total[i] \in Nat
  BY CommitKnown, WholePage
<1>2. D = E
  <2>1. ~GivenBack(i)
    BY DEF Paying, GivenBack
  <2>2. SameDone(i)
    BY <2>1, CommitKnown, CommitDone
  <2> QED
    BY <2>2, CommitKnown DEF SameDone
<1>3. A = B \/ B = Total[i]
  BY CommitCovered, SameAsked DEF Covered
<1>4. \/ HeldAt(txn.cils, sn, i) = HeldAt(cils, sn, i)
      \/ HeldAt(cils, sn, i) = 0 /\ HeldAt(txn.cils, sn, i) = Total[i]
  <2> HIDE DEF A, B, D, E, sn
  <2>1. A \in Nat /\ D \in Nat /\ B \in Nat /\ E \in Nat
    BY <1>1
  <2> QED
    BY <1>1, <1>2, <1>3, <2>1
<1> QED
  BY <1>4 DEF Stays, Pays0

LEMMA CommitReturns ==
    ASSUME IInv, LinksInv, BookInv, txn.open, Finished, Undoing(txn),
           NEW i \in Invoices
    PROVE  Stays(i) \/ Returns0(i)
<1> DEFINE sn == txn.sn
           A == Asked(cils, sn, i)
           D == Done(cils, sn, i)
           B == Asked(txn.cils, sn, i)
           E == Done(txn.cils, sn, i)
<1>1. /\ A \in {0, Total[i]} /\ D \in {0, Total[i]} /\ (A # 0 => D = 0)
      /\ B \in {0, Total[i]} /\ E \in {0, Total[i]} /\ (B # 0 => E = 0)
      /\ HeldAt(cils, sn, i) = A + D /\ HeldAt(txn.cils, sn, i) = B + E
      /\ Total[i] \in Nat
  BY CommitKnown, WholePage
<1>2. D = E \/ (A = B /\ D = Total[i] /\ E = 0)
  <2>1. CASE GivenBack(i)
    <3>1. PICK l \in txn.cils : l.invoice = i /\ l.group = txn.group
      BY <2>1 DEF GivenBack
    <3>2. txn.mode = "PENDING_REFUND" /\ l \in Touched(txn)
      BY <2>1, <3>1 DEF GivenBack, Touched
    <3>3. D = Total[i]
      BY <3>1, <3>2, CommitKnown DEF Touches
    <3>4. A = B
      BY <3>2, CommitKnown, KeptOpen
    <3>5. E = 0
      BY <2>1, CommitKnown, CommitDone DEF NothingDone
    <3> QED
      BY <3>3, <3>4, <3>5
  <2>2. CASE ~GivenBack(i)
    <3>1. SameDone(i)
      BY <2>2, CommitKnown, CommitDone
    <3> QED
      BY <3>1, CommitKnown DEF SameDone
  <2> QED
    BY <2>1, <2>2
<1>3. A = B \/ B = 0
  <2>1. CASE txn.mode = "PENDING_REFUND"
    BY <2>1, CommitKnown, KeptOpen
  <2>2. CASE txn.mode # "PENDING_REFUND"
    <3>1. Same(txn, i) \/ Mine(txn.cils, sn, i) = {}
      BY <2>2, CommitKnown DEF Undoing, On
    <3> QED
      BY <3>1, SameAsked
  <2> QED
    BY <2>1, <2>2
<1>4. \/ HeldAt(txn.cils, sn, i) = HeldAt(cils, sn, i)
      \/ HeldAt(cils, sn, i) = Total[i] /\ HeldAt(txn.cils, sn, i) = 0
  <2> HIDE DEF A, B, D, E, sn
  <2>1. A \in Nat /\ D \in Nat /\ B \in Nat /\ E \in Nat
    BY <1>1
  <2> QED
    BY <1>1, <1>2, <1>3, <2>1
<1> QED
  BY <1>4 DEF Stays, Returns0

\* What a commit does not account for it does not move.
Balanced(sn) ==
    /\ Balance(txn.rem, sn) + Out(txn.refunds, sn) + HeldOf(txn.cils, sn)
         = Balance(remaining, sn) + Out(refunds, sn) + HeldOf(cils, sn)
    /\ Balance(txn.rem, sn) \in Nat /\ Balance(txn.rem, sn) <= MaxAmount
    /\ Balance(remaining, sn) \in Nat /\ Balance(remaining, sn) <= MaxAmount
    /\ Out(txn.refunds, sn) \in Nat /\ Out(refunds, sn) \in Nat
    /\ HeldOf(txn.cils, sn) \in Int /\ HeldOf(cils, sn) \in Int

LEMMA CommitBalance ==
    ASSUME IInv, LinksInv, MoneyInv, txn.open, Finished, NEW sn \in ShortNames
    PROVE  Balanced(sn)
<1>1. /\ txn \in Txn /\ MoneyTxn(txn) /\ IsFiniteSet(txn.cils)
      /\ txn.cils \in SUBSET Cil /\ GoodTxn(txn)
      /\ txn.need = 0 /\ txn.refill = 0
  BY OpenMoney DEF Finished
<1>2. /\ txn.rem \in [Credits -> Nat] /\ Bounded(txn.rem)
      /\ txn.refunds \in [Refunds -> EftRefund]
      /\ remaining \in [Credits -> Nat] /\ Bounded(remaining)
      /\ refunds \in [Refunds -> EftRefund]
      /\ cils \in SUBSET Cil /\ IsFiniteSet(cils)
  BY <1>1, TxnFields DEF IInv, TypeOK, GoodTxn, LinksInv, Links, Numbered
<1>3. /\ Balance(txn.rem, sn) \in Nat /\ Balance(txn.rem, sn) <= MaxAmount
      /\ Balance(remaining, sn) \in Nat /\ Balance(remaining, sn) <= MaxAmount
  BY <1>2, BalanceBound
<1>4. /\ Out(txn.refunds, sn) \in Nat /\ Out(refunds, sn) \in Nat
      /\ HeldOf(txn.cils, sn) \in Int /\ HeldOf(cils, sn) \in Int
  BY <1>1, <1>2, OutNat, HeldType
<1>5. Rest(txn, sn) = 0
  BY <1>1 DEF Rest
<1>6. Balance(txn.rem, sn) + Out(txn.refunds, sn) + HeldOf(txn.cils, sn)
        + Rest(txn, sn) = Deposited(sn)
  BY <1>1 DEF MoneyTxn
<1>7. Balance(remaining, sn) + Out(refunds, sn) + HeldOf(cils, sn)
        = Deposited(sn)
  BY DEF MoneyInv, MoneyTable
<1>8. Balance(txn.rem, sn) + Out(txn.refunds, sn) + HeldOf(txn.cils, sn)
        = Balance(remaining, sn) + Out(refunds, sn) + HeldOf(cils, sn)
  BY <1>3, <1>4, <1>5, <1>6, <1>7
<1> QED
  BY <1>3, <1>4, <1>8 DEF Balanced

LEMMA NoCost == Cost({}) = 0
BY SumEmpty DEF Cost

\* The accounts of other short names.
Apart(sn) ==
    /\ Balance(txn.rem, sn) = Balance(remaining, sn)
    /\ Out(txn.refunds, sn) = Out(refunds, sn)
    /\ \A i \in Invoices : HeldAt(txn.cils, sn, i) = HeldAt(cils, sn, i)

LEMMA CommitApart ==
    ASSUME IInv, LinksInv, MoneyInv, BookInv, txn.open, Finished,
           NEW sn \in ShortNames, sn # txn.sn
    PROVE  Apart(sn)
<1> DEFINE L == txn.cils
<1>1. /\ L \in SUBSET Cil /\ IsFiniteSet(L) /\ Frame(txn)
      /\ cils \in SUBSET Cil /\ IsFiniteSet(cils)
  BY CommitKnown
<1>2. ASSUME NEW i \in Invoices
      PROVE  HeldAt(L, sn, i) = HeldAt(cils, sn, i) /\ HeldAt(cils, sn, i) \in Int
  <2>1. /\ HeldAt(L, sn, i) = Asked(L, sn, i) + Done(L, sn, i)
        /\ HeldAt(cils, sn, i) = Asked(cils, sn, i) + Done(cils, sn, i)
        /\ Asked(cils, sn, i) \in Int /\ Done(cils, sn, i) \in Int
    BY <1>1, PageType DEF HeldAt
  <2>2. /\ Asked(L, sn, i) = Asked(cils, sn, i)
        /\ Done(L, sn, i) = Done(cils, sn, i)
    BY <1>1, OtherPages
  <2> QED
    BY <2>1, <2>2
<1>3. Out(txn.refunds, sn) = Out(refunds, sn)
  BY CommitKnown DEF TxnBook, Paying, Undoing, Refunding
<1> HIDE DEF L
<1>4. HeldOf(L, sn) = HeldOf(cils, sn) + Cost({})
  <2>1. \A i \in Invoices :
          HeldOf(On(L, i), sn)
            = HeldOf(On(cils, i), sn) + (IF i \in {} THEN Total[i] ELSE 0)
    BY <1>2 DEF HeldAt
  <2> QED
    BY <1>1, <2>1, HeldMoved
<1>5. Balance(txn.rem, sn) = Balance(remaining, sn)
  <2>1. Balanced(sn)
    BY CommitBalance
  <2>2. HeldOf(txn.cils, sn) = HeldOf(cils, sn) + 0
    BY <1>4, NoCost DEF L
  <2> QED
    BY <1>3, <2>1, <2>2 DEF Balanced
<1> QED
  BY <1>2, <1>3, <1>5 DEF Apart, L

LEMMA TakenFrom ==
    ASSUME NEW b \in Nat, NEW c \in Nat, NEW o \in Nat, NEW h \in Int,
           NEW x \in Nat, b + o + (h + x) = c + o + h
    PROVE  x <= c /\ b = c - x
OBVIOUS

\* The entry of a payment.
LEMMA CommitPaySum ==
    ASSUME IInv, LinksInv, MoneyInv, BookInv, txn.open, Finished,
           txn.refunds = refunds, NEW I \in SUBSET Invoices,
           \A i \in I : Pays0(i), \A i \in Invoices \ I : Stays(i)
    PROVE  /\ Cost(I) <= Balance(remaining, txn.sn)
           /\ Balance(txn.rem, txn.sn) = Balance(remaining, txn.sn) - Cost(I)
<1> DEFINE sn == txn.sn
           K == txn.cils
           L == cils
<1>1. /\ K \in SUBSET Cil /\ IsFiniteSet(K) /\ sn \in ShortNames
      /\ L \in SUBSET Cil /\ IsFiniteSet(L)
  BY CommitKnown
<1>2. \A i \in Invoices :
        HeldOf(On(K, i), sn)
          = HeldOf(On(L, i), sn) + (IF i \in I THEN Total[i] ELSE 0)
  <2>1. \A i \in Invoices : HeldOf(On(L, i), sn) \in Int
    BY <1>1, PageType, HeldType
  <2> QED
    BY <2>1, EFTConstants DEF Pays0, Stays, HeldAt
<1> HIDE DEF sn, K, L
<1>3. HeldOf(K, sn) = HeldOf(L, sn) + Cost(I)
  BY <1>1, <1>2, HeldMoved
<1>4. Balanced(sn)
  BY <1>1, CommitBalance
<1>5. HeldOf(txn.cils, sn) = HeldOf(cils, sn) + Cost(I)
  BY <1>3 DEF K, L
<1>6. Cost(I) \in Nat /\ Out(txn.refunds, sn) = Out(refunds, sn)
  BY CostType
<1>7. /\ Cost(I) <= Balance(remaining, sn)
      /\ Balance(txn.rem, sn) = Balance(remaining, sn) - Cost(I)
  <2>1. /\ Balance(txn.rem, sn) \in Nat /\ Balance(remaining, sn) \in Nat
        /\ Out(refunds, sn) \in Nat /\ HeldOf(cils, sn) \in Int
        /\ Balance(txn.rem, sn) + Out(refunds, sn)
             + (HeldOf(cils, sn) + Cost(I))
             = Balance(remaining, sn) + Out(refunds, sn) + HeldOf(cils, sn)
    BY <1>4, <1>5, <1>6 DEF Balanced
  <2> QED
    BY <1>6, <2>1, TakenFrom
<1> QED
  BY <1>7 DEF sn

\* And of a return.
LEMMA CommitReturnSum ==
    ASSUME IInv, LinksInv, MoneyInv, BookInv, txn.open, Finished,
           txn.refunds = refunds, NEW I \in SUBSET Invoices,
           \A i \in I : Returns0(i), \A i \in Invoices \ I : Stays(i)
    PROVE  Balance(txn.rem, txn.sn) = Balance(remaining, txn.sn) + Cost(I)
<1> DEFINE sn == txn.sn
           K == cils
           L == txn.cils
<1>1. /\ K \in SUBSET Cil /\ IsFiniteSet(K) /\ sn \in ShortNames
      /\ L \in SUBSET Cil /\ IsFiniteSet(L)
  BY CommitKnown
<1>2. \A i \in Invoices :
        HeldOf(On(K, i), sn)
          = HeldOf(On(L, i), sn) + (IF i \in I THEN Total[i] ELSE 0)
  <2>1. \A i \in Invoices : HeldOf(On(L, i), sn) \in Int
    BY <1>1, PageType, HeldType
  <2> QED
    BY <2>1, EFTConstants DEF Returns0, Stays, HeldAt
<1> HIDE DEF sn, K, L
<1>3. HeldOf(K, sn) = HeldOf(L, sn) + Cost(I)
  BY <1>1, <1>2, HeldMoved
<1>4. Balanced(sn)
  BY <1>1, CommitBalance
<1>5. HeldOf(cils, sn) = HeldOf(txn.cils, sn) + Cost(I)
  BY <1>3 DEF K, L
<1>6. Cost(I) \in Nat /\ Out(txn.refunds, sn) = Out(refunds, sn)
  BY CostType
<1>7. Balance(txn.rem, sn) = Balance(remaining, sn) + Cost(I)
  BY <1>4, <1>5, <1>6 DEF Balanced
<1> QED
  BY <1>7 DEF sn

\* The book after a commit.
Committed(sn) ==
    /\ FreeOf(sn) = Balance(remaining, sn)
    /\ FreeOf(sn)' = Balance(txn.rem, sn)
    /\ Refunded(sn) = Out(refunds, sn)
    /\ Refunded(sn)' = Out(txn.refunds, sn)
    /\ \A i \in Invoices : /\ HeldBy(sn, i) = HeldAt(cils, sn, i)
                           /\ HeldBy(sn, i)' = HeldAt(txn.cils, sn, i)

LEMMA CommitValues ==
    ASSUME Commit, BookValues, BookValues', NEW sn \in ShortNames
    PROVE  Committed(sn)
<1>1. remaining' = txn.rem /\ cils' = txn.cils /\ refunds' = txn.refunds
  BY DEF Commit
<1>2. FreeOf(sn) = Balance(remaining, sn) /\ FreeOf(sn)' = Balance(txn.rem, sn)
  BY <1>1 DEF FreeOf
<1>3. /\ Refunded(sn) = Out(refunds, sn)
      /\ \A i \in Invoices : HeldBy(sn, i) = HeldAt(cils, sn, i)
  BY DEF BookValues
<1>4. /\ Refunded(sn)' = Out(refunds', sn)
      /\ \A i \in Invoices : HeldBy(sn, i)' = HeldAt(cils', sn, i)
  BY DEF BookValues
<1> QED
  BY <1>1, <1>2, <1>3, <1>4 DEF Committed

LEMMA CommitOthers ==
    ASSUME IInv, LinksInv, MoneyInv, BookInv, Commit, BookValues, BookValues',
           NEW sn, sn = txn.sn,
           NEW I, \A i \in Invoices : i \in I \/ Stays(i)
    PROVE  Others(sn, I)
<1>1. txn.open /\ Finished /\ sn \in ShortNames
  BY CommitKnown DEF Commit, Finished
<1>2. ASSUME NEW s \in ShortNames, s # sn
      PROVE  /\ FreeOf(s)' = FreeOf(s) /\ Refunded(s)' = Refunded(s)
             /\ \A i \in Invoices : HeldBy(s, i)' = HeldBy(s, i)
  <2>1. Committed(s) /\ Apart(s)
    BY <1>1, <1>2, CommitValues, CommitApart
  <2> QED
    BY <2>1 DEF Committed, Apart
<1>3. \A i \in Invoices : i \notin I => HeldBy(sn, i)' = HeldBy(sn, i)
  <2>1. Committed(sn)
    BY <1>1, CommitValues
  <2> QED
    BY <2>1 DEF Committed, Stays
<1> QED
  BY <1>2, <1>3 DEF Others

LEMMA CommitPaysEntry ==
    ASSUME IInv, LinksInv, MoneyInv, BookInv, Commit, BookValues, BookValues',
           Paying(txn)
    PROVE  Ledger!Next
<1>1. txn.open /\ Finished /\ txn.sn \in ShortNames
  BY CommitKnown DEF Commit, Finished
<1> PICK sn \in ShortNames : sn = txn.sn
  BY <1>1
<1>2. PICK I \in SUBSET Invoices : I = {i \in Invoices : Pays0(i)}
  OBVIOUS
<1>3. \A i \in Invoices \ I : Stays(i)
  BY <1>1, <1>2, CommitPays
<1>4. txn.refunds = refunds
  BY DEF Paying
<1>5. /\ Cost(I) <= Balance(remaining, sn)
      /\ Balance(txn.rem, sn) = Balance(remaining, sn) - Cost(I)
  BY <1>1, <1>2, <1>3, <1>4, CommitPaySum
<1>6. Committed(sn)
  BY <1>1, CommitValues
<1>7. Others(sn, I)
  BY <1>3, CommitOthers
<1>8. Refunded(sn)' = Refunded(sn)
  BY <1>4, <1>6 DEF Committed
<1>9. \A i \in I : HeldBy(sn, i) = 0 /\ HeldBy(sn, i)' = Total[i]
  BY <1>2, <1>6 DEF Committed, Pays0
<1>10. /\ Cost(I) <= FreeOf(sn)
       /\ FreeOf(sn)' = FreeOf(sn) - Cost(I)
  BY <1>5, <1>6 DEF Committed
<1>11. Ledger!Pay(sn, I)
  BY <1>1, <1>7, <1>8, <1>9, <1>10, PayEntry
<1> QED
  BY <1>1, <1>11 DEF Ledger!Next

LEMMA CommitReturnsEntry ==
    ASSUME IInv, LinksInv, MoneyInv, BookInv, Commit, BookValues, BookValues',
           Undoing(txn)
    PROVE  Ledger!Next
<1>1. txn.open /\ Finished /\ txn.sn \in ShortNames
  BY CommitKnown DEF Commit, Finished
<1> PICK sn \in ShortNames : sn = txn.sn
  BY <1>1
<1>2. PICK I \in SUBSET Invoices : I = {i \in Invoices : Returns0(i)}
  OBVIOUS
<1>3. \A i \in Invoices \ I : Stays(i)
  BY <1>1, <1>2, CommitReturns
<1>4. txn.refunds = refunds
  BY DEF Undoing
<1>5. Balance(txn.rem, sn) = Balance(remaining, sn) + Cost(I)
  BY <1>1, <1>2, <1>3, <1>4, CommitReturnSum
<1>6. Committed(sn)
  BY <1>1, CommitValues
<1>7. Others(sn, I)
  BY <1>3, CommitOthers
<1>8. Refunded(sn)' = Refunded(sn)
  BY <1>4, <1>6 DEF Committed
<1>9. \A i \in I : HeldBy(sn, i) = Total[i] /\ HeldBy(sn, i)' = 0
  BY <1>2, <1>6 DEF Committed, Returns0
<1>10. FreeOf(sn)' = FreeOf(sn) + Cost(I)
  BY <1>5, <1>6 DEF Committed
<1>11. Ledger!Return(sn, I)
  BY <1>1, <1>7, <1>8, <1>9, <1>10, ReturnEntry
<1> QED
  BY <1>1, <1>11 DEF Ledger!Next

\* What goes out is in the balance, and what comes back was out.
LEMMA Exchanged ==
    ASSUME NEW b \in Nat, NEW c \in Nat, NEW o \in Nat, NEW p \in Nat,
           NEW h \in Int, b + o + h = c + p + h
    PROVE  \/ o = p /\ b = c
           \/ o - p \in 1..c /\ b = c - (o - p) /\ o = p + (o - p)
           \/ p - o \in 1..b /\ b = c + (p - o) /\ o = p - (p - o) /\ p - o <= p
OBVIOUS

LEMMA CommitRefundsEntry ==
    ASSUME IInv, LinksInv, MoneyInv, BookInv, Commit, BookValues, BookValues',
           Refunding(txn)
    PROVE  Ledger!Next \/ UNCHANGED Ledger!vars
<1>1. txn.open /\ Finished /\ txn.sn \in ShortNames
  BY CommitKnown DEF Commit, Finished
<1> PICK sn \in ShortNames : sn = txn.sn
  BY <1>1
<1> DEFINE b == Balance(txn.rem, sn)
           c == Balance(remaining, sn)
           o == Out(txn.refunds, sn)
           p == Out(refunds, sn)
           h == HeldOf(cils, sn)
<1>2. /\ b \in Nat /\ c \in Nat /\ o \in Nat /\ p \in Nat /\ h \in Int
      /\ b + o + h = c + p + h /\ b <= MaxAmount /\ c <= MaxAmount
  <2>1. Balanced(sn)
    BY <1>1, CommitBalance
  <2> QED
    BY <2>1 DEF Balanced, Refunding
<1>3. Others(sn, {})
  BY CommitOthers DEF Stays, Refunding
<1>4. /\ FreeOf(sn) = c /\ FreeOf(sn)' = b
      /\ Refunded(sn) = p /\ Refunded(sn)' = o
  BY <1>1, CommitValues DEF Committed
<1>5. MaxAmount \in Nat
  <2>1. \A d \in Credits : Amount[d] \in Nat
    BY EFTConstants
  <2> QED
    BY <2>1, CreditsFinite, SumNat DEF MaxAmount
<1> HIDE DEF b, c, o, p, h
<1>7. \/ o = p /\ b = c
      \/ o - p \in 1..c /\ b = c - (o - p) /\ o = p + (o - p)
      \/ p - o \in 1..b /\ b = c + (p - o) /\ o = p - (p - o) /\ p - o <= p
  BY <1>2, Exchanged
<1>8. CASE o = p /\ b = c
  <2>1. \A s \in ShortNames :
          /\ FreeOf(s)' = FreeOf(s) /\ Refunded(s)' = Refunded(s)
          /\ \A i \in Invoices : HeldBy(s, i)' = HeldBy(s, i)
    BY <1>3, <1>4, <1>8 DEF Others
  <2> QED
    BY <2>1, NoEntry
<1>9. CASE o - p \in 1..c /\ b = c - (o - p) /\ o = p + (o - p)
  <2>1. PICK x : x = o - p
    OBVIOUS
  <2>2. x \in Nat /\ x \in 1..MaxAmount /\ x <= FreeOf(sn)
    BY <1>2, <1>4, <1>5, <1>9, <2>1
  <2>3. FreeOf(sn)' = FreeOf(sn) - x /\ Refunded(sn)' = Refunded(sn) + x
    BY <1>4, <1>9, <2>1
  <2>4. Ledger!PayOut(sn, x)
    BY <1>3, <2>2, <2>3, RefundEntry
  <2> QED
    BY <2>2, <2>4 DEF Ledger!Next, MaxAmount
<1>10. CASE p - o \in 1..b /\ b = c + (p - o) /\ o = p - (p - o) /\ p - o <= p
  <2>1. PICK x : x = p - o
    OBVIOUS
  <2>2. x \in Nat /\ x \in 1..MaxAmount /\ x <= Refunded(sn)
    BY <1>2, <1>4, <1>5, <1>10, <2>1
  <2>3. FreeOf(sn)' = FreeOf(sn) + x /\ Refunded(sn)' = Refunded(sn) - x
    BY <1>4, <1>10, <2>1
  <2>4. Ledger!PutBack(sn, x)
    BY <1>3, <2>2, <2>3, RefundEntry
  <2> QED
    BY <2>2, <2>4 DEF Ledger!Next, MaxAmount
<1> QED
  BY <1>7, <1>8, <1>9, <1>10

LEMMA CommitEntry ==
    ASSUME IInv, LinksInv, MoneyInv, BookInv, Commit, BookValues, BookValues'
    PROVE  Ledger!Next \/ UNCHANGED Ledger!vars
<1>1. txn.open /\ Finished
  BY DEF Commit, Finished
<1> QED
  BY <1>1, CommitKnown, CommitPaysEntry, CommitReturnsEntry,
     CommitRefundsEntry DEF TxnBook

-----------------------------------------------------------------------------
(* Every other step is a deposit, or no entry.                             *)

LEMMA LedgerKept ==
    ASSUME UNCHANGED <<remaining, cils, refunds>>
    PROVE  UNCHANGED Ledger!vars
<1>1. ASSUME NEW sn \in ShortNames
      PROVE  FreeOf(sn)' = FreeOf(sn) /\ Refunded(sn)' = Refunded(sn)
  BY DEF FreeOf, Refunded
<1>2. ASSUME NEW sn \in ShortNames, NEW i \in Invoices
      PROVE  HeldBy(sn, i)' = HeldBy(sn, i)
  <2>1. LinksOf(i)' = LinksOf(i)
    BY DEF LinksOf
  <2> QED
    BY <2>1 DEF HeldBy
<1> QED
  BY <1>1, <1>2, NoEntry

\* The same, where the tables change but not what they add up to.
LEMMA ValuesKept ==
    ASSUME BookValues, BookValues', UNCHANGED remaining,
           \A sn \in ShortNames :
             /\ Out(refunds', sn) = Out(refunds, sn)
             /\ \A i \in Invoices :
                  HeldOf(On(cils', i), sn) = HeldOf(On(cils, i), sn)
    PROVE  UNCHANGED Ledger!vars
<1>1. ASSUME NEW sn \in ShortNames
      PROVE  FreeOf(sn)' = FreeOf(sn) /\ Refunded(sn)' = Refunded(sn)
  <2>1. Refunded(sn)' = Out(refunds', sn)
    BY DEF BookValues
  <2>2. Refunded(sn) = Out(refunds, sn)
    BY DEF BookValues
  <2> QED
    BY <2>1, <2>2 DEF FreeOf
<1>2. ASSUME NEW sn \in ShortNames, NEW i \in Invoices
      PROVE  HeldBy(sn, i)' = HeldBy(sn, i)
  <2>1. HeldBy(sn, i)' = HeldAt(cils', sn, i)
    BY DEF BookValues
  <2>2. HeldBy(sn, i) = HeldAt(cils, sn, i)
    BY DEF BookValues
  <2> QED
    BY <2>1, <2>2 DEF HeldAt
<1> QED
  BY <1>1, <1>2, NoEntry

\* A refund that is approved was out already.
LEMMA ApproveEntry ==
    ASSUME IInv, BookValues, BookValues', NEW r \in Refunds,
           ApproveShortNameRefund(r)
    PROVE  UNCHANGED Ledger!vars
<1> DEFINE row == [refunds[r] EXCEPT !.status = "APPROVED"]
<1>1. refunds \in [Refunds -> EftRefund] /\ refunds[r] \in EftRefund
  BY TablesType
<1>2. /\ row \in EftRefund /\ row.sn = refunds[r].sn
      /\ row.amount = refunds[r].amount /\ row.status = "APPROVED"
  BY <1>1 DEF EftRefund, RefundStatus
<1>3. /\ refunds' = [refunds EXCEPT ![r] = row]
      /\ UNCHANGED <<remaining, cils>>
      /\ refunds[r].status = "PENDING_APPROVAL"
  BY <1>1 DEF ApproveShortNameRefund, EftRefund
<1> HIDE DEF row
<1>4. ASSUME NEW s \in ShortNames
      PROVE  Out(refunds', s) = Out(refunds, s)
  <2> DEFINE f == [q \in Refunds |-> Share(refunds[q], s)]
             g == [q \in Refunds |-> Share(refunds'[q], s)]
  <2>1. Share(row, s) = Share(refunds[r], s)
    BY <1>2, <1>3 DEF Share
  <2>2. \A q \in Refunds : refunds'[q] = IF q = r THEN row ELSE refunds[q]
    BY <1>1, <1>3
  <2>3. f = g
    BY <2>1, <2>2
  <2> HIDE DEF f, g
  <2>4. Out(refunds, s) = SumFunctionOnSet(f, Refunds)
    BY DEF Out, f
  <2>5. Out(refunds', s) = SumFunctionOnSet(g, Refunds)
    BY DEF Out, g
  <2> QED
    BY <2>3, <2>4, <2>5
<1> QED
  BY <1>3, <1>4, ValuesKept

\* The job changes the status of links, not what they hold.
LEMMA ItemEndsEntry ==
    ASSUME IInv, LinksInv, BookInv, BookValues, BookValues',
           LinkItemEnd \/ ReverseItemEnd
    PROVE  UNCHANGED Ledger!vars
<1>1. UNCHANGED <<remaining, refunds>>
  BY DEF LinkItemEnd, ReverseItemEnd
<1>2. PICK i, U, status : UpdatedTo(cils', U, i, status)
  <2>1. CASE LinkItemEnd
    <3> DEFINE i == job.cur.key.invoice
               receipt == MinId(job.cur.ids)
    <3>1. /\ job.phase = "LINK" /\ job.cur # NoItem /\ job # IdleJob
          /\ cils' = UpdateLinks(job.cur, "COMPLETED", receipt)
      BY <2>1 DEF LinkItemEnd, IdleJob
    <3>2. job.cur.ids # {} /\ job.cur.ids \in SUBSET Nat
      BY <3>1, JobTables DEF GoodJob, Job, Item
    <3>3. receipt \in Nat
      BY <3>2, MinIdType
    <3>4. LinkPage(i)
      BY <3>1, LinkItemPage
    <3>5. \A l \in cils : l.id \in job.cur.ids => l.invoice = i
      BY <3>4 DEF LinkPage, Open
    <3> HIDE DEF receipt, i
    <3>6. PICK U : U = [l \in cils |-> Updated(l, "COMPLETED", receipt)]
      OBVIOUS
    <3>7. PICK N : N = UpdateLinks(job.cur, "COMPLETED", receipt)
      OBVIOUS
    <3>8. "COMPLETED" \in CilStatus
      BY DEF CilStatus
    <3>9. UpdatedTo(N, U, i, "COMPLETED")
      BY <3>1, <3>3, <3>5, <3>6, <3>7, <3>8, UpdatedTable
    <3> QED
      BY <3>1, <3>7, <3>9
  <2>2. CASE ReverseItemEnd
    <3> DEFINE i == job.cur.key.invoice
               receipt == job.cur.key.receipt
    <3>1. /\ job.phase \in {"REVERSE", "UNLINKED"} /\ job.phase # "LINK"
          /\ job.cur # NoItem
          /\ cils' = UpdateLinks(job.cur, "REFUNDED", receipt)
      BY <2>2 DEF ReverseItemEnd
    <3>2. /\ receipt \in Nat
          /\ \A l \in cils : l.id \in job.cur.ids => l.invoice = i
      BY <3>1, ReverseItemPage
    <3> HIDE DEF receipt, i
    <3>3. PICK U : U = [l \in cils |-> Updated(l, "REFUNDED", receipt)]
      OBVIOUS
    <3>4. PICK N : N = UpdateLinks(job.cur, "REFUNDED", receipt)
      OBVIOUS
    <3>5. "REFUNDED" \in CilStatus
      BY DEF CilStatus
    <3>6. UpdatedTo(N, U, i, "REFUNDED")
      BY <3>1, <3>2, <3>3, <3>4, <3>5, UpdatedTable
    <3> QED
      BY <3>1, <3>4, <3>6
  <2> QED
    BY <2>1, <2>2
<1>3. ASSUME NEW sn \in ShortNames, NEW j \in Invoices
      PROVE  HeldOf(On(cils', j), sn) = HeldOf(On(cils, j), sn)
  <2>1. CASE j = i
    BY <1>2, <2>1 DEF UpdatedTo
  <2>2. CASE j # i
    <3>1. On(cils', j) = On(cils, j)
      BY <1>2, <2>2 DEF UpdatedTo
    <3> QED
      BY <3>1
  <2> QED
    BY <2>1, <2>2
<1> QED
  BY <1>1, <1>3, ValuesKept

\* A deposit is one.
LEMMA CreateCreditEntry ==
    ASSUME IInv, CreateCredit
    PROVE  Ledger!Next \/ UNCHANGED Ledger!vars
<1> DEFINE c == deposits + 1
           rem == remaining'
<1>1. /\ c \in Credits /\ remaining \in [Credits -> Nat] /\ remaining[c] = 0
      /\ Amount[c] \in Nat /\ DepositedBy[c] \in ShortNames
      /\ rem = [remaining EXCEPT ![c] = Amount[c]]
  BY EFTConstants DEF IInv, TypeOK, CreateCredit, Credits, Bounded
<1>2. UNCHANGED <<cils, refunds>>
  BY DEF CreateCredit
<1> HIDE DEF c, rem
<1>3. PICK sn \in ShortNames : sn = DepositedBy[c]
  BY <1>1
<1>4. PICK x \in Nat : x = Amount[c]
  BY <1>1
<1>5. ASSUME NEW s \in ShortNames
      PROVE  Balance(rem, s)
               = Balance(remaining, s) + (IF s = sn THEN x ELSE 0)
  <2>1. /\ remaining \in Amounts /\ rem \in Amounts
        /\ rem[c] - remaining[c] = x
        /\ \A d \in Credits \ {c} : remaining[d] = rem[d]
    BY <1>1, <1>4 DEF Amounts
  <2>2. /\ Balance(remaining, s) \in Int
        /\ DepositedBy[c] = s =>
             Balance(rem, s) = Balance(remaining, s) + (rem[c] - remaining[c])
        /\ DepositedBy[c] # s => Balance(rem, s) = Balance(remaining, s)
    <3>1. c \in Credits
      BY <1>1
    <3> QED
      BY <2>1, <3>1, BalanceBut
  <2> QED
    BY <1>3, <1>4, <2>1, <2>2
<1>6. /\ Others(sn, {}) /\ Refunded(sn)' = Refunded(sn)
      /\ FreeOf(sn)' = FreeOf(sn) + x
  <2>1. ASSUME NEW s \in ShortNames, NEW i \in Invoices
        PROVE  HeldBy(s, i)' = HeldBy(s, i)
    <3>1. LinksOf(i)' = LinksOf(i)
      BY <1>2 DEF LinksOf
    <3> QED
      BY <3>1 DEF HeldBy
  <2>2. \A s \in ShortNames : Refunded(s)' = Refunded(s)
    BY <1>2 DEF Refunded
  <2>3. \A s \in ShortNames : FreeOf(s) \in Int
    <3>1. remaining \in [Credits -> Nat]
      BY <1>1
    <3> QED
      BY <3>1, BalanceType DEF FreeOf
  <2>4. \A s \in ShortNames : FreeOf(s)' = FreeOf(s) + (IF s = sn THEN x ELSE 0)
    BY <1>5 DEF FreeOf, rem
  <2> QED
    BY <2>1, <2>2, <2>3, <2>4 DEF Others
<1>7. CASE x = 0
  <2>1. FreeOf(sn) \in Int
    BY <1>1, BalanceType DEF FreeOf
  <2>2. \A s \in ShortNames :
          /\ FreeOf(s)' = FreeOf(s) /\ Refunded(s)' = Refunded(s)
          /\ \A i \in Invoices : HeldBy(s, i)' = HeldBy(s, i)
    BY <1>6, <1>7, <2>1 DEF Others
  <2> QED
    BY <2>2, NoEntry
<1>8. CASE x # 0
  <2>1. x \in 1..MaxAmount
    <3>1. \A d \in Credits : Amount[d] \in Nat
      BY EFTConstants
    <3>2. SumFunctionOnSet(Amount, Credits)
            = Amount[c] + SumFunctionOnSet(Amount, Credits \ {c})
      BY <1>1, <3>1, CreditsFinite, SumOut
    <3>3. /\ SumFunctionOnSet(Amount, Credits \ {c}) \in Nat
          /\ SumFunctionOnSet(Amount, Credits) \in Nat
      BY <3>1, CreditsFinite, SumPart
    <3> QED
      BY <1>1, <1>4, <1>8, <3>2, <3>3 DEF MaxAmount
  <2>2. Ledger!Deposit(sn, x)
    BY <1>6, DepositEntry
  <2> QED
    BY <2>1, <2>2 DEF Ledger!Next, MaxAmount
<1> QED
  BY <1>7, <1>8

-----------------------------------------------------------------------------
(* The book is kept.                                                       *)

\* A request that begins has done nothing yet.
LEMMA BegunKeeps ==
    ASSUME NEW t, Begin(t) \/ BeginGroup(t)
    PROVE  UNCHANGED <<remaining, cils, refunds>>
BY DEF Begin, BeginGroup, tables

LEMMA RequestBegins ==
    ASSUME IInv,
           \/ \E i \in Invoices : \/ RefundLinkedInvoice(i)
                                  \/ \E x \in PartialAmounts : PartialRefund(i, x)
           \/ \E sn \in ShortNames, a \in Accounts :
                \/ CreateShortNameLink(sn, a)
                \/ \E S \in StatementChoice : \/ ApplyPayment(sn, a, S)
                                              \/ CancelPayment(sn, a, S)
           \/ \E sn \in ShortNames, s \in Statements : ReversePayment(sn, s)
           \/ \E r \in Refunds :
                \/ \E sn \in ShortNames, x \in RefundAmounts :
                     CreateShortNameRefund(r, sn, x)
                \/ DeclineShortNameRefund(r)
    PROVE  UNCHANGED <<remaining, cils, refunds>>
<1>1. CASE \E i \in Invoices : \/ RefundLinkedInvoice(i)
                              \/ \E x \in PartialAmounts : PartialRefund(i, x)
  <2>1. \E t : BeginGroup(t)
    BY <1>1, RefundStarts
  <2> QED
    BY <2>1, BegunKeeps
<1>2. CASE \E sn \in ShortNames, a \in Accounts : CreateShortNameLink(sn, a)
  <2>1. \E t : Begin(t) \/ BeginGroup(t)
    BY <1>2, CreateShortNameLinkStarts
  <2> QED
    BY <2>1, BegunKeeps
<1>3. CASE \E sn \in ShortNames, a \in Accounts, S \in StatementChoice :
             ApplyPayment(sn, a, S) \/ CancelPayment(sn, a, S)
  <2>1. \E t : Begin(t) \/ BeginGroup(t)
    BY <1>3, ApplyPaymentStarts, CancelPaymentStarts
  <2> QED
    BY <2>1, BegunKeeps
<1>4. CASE \E sn \in ShortNames, s \in Statements : ReversePayment(sn, s)
  <2>1. \E t : BeginGroup(t)
    BY <1>4, ReversePaymentStarts
  <2> QED
    BY <2>1, BegunKeeps
<1>5. CASE \E r \in Refunds, sn \in ShortNames, x \in RefundAmounts :
             CreateShortNameRefund(r, sn, x)
  <2>1. \E t : Begin(t)
    BY <1>5, CreateShortNameRefundStarts
  <2> QED
    BY <2>1, BegunKeeps
<1>6. CASE \E r \in Refunds : DeclineShortNameRefund(r)
  BY <1>6, ZenonT(40) DEF DeclineShortNameRefund, Begin, tables
<1> QED
  BY <1>1, <1>2, <1>3, <1>4, <1>5, <1>6

LEMMA RequestEntry ==
    ASSUME IInv, BookValues, BookValues', Request
    PROVE  Ledger!Next \/ UNCHANGED Ledger!vars
<1>1. CASE CreateCredit
  BY <1>1, CreateCreditEntry
<1>2. CASE \E r \in Refunds : ApproveShortNameRefund(r)
  BY <1>2, ApproveEntry
<1>3. CASE \/ \E i \in Invoices : \/ CreateInvoice(i)
                                  \/ RefundUnlinkedInvoice(i)
           \/ \E s \in Statements : GenerateStatement(s)
           \/ \E sn \in ShortNames, a \in Accounts : PatchShortNameLink(sn, a)
  <2>1. UNCHANGED <<remaining, cils, refunds>>
    BY <1>3, InvoiceRequest DEF GenerateStatement, PatchShortNameLink
  <2> QED
    BY <2>1, LedgerKept
<1>4. CASE \/ \E i \in Invoices :
                \/ RefundLinkedInvoice(i)
                \/ \E x \in PartialAmounts : PartialRefund(i, x)
           \/ \E sn \in ShortNames, a \in Accounts :
                \/ CreateShortNameLink(sn, a)
                \/ \E S \in StatementChoice : \/ ApplyPayment(sn, a, S)
                                              \/ CancelPayment(sn, a, S)
           \/ \E sn \in ShortNames, s \in Statements : ReversePayment(sn, s)
           \/ \E r \in Refunds :
                \/ \E sn \in ShortNames, x \in RefundAmounts :
                     CreateShortNameRefund(r, sn, x)
                \/ DeclineShortNameRefund(r)
  <2>1. UNCHANGED <<remaining, cils, refunds>>
    BY <1>4, RequestBegins
  <2> QED
    BY <2>1, LedgerKept
<1> QED
  BY <1>1, <1>2, <1>3, <1>4 DEF Request

LEMMA TxnStepEntry ==
    ASSUME IInv, LinksInv, MoneyInv, BookInv, BookValues, BookValues', TxnStep
    PROVE  Ledger!Next \/ UNCHANGED Ledger!vars
<1>1. CASE Commit
  BY <1>1, CommitEntry
<1>2. CASE ReturnCredit \/ NextInvoice \/ TakeCredit \/ RefillCredit
  <2>1. UNCHANGED <<remaining, cils, refunds>>
    BY <1>2, ZenonT(40)
    DEF ReturnCredit, NextInvoice, TakeCredit, RefillCredit, Rollback, tables
  <2> QED
    BY <2>1, LedgerKept
<1> QED
  BY <1>1, <1>2 DEF TxnStep

LEMMA EftJobEntry ==
    ASSUME IInv, LinksInv, BookInv, BookValues, BookValues', EftJob
    PROVE  UNCHANGED Ledger!vars
<1>1. CASE LinkItemEnd \/ ReverseItemEnd
  BY <1>1, ItemEndsEntry
<1>2. CASE \/ EftJobStart \/ UnlinkedJobStart \/ EftJobEnd
           \/ UnlockOverdueAccounts
           \/ \E k \in job.todo : \/ LinkItemStart(k) \/ ReverseItemStart(k)
                                  \/ UnlinkedItemStart(k)
  <2>1. UNCHANGED <<remaining, cils, refunds>>
    BY <1>2, ZenonT(40) DEF EftJobStart, UnlinkedJobStart, EftJobEnd,
       UnlockOverdueAccounts, LinkItemStart, ReverseItemStart,
       UnlinkedItemStart, WithinJob, eftVars
  <2> QED
    BY <2>1, LedgerKept
<1> QED
  BY <1>1, <1>2 DEF EftJob

LEMMA NextEntry ==
    ASSUME IInv, LinksInv, MoneyInv, BookInv, BookValues, BookValues',
           [Next]_vars
    PROVE  [Ledger!Next]_Ledger!vars
<1>1. CASE TxnStep
  BY <1>1, TxnStepEntry
<1>2. CASE EftJob
  BY <1>2, EftJobEntry
<1>3. CASE Request
  BY <1>3, RequestEntry
<1>4. CASE \/ JobFailure \/ CfsInvoiceJob \/ StatementDueJob
           \/ \E i \in Invoices : OverdueDatePasses(i)
           \/ UNCHANGED vars
  <2>1. UNCHANGED <<remaining, cils, refunds>>
    BY <1>4 DEF JobFailure, ItemFails, LinkItemBreaksOff,
       ReverseItemBreaksOff, ItemRollsBack, CfsInvoiceItemFails,
       CfsInvoiceItemLost, JobDies, CfsInvoiceJob, CfsInvoiceJobStart, CfsInvoiceItem, StatementDueJob,
       OverdueDatePasses, WithinJob, vars, eftVars
  <2> QED
    BY <2>1, LedgerKept
<1> QED
  BY <1>1, <1>2, <1>3, <1>4 DEF Next

\* At first every page is empty.
LEMMA InitEntry ==
    ASSUME TaskInit, BookValues
    PROVE  Ledger!Init
<1>1. /\ cils = {} /\ \A c \in Credits : remaining[c] = 0
      /\ \A r \in Refunds : refunds[r].status = "NONE"
  BY DEF TaskInit, Init
<1>2. ASSUME NEW sn \in ShortNames
      PROVE  /\ FreeOf(sn) = 0 /\ Refunded(sn) = 0
             /\ \A i \in Invoices : HeldBy(sn, i) = 0
  <2>1. FreeOf(sn) = 0
    <3>1. CreditsOf(sn) \in SUBSET Credits
      BY DEF CreditsOf
    <3>2. IsFiniteSet(CreditsOf(sn))
      BY <3>1, CreditsFinite, FS_Subset
    <3>3. \A c \in CreditsOf(sn) : remaining[c] = 0
      BY <1>1, <3>1
    <3> QED
      BY <3>2, <3>3, SumZero DEF FreeOf, Balance
  <2>2. Refunded(sn) = 0
    <3> DEFINE f == [r \in Refunds |-> Share(refunds[r], sn)]
    <3>1. \A r \in Refunds : f[r] = 0
      BY <1>1 DEF Share
    <3>2. IsFiniteSet(Refunds)
      BY FS_Interval, EFTConstants DEF Refunds
    <3> HIDE DEF f
    <3>3. SumFunctionOnSet(f, Refunds) = 0
      BY <3>1, <3>2, SumZero
    <3> QED
      BY <3>3 DEF BookValues, Out, f
  <2>3. ASSUME NEW i \in Invoices
        PROVE  HeldBy(sn, i) = 0
    <3>1. On(cils, i) = {}
      BY <1>1 DEF On
    <3> QED
      BY <3>1, HeldEmpty DEF BookValues, HeldAt
  <2> QED
    BY <2>1, <2>2, <2>3
<1> QED
  BY <1>2 DEF Ledger!Init, FreeOf

\* ImplementsLedger: whatever CFS refuses and whenever the job dies, every
\* commit of a request is one entry of the account book of EFTLedger (a
\* deposit, a payment or a return of whole invoices, a refund of the short name
\* or its being declined), and the steps between and those of the jobs are
\* none (apply_payment_action, cancel_payment_action, reverse_payment_action,
\* create_refund, create_shortname_refund, eft_task.py).
THEOREM LedgerIsImplemented ==
    ASSUME ~ Overlap, PartialAmounts = {}
    PROVE  Spec => ImplementsLedger
<1>1. TaskInit /\ BookValues => Ledger!Init
  BY InitEntry
<1>2. /\ IInv /\ LinksInv /\ MoneyInv /\ BookInv /\ BookValues /\ BookValues'
      /\ [Next]_vars
      => [Ledger!Next]_Ledger!vars
  BY NextEntry
<1>3. Spec => []BookInv
  BY BookInvariance
<1>4. Spec => []BookValues
  BY ValuesNow, Invariance, LinksInvariance, PTL
<1> QED
  BY <1>1, <1>2, <1>3, <1>4, Invariance, LinksInvariance, MoneyInvariance, PTL
  DEF Spec, ImplementsLedger, Ledger!Spec

-----------------------------------------------------------------------------
(* Receipts in CFS: the invariant.                                         *)

\* Whether no link of the invoice was refunded from the receipt of a link.
Unreturned(L, l) ==
    \A m \in L : m.invoice = l.invoice /\ m.status = "REFUNDED"
                   => m.receipt # l.receipt

\* A completed link whose receipt stands in CFS.
Standing(L, l) == l.status = "COMPLETED" /\ Unreturned(L, l)

\* An invoice has one receipt at a time, and neither the
\* latest payment nor what is being returned was returned before.
Receipts(L) ==
    /\ \A l \in L : l.id # 0 /\ (l.status = "COMPLETED" => l.receipt # NoReceipt)
    /\ \A l \in L : l.status = "COMPLETED" /\ Newest(L, l) => Unreturned(L, l)
    /\ \A l, m \in L : /\ Standing(L, l) /\ Standing(L, m)
                       /\ l.invoice = m.invoice
                       => l.receipt = m.receipt
    /\ \A l \in L : l.status = "PENDING_REFUND" => Unreturned(L, l)

HasReceipt(L, i) == \E l \in L : l.invoice = i /\ Standing(L, l)

\* The reference of an invoice says whether it has one.
Referenced ==
    \A i \in Invoices : ref[i] = "COMPLETED" <=> HasReceipt(cils, i)

TxnReceipts(t) ==
    /\ \A l \in t.cils : l.id # 0
    /\ t.mode = "PENDING_REFUND" => \A l \in Touched(t) : Unreturned(cils, l)

\* So does CFS, unless an item of the invoice broke off.
Agreed(i) == i \notin brokenOff => (cfs[i] = "PAID" <=> ref[i] = "COMPLETED")

\* The item in hand: what CFS was told, and the links that it will refund.
ItemReceipt ==
    LET item == job.cur
        i == item.key.invoice
    IN  /\ job.phase = "LINK" => ref[i] = "ACTIVE" /\ cfs[i] = "PAID"
        /\ job.phase # "LINK" =>
             /\ item.found # "NONE" => ref[i] = item.found /\ cfs[i] # "PAID"
             /\ item.found = "NONE" => item.refunding /\ Agreed(i)
             /\ ~item.refunding => item.found = "COMPLETED"
             /\ \A l \in cils : l.id \in item.ids => l.invoice = i
             /\ \/ item.found # "COMPLETED"
                   /\ \A l \in cils : l.id \in item.ids => l.status = "CANCELLED"
                \/ /\ item.found = "COMPLETED"
                   /\ \E l \in LinksOf(i) : l.id \in item.ids
                                              /\ l.status = "PENDING_REFUND"
                   /\ \A l \in LinksOf(i) :
                        /\ l.status = "PENDING_REFUND"
                        /\ l.receipt = item.key.receipt
                        => l.id \in item.ids

CfsInv ==
    /\ Receipts(cils) /\ Referenced
    /\ \A i \in Invoices : Owed(inv[i]) => ref[i] \in {"NONE", "ACTIVE"}
    /\ \A i \in cfsTodo : Owed(inv[i])
    /\ \A i \in Invoices : ~InFlight(i) => Agreed(i)
    /\ txn # NoTxn => TxnReceipts(txn)
    /\ job.cur # NoItem => ItemReceipt
    /\ job.phase = "UNLINKED" => \A k \in job.todo : k.status = "CANCELLED"

-----------------------------------------------------------------------------
(* Copies of the links.                                                    *)

LEMMA SameUnreturned ==
    ASSUME NEW K, NEW L,
           \A m : m.status = "REFUNDED" => (m \in K <=> m \in L), NEW l
    PROVE  Unreturned(K, l) <=> Unreturned(L, l)
BY DEF Unreturned

\* A request completes and refunds no link.
LEMMA CopiedReceipts ==
    ASSUME IInv, LinksInv, BookInv, txn.open, NEW m,
           m.status \in {"COMPLETED", "REFUNDED"}
    PROVE  m \in txn.cils <=> m \in cils
<1>1. Frame(txn) /\ NewGroup(txn) /\ txn.mode \in ReturnMode
  BY TxnSets DEF BookInv, TxnBook, TxnLinks
<1>2. NewStatus(txn) \in {"PENDING", "CANCELLED", "PENDING_REFUND"}
  BY <1>1 DEF Frame, NewStatus, ReturnMode
<1> QED
  BY <1>1, <1>2 DEF Frame, NewGroup

LEMMA CommittedReceipts ==
    ASSUME IInv, LinksInv, BookInv, CfsInv, txn.open
    PROVE  /\ Receipts(txn.cils)
           /\ \A i : HasReceipt(txn.cils, i) <=> HasReceipt(cils, i)
<1>1. /\ Frame(txn) /\ NewGroup(txn) /\ TxnReceipts(txn) /\ Receipts(cils)
      /\ txn.mode \in ReturnMode
      /\ cils \in SUBSET Cil /\ txn.cils \in SUBSET Cil
  BY TxnSets DEF BookInv, TxnBook, TxnLinks, CfsInv
<1>2. \A m : m.status \in {"COMPLETED", "REFUNDED"}
               => (m \in txn.cils <=> m \in cils)
  BY CopiedReceipts
<1>3. \A l : Unreturned(txn.cils, l) <=> Unreturned(cils, l)
  BY <1>2, SameUnreturned
<1>4. \A l : l \in txn.cils /\ Standing(txn.cils, l)
               <=> l \in cils /\ Standing(cils, l)
  BY <1>2, <1>3 DEF Standing
<1>5. \A l \in txn.cils : l.status = "COMPLETED" /\ Newest(txn.cils, l)
                           => Unreturned(txn.cils, l)
  <2> SUFFICES ASSUME NEW l \in txn.cils, l.status = "COMPLETED",
                      Newest(txn.cils, l)
               PROVE  Unreturned(cils, l)
    BY <1>3
  <2>1. l \in cils /\ l.group \in Nat
    BY <1>1, <1>2, CilFields
  <2>2. ASSUME NEW k \in cils, k.invoice = l.invoice
        PROVE  k.group <= l.group
    <3>1. PICK m \in txn.cils : m.invoice = k.invoice /\ k.group <= m.group
      BY <1>1 DEF Frame
    <3>2. m.group <= l.group /\ m.group \in Nat /\ k.group \in Nat
      BY <1>1, <2>2, <3>1, CilFields DEF Newest
    <3> QED
      BY <2>1, <3>1, <3>2
  <2> QED
    BY <1>1, <2>1, <2>2 DEF Receipts, Newest
<1>6. \A l \in txn.cils : l.status = "PENDING_REFUND" => Unreturned(txn.cils, l)
  <2> SUFFICES ASSUME NEW l \in txn.cils, l.status = "PENDING_REFUND"
               PROVE  Unreturned(cils, l)
    BY <1>3
  <2>1. CASE l \in cils
    BY <1>1, <2>1 DEF Receipts
  <2>2. CASE l \notin cils
    <3>1. l.group = txn.group
      BY <1>1, <2>2 DEF Frame
    <3>2. txn.mode = "PENDING_REFUND"
      BY <1>1, <3>1 DEF NewGroup, NewStatus, ReturnMode, Frame
    <3> QED
      BY <1>1, <3>1, <3>2 DEF TxnReceipts, Touched
  <2> QED
    BY <2>1, <2>2
<1>7. /\ \A l \in txn.cils : l.id # 0
      /\ \A l \in txn.cils : l.status = "COMPLETED" => l.receipt # NoReceipt
  BY <1>1, <1>2 DEF TxnReceipts, Receipts
<1>8. \A l, m \in txn.cils : /\ Standing(txn.cils, l) /\ Standing(txn.cils, m)
                              /\ l.invoice = m.invoice
                              => l.receipt = m.receipt
  BY <1>1, <1>4 DEF Receipts
<1>9. Receipts(txn.cils)
  BY <1>5, <1>6, <1>7, <1>8 DEF Receipts
<1> QED
  BY <1>4, <1>9 DEF HasReceipt

-----------------------------------------------------------------------------
(* The steps of a request.                                                 *)

LEMMA KeptCfs ==
    ASSUME CfsInv,
           UNCHANGED <<cils, inv, ref, job, cfsTodo, cfs, brokenOff>>,
           NEW t, t = NoTxn \/ TxnReceipts(t), txn' = t
    PROVE  CfsInv'
<1>1. Receipts(cils)' /\ Referenced'
  BY DEF CfsInv, Referenced
<1>2. job.cur # NoItem => ItemReceipt'
  BY DEF CfsInv, ItemReceipt, LinksOf, Agreed
<1>3. txn' # NoTxn => TxnReceipts(txn)'
  BY DEF TxnReceipts
<1>4. \A i : (InFlight(i)' <=> InFlight(i)) /\ (Agreed(i)' <=> Agreed(i))
  BY DEF InFlight, Agreed
<1> QED
  BY <1>1, <1>2, <1>3, <1>4 DEF CfsInv

\* A step that adds no return.
LEMMA SameCfs ==
    ASSUME CfsInv, txn # NoTxn, NEW u, SameWork(txn, u), u.todo = txn.todo,
           u.cils = txn.cils, txn' = u, UNCHANGED tables, UNCHANGED jobVars
    PROVE  CfsInv'
<1>1. TxnReceipts(u)
  BY DEF CfsInv, TxnReceipts, Touched, SameWork
<1> QED
  BY <1>1, KeptCfs DEF tables, jobVars

LEMMA CommitCfs ==
    ASSUME IInv, LinksInv, BookInv, CfsInv, txn.open, Commit, UNCHANGED jobVars
    PROVE  CfsInv'
<1>1. /\ cils' = txn.cils /\ inv' = txn.inv /\ txn' = NoTxn
      /\ UNCHANGED <<ref, job, cfsTodo, cfs, brokenOff>>
  BY DEF Commit, jobVars
<1>2. /\ job = IdleJob /\ cfsTodo = {} /\ Rows(txn)
  BY TxnSets DEF BookInv, OneAtATime, TxnBook
<1>3. job.cur = NoItem
  BY <1>2 DEF IdleJob
<1>4. Receipts(cils)' /\ Referenced'
  BY <1>1, CommittedReceipts DEF CfsInv, Referenced
<1>5. \A i \in Invoices : Owed(inv'[i]) => ref[i] \in {"NONE", "ACTIVE"}
  BY <1>1, <1>2 DEF Rows, Owed, CfsInv
<1> QED
  BY <1>1, <1>2, <1>3, <1>4, <1>5 DEF CfsInv, InFlight, Agreed

LEMMA ReturnCreditCfs ==
    ASSUME IInv, LinksInv, BookInv, CfsInv, txn.open, ReturnCredit,
           UNCHANGED jobVars
    PROVE  CfsInv'
<1>1. /\ GoodTxn(txn) /\ txn \in Txn /\ txn # NoTxn /\ TxnReceipts(txn)
      /\ Frame(txn) /\ txn.todo \in SUBSET txn.cils /\ txn.lastCil \in Nat
  BY TxnSets, TxnFields DEF BookInv, TxnBook, CfsInv
<1>2. CASE Rollback
  BY <1>1, <1>2, KeptCfs DEF Rollback, tables, jobVars
<1>3. CASE ~ Rollback
  <2>1. PICK u, l, x :
          /\ l \in txn.todo /\ \A k \in txn.todo : l.id <= k.id
          /\ x \in Nat /\ x = ReturnAmount(l)
          /\ txn.rem[l.credit] + x <= Amount[l.credit]
          /\ u = PutBack(txn, txn.todo \ {l}, l.credit,
                         txn.rem[l.credit] + x, Recorded(l, x),
                         IF AddsReturn THEN txn.lastCil + 1
                         ELSE txn.lastCil)
          /\ txn' = u /\ UNCHANGED tables
    BY <1>3, ReturnCreditSteps
  <2> DEFINE todo == txn.todo \ {l}
             c == l.credit
             amount == txn.rem[c] + x
             L == Recorded(l, x)
             last == IF AddsReturn THEN txn.lastCil + 1 ELSE txn.lastCil
  <2>2. /\ c \in Credits /\ todo \in SUBSET Cil /\ last \in Nat
        /\ amount \in Nat /\ L \in SUBSET Cil
    <3>1. /\ c \in Credits /\ todo \in SUBSET Cil /\ last \in Nat
          /\ txn.rem \in [Credits -> Nat]
      BY <1>1, <2>1, TxnFields, CilFields DEF GoodTxn
    <3>2. L \in SUBSET Cil
      BY <1>1, <2>1, RecordedType
    <3>3. txn.rem[c] \in Nat
      BY <3>1
    <3> QED
      BY <2>1, <3>1, <3>2, <3>3
  <2>3. u = PutBack(txn, todo, c, amount, L, last)
    BY <2>1
  <2> HIDE DEF todo, c, amount, last, L
  <2>4. u.todo = todo /\ u.cils = L /\ u.mode = txn.mode /\ u.group = txn.group
    <3>1. /\ u \in Txn
          /\ u.inv = txn.inv /\ u.due = txn.due /\ u.cils = L
          /\ u.todo = todo
          /\ u.rem = [txn.rem EXCEPT ![c] = amount]
          /\ u.lastCil = last /\ u.sn = txn.sn /\ u.group = txn.group
          /\ u.mode = txn.mode /\ u.cur = txn.cur /\ u.need = txn.need
          /\ u.refill = txn.refill /\ u.refunds = txn.refunds
      <4>1. txn \in Txn
        BY <1>1
      <4> QED
        BY <2>2, <2>3, <4>1, PutBackType, SMTT(60)
    <3> QED
      BY <3>1
  <2>5. PICK r \in Cil :
          \/ /\ txn.mode = "CANCEL" /\ Undone(l, r, l.group)
             /\ Recorded(l, x) = (txn.cils \ {l}) \cup {r}
          \/ /\ txn.mode = "REGROUP" /\ Undone(l, r, txn.group)
             /\ Recorded(l, x) = (txn.cils \ {l}) \cup {r}
          \/ /\ Returning(txn) /\ ReturnOf(l, r, x)
             /\ Recorded(l, x) = txn.cils \cup {r}
    BY <1>1, <2>1, RecordedShape
  <2>6. /\ l \in txn.todo /\ u.todo = txn.todo \ {l}
        /\ u.cils \subseteq txn.cils \cup {r} /\ r.id # 0
    <3>1. l.id # 0 /\ txn.lastCil + 1 # 0
      BY <1>1, <2>1 DEF TxnReceipts
    <3> QED
      BY <2>1, <2>4, <2>5, <3>1, ZenonT(40) DEF todo, L, Undone, ReturnOf
  <2>7. ASSUME txn.mode = "PENDING_REFUND", NEW m \in Touched(u)
        PROVE  Unreturned(cils, m)
    <3>1. ReturnOf(l, r, x)
      BY <2>5, <2>7
    <3>2. r.invoice = l.invoice /\ r.receipt = l.receipt
      BY <3>1 DEF ReturnOf, SameReceipt, SameCredit
    <3>3. m = r \/ m \in Touched(txn)
      BY <2>4, <2>6 DEF Touched
    <3>4. l \in Touched(txn)
      BY <1>1, <2>6, <2>7 DEF Touched
    <3>5. Unreturned(cils, l) /\ (m \in Touched(txn) => Unreturned(cils, m))
      BY <1>1, <2>7, <3>4 DEF TxnReceipts
    <3> QED
      BY <3>2, <3>3, <3>5 DEF Unreturned
  <2>8. TxnReceipts(u)
    BY <1>1, <2>4, <2>6, <2>7 DEF TxnReceipts
  <2> QED
    BY <2>1, <2>8, KeptCfs DEF tables, jobVars
<1> QED
  BY <1>2, <1>3

LEMMA NextInvoiceCfs ==
    ASSUME IInv, LinksInv, BookInv, CfsInv, txn.open, NextInvoice,
           UNCHANGED jobVars
    PROVE  CfsInv'
<1>1. txn \in Txn /\ txn # NoTxn /\ TxnLinks(txn) /\ TxnReceipts(txn)
  BY TxnSets DEF CfsInv
<1>2. txn.mode = "CANCEL"
  BY <1>1 DEF NextInvoice, TxnLinks, Pays
<1>3. PICK u, i :
        /\ i \in txn.due
        /\ u.due = txn.due \ {i} /\ u.cur = i
        /\ u.todo = PendingLinks(txn.cils, txn.sn, i)
        /\ u.cils = txn.cils
        /\ u.sn = txn.sn /\ u.group = txn.group /\ u.mode = txn.mode
        /\ u.inv = txn.inv
        /\ txn' = u /\ UNCHANGED tables
  BY NextInvoiceSteps
<1>4. TxnReceipts(u)
  BY <1>1, <1>2, <1>3 DEF TxnReceipts
<1> QED
  BY <1>3, <1>4, KeptCfs DEF tables, jobVars

LEMMA TakeCreditCfs ==
    ASSUME IInv, LinksInv, BookInv, CfsInv, txn.open, TakeCredit,
           UNCHANGED jobVars
    PROVE  CfsInv'
<1>1. /\ txn \in Txn /\ txn # NoTxn /\ txn.need \in Nat /\ TxnLinks(txn)
      /\ TxnReceipts(txn) /\ txn.lastCil \in Nat
  BY TxnSets, TxnFields DEF CfsInv
<1>2. txn.todo = {} /\ txn.need > 0 /\ UNCHANGED tables
  BY TakeCreditSteps
<1>3. CASE txn' = [txn EXCEPT !.need = 0]
  <2>1. PICK u : u = [txn EXCEPT !.need = 0]
    OBVIOUS
  <2>2. SameWork(txn, u) /\ u.todo = txn.todo /\ u.cils = txn.cils
    BY <1>1, <2>1 DEF SameWork, Txn
  <2> QED
    BY <1>1, <1>2, <1>3, <2>1, <2>2, SameCfs
<1>4. CASE txn' # [txn EXCEPT !.need = 0]
  <2>1. PICK c, x, L, last : Takes(c, x, L, last)
    BY <1>4, TakeCreditSteps
  <2> DEFINE n == txn.rem[c] - x
             need == txn.need - x
  <2>2. /\ txn.rem \in [Credits -> Nat] /\ txn.need \in Nat
        /\ txn.cils \in SUBSET Cil /\ txn.lastCil \in Nat /\ txn.refill \in Nat
    BY <1>1, TxnFields
  <2>3. /\ c \in Credits /\ c \in CreditsOf(txn.sn) /\ txn.rem[c] \in Nat
        /\ x \in Nat /\ x <= txn.rem[c] /\ x <= txn.need
    BY <2>1, <2>2 DEF Takes, CreditsOf
  <2>4. n \in Nat /\ need \in Nat
    BY <2>2, <2>3
  <2>5. L \in SUBSET Cil /\ last \in Nat
    BY <2>1, <2>2 DEF Takes, PaidBy
  <2>6. PICK u : u = SetCredit(txn, c, n, need, txn.refill, L, last) /\ txn' = u
    BY <2>1 DEF Takes
  <2> HIDE DEF n, need
  <2>7. u.cils = L /\ u.mode = txn.mode
    <3>1. /\ u \in Txn
          /\ u.inv = txn.inv /\ u.due = txn.due /\ u.cils = L
          /\ u.todo = txn.todo
          /\ u.rem = [txn.rem EXCEPT ![c] = n]
          /\ u.lastCil = last /\ u.sn = txn.sn /\ u.group = txn.group
          /\ u.mode = txn.mode /\ u.cur = txn.cur /\ u.need = need
          /\ u.refill = txn.refill /\ u.refunds = txn.refunds
      BY <1>1, <2>2, <2>3, <2>4, <2>5, <2>6, SetCreditType
    <3> QED
      BY <3>1
  <2>8. txn.mode = "CANCEL"
    BY <1>1, <1>2 DEF TxnLinks, Pays
  <2>9. \A l \in L : l.id # 0
    BY <1>1, <2>1 DEF Takes, PaidBy, TxnReceipts
  <2>10. TxnReceipts(u)
    BY <2>7, <2>8, <2>9 DEF TxnReceipts
  <2> QED
    BY <1>2, <2>6, <2>10, KeptCfs DEF tables, jobVars
<1> QED
  BY <1>3, <1>4

LEMMA RefillCreditCfs ==
    ASSUME IInv, LinksInv, BookInv, CfsInv, txn.open, RefillCredit,
           UNCHANGED jobVars
    PROVE  CfsInv'
<1>1. txn \in Txn /\ txn # NoTxn
  BY TxnSets
<1>2. CASE Rollback
  BY <1>1, <1>2, KeptCfs DEF Rollback, tables, jobVars
<1>3. CASE ~ Rollback
  <2>1. PICK u, c, x :
          /\ txn.refill > 0 /\ UNCHANGED tables
          /\ c \in CreditsOf(txn.sn) /\ c <= deposits
          /\ x \in Nat /\ x <= txn.refill
          /\ txn.rem[c] + x <= Amount[c]
          /\ u = SetCredit(txn, c, txn.rem[c] + x, txn.need,
                           txn.refill - x, txn.cils, txn.lastCil)
          /\ txn' = u
    BY <1>3, RefillCreditSteps
  <2> DEFINE n == txn.rem[c] + x
             refill == txn.refill - x
             need == txn.need
             L == txn.cils
             last == txn.lastCil
  <2>2. /\ txn.rem \in [Credits -> Nat] /\ need \in Nat
        /\ txn.refill \in Nat
        /\ L \in SUBSET Cil /\ last \in Nat /\ c \in Credits
    BY <1>1, <2>1, TxnFields DEF CreditsOf
  <2>3. txn.rem[c] \in Nat
    BY <2>2
  <2>4. n \in Nat /\ refill \in Nat
    BY <2>1, <2>2, <2>3
  <2>5. u = SetCredit(txn, c, n, need, refill, L, last)
    BY <2>1
  <2> HIDE DEF n, refill, need, L, last
  <2>6. SameWork(txn, u) /\ u.todo = txn.todo /\ u.cils = L
    <3>1. /\ u \in Txn
          /\ u.inv = txn.inv /\ u.due = txn.due /\ u.cils = L
          /\ u.todo = txn.todo
          /\ u.rem = [txn.rem EXCEPT ![c] = n]
          /\ u.lastCil = last /\ u.sn = txn.sn /\ u.group = txn.group
          /\ u.mode = txn.mode /\ u.cur = txn.cur /\ u.need = need
          /\ u.refill = refill /\ u.refunds = txn.refunds
      <4>1. need \in Nat /\ L \in SUBSET Cil /\ last \in Nat /\ c \in Credits
        BY <2>2
      <4> QED
        BY <1>1, <2>4, <2>5, <4>1, SetCreditType
    <3> QED
      BY <3>1 DEF SameWork
  <2> QED
    BY <1>1, <2>1, <2>6, SameCfs DEF L
<1> QED
  BY <1>2, <1>3

LEMMA TxnStepCfs ==
    ASSUME IInv, LinksInv, BookInv, CfsInv, TxnStep, UNCHANGED jobVars
    PROVE  CfsInv'
BY ReturnCreditCfs, NextInvoiceCfs, TakeCreditCfs, RefillCreditCfs,
   CommitCfs DEF TxnStep

-----------------------------------------------------------------------------
(* The requests.                                                           *)

\* A request that returns nothing that is completed, or the latest payment.
LEMMA BegunCfs ==
    ASSUME IInv, LinksInv, CfsInv, NEW t, t.cils = cils, t.group = lastGroup + 1,
           t.mode = "PENDING_REFUND" =>
             (\A l \in t.todo : /\ l \in cils /\ l.status = "COMPLETED"
                                /\ Newest(cils, l)),
           Begin(t) \/ BeginGroup(t), UNCHANGED jobVars
    PROVE  CfsInv'
<1>1. /\ UNCHANGED <<cils, inv, ref, job, cfsTodo, cfs, brokenOff>>
      /\ txn' = t
      /\ Receipts(cils)
  BY DEF Begin, BeginGroup, tables, jobVars, CfsInv
<1>2. lastGroup \in Nat /\ \A l \in cils : l.group \in Nat /\ l.group <= lastGroup
  BY CilFields DEF IInv, TypeOK, LinksInv, Groups
<1>3. \A l \in cils : l.group # t.group
  BY <1>2
<1>4. ASSUME t.mode = "PENDING_REFUND", NEW l \in Touched(t)
      PROVE  Unreturned(cils, l)
  <2>1. l \in t.todo
    BY <1>3, <1>4 DEF Touched
  <2> QED
    BY <1>1, <1>4, <2>1 DEF Receipts
<1>5. TxnReceipts(t)
  BY <1>1, <1>4 DEF TxnReceipts, Receipts
<1> QED
  BY <1>1, <1>5, KeptCfs

LEMMA StartsCfs ==
    ASSUME IInv, LinksInv, CfsInv, NEW sn, NEW act, NEW todo, NEW mode,
           NEW due, NEW need, NEW refill, NEW rows, NEW refs,
           mode = "PENDING_REFUND" =>
             (\A l \in todo : /\ l \in cils /\ l.status = "COMPLETED"
                              /\ Newest(cils, l)),
           NEW t, t = Started(NewTxn(sn), act, todo, mode, due, need, refill,
                              rows, refs),
           Begin(t) \/ BeginGroup(t), UNCHANGED jobVars
    PROVE  CfsInv'
<1>1. AtStart(t, sn, todo, mode, due, need, refill, rows, refs)
  BY StartsAt
<1>2. /\ t.cils = cils /\ t.group = lastGroup + 1 /\ t.mode = mode
      /\ t.todo = todo
  BY <1>1 DEF AtStart
<1> QED
  BY <1>2, BegunCfs

LEMMA ReversePaymentCfs ==
    ASSUME IInv, LinksInv, CfsInv, NEW sn \in ShortNames, NEW s \in Statements,
           ReversePayment(sn, s), UNCHANGED jobVars
    PROVE  CfsInv'
<1>1. PICK t, todo :
        /\ Reverses(sn, s, todo)
        /\ t = Started(NewTxn(sn), active, todo, "PENDING_REFUND",
                       {}, 0, 0, inv, refunds)
        /\ BeginGroup(t)
  BY ReversePaymentTodo
<1>2. \A l \in todo : l \in cils /\ l.status = "COMPLETED" /\ Newest(cils, l)
  BY <1>1 DEF Reverses, ReversibleLinks, Newest, LinksOf
<1> QED
  BY <1>1, <1>2, StartsCfs

LEMMA RefundCfs ==
    ASSUME PartialAmounts = {}, IInv, LinksInv, CfsInv, NEW i \in Invoices,
           \/ RefundLinkedInvoice(i)
           \/ \E x \in PartialAmounts : PartialRefund(i, x),
           UNCHANGED jobVars
    PROVE  CfsInv'
<1>1. PICK t, latest, todo, mode, rows :
        /\ latest \in LinksOf(i) /\ IsLatest(latest)
        /\ \/ /\ latest.status = "PENDING" /\ mode = "REGROUP"
              /\ todo = GroupOf(i, latest)
           \/ /\ latest.status = "COMPLETED"
              /\ mode \in {"PENDING_REFUND", "REFUNDED"}
              /\ todo = GroupOf(i, latest)
           \/ mode = "PENDING_REFUND" /\ todo = {}
        /\ t = Started(NewTxn(DepositedBy[latest.credit]), active, todo,
                       mode, {}, 0, 0, rows, refunds)
        /\ BeginGroup(t)
  BY RefundStarts, ZenonT(40)
<1>2. /\ GroupOf(i, latest) \subseteq cils
      /\ \A l \in GroupOf(i, latest) : l.status = latest.status
      /\ \A l \in GroupOf(i, latest), m \in cils :
           l.invoice = m.invoice => m.group <= l.group
  BY <1>1, LatestGroup
<1>3. mode = "PENDING_REFUND" =>
        (\A l \in todo : /\ l \in cils /\ l.status = "COMPLETED"
                         /\ Newest(cils, l))
  BY <1>1, <1>2 DEF Newest
<1> QED
  BY <1>1, <1>3, StartsCfs

LEMMA PaymentCfs ==
    ASSUME IInv, LinksInv, CfsInv, NEW sn \in ShortNames, NEW a \in Accounts,
           \/ CreateShortNameLink(sn, a)
           \/ \E S \in StatementChoice :
                ApplyPayment(sn, a, S) \/ CancelPayment(sn, a, S),
           UNCHANGED jobVars
    PROVE  CfsInv'
<1>1. CASE CreateShortNameLink(sn, a)
  <2>1. PICK t, due :
          /\ t = Started(NewTxn(sn), active \cup {<<sn, a>>}, {}, "CANCEL",
                         due, 0, 0, inv, refunds)
          /\ Begin(t) \/ BeginGroup(t)
    BY <1>1, CreateShortNameLinkStarts
  <2> QED
    BY <2>1, StartsCfs
<1>2. ASSUME NEW S, ApplyPayment(sn, a, S)
      PROVE  CfsInv'
  <2>1. PICK t : /\ t = Started(NewTxn(sn), active, {}, "CANCEL",
                                Owing(a, S), 0, 0, inv, refunds)
                 /\ BeginGroup(t)
    BY <1>2, ApplyPaymentStarts
  <2> QED
    BY <2>1, StartsCfs
<1>3. ASSUME NEW S, CancelPayment(sn, a, S)
      PROVE  CfsInv'
  <2>1. PICK t : /\ t = Started(NewTxn(sn), active, PendingOf(sn, a, S),
                                "CANCEL", {}, 0, 0, inv, refunds)
                 /\ Begin(t)
    BY <1>3, CancelPaymentStarts
  <2> QED
    BY <2>1, StartsCfs
<1> QED
  BY <1>1, <1>2, <1>3

LEMMA ShortNameRefundCfs ==
    ASSUME IInv, LinksInv, CfsInv, NEW r \in Refunds,
           \/ \E sn \in ShortNames, x \in RefundAmounts :
                CreateShortNameRefund(r, sn, x)
           \/ DeclineShortNameRefund(r),
           UNCHANGED jobVars
    PROVE  CfsInv'
<1>1. ASSUME NEW sn \in ShortNames, NEW x \in RefundAmounts,
             CreateShortNameRefund(r, sn, x)
      PROVE  CfsInv'
  <2>1. PICK t :
          /\ t = Started(NewTxn(sn), active, {}, "CANCEL", {}, x, 0, inv,
                         [refunds EXCEPT ![r] = NewRefund(sn, x)])
          /\ Begin(t)
    BY <1>1, CreateShortNameRefundStarts
  <2> QED
    BY <2>1, StartsCfs
<1>2. CASE DeclineShortNameRefund(r)
  <2>1. PICK t, row :
          /\ t = Started(NewTxn(refunds[r].sn), active, {}, "CANCEL", {}, 0,
                         refunds[r].amount, inv, [refunds EXCEPT ![r] = row])
          /\ Begin(t)
    BY <1>2, DeclineShortNameRefundStarts
  <2> QED
    BY <2>1, StartsCfs
<1> QED
  BY <1>1, <1>2

\* An invoice that is owed was owed before.
LEMMA RowsCfs ==
    ASSUME CfsInv, txn = NoTxn,
           UNCHANGED <<cils, ref, txn, job, cfsTodo, cfs, brokenOff>>,
           job = IdleJob, cfsTodo = {},
           \A i \in Invoices : Owed(inv'[i]) => Owed(inv[i])
    PROVE  CfsInv'
<1>1. job.cur = NoItem
  BY DEF IdleJob
<1>2. Receipts(cils)' /\ Referenced'
  BY DEF CfsInv, Referenced
<1>3. \A i : (InFlight(i)' <=> InFlight(i)) /\ (Agreed(i)' <=> Agreed(i))
  BY DEF InFlight, Agreed
<1> QED
  BY <1>1, <1>2, <1>3 DEF CfsInv

LEMMA SetInvoiceCfs ==
    ASSUME IInv, CfsInv, job = IdleJob, cfsTodo = {}, txn = NoTxn,
           UNCHANGED jobVars, NEW i \in Invoices,
           CreateInvoice(i) \/ RefundUnlinkedInvoice(i)
    PROVE  CfsInv'
<1>1. UNCHANGED <<cils, ref, txn, job, cfsTodo, cfs, brokenOff>>
  BY DEF CreateInvoice, RefundUnlinkedInvoice, SetInvoice, jobVars
<1>2. PICK row : inv' = [inv EXCEPT ![i] = row] /\ (Owed(inv[i]) \/ ~Owed(row))
  <2>1. CASE CreateInvoice(i)
    BY <2>1 DEF CreateInvoice, SetInvoice, Owed
  <2>2. CASE RefundUnlinkedInvoice(i)
    <3> DEFINE row == [inv[i] EXCEPT !.requested = TRUE, !.refund = Total[i],
                                     !.status = UnlinkedStatus(i)]
    <3>1. inv' = [inv EXCEPT ![i] = row]
      BY <2>2 DEF RefundUnlinkedInvoice, SetInvoice
    <3>2. row.status = UnlinkedStatus(i)
      BY TablesType DEF Invoice
    <3> HIDE DEF row
    <3>3. ~Owed(row)
      BY <3>2 DEF UnlinkedStatus, Owed
    <3> QED
      BY <3>1, <3>3
  <2> QED
    BY <2>1, <2>2
<1>3. \A j \in Invoices : Owed(inv'[j]) => Owed(inv[j])
  <2>1. inv \in [Invoices -> Invoice]
    BY TablesType
  <2> QED
    BY <1>2, <2>1
<1> QED
  BY <1>1, <1>3, RowsCfs

LEMMA RequestCfs ==
    ASSUME PartialAmounts = {}, IInv, LinksInv, CfsInv, JobsIdle, Request,
           UNCHANGED jobVars
    PROVE  CfsInv'
<1>1. Idle /\ job = IdleJob /\ cfsTodo = {} /\ txn = NoTxn
  BY DEF Request, JobsIdle, Idle
<1>2. ASSUME NEW sn \in ShortNames, NEW a \in Accounts,
             \/ CreateShortNameLink(sn, a)
             \/ \E S \in StatementChoice :
                  ApplyPayment(sn, a, S) \/ CancelPayment(sn, a, S)
      PROVE  CfsInv'
  BY <1>2, PaymentCfs
<1>3. CASE \E sn \in ShortNames, s \in Statements : ReversePayment(sn, s)
  BY <1>3, ReversePaymentCfs
<1>4. CASE \E i \in Invoices : \/ RefundLinkedInvoice(i)
                               \/ \E x \in PartialAmounts : PartialRefund(i, x)
  BY <1>4, RefundCfs
<1>5. CASE \E r \in Refunds : \/ \E sn \in ShortNames, x \in RefundAmounts :
                                   CreateShortNameRefund(r, sn, x)
                              \/ DeclineShortNameRefund(r)
  BY <1>5, ShortNameRefundCfs
<1>6. CASE \E i \in Invoices : CreateInvoice(i) \/ RefundUnlinkedInvoice(i)
  BY <1>1, <1>6, SetInvoiceCfs
<1>7. CASE \/ CreateCredit
           \/ \E s \in Statements : GenerateStatement(s)
           \/ \E sn \in ShortNames, a \in Accounts : PatchShortNameLink(sn, a)
           \/ \E r \in Refunds : ApproveShortNameRefund(r)
  <2>1. UNCHANGED <<cils, inv, ref, txn>>
    BY <1>7 DEF CreateCredit, GenerateStatement, PatchShortNameLink,
       ApproveShortNameRefund
  <2> QED
    BY <1>1, <2>1, KeptCfs DEF jobVars
<1> QED
  BY <1>1, <1>2, <1>3, <1>4, <1>5, <1>6, <1>7 DEF Request

-----------------------------------------------------------------------------
(* The steps of the job.                                                   *)

\* What an item found.
LEMMA ItemFields ==
    ASSUME IInv, NEW k \in RollupKey, NEW item, item = ItemOf(k)
    PROVE  /\ item \in Item /\ item # NoItem /\ item.key = k
           /\ item.ids = {l.id : l \in RolledUp(k)}
           /\ item.refunding <=> inv[k.invoice].status = "REFUND_REQUESTED"
           /\ item.found = FoundRef(k)
<1>1. item \in Item
  BY ItemOfType
<1>2. item # NoItem
  BY <1>1, JobTables
<1> QED
  BY <1>1, <1>2 DEF ItemOf

\* CFS is told of no other invoice than one whose item breaks off.
Spares ==
    \A i \in Invoices : i \notin brokenOff' =>
      i \notin brokenOff /\ cfs'[i] = cfs[i] /\ ~InFlight(i)

\* A step of the job that leaves it without an item in hand.
LEMMA JobStepCfs ==
    ASSUME CfsInv, Idle, UNCHANGED <<cils, inv, ref, cfsTodo, txn>>,
           Spares, job'.cur = NoItem,
           job'.phase = "UNLINKED" =>
             \A k \in job'.todo : k.status = "CANCELLED"
    PROVE  CfsInv'
<1>1. Receipts(cils)' /\ Referenced'
  BY DEF CfsInv, Referenced
<1>2. \A i \in Invoices : Agreed(i)'
  BY DEF CfsInv, Spares, Agreed
<1> QED
  BY <1>1, <1>2 DEF CfsInv, Idle

LEMMA QueriesCfs ==
    ASSUME CfsInv, Idle, \/ EftJobStart \/ UnlinkedJobStart \/ EftJobEnd
                         \/ UnlockOverdueAccounts
    PROVE  CfsInv'
<1>1. CASE UnlockOverdueAccounts
  <2>1. /\ UNCHANGED <<cils, inv, ref, cfs, brokenOff, cfsTodo, txn>>
        /\ job.cur = NoItem
        /\ job' = Queried("REVERSE", ToReverse)
    BY <1>1 DEF UnlockOverdueAccounts
  <2>2. job'.cur = NoItem /\ job'.phase = "REVERSE"
    BY <2>1, QueriedFields
  <2> QED
    BY <2>1, <2>2, JobStepCfs DEF Spares, InFlight
<1>2. CASE EftJobStart
  <2>1. /\ UNCHANGED <<cils, inv, ref, cfs, brokenOff, cfsTodo, txn>>
        /\ job.cur = NoItem
        /\ job' = Queried("LINK", ToLink)
    BY <1>2 DEF EftJobStart, CfsUntouched, IdleJob, WithinJob, eftVars
  <2>2. job'.cur = NoItem /\ job'.phase = "LINK"
    BY <2>1, QueriedFields
  <2> QED
    BY <2>1, <2>2, JobStepCfs DEF Spares, InFlight
<1>3. CASE UnlinkedJobStart
  <2>1. /\ UNCHANGED <<cils, inv, ref, cfs, brokenOff, cfsTodo, txn>>
        /\ job.cur = NoItem
        /\ job' = Queried("UNLINKED", Unlinked)
    BY <1>3 DEF UnlinkedJobStart, CfsUntouched, WithinJob, eftVars
  <2>2. job'.cur = NoItem /\ job'.todo = Unlinked
    BY <2>1, QueriedFields
  <2>3. \A k \in Unlinked : k.status = "CANCELLED"
    BY DEF Unlinked, RefundKey
  <2> QED
    BY <2>1, <2>2, <2>3, JobStepCfs DEF Spares, InFlight
<1>4. CASE EftJobEnd
  <2>1. /\ UNCHANGED <<cils, inv, ref, cfs, brokenOff, cfsTodo, txn>>
        /\ job.cur = NoItem
        /\ job'.cur = NoItem /\ job'.phase = "IDLE"
    BY <1>4 DEF EftJobEnd, CfsUntouched, WithinJob, eftVars, IdleJob
  <2> QED
    BY <2>1, JobStepCfs DEF Spares, InFlight
<1> QED
  BY <1>1, <1>2, <1>3, <1>4

\* A step that takes up an item.
LEMMA TakenUpCfs ==
    ASSUME CfsInv, Idle, UNCHANGED <<cils, inv, ref, brokenOff, cfsTodo, txn>>,
           job.cur = NoItem, NEW i \in Invoices, job'.cur.key.invoice = i,
           job'.cur # NoItem,
           \A j \in Invoices : j # i => cfs'[j] = cfs[j],
           ItemReceipt',
           job'.phase = "UNLINKED" =>
             \A k \in job'.todo : k.status = "CANCELLED"
    PROVE  CfsInv'
<1>1. Receipts(cils)' /\ Referenced'
  BY DEF CfsInv, Referenced
<1>2. \A j : ~InFlight(j) /\ (~InFlight(j)' => j # i)
  BY DEF InFlight
<1>3. \A j \in Invoices : ~InFlight(j)' => Agreed(j)'
  BY <1>2 DEF CfsInv, Agreed
<1> QED
  BY <1>1, <1>3 DEF CfsInv, Idle

\* The job after it has taken up an item.
LEMMA TakenUp ==
    ASSUME IInv, NEW k \in RollupKey, job.cur = NoItem, NEW item \in Item,
           job' = [Noted(k) EXCEPT !.cur = item]
    PROVE  /\ job'.cur = item /\ job'.phase = job.phase
           /\ job'.todo \subseteq job.todo
<1> DEFINE noted == Noted(k)
<1>1. /\ noted \in Job /\ noted.phase = job.phase /\ noted.todo = job.todo \ {k}
  BY NotedType
<1> HIDE DEF noted
<1>2. job' = [noted EXCEPT !.cur = item]
  BY DEF noted
<1> QED
  BY <1>1, <1>2 DEF Job

LEMMA LinkItemCfs ==
    ASSUME IInv, LinksInv, CfsInv, Idle, NEW k \in job.todo,
           LinkItemStart(k), job' # Noted(k), job' # IdleJob
    PROVE  CfsInv'
<1> DEFINE item == ItemOf(k)
           i == k.invoice
<1>1. /\ k \in RollupKey /\ i \in Invoices /\ cfs \in [Invoices -> CfsStatus]
      /\ k.status = "PENDING"
  BY JobTables DEF Job, RollupKey, LinksInv, JobTodo, LinkItemStart
<1>2. /\ job.phase = "LINK" /\ job.cur = NoItem /\ FoundRef(k) # "NONE"
      /\ job' = [Noted(k) EXCEPT !.cur = item]
      /\ cfs' = [cfs EXCEPT ![i] = "PAID"]
      /\ UNCHANGED <<cils, inv, ref, brokenOff, cfsTodo, txn>>
  BY DEF LinkItemStart, Skip, JobAborts, WithinJob, eftVars
<1>3. item \in Item /\ item # NoItem /\ item.key = k
  BY <1>1, ItemFields
<1> HIDE DEF item
<1>4. job'.cur = item /\ job'.phase = "LINK"
  BY <1>1, <1>2, <1>3, TakenUp
<1>5. ref[i] = "ACTIVE"
  BY <1>1, <1>2 DEF FoundRef
<1>6. ItemReceipt'
  BY <1>1, <1>2, <1>3, <1>4, <1>5 DEF ItemReceipt
<1>7. \A j \in Invoices : j # i => cfs'[j] = cfs[j]
  BY <1>1, <1>2
<1> QED
  BY <1>1, <1>2, <1>3, <1>4, <1>6, <1>7, TakenUpCfs

LEMMA UnlinkedItemCfs ==
    ASSUME IInv, LinksInv, CfsInv, Idle, NEW k \in job.todo,
           UnlinkedItemStart(k), job' # Noted(k)
    PROVE  CfsInv'
<1> DEFINE item == UnlinkedItemOf(k)
           i == k.invoice
<1>1. /\ k \in RollupKey /\ i \in Invoices /\ cfs \in [Invoices -> CfsStatus]
      /\ \A q \in job.todo : q.status = "CANCELLED"
  BY JobTables DEF Job, RollupKey, CfsInv, UnlinkedItemStart
<1>2. /\ job.phase = "UNLINKED" /\ job.cur = NoItem /\ ref[i] = "ACTIVE"
      /\ job' = [Noted(k) EXCEPT !.cur = item]
      /\ cfs' = [cfs EXCEPT ![i] = "REVERSED"]
      /\ UNCHANGED <<cils, inv, ref, brokenOff, cfsTodo, txn>>
  BY DEF UnlinkedItemStart, UnlinkedItemOf, Skip, WithinJob, eftVars
<1>3. /\ item \in Item /\ item # NoItem /\ item.key = k /\ item.ids = {}
      /\ item.refunding /\ item.found = FoundRef(k)
  <2>1. PICK it \in Item : it = ItemOf(k) /\ it.key = k /\ it.found = FoundRef(k)
    BY <1>1, ItemFields
  <2>2. item = [it EXCEPT !.refunding = TRUE, !.ids = {}]
    BY <2>1 DEF UnlinkedItemOf
  <2>3. /\ item \in Item /\ item.key = it.key /\ item.ids = {}
        /\ item.refunding /\ item.found = it.found
    BY <2>2 DEF Item
  <2> QED
    BY <2>1, <2>3, JobTables
<1> HIDE DEF item
<1>4. job'.cur = item /\ job'.phase = "UNLINKED" /\ job'.todo \subseteq job.todo
  BY <1>1, <1>2, <1>3, TakenUp
<1>5. item.found = "ACTIVE"
  BY <1>1, <1>2, <1>3 DEF FoundRef
<1>6. cfs'[i] = "REVERSED" /\ \A j \in Invoices : j # i => cfs'[j] = cfs[j]
  BY <1>1, <1>2
<1>7. ItemReceipt'
  BY <1>2, <1>3, <1>4, <1>5, <1>6 DEF ItemReceipt
<1> QED
  BY <1>1, <1>2, <1>3, <1>4, <1>6, <1>7, TakenUpCfs

\* What a reversal has found, by the list that it is on.
LEMMA ReverseItemFinds ==
    ASSUME IInv, LinksInv, BookInv, CfsInv, NEW k \in job.todo,
           ReverseItemStart(k), job' # Noted(k), job' # IdleJob,
           NEW item, item = ItemOf(k)
    PROVE  \/ /\ k.status = "PENDING_REFUND" /\ item.found = "COMPLETED"
              /\ ref[k.invoice] = "COMPLETED" /\ RolledUp(k) # {}
              /\ k.receipt # NoReceipt
           \/ /\ k.status = "CANCELLED" /\ item.refunding
              /\ item.found # "COMPLETED" /\ k.receipt = NoReceipt
              /\ item.found # "NONE" => ref[k.invoice] = item.found
<1>1. /\ k \in RollupKey /\ job.phase = "REVERSE" /\ ReverseBook
      /\ k.status \in {"PENDING_REFUND", "CANCELLED"}
  BY JobTables DEF Job, BookInv, JobBook, LinksInv, JobTodo, ReverseItemStart,
     AtReverseItem
<1>2. /\ item.refunding <=> inv[k.invoice].status = "REFUND_REQUESTED"
      /\ item.found = FoundRef(k)
  BY <1>1, ItemFields
<1>3. /\ RolledUp(k) # {}
      /\ item.found = "NONE" => k.status = "CANCELLED" /\ item.refunding
  <2>1. InRollup(k) /\ ~ LacksRef(k)
    BY DEF ReverseItemStart, Skip, JobAborts
  <2> QED
    BY <1>2, <2>1 DEF InRollup, LacksRef
<1>4. PICK l \in cils : /\ l.invoice = k.invoice /\ l.status = k.status
                        /\ l.receipt = k.receipt
  BY <1>3 DEF RolledUp
<1>5. CASE k.status = "PENDING_REFUND"
  <2>1. item.found = "COMPLETED" /\ ref[k.invoice] = "COMPLETED"
    BY <1>2, <1>3, <1>5 DEF FoundRef
  <2>2. PICK m \in cils : m.status = "COMPLETED" /\ SameReceipt(m, l)
    BY <1>4, <1>5 DEF LinksInv, Links, Follows, IsReturn
  <2>3. k.receipt # NoReceipt
    BY <1>4, <2>2 DEF CfsInv, Receipts, SameReceipt
  <2> QED
    BY <1>3, <1>5, <2>1, <2>3
<1>6. CASE k.status = "CANCELLED"
  <2>1. /\ item.found # "COMPLETED"
        /\ item.found # "NONE" => ref[k.invoice] = item.found
        /\ item.found # "NONE" => ref[k.invoice] = "ACTIVE"
    BY <1>2, <1>6 DEF FoundRef
  <2>2. k.receipt = NoReceipt
    BY <1>4, <1>6 DEF LinksInv, Links, Receipted
  <2>3. item.refunding
    BY <1>1, <1>2, <1>3, <1>6, <2>1 DEF ReverseBook
  <2> QED
    BY <1>6, <2>1, <2>2, <2>3
<1> QED
  BY <1>1, <1>5, <1>6

LEMMA ReverseItemCfs ==
    ASSUME IInv, LinksInv, BookInv, CfsInv, Idle, NEW k \in job.todo,
           ReverseItemStart(k), job' # Noted(k), job' # IdleJob
    PROVE  CfsInv'
<1> DEFINE item == ItemOf(k)
           i == k.invoice
<1>1. /\ k \in RollupKey /\ i \in Invoices /\ cfs \in [Invoices -> CfsStatus]
      /\ cils \in SUBSET Cil /\ job.phase = "REVERSE"
  BY JobTables DEF Job, RollupKey, ReverseItemStart, AtReverseItem
<1>2. /\ job.cur = NoItem
      /\ job' = [Noted(k) EXCEPT !.cur = item]
      /\ cfs' = [cfs EXCEPT ![i] =
                   IF item.refunding /\ item.found # "NONE" THEN "REVERSED"
                   ELSE IF k.receipt # NoReceipt THEN "OPEN" ELSE @]
      /\ UNCHANGED <<cils, inv, ref, brokenOff, cfsTodo, txn>>
  <2>1. /\ AtReverseItem(k) /\ WithinJob /\ UNCHANGED brokenOff
        /\ job' = [Noted(k) EXCEPT !.cur = item]
        /\ cfs' = [cfs EXCEPT ![i] =
                     IF ReversesInvoice(k) THEN "REVERSED"
                     ELSE IF k.receipt # NoReceipt THEN "OPEN" ELSE @]
    BY DEF ReverseItemStart, Skip, JobAborts
  <2>2. item.found = FoundRef(k)
    BY <1>1, ItemFields
  <2> QED
    BY <2>1, <2>2 DEF AtReverseItem, ReversesInvoice, WithinJob, eftVars
<1>3. /\ item \in Item /\ item # NoItem /\ item.key = k
      /\ item.ids = {l.id : l \in RolledUp(k)}
  BY <1>1, ItemFields
<1>4. \/ /\ k.status = "PENDING_REFUND" /\ item.found = "COMPLETED"
         /\ ref[i] = "COMPLETED" /\ RolledUp(k) # {}
         /\ k.receipt # NoReceipt
      \/ /\ k.status = "CANCELLED" /\ item.refunding
         /\ item.found # "COMPLETED" /\ k.receipt = NoReceipt
         /\ item.found # "NONE" => ref[i] = item.found
  BY <1>2, ReverseItemFinds
<1> HIDE DEF item
<1>5. job'.cur = item /\ job'.phase = "REVERSE"
  BY <1>1, <1>2, <1>3, TakenUp
<1>6. /\ \A j \in Invoices : j # i => cfs'[j] = cfs[j]
      /\ cfs'[i] = IF item.refunding /\ item.found # "NONE" THEN "REVERSED"
                   ELSE IF k.receipt # NoReceipt THEN "OPEN" ELSE cfs[i]
  BY <1>1, <1>2
<1>7. Agreed(i)
  BY <1>1, <1>2 DEF CfsInv, InFlight
<1>8. /\ item.found # "NONE" => ref[i] = item.found /\ cfs'[i] # "PAID"
      /\ item.found = "NONE" =>
           item.refunding /\ Agreed(i)'
      /\ ~item.refunding => item.found = "COMPLETED"
  BY <1>2, <1>4, <1>6, <1>7 DEF Agreed
<1>9. \A l \in cils : l.id \in item.ids <=> l \in RolledUp(k)
  BY <1>3 DEF RolledUp, LinksInv, Links, Numbered
<1>10. \A l \in cils : l.id \in item.ids
         => l.invoice = i /\ l.status = k.status
  BY <1>9 DEF RolledUp
<1>11. k.status = "PENDING_REFUND" =>
         /\ \E l \in LinksOf(i) : l.id \in item.ids /\ l.status = "PENDING_REFUND"
         /\ \A l \in LinksOf(i) :
              /\ l.status = "PENDING_REFUND" /\ l.receipt = k.receipt
              => l.id \in item.ids
  BY <1>4, <1>9 DEF RolledUp, LinksOf
<1>12. LinksOf(i)' = LinksOf(i)
  BY <1>2 DEF LinksOf
<1>13. ItemReceipt'
  BY <1>2, <1>3, <1>4, <1>5, <1>8, <1>10, <1>11, <1>12 DEF ItemReceipt
<1> QED
  BY <1>1, <1>2, <1>3, <1>5, <1>6, <1>13, TakenUpCfs

LEMMA ItemStartsCfs ==
    ASSUME IInv, LinksInv, BookInv, CfsInv, Idle, NEW k \in job.todo,
           ItemStarts(k)
    PROVE  CfsInv'
<1>1. /\ k \in RollupKey /\ job.cur = NoItem
  BY ItemStartSteps
<1>2. ASSUME job' = Noted(k) \/ job' = IdleJob
      PROVE  CfsInv'
  <2>1. /\ job'.cur = NoItem /\ job'.todo \subseteq job.todo
        /\ job'.phase \in {job.phase, "IDLE"}
    BY <1>1, <1>2, LooksAt
  <2>2. UNCHANGED <<cils, inv, ref, cfsTodo, txn>>
    BY GivenUp DEF ItemStarts, LinkItemStart, ReverseItemStart,
       UnlinkedItemStart, WithinJob, eftVars
  <2>3. CASE ~ ItemGivenUp(k)
    <3>1. ASSUME NEW item PROVE [Noted(k) EXCEPT !.cur = item].cur = item
      BY <1>1, NotedType DEF Job
    <3>2. ItemOf(k) # NoItem /\ UnlinkedItemOf(k) # NoItem
      <4>1. PICK it \in Item : it = ItemOf(k)
        BY <1>1, ItemFields
      <4>2. [it EXCEPT !.refunding = TRUE, !.ids = {}] \in Item
        BY DEF Item
      <4> QED
        BY <4>1, <4>2, JobTables DEF UnlinkedItemOf
    <3>3. /\ job' # [Noted(k) EXCEPT !.cur = ItemOf(k)]
          /\ job' # [Noted(k) EXCEPT !.cur = UnlinkedItemOf(k)]
      BY <2>1, <3>1, <3>2
    <3>4. UNCHANGED <<cfs, brokenOff>>
      BY <2>3, <3>3 DEF ItemStarts, LinkItemStart, ReverseItemStart,
         UnlinkedItemStart, UnlinkedItemOf, CfsUntouched
    <3>5. Spares
      BY <1>1, <3>4 DEF Spares, InFlight
    <3> QED
      BY <2>1, <2>2, <3>5, JobStepCfs DEF CfsInv
  <2>4. CASE ItemGivenUp(k)
    <3>1. /\ brokenOff \subseteq brokenOff'
          /\ \A i \in Invoices : cfs'[i] = cfs[i] \/ i \in brokenOff'
      BY <1>1, <2>4, JobTables, CfsTables DEF ItemGivenUp, ItemFails,
         LinkItemBreaksOff, ReverseItemBreaksOff, CfsUntouched, CfsTypes
    <3>2. Spares
      BY <1>1, <3>1 DEF Spares, InFlight
    <3> QED
      BY <2>1, <2>2, <3>2, JobStepCfs DEF CfsInv
  <2> QED
    BY <2>3, <2>4
<1>3. CASE job' # Noted(k) /\ job' # IdleJob
  BY <1>3, GivenUp, LinkItemCfs, ReverseItemCfs, UnlinkedItemCfs DEF ItemStarts
<1> QED
  BY <1>2, <1>3

-----------------------------------------------------------------------------
(* The end of an item.                                                     *)

\* Whether an invoice has a receipt depends on its links only.
LEMMA SameReceipts ==
    ASSUME NEW K, NEW L, NEW i, On(K, i) = On(L, i)
    PROVE  HasReceipt(K, i) <=> HasReceipt(L, i)
<1>1. \A l : l \in K /\ l.invoice = i <=> l \in L /\ l.invoice = i
  BY DEF On
<1>2. \A l : l.invoice = i => (Unreturned(K, l) <=> Unreturned(L, l))
  BY <1>1 DEF Unreturned
<1>3. \A l : l \in K /\ l.invoice = i /\ Standing(K, l)
               <=> l \in L /\ l.invoice = i /\ Standing(L, l)
  BY <1>1, <1>2 DEF Standing
<1> QED
  BY <1>3 DEF HasReceipt

\* The copies that the end of an item makes of the links.
Copies(K, U, receipt) ==
    /\ K = {U[l] : l \in cils}
    /\ \A l \in cils :
         /\ U[l].id = l.id /\ U[l].invoice = l.invoice /\ U[l].group = l.group
         /\ \/ U[l] = l
            \/ U[l].receipt = receipt /\ l.id \in job.cur.ids
                 /\ l.status # "CANCELLED"

LEMMA CopiesMade ==
    ASSUME IInv, job.cur # NoItem, NEW status, NEW receipt,
           NEW K, K = UpdateLinks(job.cur, status, receipt),
           NEW U, U = [l \in cils |-> Updated(l, status, receipt)]
    PROVE  Copies(K, U, receipt)
<1>1. K = {U[l] : l \in cils}
  BY ZenonT(40) DEF UpdateLinks, Updated
<1>2. cils \in SUBSET Cil
  BY JobTables
<1>3. \A l \in cils :
        /\ U[l].id = l.id /\ SameCredit(l, U[l]) /\ U[l].group = l.group
        /\ (l.id \in job.cur.ids /\ l.status # "CANCELLED"
             => U[l].receipt = receipt)
        /\ (l.id \notin job.cur.ids \/ l.status = "CANCELLED" => U[l] = l)
  BY <1>2, UpdatedFields
<1> QED
  BY <1>1, <1>3 DEF Copies, SameCredit

\* What is newest stays so.
LEMMA CopiesNewest ==
    ASSUME NEW K, NEW U, NEW receipt, Copies(K, U, receipt), NEW l \in cils,
           Newest(K, l)
    PROVE  Newest(cils, l)
BY DEF Copies, Newest

\* Pending links are completed: the invoice has a receipt.
LEMMA LinkedReceipts ==
    ASSUME IInv, LinksInv, BookInv, CfsInv, job.phase = "LINK",
           job.cur # NoItem, NEW i, i = job.cur.key.invoice,
           NEW r, r = MinId(job.cur.ids),
           NEW K, NEW U, UpdatedTo(K, U, i, "COMPLETED"), Copies(K, U, r)
    PROVE  Receipts(K) /\ HasReceipt(K, i)
<1>1. /\ LinkPage(i) /\ Receipts(cils) /\ cils \in SUBSET Cil
  BY JobTables, LinkItemPage DEF CfsInv
<1>2. /\ i \in Invoices /\ Open(cils, i) # {}
      /\ \A l \in cils : l.id \in job.cur.ids <=> l \in Open(cils, i)
  BY <1>1 DEF LinkPage
<1>3. ~HasReceipt(cils, i)
  BY <1>2 DEF CfsInv, ItemReceipt, Referenced
<1>4. r \in job.cur.ids /\ \E l \in cils : l.id = r
  <2>1. job.cur.ids \in SUBSET Nat /\ job.cur.ids # {}
    BY <1>1, JobTables DEF GoodJob, Job, Item
  <2>2. r \in job.cur.ids
    BY <2>1, MinIdType
  <2>3. job.cur.ids = {l.id : l \in Open(cils, i)}
    BY DEF BookInv, JobBook, LinkBook
  <2> QED
    BY <2>2, <2>3 DEF Open
<1>5. r # 0
  BY <1>1, <1>4 DEF Receipts
<1>6. \A l \in cils :
        /\ l \in Open(cils, i) => U[l].status = "COMPLETED" /\ U[l].receipt = r
                                   /\ U[l].invoice = i
        /\ l \notin Open(cils, i) => U[l] = l
  <2> SUFFICES ASSUME NEW l \in cils
               PROVE  /\ l \in Open(cils, i) => U[l].status = "COMPLETED"
                                   /\ U[l].receipt = r /\ U[l].invoice = i
                      /\ l \notin Open(cils, i) => U[l] = l
    OBVIOUS
  <2>1. CASE l \in Open(cils, i)
    <3>1. l.status = "PENDING" /\ l.id \in job.cur.ids /\ l.invoice = i
      BY <1>2, <2>1 DEF Open
    <3>2. U[l].status = "COMPLETED" /\ U[l].invoice = i
      BY <3>1 DEF UpdatedTo
    <3>3. U[l] # l
      BY <3>1, <3>2
    <3> QED
      BY <2>1, <3>2, <3>3 DEF Copies
  <2>2. CASE l \notin Open(cils, i)
    BY <1>2, <2>2 DEF Copies
  <2> QED
    BY <2>1, <2>2
<1>7. /\ \A k \in K : \/ k \in cils
                      \/ k.status = "COMPLETED" /\ k.receipt = r /\ k.invoice = i
      /\ \A k \in K : k.id # 0
      /\ \A l \in cils : l.status # "PENDING" => l \in K
  <2>1. \A l \in cils : l \in Open(cils, i) => l.status = "PENDING"
    BY DEF Open
  <2>2. \A k \in K : \E l \in cils : k = U[l] /\ U[l].id = l.id
    BY DEF Copies
  <2>3. \A l \in cils : U[l] \in K
    BY DEF Copies
  <2> QED
    BY <1>1, <1>6, <2>1, <2>2, <2>3 DEF Receipts
<1>8. \A m : m.status = "REFUNDED" => (m \in K <=> m \in cils)
  BY <1>7
<1>9. \A l : Unreturned(K, l) <=> Unreturned(cils, l)
  BY <1>8, SameUnreturned
<1>10. \A m \in cils : m.invoice = i /\ m.status = "REFUNDED" => m.receipt # r
  <2> SUFFICES ASSUME NEW m \in cils, m.status = "REFUNDED"
               PROVE  m.receipt # r
    OBVIOUS
  <2>1. PICK l \in cils : l.status = "COMPLETED" /\ SameReceipt(l, m)
    BY DEF LinksInv, Links, Follows, IsReturn
  <2>2. l.receipt \notin job.cur.ids
    BY <2>1 DEF LinksInv, JobLinks
  <2> QED
    BY <1>4, <2>1, <2>2 DEF SameReceipt
<1>11. \A k \in K : k \notin cils => Standing(K, k)
  <2> SUFFICES ASSUME NEW k \in K, k \notin cils
               PROVE  Standing(K, k)
    OBVIOUS
  <2>1. k.status = "COMPLETED" /\ k.receipt = r /\ k.invoice = i
    BY <1>7
  <2>2. Unreturned(cils, k)
    BY <1>10, <2>1 DEF Unreturned
  <2> QED
    BY <1>9, <2>1, <2>2 DEF Standing
<1>12. HasReceipt(K, i)
  <2>1. PICK l \in cils : l \in Open(cils, i)
    BY <1>2 DEF Open
  <2>2. U[l] \in K /\ U[l].status = "COMPLETED" /\ U[l].receipt = r
        /\ U[l].invoice = i
    BY <1>6, <2>1 DEF Copies
  <2>3. Unreturned(cils, U[l])
    BY <1>10, <2>2 DEF Unreturned
  <2> QED
    BY <1>9, <2>2, <2>3 DEF HasReceipt, Standing
<1>13. \A k \in K : k.status = "COMPLETED" => k.receipt # NoReceipt
  BY <1>1, <1>5, <1>7 DEF Receipts, NoReceipt
<1>14. ASSUME NEW k \in K, k.status = "COMPLETED", Newest(K, k)
       PROVE  Unreturned(K, k)
  <2>1. CASE k \in cils
    BY <1>1, <1>9, <1>14, <2>1, CopiesNewest DEF Receipts
  <2>2. CASE k \notin cils
    BY <1>11, <2>2 DEF Standing
  <2> QED
    BY <2>1, <2>2
<1>15. ASSUME NEW k \in K, NEW m \in K, Standing(K, k), Standing(K, m),
              k.invoice = m.invoice
       PROVE  k.receipt = m.receipt
  <2>1. \A n \in K : n \in cils /\ Standing(K, n)
          => Standing(cils, n) /\ n.invoice # i
    BY <1>3, <1>9 DEF Standing, HasReceipt
  <2>2. CASE k \in cils /\ m \in cils
    BY <1>1, <1>15, <2>1, <2>2 DEF Receipts
  <2>3. CASE k \notin cils \/ m \notin cils
    BY <1>7, <1>15, <2>1, <2>3
  <2> QED
    BY <2>2, <2>3
<1>16. \A k \in K : k.status = "PENDING_REFUND" => Unreturned(K, k)
  BY <1>1, <1>7, <1>9 DEF Receipts
<1>17. Receipts(K)
  BY <1>7, <1>13, <1>14, <1>15, <1>16 DEF Receipts
<1> QED
  BY <1>12, <1>17

LEMMA LinkItemEndCfs ==
    ASSUME IInv, LinksInv, BookInv, CfsInv, Idle, LinkItemEnd
    PROVE  CfsInv'
<1> DEFINE i == job.cur.key.invoice
           r == MinId(job.cur.ids)
           K == cils'
           U == [l \in cils |-> Updated(l, "COMPLETED", r)]
<1>1. /\ job.phase = "LINK" /\ job.cur # NoItem
      /\ ref' = [ref EXCEPT ![i] = "COMPLETED"]
      /\ inv' = [inv EXCEPT ![i].status = "PAID", ![i].paid = job.cur.ids]
      /\ K = UpdateLinks(job.cur, "COMPLETED", r)
      /\ job' = [job EXCEPT !.cur = NoItem]
      /\ UNCHANGED <<txn, cfsTodo, cfs, brokenOff>>
  BY DEF LinkItemEnd
<1>2. /\ job \in Job /\ job.cur \in Item /\ job.cur.ids # {} /\ i \in Invoices
      /\ ref \in [Invoices -> RefStatus] /\ inv \in [Invoices -> Invoice]
      /\ job # IdleJob
  BY <1>1, JobTables DEF GoodJob, Job, Item, RollupKey, IdleJob
<1>3. r \in Nat /\ "COMPLETED" \in CilStatus
  BY <1>2, MinIdType DEF Item, CilStatus
<1>4. \A l \in cils : l.id \in job.cur.ids => l.invoice = i
  <2>1. LinkPage(i)
    BY <1>1, LinkItemPage
  <2> QED
    BY <2>1 DEF LinkPage, Open
<1>5. UpdatedTo(K, U, i, "COMPLETED") /\ Copies(K, U, r)
  BY <1>1, <1>3, <1>4, UpdatedTable, CopiesMade
<1> HIDE DEF K, U
<1>6. Receipts(K) /\ HasReceipt(K, i)
  BY <1>1, <1>5, LinkedReceipts
<1>7. \A j : j # i => (HasReceipt(K, j) <=> HasReceipt(cils, j))
  BY <1>5, SameReceipts, SMTT(30) DEF UpdatedTo
<1>8. /\ ref'[i] = "COMPLETED" /\ \A j \in Invoices : j # i => ref'[j] = ref[j]
      /\ inv'[i].status = "PAID" /\ \A j \in Invoices : j # i => inv'[j] = inv[j]
  <2>1. inv[i] \in Invoice
    BY <1>2
  <2> QED
    BY <1>1, <1>2, <2>1 DEF Invoice
<1>9. job'.cur = NoItem /\ job'.phase = "LINK" /\ cfsTodo = {} /\ cfsTodo' = {}
      /\ cfs[i] = "PAID" /\ UNCHANGED <<cfs, brokenOff>>
  BY <1>1, <1>2 DEF Job, BookInv, OneAtATime, CfsInv, ItemReceipt
<1>10. \A j \in Invoices : ref'[j] = "COMPLETED" <=> HasReceipt(K, j)
  BY <1>6, <1>7, <1>8 DEF CfsInv, Referenced
<1>11. Receipts(cils)' /\ Referenced'
  BY <1>6, <1>10 DEF K, Referenced
<1>12. \A j \in Invoices : Owed(inv'[j]) => ref'[j] \in {"NONE", "ACTIVE"}
  BY <1>8 DEF CfsInv, Owed
<1>13. \A j \in Invoices : Agreed(j)'
  BY <1>8, <1>9 DEF CfsInv, InFlight, Agreed
<1>14. txn' = NoTxn
  BY <1>1 DEF Idle
<1> QED
  BY <1>9, <1>11, <1>12, <1>13, <1>14 DEF CfsInv

\* Links on their way back are refunded: the invoice has no receipt left.
LEMMA ReversedReceipts ==
    ASSUME IInv, LinksInv, BookInv, CfsInv, job.phase # "LINK",
           job.cur # NoItem, job.cur.found = "COMPLETED",
           NEW i, i = job.cur.key.invoice, NEW p, p = job.cur.key.receipt,
           NEW K, NEW U, UpdatedTo(K, U, i, "REFUNDED"), Copies(K, U, p)
    PROVE  Receipts(K) /\ ~HasReceipt(K, i)
<1>1. /\ \A l \in cils : l.id \in job.cur.ids =>
           /\ l.status \in {"PENDING_REFUND", "CANCELLED"} /\ l.receipt = p
      /\ Receipts(cils) /\ cils \in SUBSET Cil
  BY JobTables DEF LinksInv, JobLinks, CfsInv
<1>2. /\ \E l \in LinksOf(i) : l.id \in job.cur.ids /\ l.status = "PENDING_REFUND"
      /\ \A l \in LinksOf(i) : l.status = "PENDING_REFUND" /\ l.receipt = p
                                 => l.id \in job.cur.ids
  BY DEF CfsInv, ItemReceipt
<1>3. PICK r \in cils : /\ r.id \in job.cur.ids /\ r.status = "PENDING_REFUND"
                        /\ r.invoice = i /\ r.receipt = p
  BY <1>1, <1>2 DEF LinksOf
<1>4. /\ K = {U[l] : l \in cils}
      /\ \A l \in cils :
           /\ U[l].id = l.id /\ U[l].invoice = l.invoice
           /\ \/ U[l] = l /\ (l.id \in job.cur.ids => l.status = "CANCELLED")
              \/ /\ U[l].status = "REFUNDED" /\ U[l].invoice = i
                 /\ U[l].receipt = p /\ l.id \in job.cur.ids
  <2>1. ASSUME NEW l \in cils
        PROVE  /\ U[l].id = l.id /\ U[l].invoice = l.invoice
               /\ \/ U[l] = l /\ (l.id \in job.cur.ids => l.status = "CANCELLED")
                  \/ /\ U[l].status = "REFUNDED" /\ U[l].invoice = i
                     /\ U[l].receipt = p /\ l.id \in job.cur.ids
    <3>1. U[l].id = l.id /\ U[l].invoice = l.invoice
          /\ (U[l] = l \/ U[l].receipt = p)
      BY DEF Copies
    <3>2. \/ U[l] = l /\ (l.id \in job.cur.ids => l.status = "CANCELLED")
          \/ U[l].status = "REFUNDED" /\ l.invoice = i /\ l.id \in job.cur.ids
             /\ l.status # "CANCELLED"
      BY DEF UpdatedTo
    <3>3. l.id \in job.cur.ids => l.receipt = p
      BY <1>1
    <3> QED
      BY <3>1, <3>2, <3>3
  <2> QED
    BY <2>1 DEF Copies
<1>5. /\ U[r] \in K /\ U[r].status = "REFUNDED" /\ U[r].invoice = i
      /\ U[r].receipt = p
  BY <1>3, <1>4
<1>6. /\ \A m \in cils : m.status \notin {"PENDING_REFUND", "CANCELLED"} => m \in K
      /\ \A m \in K : \/ m \in cils
                      \/ m.status = "REFUNDED" /\ m.invoice = i /\ m.receipt = p
      /\ \A m \in K : m.id # 0
  <2>1. \A m \in K : \E l \in cils : m = U[l]
    BY <1>4
  <2>2. \A m \in cils : m.status \notin {"PENDING_REFUND", "CANCELLED"} => U[m] = m
    BY <1>1, <1>4
  <2>3. \A m \in cils : U[m] \in K
    BY <1>4
  <2> QED
    BY <1>1, <1>4, <2>1, <2>2, <2>3 DEF Receipts
<1>7. \A l : Unreturned(K, l) <=>
               Unreturned(cils, l) /\ ~(l.invoice = i /\ l.receipt = p)
  BY <1>5, <1>6 DEF Unreturned
<1>8. \A m : m.status = "COMPLETED" => (m \in K <=> m \in cils)
  BY <1>6
<1>9. \A k \in K : Standing(K, k) =>
        k \in cils /\ Standing(cils, k) /\ ~(k.invoice = i /\ k.receipt = p)
  BY <1>7, <1>8 DEF Standing
<1>10. Newest(cils, r)
  BY <1>3 DEF BookInv, Pages, Reversing
<1>11. ASSUME NEW k \in K, k.status = "COMPLETED", Newest(K, k)
       PROVE  Unreturned(K, k)
  <2>1. k \in cils /\ Newest(cils, k)
    BY <1>8, <1>11, CopiesNewest
  <2>2. Unreturned(cils, k)
    BY <1>1, <1>11, <2>1 DEF Receipts
  <2>3. k.invoice # i
    BY <1>3, <1>10, <1>11, <2>1, NewestAlike
  <2> QED
    BY <1>7, <2>2, <2>3
<1>12. ASSUME NEW k \in K, k.status = "PENDING_REFUND"
       PROVE  Unreturned(K, k)
  <2>1. k \in cils /\ k.id \notin job.cur.ids
    <3>1. PICK l \in cils : k = U[l]
      BY <1>4
    <3> QED
      BY <1>4, <1>12, <3>1
  <2>2. ~(k.invoice = i /\ k.receipt = p)
    BY <1>2, <1>12, <2>1 DEF LinksOf
  <2>3. Unreturned(cils, k)
    BY <1>1, <1>12, <2>1 DEF Receipts
  <2> QED
    BY <1>7, <2>2, <2>3
<1>13. \A k \in K : k.status = "COMPLETED" => k.receipt # NoReceipt
  BY <1>1, <1>8 DEF Receipts
<1>14. \A k, m \in K : /\ Standing(K, k) /\ Standing(K, m)
                        /\ k.invoice = m.invoice
                        => k.receipt = m.receipt
  BY <1>1, <1>9 DEF Receipts
<1>15. Receipts(K)
  BY <1>6, <1>11, <1>12, <1>13, <1>14 DEF Receipts
<1>16. ~HasReceipt(K, i)
  <2> SUFFICES ASSUME NEW k \in K, k.invoice = i, Standing(K, k)
               PROVE  FALSE
    BY DEF HasReceipt
  <2>1. PICK c \in cils : c.status = "COMPLETED" /\ SameReceipt(c, r)
    BY <1>3 DEF LinksInv, Links, Follows, IsReturn
  <2>2. Unreturned(cils, r) /\ c.invoice = i /\ c.receipt = p
    BY <1>1, <1>3, <2>1 DEF Receipts, SameReceipt, SameCredit
  <2>3. Standing(cils, c)
    BY <1>3, <2>1, <2>2 DEF Standing, Unreturned
  <2> QED
    BY <1>1, <1>9, <2>2, <2>3 DEF Receipts
<1> QED
  BY <1>15, <1>16

LEMMA ReverseItemEndCfs ==
    ASSUME IInv, LinksInv, BookInv, CfsInv, Idle, ReverseItemEnd
    PROVE  CfsInv'
<1> DEFINE item == job.cur
           i == job.cur.key.invoice
           p == job.cur.key.receipt
           K == cils'
           U == [l \in cils |-> Updated(l, "REFUNDED", p)]
<1>1. /\ job.phase # "LINK" /\ job.cur # NoItem
      /\ K = UpdateLinks(job.cur, "REFUNDED", p)
      /\ job' = [job EXCEPT !.cur = NoItem]
      /\ UNCHANGED <<txn, cfsTodo, cfs, brokenOff>>
  BY DEF ReverseItemEnd
<1>2. /\ job \in Job /\ job.cur \in Item /\ i \in Invoices /\ p \in Nat
      /\ ref \in [Invoices -> RefStatus] /\ inv \in [Invoices -> Invoice]
      /\ job # IdleJob
  BY <1>1, JobTables DEF GoodJob, Job, Item, RollupKey, IdleJob
<1>3. ItemReceipt
  BY <1>1 DEF CfsInv
<1>4. \A l \in cils : l.id \in job.cur.ids => l.invoice = i
  BY <1>1, <1>3 DEF ItemReceipt
<1>5. UpdatedTo(K, U, i, "REFUNDED") /\ Copies(K, U, p)
  <2>1. "REFUNDED" \in CilStatus
    BY DEF CilStatus
  <2> QED
    BY <1>1, <1>2, <1>4, <2>1, UpdatedTable, CopiesMade
<1> HIDE DEF K, U
<1>6. \A j : j # i => (HasReceipt(K, j) <=> HasReceipt(cils, j))
  BY <1>5, SameReceipts, SMTT(30) DEF UpdatedTo
<1>7. /\ \A j \in Invoices : j # i => inv'[j] = inv[j] /\ ref'[j] = ref[j]
      /\ item.refunding => ~Owed(inv'[i])
      /\ ref'[i] = IF ~item.refunding THEN "ACTIVE"
                   ELSE IF item.found # "NONE" THEN "CANCELLED" ELSE ref[i]
  <2>1. ref'[i] = IF ~item.refunding THEN "ACTIVE"
                  ELSE IF item.found # "NONE" THEN "CANCELLED" ELSE ref[i]
    BY <1>2 DEF ReverseItemEnd
  <2>2. \A j \in Invoices : j # i => inv'[j] = inv[j] /\ ref'[j] = ref[j]
    BY <1>2 DEF ReverseItemEnd
  <2>3. CASE item.refunding
    <3>1. inv'[i] = [inv[i] EXCEPT !.status = RefundedStatus(item),
                                   !.refund = Total[i]]
      BY <1>2, <2>3 DEF ReverseItemEnd
    <3>2. inv[i] \in Invoice
      BY <1>2
    <3> QED
      BY <2>1, <2>2, <3>1, <3>2 DEF Invoice, RefundedStatus, Owed
  <2>4. CASE ~item.refunding
    BY <2>1, <2>2, <2>4
  <2> QED
    BY <2>3, <2>4
<1>8. job'.cur = NoItem /\ job'.phase = job.phase /\ job'.todo = job.todo
      /\ cfsTodo = {} /\ cfsTodo' = {} /\ UNCHANGED <<cfs, brokenOff>>
  BY <1>1, <1>2 DEF Job, BookInv, OneAtATime
<1>9. /\ Receipts(K) /\ (ref'[i] = "COMPLETED" <=> HasReceipt(K, i))
      /\ i \notin brokenOff => (cfs[i] = "PAID" <=> ref'[i] = "COMPLETED")
      /\ Owed(inv'[i]) => ref'[i] = "ACTIVE"
  <2>1. CASE item.found = "COMPLETED"
    <3>1. Receipts(K) /\ ~HasReceipt(K, i)
      BY <1>1, <1>5, <2>1, ReversedReceipts
    <3>2. cfs[i] # "PAID"
      BY <1>1, <1>3, <2>1 DEF ItemReceipt
    <3> QED
      BY <1>7, <2>1, <3>1, <3>2
  <2>2. CASE item.found # "COMPLETED"
    <3>1. /\ item.refunding
          /\ \A l \in cils : l.id \in job.cur.ids => l.status = "CANCELLED"
          /\ item.found # "NONE" => ref[i] = item.found /\ cfs[i] # "PAID"
          /\ item.found = "NONE" => Agreed(i)
      BY <1>1, <1>3, <2>2 DEF ItemReceipt
    <3>2. K = cils
      <4>1. \A l \in cils : U[l] = l
        BY <1>5, <3>1 DEF Copies
      <4> QED
        BY <1>5, <4>1 DEF Copies
    <3>3. Receipts(cils) /\ (ref[i] = "COMPLETED" <=> HasReceipt(cils, i))
      BY <1>2 DEF CfsInv, Referenced
    <3> QED
      BY <1>7, <2>2, <3>1, <3>2, <3>3 DEF Agreed
  <2> QED
    BY <2>1, <2>2
<1>10. \A j \in Invoices : ref'[j] = "COMPLETED" <=> HasReceipt(K, j)
  BY <1>6, <1>7, <1>9 DEF CfsInv, Referenced
<1>11. Receipts(cils)' /\ Referenced'
  BY <1>9, <1>10 DEF K, Referenced
<1>12. \A j \in Invoices : Owed(inv'[j]) => ref'[j] \in {"NONE", "ACTIVE"}
  BY <1>7, <1>9 DEF CfsInv
<1>13. \A j \in Invoices : Agreed(j)'
  BY <1>1, <1>7, <1>8, <1>9 DEF CfsInv, InFlight, Agreed
<1>14. txn' = NoTxn
  BY <1>1 DEF Idle
<1>15. job'.phase = "UNLINKED" => \A k \in job'.todo : k.status = "CANCELLED"
  BY <1>8 DEF CfsInv
<1> QED
  BY <1>8, <1>11, <1>12, <1>13, <1>14, <1>15 DEF CfsInv

-----------------------------------------------------------------------------
(* Every step, and the theorem.                                            *)

LEMMA CfsInvoiceJobCfs ==
    ASSUME IInv, BookInv, CfsInv, Idle,
           \/ CfsInvoiceJobStart /\ JobsIdle
           \/ \E i \in cfsTodo : CfsInvoiceItem(i) \/ CfsInvoiceItemGivenUp(i)
    PROVE  CfsInv'
<1>1. /\ job = IdleJob /\ job.cur = NoItem /\ job.phase # "UNLINKED"
      /\ UNCHANGED <<cils, inv, txn, job>> /\ txn' = NoTxn
  BY DEF BookInv, OneAtATime, JobsIdle, CfsInvoiceJobStart, eftVars, Idle,
     CfsInvoiceItem, CfsInvoiceItemGivenUp, CfsInvoiceItemFails,
     CfsInvoiceItemLost, IdleJob
<1>2. /\ ref \in [Invoices -> RefStatus] /\ cfs \in [Invoices -> CfsStatus]
      /\ cfsTodo \subseteq Invoices
  BY JobTables DEF IInv, TypeOK
<1>3. Receipts(cils)'
  BY <1>1 DEF CfsInv
<1>4. CASE CfsInvoiceJobStart
  <2>1. /\ UNCHANGED <<ref, cfs, brokenOff>>
        /\ \A i \in cfsTodo' : Owed(inv[i])
    BY <1>4 DEF CfsInvoiceJobStart, eftVars, Owed
  <2>2. Referenced'
    BY <1>1, <2>1 DEF CfsInv, Referenced
  <2> QED
    BY <1>1, <1>3, <2>1, <2>2 DEF CfsInv, InFlight, Agreed
<1>5. ASSUME NEW i \in cfsTodo, CfsInvoiceItem(i)
      PROVE  CfsInv'
  <2>1. /\ i \in Invoices /\ cfsTodo' \subseteq cfsTodo
        /\ ref'[i] = "ACTIVE" /\ cfs'[i] = "OPEN"
        /\ \A j \in Invoices : j # i => ref'[j] = ref[j] /\ cfs'[j] = cfs[j]
        /\ brokenOff' = brokenOff
    BY <1>2, <1>5 DEF CfsInvoiceItem
  <2>2. ref[i] # "COMPLETED"
    BY <2>1 DEF CfsInv
  <2>3. Referenced'
    BY <1>1, <2>1, <2>2 DEF CfsInv, Referenced
  <2>4. \A j \in Invoices : Agreed(j)'
    BY <1>1, <2>1 DEF CfsInv, InFlight, Agreed
  <2> QED
    BY <1>1, <1>3, <2>1, <2>3, <2>4 DEF CfsInv
<1>6. ASSUME NEW i \in cfsTodo, CfsInvoiceItemGivenUp(i)
      PROVE  CfsInv'
  <2>1. /\ ref' = ref /\ cfsTodo' \subseteq cfsTodo
        /\ brokenOff \subseteq brokenOff'
        /\ \A j \in Invoices : cfs'[j] = cfs[j] \/ j \in brokenOff'
    BY <1>2, <1>6 DEF CfsInvoiceItemGivenUp, CfsInvoiceItemFails,
       CfsInvoiceItemLost, eftVars
  <2>2. Referenced'
    BY <1>1, <2>1 DEF CfsInv, Referenced
  <2>3. \A j \in Invoices : Agreed(j)'
    BY <1>1, <2>1 DEF CfsInv, InFlight, Agreed
  <2> QED
    BY <1>1, <1>3, <2>1, <2>2, <2>3 DEF CfsInv
<1> QED
  BY <1>4, <1>5, <1>6

LEMMA StatementDueCfs ==
    ASSUME IInv, CfsInv, Idle, JobsIdle, StatementDueJob
    PROVE  CfsInv'
<1>1. /\ UNCHANGED <<cils, ref, txn, job, cfsTodo, cfs, brokenOff>>
      /\ job = IdleJob /\ cfsTodo = {} /\ txn = NoTxn
  BY DEF JobsIdle, Idle, StatementDueJob
<1>2. \A i \in Invoices : inv'[i] = inv[i] \/ Owed(inv[i])
  BY DEF StatementDueJob, NowOverdue, Unpaid, Owed
<1>3. \A i \in Invoices : Owed(inv'[i]) => Owed(inv[i])
  BY <1>2
<1> QED
  BY <1>1, <1>3, RowsCfs

LEMMA SameTablesCfs ==
    ASSUME CfsInv,
           UNCHANGED <<cils, inv, ref, txn, job, cfsTodo, cfs, brokenOff>>
    PROVE  CfsInv'
<1>1. txn = NoTxn \/ TxnReceipts(txn)
  BY DEF CfsInv
<1> QED
  BY <1>1, KeptCfs

LEMMA InitCfs ==
    ASSUME TaskInit
    PROVE  CfsInv
<1>1. /\ cils = {} /\ txn = NoTxn /\ job = IdleJob /\ cfsTodo = {}
      /\ \A i \in Invoices : ref[i] = "NONE" /\ cfs[i] = "NONE"
  BY DEF TaskInit, Init
<1>2. Receipts(cils) /\ Referenced
  BY <1>1 DEF Receipts, Referenced, HasReceipt
<1>3. job.cur = NoItem /\ job.phase = "IDLE"
  BY <1>1 DEF IdleJob
<1> QED
  BY <1>1, <1>2, <1>3 DEF CfsInv, Agreed

LEMMA EftJobCfs ==
    ASSUME IInv, LinksInv, BookInv, CfsInv, Idle, EftJob
    PROVE  CfsInv'
<1>1. CASE \E k \in job.todo : \/ LinkItemStart(k) \/ ReverseItemStart(k)
                               \/ UnlinkedItemStart(k)
  BY <1>1, ItemStartsCfs DEF ItemStarts
<1> QED
  BY <1>1, QueriesCfs, LinkItemEndCfs, ReverseItemEndCfs DEF EftJob

\* The invoice of an item that is given up in hand is one of those that broke
\* off, and CFS is told no more.
LEMMA GivenUpCfs ==
    ASSUME IInv, CfsInv, Idle, ItemRollsBack \/ JobDies
    PROVE  CfsInv'
<1>1. /\ UNCHANGED <<cils, inv, ref, cfsTodo, txn, cfs>>
      /\ job'.cur = NoItem
      /\ job'.phase = "UNLINKED" =>
           job.phase = "UNLINKED" /\ job'.todo = job.todo
  BY RolledBack DEF ItemRollsBack, JobDies, IdleJob, WithinJob, eftVars
<1>2. Spares
  BY <1>1 DEF ItemRollsBack, JobDies, Spares, InFlight
<1> QED
  BY <1>1, <1>2, JobStepCfs DEF CfsInv

LEMMA JobFailureCfs ==
    ASSUME IInv, LinksInv, BookInv, CfsInv, Idle, JobFailure
    PROVE  CfsInv'
<1>1. CASE \E k \in job.todo : ItemGivenUp(k)
  BY <1>1, ItemStartsCfs DEF ItemStarts
<1>2. CASE \E i \in cfsTodo : CfsInvoiceItemGivenUp(i)
  BY <1>2, CfsInvoiceJobCfs
<1> QED
  BY <1>1, <1>2, GivenUpCfs DEF JobFailure, ItemGivenUp, CfsInvoiceItemGivenUp

LEMMA NextCfs ==
    ASSUME ~ Overlap, PartialAmounts = {}, IInv, LinksInv, BookInv, CfsInv,
           [Next]_vars
    PROVE  CfsInv'
<1>1. CASE TxnStep /\ UNCHANGED jobVars
  BY <1>1, TxnStepCfs
<1>2. CASE Idle /\ EftJob
  BY <1>2, EftJobCfs
<1>3. CASE Idle /\ JobFailure
  BY <1>3, JobFailureCfs
<1>4. CASE Idle /\ CfsInvoiceJob
  <2>1. CfsInvoiceJobStart => JobsIdle
    BY DEF CfsInvoiceJobStart
  <2> QED
    BY <1>4, <2>1, CfsInvoiceJobCfs DEF CfsInvoiceJob
<1>5. CASE Idle /\ StatementDueJob
  <2>1. JobsIdle
    BY <1>5 DEF StatementDueJob
  <2> QED
    BY <1>5, <2>1, StatementDueCfs
<1>6. CASE Idle /\ \E i \in Invoices : OverdueDatePasses(i)
  <2>1. UNCHANGED <<cils, inv, ref, txn, job, cfsTodo, cfs, brokenOff>>
    BY <1>6 DEF OverdueDatePasses, eftVars
  <2> QED
    BY <2>1, SameTablesCfs
<1>7. CASE JobsIdle /\ Request /\ UNCHANGED jobVars
  BY <1>7, RequestCfs
<1>8. CASE UNCHANGED vars
  <2>1. UNCHANGED <<cils, inv, ref, txn, job, cfsTodo, cfs, brokenOff>>
    BY <1>8 DEF vars, eftVars, jobVars
  <2> QED
    BY <2>1, SameTablesCfs
<1> QED
  BY <1>1, <1>2, <1>3, <1>4, <1>5, <1>6, <1>7, <1>8 DEF Next

LEMMA CfsInvariance ==
    ASSUME ~ Overlap, PartialAmounts = {}
    PROVE  Spec => []CfsInv
<1>1. TaskInit => CfsInv
  BY InitCfs
<1>2. IInv /\ LinksInv /\ BookInv /\ CfsInv /\ [Next]_vars => CfsInv'
  BY NextCfs
<1> QED
  BY <1>1, <1>2, Invariance, LinksInvariance, BookInvariance, PTL DEF Spec

\* LinksReflectCfs: where no request comes between the steps of a job and no
\* invoice is refunded in part, an invoice has a receipt in CFS exactly when a
\* completed link pays for it whose receipt was not reversed.  It says nothing
\* of the item that the job has in hand, nor of an invoice one of whose items
\* broke off when CFS had done a part of it (the receipt is created, the
\* application raises; the receipt is reversed, the process is killed): that is
\* how eft_task.py lets the two come apart, and the theorem that there is no
\* other: whatever CFS refuses outright, whoever is paid, reversed, refunded
\* and paid again, and whichever other items break off.
THEOREM LinksAlwaysReflectCfs ==
    ASSUME ~ Overlap, PartialAmounts = {}
    PROVE  Spec => []LinksReflectCfs
<1>1. BookInv /\ CfsInv => LinksReflectCfs
  <2> SUFFICES ASSUME BookInv, CfsInv, NEW i \in Invoices, ~InFlight(i),
                      i \notin brokenOff
               PROVE  cfs[i] = "PAID" <=>
                        \E l \in LinksOf(i) :
                          /\ l.status = "COMPLETED"
                          /\ ~ \E m \in LinksOf(i) : /\ m.status = "REFUNDED"
                                                     /\ m.receipt = l.receipt
                                                     /\ inv[i].memo = 0
    BY DEF LinksReflectCfs
  <2>1. cfs[i] = "PAID" <=> HasReceipt(cils, i)
    BY DEF CfsInv, Referenced, Agreed
  <2>2. inv[i].memo = 0
    BY DEF BookInv, Books
  <2> QED
    BY <2>1, <2>2 DEF HasReceipt, Standing, Unreturned, LinksOf
<1> QED
  BY <1>1, BookInvariance, CfsInvariance, PTL

=============================================================================
