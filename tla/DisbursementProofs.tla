------------------------- MODULE DisbursementProofs -------------------------
(***************************************************************************)
(* Proofs about Disbursement, for any numbers of invoices, line items,     *)
(* rows and files: the type invariant; that, unless a row is cancelled     *)
(* while the job has it, the rows of an invoice are payments and reversals *)
(* in turn; and that, as long as nothing is lost, a partner has for each   *)
(* invoice what it is to have.                                             *)
(*                                                                         *)
(* The invariant counts the money of a partner along two paths: what its   *)
(* invoices got by their status, which is a payment and perhaps its        *)
(* reversal, and the rows of partner_disbursements that were posted.  The  *)
(* rows that are not cancelled come to the price of one payment if the     *)
(* latest of them is a payment and to nothing otherwise.                   *)
(***************************************************************************)
EXTENDS Disbursement, SumTheorems, SequenceTheorems

-----------------------------------------------------------------------------
(* The invariant.                                                          *)

Total(f, S) == SumFunctionOnSet(f, S)

\* Lines of one file or of the job: each about an invoice or a row of its own.
LinesTyped(lines) ==
    /\ IsFiniteSet(lines) /\ lines \subseteq Line
    /\ \A l \in lines : l.row # 0 =>
         /\ l.row \in DOMAIN rows[l.inv]
         /\ l.is_reversal = rows[l.inv][l.row].is_reversal
    /\ \A l, m \in lines : l.inv = m.inv /\ l.row = m.row => l = m

FilesTyped ==
    /\ files \in Seq(File) /\ worker \in 0..Len(files)
    /\ worker # 0 => files[worker].known
    /\ \A f \in DOMAIN files : /\ LinesTyped(files[f].lines)
                               /\ files[f].failed \subseteq files[f].lines
                               /\ files[f].feedback = "NONE" => files[f].failed = {}

RowsTyped == rows \in [Invoices -> Seq(Row)] /\ \A i \in Invoices : Len(rows[i]) <= MaxRows

RequestTyped ==
    /\ kind \in [Invoices -> Kinds \cup {NoKind}]
    /\ inv \in [Invoices -> InvoiceStatus]
    /\ eft \in [Invoices -> {"NONE", "LINKED", "UNAPPLIED"}]
    /\ partial \in [Invoices -> {"NONE", "PENDING", "APPROVED"}]
    /\ recent \subseteq Invoices

Typed ==
    /\ RequestTyped /\ RowsTyped /\ FilesTyped
    /\ disb \in [Invoices -> DisbursementStatus]
    /\ stopped \subseteq Batches
    /\ job \in [reading : BOOLEAN, batch : Batches, lines : SUBSET Line]
    /\ LinesTyped(job.lines)
    /\ money \in [Invoices -> Int]
    /\ lost \subseteq Losses

\* What the tables say of an invoice.
Requested(i) ==
    /\ kind[i] = NoKind <=> inv[i] = "NONE"
    /\ inv[i] = "NONE" => rows[i] = <<>> /\ partial[i] = "NONE"
    /\ IsEft(i) => (inv[i] = "PAID" => eft[i] # "NONE")
    /\ ~IsEft(i) => /\ eft[i] = "NONE"
                    /\ \A r \in DOMAIN rows[i] : rows[i][r].target = "PARTIAL_REFUND"
    /\ partial[i] = "APPROVED" => inv[i] = "PAID" /\ eft[i] # "UNAPPLIED"
    /\ inv[i] = "REFUNDED" => partial[i] = "NONE"
    /\ partial[i] # "NONE" => \E r \in DOMAIN rows[i] : rows[i][r].target = "PARTIAL_REFUND"

Owed(s) == LatestActive(s) # 0 /\ ~s[LatestActive(s)].is_reversal

RowAmount(x) ==
    LET sent == IF x.target = "INVOICE" THEN SentByRow ELSE 1
    IN IF x.is_reversal THEN -sent ELSE sent

\* What the payments and reversals of a sequence of rows come to.
Worth(s) == [r \in DOMAIN s |-> IF IsActive(s[r]) THEN RowAmount(s[r]) ELSE 0]

Proper(s) ==
    /\ Alternates(s)
    /\ Total(Worth(s), DOMAIN s) = IF Owed(s) THEN SentByRow ELSE 0
    /\ \A r \in DOMAIN s :
         /\ s[r].status = "WAITING_FOR_JOB" /\ s[r].target = "INVOICE" /\ ~s[r].is_reversal
              => r = LatestActive(s)
         /\ s[r].target = "PARTIAL_REFUND" => s[r].is_reversal /\ s[r].status # "CANCELLED"

PaidFor(i) == inv[i] = "PAID" /\ eft[i] # "UNAPPLIED"
Refunding(i, r) == partial[i] = "APPROVED" /\ IsLatestPartial(i, r)

\* The rows agree with what the invoice went through.
RowsAgree(i) ==
    /\ Proper(rows[i])
    /\ eft[i] = "LINKED" /\ inv[i] # "REFUNDED" => Owed(rows[i])
    /\ eft[i] = "UNAPPLIED" \/ inv[i] = "REFUNDED" => ~Owed(rows[i])
    /\ Owed(rows[i]) /\ rows[i][LatestActive(rows[i])].status # "WAITING_FOR_JOB" => PaidFor(i)
    /\ \A r \in DOMAIN rows[i] :
         rows[i][r].target = "PARTIAL_REFUND" /\ rows[i][r].status # "WAITING_FOR_JOB"
            => Refunding(i, r)

\* What the job has in its hands still waits for it.
JobAgrees ==
    \A l \in job.lines : l.row # 0 =>
        LET x == rows[l.inv][l.row] IN
        /\ x.status = "WAITING_FOR_JOB"
        /\ x.target = "INVOICE" /\ ~x.is_reversal => PaidFor(l.inv)
        /\ x.target = "PARTIAL_REFUND" => Refunding(l.inv, l.row)

\* What was sent does not.
SentAgree ==
    \A f \in DOMAIN files : files[f].known =>
        \A l \in files[f].lines : l.row # 0 =>
            rows[l.inv][l.row].status \notin {"WAITING_FOR_JOB", "CANCELLED"}

NoRace == (\A i \in Invoices : RowsAgree(i)) /\ JobAgrees /\ SentAgree

IsPostedBy(f, i, r) ==
    /\ files[f].feedback # "NONE"
    /\ HasLine(files[f].lines \ files[f].failed, i, r)
IsPosted(i, r) == \E f \in DOMAIN files : IsPostedBy(f, i, r)

\* The payment of an invoice that is disbursed by its status, and its reversal.
Got(i, is_reversal) ==
    \E f \in DOMAIN files :
        /\ files[f].feedback # "NONE"
        /\ [inv |-> i, row |-> 0, is_reversal |-> is_reversal]
               \in files[f].lines \ files[f].failed

\* What was posted of a sequence of rows.
PostedRows(i) ==
    [r \in DOMAIN rows[i] |-> IF IsPosted(i, r) THEN RowAmount(rows[i][r]) ELSE 0]

GotByStatus(i, is_reversal) == IF Got(i, is_reversal) THEN Share ELSE 0

MoneyOf(i) == GotByStatus(i, FALSE) - GotByStatus(i, TRUE)
                + Total(PostedRows(i), DOMAIN rows[i])

InFlight(f, i) == HasLine(files[f].lines, i, 0) /\ files[f].feedback # "PROCESSED"

\* A row is in one file.
RowsSent(i) ==
    \A r \in DOMAIN rows[i] :
        /\ rows[i][r].status \notin {"WAITING_FOR_JOB", "CANCELLED"} =>
             \E f \in DOMAIN files : HasLine(files[f].lines, i, r)
        /\ \A f, g \in DOMAIN files :
             HasLine(files[f].lines, i, r) /\ HasLine(files[g].lines, i, r) => f = g

\* The status of an invoice tells what its partner has got.
StatusAgrees(i) ==
    /\ disb[i] \in {"NONE", "UPLOADED", "COMPLETED", "REVERSED", "ERRORED"}
    /\ IsEft(i) \/ inv[i] \in {"NONE", "APPROVED"} =>
         disb[i] = "NONE" /\ ~HasLine(job.lines, i, 0)
    /\ disb[i] = "NONE" => \A f \in DOMAIN files : ~HasLine(files[f].lines, i, 0)
    /\ disb[i] = "UPLOADED" <=> \E f \in DOMAIN files : InFlight(f, i)
    /\ disb[i] = "ERRORED" => /\ HasFailed(i) /\ ~Got(i, TRUE)
                              /\ Got(i, FALSE) => inv[i] = "REFUNDED"
    /\ disb[i] = "COMPLETED" => Got(i, FALSE) /\ ~Got(i, TRUE)
    /\ disb[i] = "REVERSED" => Got(i, FALSE) /\ (kind[i].batch # "GA" => Got(i, TRUE))
    /\ Got(i, TRUE) => Got(i, FALSE) /\ inv[i] = "REFUNDED"

\* What is in the hands of the job, or with CGI, was not got before.
NotGot(l) ==
    IF l.is_reversal
    THEN inv[l.inv] = "REFUNDED" /\ Got(l.inv, FALSE) /\ ~Got(l.inv, TRUE)
    ELSE ~Got(l.inv, FALSE)

LinesAgree ==
    /\ \A l \in job.lines : l.row = 0 => disb[l.inv] # "UPLOADED" /\ NotGot(l)
    /\ \A f \in DOMAIN files : \A l \in files[f].lines :
         l.row = 0 /\ files[f].feedback # "PROCESSED" =>
            /\ \A g \in DOMAIN files : InFlight(g, l.inv) => g = f
            /\ files[f].feedback = "NONE" \/ l \in files[f].failed => NotGot(l)
            /\ l.is_reversal => inv[l.inv] = "REFUNDED"
            /\ ~l.is_reversal => ~Got(l.inv, TRUE)

Books ==
    /\ \A f \in DOMAIN files : files[f].known
    /\ worker # 0 => files[worker].feedback = "RECEIVED"
    /\ LinesAgree
    /\ \A i \in Invoices : RowsSent(i) /\ StatusAgrees(i) /\ money[i] = MoneyOf(i)

IInv ==
    /\ Typed /\ \A i \in Invoices : Requested(i)
    /\ "race" \notin lost => NoRace
    /\ lost = {} => Books

-----------------------------------------------------------------------------
(* Lemmas about the operators.                                             *)

LEMMA AmountsTyped ==
    /\ Share \in Nat /\ SentByRow \in Nat
    /\ \A x \in Row : RowAmount(x) \in Int
<1>1. LineItems \in Nat
  BY DisbursementConstants
<1>2. Share \in Nat
  BY <1>1 DEF Share
<1>3. SentByRow \in Nat
  BY <1>1, <1>2 DEF SentByRow
<1>4. \A x \in Row : RowAmount(x) \in Int
  BY <1>3 DEF RowAmount
<1> QED
  BY <1>2, <1>3, <1>4

LEMMA RowFields ==
    ASSUME NEW s \in Seq(Row), NEW r \in DOMAIN s
    PROVE  /\ s[r] \in Row /\ s[r].target \in {"INVOICE", "PARTIAL_REFUND"}
           /\ s[r].is_reversal \in BOOLEAN /\ s[r].status \in DisbursementStatus
           /\ r \in Nat \ {0} /\ r \in 1..Len(s) /\ DOMAIN s = 1..Len(s) /\ Len(s) \in Nat
<1>1. s[r] \in Row /\ r \in 1..Len(s) /\ DOMAIN s = 1..Len(s) /\ Len(s) \in Nat
  OBVIOUS
<1> QED
  BY <1>1 DEF Row

\* The last row that is one of P is the greatest index.
LEMMA LatestIs ==
    ASSUME NEW s \in Seq(Row)
    PROVE  LET m == LatestActive(s)
           IN /\ m \in 0..Len(s)
              /\ m = 0 => \A r \in DOMAIN s : ~IsActive(s[r])
              /\ m # 0 => /\ m \in DOMAIN s /\ IsActive(s[m])
                          /\ \A r \in DOMAIN s : IsActive(s[r]) => r <= m
<1> DEFINE I == {r \in 1..Len(s) : IsActive(s[r])}
<1>1. LatestActive(s) = IF I # {} THEN Max(I) ELSE 0
  BY DEF LatestActive, SelectLastInSeq
<1>2. Len(s) \in Nat /\ DOMAIN s = 1..Len(s) /\ I \subseteq 0..Len(s)
  OBVIOUS
<1>3. CASE I = {}
  BY <1>1, <1>2, <1>3
<1>4. CASE I # {}
  <2>1. PICK m : m = Max(I)
    OBVIOUS
  <2>2. m \in I /\ \A r \in I : m >= r
    <3> HIDE DEF I
    <3> QED
      BY <1>2, <1>4, <2>1, GreatestMember
  <2>3. LatestActive(s) = m /\ m \in 1..Len(s) /\ IsActive(s[m])
    BY <1>1, <1>4, <2>1, <2>2
  <2>4. \A r \in DOMAIN s : IsActive(s[r]) => r <= m
    BY <1>2, <2>2, <2>3
  <2> QED
    BY <1>2, <2>3, <2>4
<1> QED
  BY <1>3, <1>4

LEMMA LatestUnique ==
    ASSUME NEW s \in Seq(Row)
    PROVE  /\ (\A r \in DOMAIN s : ~IsActive(s[r])) => LatestActive(s) = 0
           /\ \A m \in DOMAIN s :
                IsActive(s[m]) /\ (\A r \in DOMAIN s : IsActive(s[r]) => r <= m)
                    => LatestActive(s) = m
<1>1. PICK n : n = LatestActive(s)
  OBVIOUS
<1>2. /\ n \in 0..Len(s) /\ DOMAIN s = 1..Len(s) /\ Len(s) \in Nat
      /\ n = 0 => \A r \in DOMAIN s : ~IsActive(s[r])
      /\ n # 0 => /\ n \in DOMAIN s /\ IsActive(s[n])
                  /\ \A r \in DOMAIN s : IsActive(s[r]) => r <= n
  BY <1>1, LatestIs
<1>3. (\A r \in DOMAIN s : ~IsActive(s[r])) => n = 0
  BY <1>2
<1>4. ASSUME NEW m \in DOMAIN s, IsActive(s[m]), \A r \in DOMAIN s : IsActive(s[r]) => r <= m
      PROVE  n = m
  <2>1. n # 0 /\ n <= m /\ m <= n /\ m \in Nat /\ n \in Nat
    BY <1>2, <1>4
  <2> QED
    BY <2>1
<1> QED
  BY <1>1, <1>3, <1>4

LEMMA LatestPartialIs ==
    ASSUME Typed, NEW i \in Invoices, NEW r
    PROVE  /\ IsLatestPartial(i, r) /\ r # 0 => r \in DOMAIN rows[i]
           /\ r \in DOMAIN rows[i] =>
                (IsLatestPartial(i, r) <=>
                   /\ rows[i][r].target = "PARTIAL_REFUND"
                   /\ \A q \in DOMAIN rows[i] : rows[i][q].target = "PARTIAL_REFUND" => q <= r)
           /\ (\E q \in DOMAIN rows[i] : rows[i][q].target = "PARTIAL_REFUND") =>
                \E m \in DOMAIN rows[i] : IsLatestPartial(i, m)
<1>1. PICK s \in Seq(Row) : s = rows[i]
  BY DEF Typed, RowsTyped
<1> DEFINE I == {q \in 1..Len(s) : s[q].target = "PARTIAL_REFUND"}
<1>2. IsLatestPartial(i, r) <=> r = IF I # {} THEN Max(I) ELSE 0
  BY <1>1 DEF IsLatestPartial, SelectLastInSeq
<1>3. \A q : IsLatestPartial(i, q) <=> q = IF I # {} THEN Max(I) ELSE 0
  BY <1>1 DEF IsLatestPartial, SelectLastInSeq
<1>4. Len(s) \in Nat /\ DOMAIN s = 1..Len(s) /\ I \subseteq 0..Len(s)
  OBVIOUS
<1>5. CASE I = {}
  BY <1>1, <1>2, <1>4, <1>5
<1>6. CASE I # {}
  <2>1. PICK m : m = Max(I)
    OBVIOUS
  <2>2. m \in I /\ \A q \in I : m >= q
    <3> HIDE DEF I
    <3> QED
      BY <1>4, <1>6, <2>1, GreatestMember
  <2>3. m \in DOMAIN s /\ s[m].target = "PARTIAL_REFUND"
        /\ \A q \in DOMAIN s : s[q].target = "PARTIAL_REFUND" => q <= m
    BY <1>4, <2>2
  <2>4. (IsLatestPartial(i, r) <=> r = m) /\ IsLatestPartial(i, m)
    BY <1>2, <1>3, <1>6, <2>1
  <2>5. r \in DOMAIN s /\ s[r].target = "PARTIAL_REFUND"
        /\ (\A q \in DOMAIN s : s[q].target = "PARTIAL_REFUND" => q <= r) => r = m
    <3>1. ASSUME r \in DOMAIN s, s[r].target = "PARTIAL_REFUND",
                 \A q \in DOMAIN s : s[q].target = "PARTIAL_REFUND" => q <= r
          PROVE  r = m
      <4>1. r <= m /\ m <= r /\ r \in Nat /\ m \in Nat
        BY <1>4, <2>3, <3>1
      <4> QED
        BY <4>1
    <3> QED
      BY <3>1
  <2> HIDE DEF I
  <2> QED
    BY <1>1, <2>3, <2>4, <2>5
<1> QED
  BY <1>5, <1>6

\* A new row that is the opposite of the latest one.
LEMMA AppendProper ==
    ASSUME NEW s \in Seq(Row), Proper(s), NEW rev \in BOOLEAN, rev = Owed(s),
           rev => s[LatestActive(s)].status # "WAITING_FOR_JOB",
           NEW t, t = Append(s, NewRow("INVOICE", rev))
    PROVE  Proper(t) /\ Owed(t) = ~rev /\ LatestActive(t) = Len(s) + 1
<1>1. PICK n \in Nat : n = Len(s)
  OBVIOUS
<1>2. PICK x \in Row : x = NewRow("INVOICE", rev)
  BY DEF NewRow, Row, DisbursementStatus
<1>3. x.target = "INVOICE" /\ x.is_reversal = rev /\ x.status = "WAITING_FOR_JOB" /\ IsActive(x)
  BY <1>2 DEF NewRow, IsActive
<1>4. /\ t \in Seq(Row) /\ DOMAIN t = 1..(n + 1) /\ DOMAIN s = 1..n
      /\ t[n + 1] = x /\ \A r \in 1..n : t[r] = s[r]
  BY <1>1, <1>2
<1>5. LatestActive(t) = n + 1
  <2>1. n + 1 \in DOMAIN t /\ \A r \in DOMAIN t : r <= n + 1
    BY <1>4
  <2> QED
    BY <1>3, <1>4, <2>1, LatestUnique
<1>6. PICK m : m = LatestActive(s)
  OBVIOUS
<1>7. /\ m \in 0..n
      /\ m = 0 => \A r \in 1..n : ~IsActive(s[r])
      /\ m # 0 => /\ m \in 1..n /\ IsActive(s[m])
                  /\ \A r \in 1..n : IsActive(s[r]) => r <= m
  BY <1>1, <1>4, <1>6, LatestIs
<1>8. rev <=> m # 0 /\ ~s[m].is_reversal
  BY <1>6 DEF Owed
<1>9. Owed(t) = ~rev
  BY <1>3, <1>4, <1>5 DEF Owed
<1>10. Alternates(t)
  <2> SUFFICES ASSUME NEW r \in 1..(n + 1), IsActive(t[r])
               PROVE  t[r].is_reversal =
                        (\E q \in {q \in 1..(r - 1) : IsActive(t[q])} :
                            ~t[q].is_reversal
                            /\ \A p \in {p \in 1..(r - 1) : IsActive(t[p])} : p <= q)
    BY <1>4 DEF Alternates
  <2>1. CASE r = n + 1
    <3>1. r - 1 = n /\ t[r].is_reversal = rev
      BY <1>3, <1>4, <2>1
    <3>2. ASSUME NEW q \in 1..n, IsActive(t[q]), ~t[q].is_reversal,
                 \A p \in 1..n : IsActive(t[p]) => p <= q
          PROVE  rev
      <4>1. m \in 1..n /\ m <= q /\ q <= m
        BY <1>4, <1>7, <3>2
      <4> QED
        BY <1>4, <1>8, <3>2, <4>1
    <3>3. ASSUME rev
          PROVE  /\ m \in 1..n /\ IsActive(t[m]) /\ ~t[m].is_reversal
                 /\ \A p \in 1..n : IsActive(t[p]) => p <= m
      BY <1>4, <1>7, <1>8, <3>3
    <3>4. rev \in BOOLEAN
      OBVIOUS
    <3> QED
      BY <3>1, <3>2, <3>3, <3>4
  <2>2. CASE r # n + 1
    <3>1. r \in 1..n /\ \A q \in 1..(r - 1) : q \in 1..n
      BY <2>2
    <3>2. {q \in 1..(r - 1) : IsActive(t[q])} = {q \in 1..(r - 1) : IsActive(s[q])}
      BY <1>4, <3>1
    <3>3. s[r].is_reversal =
             (\E q \in {q \in 1..(r - 1) : IsActive(s[q])} :
                 ~s[q].is_reversal
                 /\ \A p \in {p \in 1..(r - 1) : IsActive(s[p])} : p <= q)
      BY <1>4, <3>1 DEF Proper, Alternates
    <3>4. t[r] = s[r] /\ \A q \in 1..(r - 1) : t[q] = s[q]
      BY <1>4, <3>1
    <3> QED
      BY <3>2, <3>3, <3>4
  <2> QED
    BY <2>1, <2>2
<1>11. Total(Worth(t), DOMAIN t) = IF Owed(t) THEN SentByRow ELSE 0
  <2> DEFINE w == Worth(t)
  <2>1. /\ DOMAIN t = (1..n) \cup {n + 1} /\ n + 1 \notin 1..n /\ IsFiniteSet(1..n)
        /\ \A r \in (1..n) \cup {n + 1} : r \in DOMAIN t
    <3>1. IsFiniteSet(1..n)
      BY FS_Interval
    <3>2. 1..(n + 1) = (1..n) \cup {n + 1}
      OBVIOUS
    <3> QED
      BY <1>4, <3>1, <3>2
  <2>2. \A r \in DOMAIN t : w[r] \in Int
    BY <1>4, AmountsTyped DEF Worth
  <2>3. \A r \in 1..n : w[r] = Worth(s)[r]
    BY <1>4 DEF Worth
  <2>4. w[n + 1] = IF rev THEN -SentByRow ELSE SentByRow
    BY <1>3, <1>4, <2>1 DEF Worth, RowAmount
  <2> HIDE DEF w
  <2>5. SumFunctionOnSet(w, DOMAIN t) = w[n + 1] + SumFunctionOnSet(w, 1..n)
    <3>1. \A r \in (1..n) \cup {n + 1} : w[r] \in Int
      BY <2>1, <2>2
    <3>2. SumFunctionOnSet(w, (1..n) \cup {n + 1}) = w[n + 1] + SumFunctionOnSet(w, 1..n)
      BY <2>1, <3>1, SumAdd
    <3> QED
      BY <2>1, <3>2
  <2>6. SumFunctionOnSet(w, 1..n) = SumFunctionOnSet(Worth(s), 1..n)
    BY <2>1, <2>3, SumSame
  <2>7. SumFunctionOnSet(Worth(s), 1..n) = IF rev THEN SentByRow ELSE 0
    BY <1>4 DEF Proper, Total
  <2>8. SentByRow \in Nat
    BY AmountsTyped
  <2>9. SumFunctionOnSet(w, DOMAIN t) = IF rev THEN 0 ELSE SentByRow
    BY <2>4, <2>5, <2>6, <2>7, <2>8
  <2> QED
    BY <1>9, <2>9 DEF w, Total
<1>12. ASSUME NEW r \in DOMAIN t
       PROVE  /\ t[r].status = "WAITING_FOR_JOB" /\ t[r].target = "INVOICE" /\ ~t[r].is_reversal
                   => r = LatestActive(t)
              /\ t[r].target = "PARTIAL_REFUND" =>
                   t[r].is_reversal /\ t[r].status # "CANCELLED"
  <2>1. CASE r = n + 1
    BY <1>3, <1>4, <1>5, <2>1
  <2>2. CASE r # n + 1
    <3>1. r \in 1..n /\ t[r] = s[r] /\ r \in DOMAIN s
      BY <1>4, <2>2
    <3>2. ~(s[r].status = "WAITING_FOR_JOB" /\ s[r].target = "INVOICE" /\ ~s[r].is_reversal)
      <4> SUFFICES ASSUME s[r].status = "WAITING_FOR_JOB", s[r].target = "INVOICE",
                          ~s[r].is_reversal
                   PROVE  FALSE
        OBVIOUS
      <4>1. r = m /\ m # 0
        BY <1>6, <3>1 DEF Proper
      <4>2. rev
        BY <1>8, <4>1
      <4> QED
        BY <1>6, <4>1, <4>2
    <3> QED
      BY <3>1, <3>2 DEF Proper
  <2> QED
    BY <2>1, <2>2
<1> QED
  BY <1>1, <1>5, <1>9, <1>10, <1>11, <1>12 DEF Proper

\* The latest payment is cancelled.
LEMMA CancelProper ==
    ASSUME NEW s \in Seq(Row), Proper(s), Owed(s), NEW m, m = LatestActive(s),
           NEW t, t = [s EXCEPT ![m].status = "CANCELLED"]
    PROVE  t \in Seq(Row) /\ Proper(t) /\ ~Owed(t)
<1>1. PICK n \in Nat : n = Len(s) /\ DOMAIN s = 1..n
  OBVIOUS
<1>2. /\ m \in 1..n /\ IsActive(s[m]) /\ ~s[m].is_reversal
      /\ \A r \in 1..n : IsActive(s[r]) => r <= m
  BY <1>1, LatestIs DEF Owed
<1>3. s[m] \in Row /\ s[m].target = "INVOICE" /\ s[m].is_reversal \in BOOLEAN
  BY <1>1, <1>2, RowFields DEF IsActive
<1>4. /\ t \in Seq(Row) /\ DOMAIN t = 1..n /\ \A r \in 1..n : r # m => t[r] = s[r]
      /\ t[m] = [s[m] EXCEPT !.status = "CANCELLED"]
  <2>1. [s[m] EXCEPT !.status = "CANCELLED"] \in Row
    BY <1>3 DEF Row, DisbursementStatus
  <2>2. t = [s EXCEPT ![m] = [s[m] EXCEPT !.status = "CANCELLED"]]
    OBVIOUS
  <2> QED
    BY <1>1, <1>2, <2>1, <2>2
<1>5. t[m].target = "INVOICE" /\ t[m].status = "CANCELLED" /\ ~IsActive(t[m])
      /\ ~t[m].is_reversal
  BY <1>2, <1>3, <1>4 DEF IsActive, Row
<1>6. PICK k : k = LatestActive(t)
  OBVIOUS
<1>7. /\ k \in 0..n
      /\ k # 0 => /\ k \in 1..n /\ IsActive(t[k])
                  /\ \A r \in 1..n : IsActive(t[r]) => r <= k
  <2>1. Len(t) = n
    BY <1>1, <1>4
  <2> QED
    BY <1>4, <1>6, <2>1, LatestIs
<1>8. ~Owed(t)
  <2> SUFFICES ASSUME k # 0, ~t[k].is_reversal PROVE FALSE
    BY <1>6 DEF Owed
  <2>1. k \in 1..n /\ k # m /\ t[k] = s[k] /\ IsActive(s[k]) /\ k <= m /\ k \in 1..(m - 1)
    BY <1>2, <1>4, <1>5, <1>7
  <2>2. \A p \in 1..(m - 1) : IsActive(s[p]) => p <= k
    BY <1>2, <1>4, <1>7, <2>1
  <2>3. s[m].is_reversal =
             (\E q \in {q \in 1..(m - 1) : IsActive(s[q])} :
                 ~s[q].is_reversal
                 /\ \A p \in {p \in 1..(m - 1) : IsActive(s[p])} : p <= q)
    BY <1>1, <1>2 DEF Proper, Alternates
  <2> QED
    BY <1>2, <2>1, <2>2, <2>3
<1>9. Alternates(t)
  <2> SUFFICES ASSUME NEW r \in 1..n, IsActive(t[r])
               PROVE  t[r].is_reversal =
                        (\E q \in {q \in 1..(r - 1) : IsActive(t[q])} :
                            ~t[q].is_reversal
                            /\ \A p \in {p \in 1..(r - 1) : IsActive(t[p])} : p <= q)
    BY <1>4 DEF Alternates
  <2>1. r # m /\ t[r] = s[r] /\ r <= m
    BY <1>2, <1>4, <1>5
  <2>2. \A q \in 1..(r - 1) : q \in 1..n /\ q # m /\ t[q] = s[q]
    BY <1>2, <1>4, <2>1
  <2>3. s[r].is_reversal =
             (\E q \in {q \in 1..(r - 1) : IsActive(s[q])} :
                 ~s[q].is_reversal
                 /\ \A p \in {p \in 1..(r - 1) : IsActive(s[p])} : p <= q)
    BY <1>1, <2>1 DEF Proper, Alternates
  <2>4. {q \in 1..(r - 1) : IsActive(t[q])} = {q \in 1..(r - 1) : IsActive(s[q])}
    BY <2>2
  <2> QED
    BY <2>1, <2>2, <2>3, <2>4
<1>10. Total(Worth(t), DOMAIN t) = 0
  <2> DEFINE w == Worth(s)
             v == Worth(t)
  <2>1. IsFiniteSet(1..n)
    BY FS_Interval
  <2>2. \A r \in 1..n : w[r] \in Int /\ v[r] \in Int
    BY <1>1, <1>4, RowFields, AmountsTyped DEF Worth
  <2>3. \A r \in (1..n) \ {m} : w[r] = v[r]
    BY <1>1, <1>4 DEF Worth
  <2>4. w[m] = SentByRow /\ v[m] = 0
    BY <1>1, <1>2, <1>3, <1>4, <1>5 DEF Worth, RowAmount
  <2>5. SumFunctionOnSet(w, 1..n) = SentByRow
    BY <1>1 DEF Proper, Total
  <2> HIDE DEF w, v
  <2>6. SumFunctionOnSet(v, 1..n) = SumFunctionOnSet(w, 1..n) + (v[m] - w[m])
    BY <1>2, <2>1, <2>2, <2>3, SumBut
  <2>7. SentByRow \in Nat
    BY AmountsTyped
  <2>8. SumFunctionOnSet(v, 1..n) = 0
    BY <2>4, <2>5, <2>6, <2>7
  <2> QED
    BY <1>4, <2>8 DEF v, Total
<1>11. ASSUME NEW r \in DOMAIN t
       PROVE  /\ ~(t[r].status = "WAITING_FOR_JOB" /\ t[r].target = "INVOICE"
                   /\ ~t[r].is_reversal)
              /\ t[r].target = "PARTIAL_REFUND" =>
                   t[r].is_reversal /\ t[r].status # "CANCELLED"
  <2>1. CASE r = m
    BY <1>5, <2>1
  <2>2. CASE r # m
    BY <1>1, <1>4, <2>2 DEF Proper
  <2> QED
    BY <2>1, <2>2
<1> QED
  BY <1>4, <1>8, <1>9, <1>10, <1>11 DEF Proper

LEMMA PartialProper ==
    ASSUME NEW s \in Seq(Row), Proper(s), NEW t, t = HandlePartialRefund(s)
    PROVE  /\ Proper(t) /\ Owed(t) = Owed(s) /\ LatestActive(t) = LatestActive(s)
           /\ LatestActive(s) # 0 => t[LatestActive(t)] = s[LatestActive(s)]
<1>1. PICK n \in Nat : n = Len(s) /\ DOMAIN s = 1..n
  OBVIOUS
<1>2. PICK x \in Row : x = NewRow("PARTIAL_REFUND", TRUE)
  BY DEF NewRow, Row, DisbursementStatus
<1>3. x.target = "PARTIAL_REFUND" /\ x.is_reversal /\ x.status = "WAITING_FOR_JOB"
      /\ ~IsActive(x)
  BY <1>2 DEF NewRow, IsActive
<1>4. /\ t \in Seq(Row) /\ DOMAIN t = 1..(n + 1) /\ t[n + 1] = x
      /\ \A r \in 1..n : t[r] = s[r]
  <2>1. t = Append(s, x)
    BY <1>2 DEF HandlePartialRefund
  <2> QED
    BY <1>1, <2>1
<1>5. PICK m : m = LatestActive(s)
  OBVIOUS
<1>6. /\ m \in 0..n
      /\ m = 0 => \A r \in 1..n : ~IsActive(s[r])
      /\ m # 0 => /\ m \in 1..n /\ IsActive(s[m])
                  /\ \A r \in 1..n : IsActive(s[r]) => r <= m
  BY <1>1, <1>5, LatestIs
<1>7. LatestActive(t) = m
  <2>1. CASE m = 0
    <3>1. \A r \in DOMAIN t : ~IsActive(t[r])
      BY <1>3, <1>4, <1>6, <2>1
    <3> QED
      BY <1>4, <2>1, <3>1, LatestUnique
  <2>2. CASE m # 0
    <3>1. m \in DOMAIN t /\ IsActive(t[m])
          /\ \A r \in DOMAIN t : IsActive(t[r]) => r <= m
      BY <1>3, <1>4, <1>6, <2>2
    <3> QED
      BY <1>4, <3>1, LatestUnique
  <2> QED
    BY <2>1, <2>2
<1>8. Owed(t) = Owed(s) /\ (m # 0 => t[m] = s[m])
  BY <1>4, <1>5, <1>6, <1>7 DEF Owed
<1>9. Alternates(t)
  <2> SUFFICES ASSUME NEW r \in 1..(n + 1), IsActive(t[r])
               PROVE  t[r].is_reversal =
                        (\E q \in {q \in 1..(r - 1) : IsActive(t[q])} :
                            ~t[q].is_reversal
                            /\ \A p \in {p \in 1..(r - 1) : IsActive(t[p])} : p <= q)
    BY <1>4 DEF Alternates
  <2>1. r \in 1..n /\ t[r] = s[r] /\ \A q \in 1..(r - 1) : t[q] = s[q]
    BY <1>3, <1>4
  <2>2. {q \in 1..(r - 1) : IsActive(t[q])} = {q \in 1..(r - 1) : IsActive(s[q])}
    BY <2>1
  <2>3. s[r].is_reversal =
             (\E q \in {q \in 1..(r - 1) : IsActive(s[q])} :
                 ~s[q].is_reversal
                 /\ \A p \in {p \in 1..(r - 1) : IsActive(s[p])} : p <= q)
    BY <1>1, <2>1 DEF Proper, Alternates
  <2> QED
    BY <2>1, <2>2, <2>3
<1>10. Total(Worth(t), DOMAIN t) = Total(Worth(s), DOMAIN s)
  <2> DEFINE w == Worth(t)
  <2>1. DOMAIN t = (1..n) \cup {n + 1} /\ n + 1 \notin 1..n /\ IsFiniteSet(1..n)
    <3>1. IsFiniteSet(1..n)
      BY FS_Interval
    <3>2. 1..(n + 1) = (1..n) \cup {n + 1}
      OBVIOUS
    <3> QED
      BY <1>4, <3>1, <3>2
  <2>2. \A r \in (1..n) \cup {n + 1} : w[r] \in Int
    BY <1>4, <2>1, AmountsTyped DEF Worth
  <2>3. \A r \in 1..n : w[r] = Worth(s)[r]
    BY <1>1, <1>4 DEF Worth
  <2>4. w[n + 1] = 0
    BY <1>3, <1>4, <2>1 DEF Worth
  <2> HIDE DEF w
  <2>5. SumFunctionOnSet(w, (1..n) \cup {n + 1}) = w[n + 1] + SumFunctionOnSet(w, 1..n)
    BY <2>1, <2>2, SumAdd
  <2>6. SumFunctionOnSet(w, 1..n) = SumFunctionOnSet(Worth(s), 1..n)
    BY <2>1, <2>3, SumSame
  <2>7. SumFunctionOnSet(w, 1..n) \in Int
    BY <2>1, <2>2, SumInt
  <2> QED
    BY <1>1, <2>1, <2>4, <2>5, <2>6, <2>7 DEF w, Total
<1>11. ASSUME NEW r \in DOMAIN t
       PROVE  /\ t[r].status = "WAITING_FOR_JOB" /\ t[r].target = "INVOICE" /\ ~t[r].is_reversal
                   => r = LatestActive(t)
              /\ t[r].target = "PARTIAL_REFUND" =>
                   t[r].is_reversal /\ t[r].status # "CANCELLED"
  <2>1. CASE r = n + 1
    BY <1>3, <1>4, <2>1
  <2>2. CASE r # n + 1
    BY <1>1, <1>4, <1>5, <1>7, <2>2 DEF Proper
  <2> QED
    BY <2>1, <2>2
<1> QED
  BY <1>5, <1>7, <1>8, <1>9, <1>10, <1>11 DEF Proper

\* Statuses change, without anything being cancelled or put back to wait.
Marked(s, t) ==
    /\ t \in Seq(Row) /\ DOMAIN t = DOMAIN s
    /\ \A r \in DOMAIN s :
         /\ t[r].target = s[r].target /\ t[r].is_reversal = s[r].is_reversal
         /\ t[r].status = "CANCELLED" <=> s[r].status = "CANCELLED"
         /\ t[r].status = "WAITING_FOR_JOB" => s[r].status = "WAITING_FOR_JOB"

LEMMA MarkedProper ==
    ASSUME NEW s \in Seq(Row), Proper(s), NEW t, Marked(s, t)
    PROVE  Proper(t) /\ Owed(t) = Owed(s) /\ LatestActive(t) = LatestActive(s)
<1>1. PICK n \in Nat : n = Len(s) /\ DOMAIN s = 1..n
  OBVIOUS
<1>2. t \in Seq(Row) /\ DOMAIN t = 1..n
      /\ \A r \in 1..n : /\ t[r].target = s[r].target /\ t[r].is_reversal = s[r].is_reversal
                         /\ IsActive(t[r]) = IsActive(s[r])
  BY <1>1 DEF Marked, IsActive
<1>3. PICK m : m = LatestActive(s)
  OBVIOUS
<1>4. /\ m \in 0..n
      /\ m = 0 => \A r \in 1..n : ~IsActive(s[r])
      /\ m # 0 => /\ m \in 1..n /\ IsActive(s[m])
                  /\ \A r \in 1..n : IsActive(s[r]) => r <= m
  BY <1>1, <1>3, LatestIs
<1>5. LatestActive(t) = m
  <2>1. CASE m = 0
    BY <1>2, <1>4, <2>1, LatestUnique
  <2>2. CASE m # 0
    BY <1>2, <1>4, <2>2, LatestUnique
  <2> QED
    BY <2>1, <2>2
<1>6. Owed(t) = Owed(s)
  BY <1>2, <1>3, <1>4, <1>5 DEF Owed
<1>7. Alternates(t)
  <2> SUFFICES ASSUME NEW r \in 1..n, IsActive(t[r])
               PROVE  t[r].is_reversal =
                        (\E q \in {q \in 1..(r - 1) : IsActive(t[q])} :
                            ~t[q].is_reversal
                            /\ \A p \in {p \in 1..(r - 1) : IsActive(t[p])} : p <= q)
    BY <1>2 DEF Alternates
  <2>1. \A q \in 1..(r - 1) : q \in 1..n
    OBVIOUS
  <2>2. {q \in 1..(r - 1) : IsActive(t[q])} = {q \in 1..(r - 1) : IsActive(s[q])}
    BY <1>2, <2>1
  <2>3. s[r].is_reversal =
             (\E q \in {q \in 1..(r - 1) : IsActive(s[q])} :
                 ~s[q].is_reversal
                 /\ \A p \in {p \in 1..(r - 1) : IsActive(s[p])} : p <= q)
    BY <1>1, <1>2 DEF Proper, Alternates
  <2> QED
    BY <1>2, <2>1, <2>2, <2>3
<1>8. Worth(t) = Worth(s)
  BY <1>1, <1>2 DEF Worth, RowAmount
<1>9. \A r \in DOMAIN t :
        /\ t[r].status = "WAITING_FOR_JOB" /\ t[r].target = "INVOICE" /\ ~t[r].is_reversal
             => r = LatestActive(t)
        /\ t[r].target = "PARTIAL_REFUND" => t[r].is_reversal /\ t[r].status # "CANCELLED"
  BY <1>1, <1>2, <1>3, <1>5 DEF Proper, Marked
<1> QED
  BY <1>1, <1>2, <1>3, <1>5, <1>6, <1>7, <1>8, <1>9 DEF Proper

\* What a request may do to the rows of an invoice.
Extends(s, t) ==
    /\ DOMAIN s \subseteq DOMAIN t
    /\ \A r \in DOMAIN s :
         \/ t[r] = s[r]
         \/ /\ t[r] = [s[r] EXCEPT !.status = "CANCELLED"]
            /\ s[r].status = "WAITING_FOR_JOB" /\ s[r].target = "INVOICE"
    /\ \A r \in DOMAIN t \ DOMAIN s : t[r].status = "WAITING_FOR_JOB"

LEMMA RowsExtended ==
    ASSUME NEW s \in Seq(Row), NEW t,
           t \in {s, HandlePayment(s), HandleReversal(s), HandlePartialRefund(s)}
    PROVE  t \in Seq(Row) /\ Extends(s, t)
<1>1. \A target \in {"INVOICE", "PARTIAL_REFUND"}, rev \in BOOLEAN :
        /\ NewRow(target, rev) \in Row
        /\ NewRow(target, rev).status = "WAITING_FOR_JOB"
        /\ NewRow(target, rev).target = target
  BY DEF NewRow, Row, DisbursementStatus
<1>2. PICK n \in Nat : n = Len(s) /\ DOMAIN s = 1..n
  OBVIOUS
<1>3. ASSUME NEW x \in Row, x.status = "WAITING_FOR_JOB", t = Append(s, x)
      PROVE  t \in Seq(Row) /\ Extends(s, t)
  <2>1. t \in Seq(Row) /\ DOMAIN t = 1..(n + 1) /\ t[n + 1] = x /\ \A r \in 1..n : t[r] = s[r]
    BY <1>2, <1>3
  <2> QED
    BY <1>2, <1>3, <2>1 DEF Extends
<1>4. ASSUME t = s PROVE t \in Seq(Row) /\ Extends(s, t)
  BY <1>4 DEF Extends
<1>5. CASE t = HandlePartialRefund(s)
  BY <1>1, <1>3, <1>5 DEF HandlePartialRefund
<1>6. CASE t = HandlePayment(s)
  BY <1>1, <1>3, <1>4, <1>6 DEF HandlePayment
<1>7. CASE t = HandleReversal(s)
  <2> DEFINE m == LatestActive(s)
  <2>1. CASE m = 0 \/ s[m].is_reversal
    BY <1>4, <1>7, <2>1 DEF HandleReversal
  <2>2. CASE m # 0 /\ ~s[m].is_reversal /\ s[m].status = "WAITING_FOR_JOB"
    <3>1. t = [s EXCEPT ![m].status = "CANCELLED"]
      BY <1>7, <2>2 DEF HandleReversal
    <3>2. m \in DOMAIN s /\ IsActive(s[m])
      BY <2>2, LatestIs
    <3> HIDE DEF m
    <3>3. s[m] \in Row /\ [s[m] EXCEPT !.status = "CANCELLED"] \in Row
      BY <3>2, RowFields DEF Row, DisbursementStatus
    <3>4. /\ t \in Seq(Row) /\ DOMAIN t = DOMAIN s
          /\ t[m] = [s[m] EXCEPT !.status = "CANCELLED"]
          /\ \A r \in DOMAIN s : r # m => t[r] = s[r]
      BY <3>1, <3>2, <3>3
    <3> QED
      BY <2>2, <3>2, <3>4 DEF Extends, IsActive
  <2>3. CASE m # 0 /\ ~s[m].is_reversal /\ s[m].status # "WAITING_FOR_JOB"
    BY <1>1, <1>3, <1>7, <2>3 DEF HandleReversal
  <2> QED
    BY <2>1, <2>2, <2>3
<1> QED
  BY <1>4, <1>5, <1>6, <1>7

\* New rows of payments and reversals do not get in the way of partial refunds.
LEMMA PaymentProper ==
    ASSUME NEW s \in Seq(Row), Proper(s), NEW t, t = HandlePayment(s)
    PROVE  /\ Proper(t) /\ Owed(t)
           /\ Owed(s) => t = s
           /\ ~Owed(s) => t[LatestActive(t)].status = "WAITING_FOR_JOB"
           /\ \A r \in DOMAIN t \ DOMAIN s : t[r].target = "INVOICE"
<1>1. CASE Owed(s)
  <2>1. t = s
    BY <1>1 DEF HandlePayment, Owed
  <2> QED
    BY <1>1, <2>1
<1>2. CASE ~Owed(s)
  <2>1. t = Append(s, NewRow("INVOICE", FALSE))
    <3>1. LatestActive(s) = 0 \/ s[LatestActive(s)].is_reversal
      BY <1>2 DEF Owed
    <3> QED
      BY <3>1 DEF HandlePayment
  <2>2. Owed(s) = FALSE
    BY <1>2 DEF Owed
  <2>3. Proper(t) /\ Owed(t) = TRUE /\ LatestActive(t) = Len(s) + 1
    BY <2>1, <2>2, AppendProper
  <2>4. PICK x \in Row : x = NewRow("INVOICE", FALSE)
    BY DEF NewRow, Row, DisbursementStatus
  <2>5. PICK n \in Nat : n = Len(s)
    OBVIOUS
  <2>6. t = Append(s, x) /\ x.target = "INVOICE" /\ x.status = "WAITING_FOR_JOB"
    BY <2>1, <2>4 DEF NewRow
  <2>7. t[n + 1] = x /\ DOMAIN t = 1..(n + 1) /\ DOMAIN s = 1..n
    BY <2>5, <2>6
  <2> QED
    BY <1>2, <2>3, <2>5, <2>6, <2>7
<1> QED
  BY <1>1, <1>2

LEMMA ReversalProper ==
    ASSUME NEW s \in Seq(Row), Proper(s), NEW t, t = HandleReversal(s)
    PROVE  /\ Proper(t) /\ ~Owed(t)
           /\ \A r \in DOMAIN t \ DOMAIN s : t[r].target = "INVOICE"
<1>1. PICK m : m = LatestActive(s)
  OBVIOUS
<1>2. CASE ~Owed(s)
  <2>1. m = 0 \/ s[m].is_reversal
    BY <1>1, <1>2 DEF Owed
  <2>2. t = s
    BY <1>1, <2>1 DEF HandleReversal
  <2> QED
    BY <1>2, <2>2
<1>3. CASE Owed(s) /\ s[m].status = "WAITING_FOR_JOB"
  <2>1. m # 0 /\ ~s[m].is_reversal
    BY <1>1, <1>3 DEF Owed
  <2>2. t = [s EXCEPT ![m].status = "CANCELLED"]
    BY <1>1, <1>3, <2>1 DEF HandleReversal
  <2>3. DOMAIN t = DOMAIN s
    BY <2>2
  <2> QED
    BY <1>1, <1>3, <2>2, <2>3, CancelProper
<1>4. CASE Owed(s) /\ s[m].status # "WAITING_FOR_JOB"
  <2>1. m # 0 /\ ~s[m].is_reversal /\ Owed(s) = TRUE
    BY <1>1, <1>4 DEF Owed
  <2>2. t = Append(s, NewRow("INVOICE", TRUE))
    BY <1>1, <1>4, <2>1 DEF HandleReversal
  <2>3. Proper(t) /\ Owed(t) = FALSE
    BY <1>1, <1>4, <2>1, <2>2, AppendProper
  <2>4. PICK x \in Row : x = NewRow("INVOICE", TRUE)
    BY DEF NewRow, Row, DisbursementStatus
  <2>5. PICK n \in Nat : n = Len(s)
    OBVIOUS
  <2>6. t = Append(s, x) /\ x.target = "INVOICE" /\ x.status = "WAITING_FOR_JOB"
    BY <2>2, <2>4 DEF NewRow
  <2>7. t[n + 1] = x /\ DOMAIN t = 1..(n + 1) /\ DOMAIN s = 1..n
    BY <2>5, <2>6
  <2> QED
    BY <2>3, <2>5, <2>6, <2>7
<1> QED
  BY <1>2, <1>3, <1>4

\* A payment that waits is changed by a reversal.
LEMMA Cancelled ==
    ASSUME NEW s \in Seq(Row), Owed(s), NEW r, r = LatestActive(s),
           s[r].status = "WAITING_FOR_JOB"
    PROVE  HandleReversal(s)[r] # s[r]
<1>1. r \in DOMAIN s /\ r # 0 /\ ~s[r].is_reversal
  BY LatestIs DEF Owed
<1>2. HandleReversal(s) = [s EXCEPT ![r].status = "CANCELLED"]
  BY <1>1 DEF HandleReversal
<1>3. PICK x \in Row : x = s[r]
  BY <1>1, RowFields
<1>4. HandleReversal(s)[r] = [x EXCEPT !.status = "CANCELLED"]
  BY <1>1, <1>2, <1>3
<1>5. [x EXCEPT !.status = "CANCELLED"].status = "CANCELLED"
  BY DEF Row
<1> QED
  BY <1>3, <1>4, <1>5

-----------------------------------------------------------------------------
(* Requests.                                                               *)

\* A request changes what the tables say of one invoice, and its rows become t.
RequestStep(i, t) ==
    /\ UNCHANGED <<disb, stopped, job, files, worker, money>>
    /\ RequestTyped'
    /\ \A j \in Invoices : j # i => /\ kind'[j] = kind[j] /\ inv'[j] = inv[j]
                                    /\ eft'[j] = eft[j] /\ partial'[j] = partial[j]
    /\ t \in Seq(Row) /\ Len(t) <= MaxRows /\ Extends(rows[i], t)
    /\ rows' = [rows EXCEPT ![i] = t]
    /\ lost' = IF \E l \in job.lines : /\ l.inv = i /\ l.row # 0
                                       /\ t[l.row] # rows[i][l.row]
               THEN lost \cup {"race"} ELSE lost

LEMMA RequestRows ==
    ASSUME Typed, NEW i \in Invoices, NEW t, RequestStep(i, t)
    PROVE  /\ rows'[i] = t /\ \A j \in Invoices : j # i => rows'[j] = rows[j]
           /\ \A j \in Invoices : DOMAIN rows[j] \subseteq DOMAIN rows'[j]
           /\ \A j \in Invoices : \A r \in DOMAIN rows[j] :
                /\ rows'[j][r].target = rows[j][r].target
                /\ rows'[j][r].is_reversal = rows[j][r].is_reversal
                /\ rows[j][r].status # "WAITING_FOR_JOB" => rows'[j][r] = rows[j][r]
           /\ \A j \in Invoices : \A r \in DOMAIN rows'[j] :
                rows'[j][r].status \notin {"WAITING_FOR_JOB", "CANCELLED"} =>
                    r \in DOMAIN rows[j] /\ rows'[j][r] = rows[j][r]
<1>1. /\ rows'[i] = t /\ \A j \in Invoices : j # i => rows'[j] = rows[j]
  BY DEF Typed, RowsTyped, RequestStep
<1>2. Extends(rows[i], t) /\ rows[i] \in Seq(Row) /\ t \in Seq(Row)
  BY DEF Typed, RowsTyped, RequestStep
<1>3. ASSUME NEW r \in DOMAIN rows[i], NEW x, x = [rows[i][r] EXCEPT !.status = "CANCELLED"]
      PROVE  x.target = rows[i][r].target /\ x.is_reversal = rows[i][r].is_reversal
             /\ x.status = "CANCELLED"
  BY <1>2, <1>3, RowFields DEF Row
<1>4. /\ DOMAIN rows[i] \subseteq DOMAIN t
      /\ \A r \in DOMAIN rows[i] :
                /\ t[r].target = rows[i][r].target
                /\ t[r].is_reversal = rows[i][r].is_reversal
                /\ rows[i][r].status # "WAITING_FOR_JOB" => t[r] = rows[i][r]
      /\ \A r \in DOMAIN t :
                t[r].status \notin {"WAITING_FOR_JOB", "CANCELLED"} =>
                    r \in DOMAIN rows[i] /\ t[r] = rows[i][r]
  BY <1>2, <1>3 DEF Extends
<1> QED
  BY <1>1, <1>4

LEMMA RequestTypes ==
    ASSUME Typed, NEW i \in Invoices, NEW t, RequestStep(i, t)
    PROVE  Typed'
<1>1. RequestTyped' /\ UNCHANGED <<disb, stopped, job, files, worker, money>>
  BY DEF RequestStep
<1>2. RowsTyped'
  BY DEF Typed, RowsTyped, RequestStep
<1>3. ASSUME NEW lines, LinesTyped(lines)
      PROVE  /\ IsFiniteSet(lines) /\ lines \subseteq Line
             /\ \A l \in lines : l.row # 0 =>
                  /\ l.row \in DOMAIN rows'[l.inv]
                  /\ l.is_reversal = rows'[l.inv][l.row].is_reversal
             /\ \A l, m \in lines : l.inv = m.inv /\ l.row = m.row => l = m
  <2>1. \A l \in lines : l.inv \in Invoices
    BY <1>3 DEF LinesTyped, Line
  <2> QED
    BY <1>3, <2>1, RequestRows DEF LinesTyped
<1>4. FilesTyped'
  BY <1>1, <1>3 DEF Typed, FilesTyped, LinesTyped
<1>5. LinesTyped(job.lines)'
  BY <1>1, <1>3 DEF Typed, LinesTyped
<1>6. lost' \subseteq Losses
  BY DEF Typed, RequestStep, Losses
<1> QED
  BY <1>1, <1>2, <1>4, <1>5, <1>6 DEF Typed

\* Rows that the job has were not cancelled.
LEMMA RequestNoRace ==
    ASSUME Typed, NEW i \in Invoices, NEW t, RequestStep(i, t),
           "race" \notin lost', NoRace, RowsAgree(i)',
           \A l \in job.lines : l.inv = i /\ l.row # 0 /\ t[l.row] = rows[i][l.row] =>
             LET x == rows[i][l.row] IN
             /\ x.target = "INVOICE" /\ ~x.is_reversal => PaidFor(i)'
             /\ x.target = "PARTIAL_REFUND" => Refunding(i, l.row)'
    PROVE  NoRace'
<1>1. /\ rows'[i] = t /\ \A j \in Invoices : j # i => rows'[j] = rows[j]
      /\ job' = job /\ files' = files
  <2>1. /\ rows'[i] = t /\ \A j \in Invoices : j # i => rows'[j] = rows[j]
    BY RequestRows
  <2> QED
    BY <2>1 DEF RequestStep
<1>2. \A l \in job.lines : l.inv = i /\ l.row # 0 => t[l.row] = rows[i][l.row]
  BY DEF RequestStep
<1>3. ASSUME NEW j \in Invoices, j # i
      PROVE  /\ RowsAgree(j)' = RowsAgree(j) /\ PaidFor(j)' = PaidFor(j)
             /\ \A r : Refunding(j, r)' = Refunding(j, r)
  <2>1. /\ kind'[j] = kind[j] /\ inv'[j] = inv[j] /\ eft'[j] = eft[j]
        /\ partial'[j] = partial[j] /\ rows'[j] = rows[j]
    BY <1>1, <1>3 DEF RequestStep
  <2>2. PaidFor(j)' = PaidFor(j)
    BY <2>1 DEF PaidFor
  <2>3. \A r : Refunding(j, r)' = Refunding(j, r)
    BY <2>1 DEF Refunding, IsLatestPartial, SelectLastInSeq
  <2> QED
    BY <2>1, <2>2, <2>3 DEF RowsAgree
<1>4. \A j \in Invoices : RowsAgree(j)'
  BY <1>3 DEF NoRace
<1>5. JobAgrees'
  <2> SUFFICES ASSUME NEW l \in job.lines, l.row # 0
               PROVE  /\ rows'[l.inv][l.row].status = "WAITING_FOR_JOB"
                      /\ rows'[l.inv][l.row].target = "INVOICE" /\ ~rows'[l.inv][l.row].is_reversal
                           => PaidFor(l.inv)'
                      /\ rows'[l.inv][l.row].target = "PARTIAL_REFUND" => Refunding(l.inv, l.row)'
    BY <1>1 DEF JobAgrees
  <2>1. PICK j \in Invoices : j = l.inv
    BY DEF Typed, LinesTyped, Line
  <2>2. PICK r : r = l.row
    OBVIOUS
  <2>3. /\ rows[j][r].status = "WAITING_FOR_JOB"
        /\ rows[j][r].target = "INVOICE" /\ ~rows[j][r].is_reversal => PaidFor(j)
        /\ rows[j][r].target = "PARTIAL_REFUND" => Refunding(j, r)
    BY <2>1, <2>2 DEF NoRace, JobAgrees
  <2>4. CASE j # i
    BY <1>1, <1>3, <2>1, <2>2, <2>3, <2>4
  <2>5. CASE j = i
    BY <1>1, <1>2, <2>1, <2>2, <2>3, <2>5
  <2> QED
    BY <2>4, <2>5
<1>6. SentAgree'
  <2> SUFFICES ASSUME NEW f \in DOMAIN files, files[f].known,
                      NEW l \in files[f].lines, l.row # 0
               PROVE  rows'[l.inv][l.row].status \notin {"WAITING_FOR_JOB", "CANCELLED"}
    BY <1>1 DEF SentAgree
  <2>1. l.inv \in Invoices /\ l.row \in DOMAIN rows[l.inv]
    BY DEF Typed, FilesTyped, LinesTyped, Line
  <2>2. rows[l.inv][l.row].status \notin {"WAITING_FOR_JOB", "CANCELLED"}
    BY DEF NoRace, SentAgree
  <2> QED
    BY <2>1, <2>2, RequestRows
<1> QED
  BY <1>4, <1>5, <1>6 DEF NoRace

\* Rows without a line in a file have no money.
LEMMA RequestMoney ==
    ASSUME Typed, NEW i \in Invoices, NEW t, RequestStep(i, t), NEW j \in Invoices
    PROVE  MoneyOf(j)' = MoneyOf(j)
<1>1. files' = files
  BY DEF RequestStep
<1>2. \A b : Got(j, b)' = Got(j, b)
  BY <1>1 DEF Got
<1>3. \A r : IsPosted(j, r)' = IsPosted(j, r)
  BY <1>1 DEF IsPosted, IsPostedBy, HasLine
<1>4. PICK s \in Seq(Row) : s = rows[j]
  BY DEF Typed, RowsTyped
<1>5. PICK u \in Seq(Row) : u = rows'[j]
  BY RequestTypes DEF Typed, RowsTyped
<1>6. PICK S : S = DOMAIN s
  OBVIOUS
<1>7. PICK N : N = DOMAIN u \ DOMAIN s
  OBVIOUS
<1>8. IsFiniteSet(S) /\ IsFiniteSet(N) /\ S \cap N = {} /\ DOMAIN u = S \cup N
  <2>1. DOMAIN s = 1..Len(s) /\ DOMAIN u = 1..Len(u) /\ Len(s) \in Nat /\ Len(u) \in Nat
    OBVIOUS
  <2>2. IsFiniteSet(DOMAIN s) /\ IsFiniteSet(DOMAIN u)
    BY <2>1, FS_Interval
  <2>3. DOMAIN s \subseteq DOMAIN u
    BY <1>4, <1>5, RequestRows
  <2> QED
    BY <1>6, <1>7, <2>2, <2>3, FS_Subset
<1>9. PICK v : v = PostedRows(j)
  OBVIOUS
<1>10. PICK w : w = PostedRows(j)'
  OBVIOUS
<1>11. \A r \in S \cup N : w[r] = IF IsPosted(j, r) THEN RowAmount(u[r]) ELSE 0
  BY <1>3, <1>5, <1>8, <1>10 DEF PostedRows
<1>12. \A r \in S \cup N : w[r] \in Int
  BY <1>8, <1>11, RowFields, AmountsTyped
<1>13. \A r \in N : w[r] = 0
  <2>1. ASSUME NEW r \in N, IsPosted(j, r) PROVE FALSE
    <3>1. PICK f \in DOMAIN files : \E l \in files[f].lines : l.inv = j /\ l.row = r
      BY <2>1 DEF IsPosted, IsPostedBy, HasLine
    <3>2. r # 0
      BY <1>7
    <3>3. r \in DOMAIN rows[j]
      BY <3>1, <3>2 DEF Typed, FilesTyped, LinesTyped
    <3> QED
      BY <1>4, <1>7, <3>3
  <2> QED
    BY <1>11, <2>1
<1>14. \A r \in S : w[r] = v[r]
  <2>1. \A r \in S : RowAmount(u[r]) = RowAmount(s[r])
    BY <1>4, <1>5, <1>6, RequestRows DEF RowAmount
  <2> QED
    BY <1>4, <1>6, <1>9, <1>11, <2>1 DEF PostedRows
<1>15. SumFunctionOnSet(w, N) = 0
  BY <1>8, <1>13, SumZero
<1>16. SumFunctionOnSet(w, S) = SumFunctionOnSet(v, S)
  BY <1>8, <1>14, SumSame
<1>17. /\ SumFunctionOnSet(w, S) \in Int
       /\ SumFunctionOnSet(w, S \cup N) = SumFunctionOnSet(w, S) + SumFunctionOnSet(w, N)
  BY <1>8, <1>12, SumUnion
<1>18. Total(PostedRows(j)', DOMAIN rows'[j]) = Total(PostedRows(j), DOMAIN rows[j])
  BY <1>4, <1>5, <1>6, <1>8, <1>9, <1>10, <1>15, <1>16, <1>17 DEF Total
<1> QED
  BY <1>2, <1>18 DEF MoneyOf, GotByStatus

LEMMA RequestBooks ==
    ASSUME Typed, NEW i \in Invoices, NEW t, RequestStep(i, t), Books,
           inv[i] = "REFUNDED" => inv'[i] = "REFUNDED",
           IsEft(i)' \/ inv'[i] \in {"NONE", "APPROVED"} =>
               IsEft(i) \/ inv[i] \in {"NONE", "APPROVED"},
           kind'[i] = kind[i] \/ inv[i] = "NONE"
    PROVE  Books'
<1>1. UNCHANGED <<disb, job, files, worker, money>>
  BY DEF RequestStep
<1>2. \A j, b : Got(j, b)' = Got(j, b)
  BY <1>1 DEF Got
<1>3. \A f, j : InFlight(f, j)' = InFlight(f, j)
  BY <1>1 DEF InFlight, HasLine
<1>4. \A j \in Invoices : inv[j] = "REFUNDED" => inv'[j] = "REFUNDED"
  BY DEF RequestStep
<1>5. \A l \in Line : NotGot(l) => NotGot(l)'
  BY <1>2, <1>4 DEF NotGot, Line
<1>6. LinesAgree'
  <2>1. ASSUME NEW l \in job.lines, l.row = 0
        PROVE  disb[l.inv] # "UPLOADED" /\ NotGot(l)'
    BY <1>5, <2>1 DEF Books, LinesAgree, Typed, LinesTyped
  <2>2. ASSUME NEW f \in DOMAIN files, NEW l \in files[f].lines,
               l.row = 0, files[f].feedback # "PROCESSED"
        PROVE  /\ \A g \in DOMAIN files : InFlight(g, l.inv)' => g = f
               /\ files[f].feedback = "NONE" \/ l \in files[f].failed => NotGot(l)'
               /\ l.is_reversal => inv'[l.inv] = "REFUNDED"
               /\ ~l.is_reversal => ~Got(l.inv, TRUE)'
    <3>1. l \in Line /\ l.inv \in Invoices
      BY DEF Typed, FilesTyped, LinesTyped, Line
    <3>2. /\ \A g \in DOMAIN files : InFlight(g, l.inv) => g = f
          /\ files[f].feedback = "NONE" \/ l \in files[f].failed => NotGot(l)
          /\ l.is_reversal => inv[l.inv] = "REFUNDED"
          /\ ~l.is_reversal => ~Got(l.inv, TRUE)
      BY <2>2 DEF Books, LinesAgree
    <3> QED
      BY <1>2, <1>3, <1>4, <1>5, <3>1, <3>2
  <2> QED
    BY <1>1, <2>1, <2>2 DEF LinesAgree
<1>7. ASSUME NEW j \in Invoices
      PROVE  RowsSent(j)'
  <2>1. RowsSent(j)
    BY DEF Books
  <2>2. ASSUME NEW r \in DOMAIN rows'[j],
               rows'[j][r].status \notin {"WAITING_FOR_JOB", "CANCELLED"}
        PROVE  \E f \in DOMAIN files : HasLine(files[f].lines, j, r)
    BY <2>1, <2>2, RequestRows DEF RowsSent
  <2>3. ASSUME NEW r \in DOMAIN rows'[j], NEW f \in DOMAIN files, NEW g \in DOMAIN files,
               HasLine(files[f].lines, j, r), HasLine(files[g].lines, j, r)
        PROVE  f = g
    <3>1. r # 0
      BY RequestTypes DEF Typed, RowsTyped
    <3>2. r \in DOMAIN rows[j]
      BY <2>3, <3>1 DEF Typed, FilesTyped, LinesTyped, HasLine
    <3> QED
      BY <2>1, <2>3, <3>2 DEF RowsSent
  <2>4. \A f, r : HasLine(files[f].lines, j, r)' = HasLine(files[f].lines, j, r)
    BY <1>1 DEF HasLine
  <2> QED
    BY <1>1, <2>2, <2>3, <2>4 DEF RowsSent
<1>8. ASSUME NEW j \in Invoices
      PROVE  StatusAgrees(j)'
  <2>1. StatusAgrees(j)
    BY DEF Books
  <2>2. /\ \A f, r : HasLine(files[f].lines, j, r)' = HasLine(files[f].lines, j, r)
        /\ HasLine(job.lines, j, 0)' = HasLine(job.lines, j, 0)
        /\ HasFailed(j)' = HasFailed(j)
    BY <1>1 DEF HasLine, HasFailed, LinesOf
  <2>3. IsEft(j)' \/ inv'[j] \in {"NONE", "APPROVED"} =>
             IsEft(j) \/ inv[j] \in {"NONE", "APPROVED"}
    BY DEF RequestStep, IsEft
  <2>4. kind'[j] = kind[j] \/ inv[j] = "NONE"
    BY DEF RequestStep
  <2>5. inv[j] = "NONE" => disb[j] = "NONE"
    BY <2>1 DEF StatusAgrees
  <2>6. /\ disb[j] \in {"NONE", "UPLOADED", "COMPLETED", "REVERSED", "ERRORED"}
        /\ IsEft(j)' \/ inv'[j] \in {"NONE", "APPROVED"} =>
             disb[j] = "NONE" /\ ~HasLine(job.lines, j, 0)
        /\ disb[j] = "NONE" => \A f \in DOMAIN files : ~HasLine(files[f].lines, j, 0)
        /\ disb[j] = "UPLOADED" <=> \E f \in DOMAIN files : InFlight(f, j)
    BY <2>1, <2>3 DEF StatusAgrees
  <2>7. /\ disb[j] = "ERRORED" => /\ HasFailed(j) /\ ~Got(j, TRUE)
                                  /\ Got(j, FALSE) => inv'[j] = "REFUNDED"
        /\ disb[j] = "COMPLETED" => Got(j, FALSE) /\ ~Got(j, TRUE)
        /\ disb[j] = "REVERSED" => Got(j, FALSE) /\ (kind'[j].batch # "GA" => Got(j, TRUE))
        /\ Got(j, TRUE) => Got(j, FALSE) /\ inv'[j] = "REFUNDED"
    BY <1>4, <2>1, <2>4, <2>5 DEF StatusAgrees
  <2> QED
    BY <1>1, <1>2, <1>3, <2>2, <2>6, <2>7 DEF StatusAgrees
<1>9. \A j \in Invoices : money'[j] = MoneyOf(j)'
  BY <1>1, RequestMoney DEF Books
<1> QED
  BY <1>1, <1>6, <1>7, <1>8, <1>9 DEF Books

LEMMA RequestKeeps ==
    ASSUME IInv, NEW i \in Invoices, NEW t, RequestStep(i, t), Requested(i)',
           "race" \notin lost' /\ NoRace =>
             /\ RowsAgree(i)'
             /\ \A l \in job.lines : l.inv = i /\ l.row # 0 /\ t[l.row] = rows[i][l.row] =>
                  LET x == rows[i][l.row] IN
                  /\ x.target = "INVOICE" /\ ~x.is_reversal => PaidFor(i)'
                  /\ x.target = "PARTIAL_REFUND" => Refunding(i, l.row)',
           inv[i] = "REFUNDED" => inv'[i] = "REFUNDED",
           IsEft(i)' \/ inv'[i] \in {"NONE", "APPROVED"} =>
               IsEft(i) \/ inv[i] \in {"NONE", "APPROVED"},
           kind'[i] = kind[i] \/ inv[i] = "NONE"
    PROVE  IInv'
<1>1. Typed /\ Typed'
  BY RequestTypes DEF IInv
<1>2. ASSUME NEW j \in Invoices PROVE Requested(j)'
  <2>1. CASE j = i
    BY <2>1
  <2>2. CASE j # i
    <3>1. /\ kind'[j] = kind[j] /\ inv'[j] = inv[j] /\ eft'[j] = eft[j]
          /\ partial'[j] = partial[j] /\ rows'[j] = rows[j]
      BY <1>1, <2>2, RequestRows DEF RequestStep
    <3>2. Requested(j)
      BY DEF IInv
    <3> QED
      BY <3>1, <3>2 DEF Requested, IsEft
  <2> QED
    BY <2>1, <2>2
<1>3. lost \subseteq lost'
  BY DEF RequestStep
<1>4. "race" \notin lost' => NoRace'
  <2>1. ASSUME "race" \notin lost' PROVE NoRace
    BY <1>3, <2>1 DEF IInv
  <2> QED
    BY <1>1, <2>1, RequestNoRace
<1>5. lost' = {} => Books'
  <2>1. ASSUME lost' = {} PROVE Books
    BY <1>3, <2>1 DEF IInv
  <2> QED
    BY <1>1, <2>1, RequestBooks
<1> QED
  BY <1>1, <1>2, <1>4, <1>5 DEF IInv

LEMMA ChangeIsStep ==
    ASSUME Typed, NEW i \in Invoices, NEW t,
           t \in {rows[i], HandlePayment(rows[i]), HandleReversal(rows[i]),
                  HandlePartialRefund(rows[i])},
           ChangeRows(i, t) \/ (t = rows[i] /\ UNCHANGED <<rows, lost>>),
           UNCHANGED <<disb, stopped, job, files, worker, money>>, RequestTyped',
           \A j \in Invoices : j # i => /\ kind'[j] = kind[j] /\ inv'[j] = inv[j]
                                        /\ eft'[j] = eft[j] /\ partial'[j] = partial[j]
    PROVE  RequestStep(i, t)
<1>1. rows[i] \in Seq(Row) /\ Len(rows[i]) <= MaxRows /\ rows \in [Invoices -> Seq(Row)]
  BY DEF Typed, RowsTyped
<1>2. t \in Seq(Row) /\ Extends(rows[i], t)
  BY <1>1, RowsExtended
<1>3. CASE ChangeRows(i, t)
  <2>1. /\ Len(t) <= MaxRows /\ rows' = [rows EXCEPT ![i] = t]
        /\ lost' = IF \E l \in job.lines : /\ l.inv = i /\ l.row # 0
                                           /\ t[l.row] # rows[i][l.row]
                   THEN lost \cup {"race"} ELSE lost
    BY <1>3 DEF ChangeRows, Lose
  <2> QED
    BY <1>2, <2>1 DEF RequestStep
<1>4. CASE t = rows[i] /\ UNCHANGED <<rows, lost>>
  <2>1. rows' = [rows EXCEPT ![i] = t] /\ Len(t) <= MaxRows
    BY <1>1, <1>4
  <2>2. lost' = IF \E l \in job.lines : /\ l.inv = i /\ l.row # 0
                                           /\ t[l.row] # rows[i][l.row]
                   THEN lost \cup {"race"} ELSE lost
    BY <1>4
  <2> QED
    BY <1>2, <2>1, <2>2 DEF RequestStep
<1> QED
  BY <1>3, <1>4

\* Rows of partial refunds wait until one is approved.
LEMMA PartialsWait ==
    ASSUME NEW i \in Invoices, RowsAgree(i), partial[i] # "APPROVED"
    PROVE  \A r \in DOMAIN rows[i] :
             rows[i][r].target = "PARTIAL_REFUND" => rows[i][r].status = "WAITING_FOR_JOB"
BY DEF RowsAgree, Refunding

\* What the job may have of an invoice.
LEMMA InJob ==
    ASSUME Typed, NoRace, NEW l \in job.lines, l.row # 0
    PROVE  LET s == rows[l.inv] IN
           /\ s[l.row].status = "WAITING_FOR_JOB" /\ l.row \in DOMAIN s /\ l.inv \in Invoices
           /\ s[l.row].target = "INVOICE" /\ ~s[l.row].is_reversal =>
                Owed(s) /\ l.row = LatestActive(s) /\ PaidFor(l.inv)
           /\ s[l.row].target = "PARTIAL_REFUND" => Refunding(l.inv, l.row)
<1>1. PICK s \in Seq(Row) : s = rows[l.inv] /\ l.row \in DOMAIN s /\ l.inv \in Invoices
  BY DEF Typed, LinesTyped, RowsTyped, Line
<1>2. /\ s[l.row].status = "WAITING_FOR_JOB"
      /\ s[l.row].target = "INVOICE" /\ ~s[l.row].is_reversal => PaidFor(l.inv)
      /\ s[l.row].target = "PARTIAL_REFUND" => Refunding(l.inv, l.row)
  BY <1>1 DEF NoRace, JobAgrees
<1>3. Proper(s)
  BY <1>1 DEF NoRace, RowsAgree
<1>4. s[l.row].target = "INVOICE" /\ ~s[l.row].is_reversal => l.row = LatestActive(s)
  BY <1>1, <1>2, <1>3 DEF Proper
<1>5. l.row # 0
  OBVIOUS
<1> QED
  BY <1>1, <1>2, <1>4, <1>5 DEF Owed

LEMMA StillWait ==
    ASSUME NEW s \in Seq(Row), NEW t, Extends(s, t),
           \A r \in DOMAIN t \ DOMAIN s : t[r].target = "INVOICE",
           \A r \in DOMAIN s : s[r].target = "PARTIAL_REFUND" => s[r].status = "WAITING_FOR_JOB"
    PROVE  \A r \in DOMAIN t : t[r].target = "PARTIAL_REFUND" => t[r].status = "WAITING_FOR_JOB"
<1>1. ASSUME NEW r \in DOMAIN s, t[r].target = "PARTIAL_REFUND"
      PROVE  t[r].status = "WAITING_FOR_JOB"
  <2>1. [s[r] EXCEPT !.status = "CANCELLED"].target = s[r].target
    BY RowFields DEF Row
  <2>2. t[r] = s[r]
    BY <1>1, <2>1 DEF Extends
  <2> QED
    BY <1>1, <2>2
<1> QED
  BY <1>1

LEMMA EmptyRows ==
    /\ LatestActive(<<>>) = 0 /\ ~Owed(<<>>)
    /\ HandlePayment(<<>>) = Append(<<>>, NewRow("INVOICE", FALSE))
<1>1. <<>> \in Seq(Row) /\ DOMAIN <<>> = {}
  OBVIOUS
<1>2. LatestActive(<<>>) = 0
  BY <1>1, LatestUnique
<1> QED
  BY <1>2 DEF Owed, HandlePayment

LEMMA CreateInvoiceGood ==
    ASSUME IInv, NEW i \in Invoices, NEW k \in Kinds, CreateInvoice(i, k)
    PROVE  IInv'
<1>1. /\ Typed /\ Requested(i) /\ inv[i] = "NONE" /\ kind[i] = NoKind /\ rows[i] = <<>>
      /\ partial[i] = "NONE" /\ eft[i] = "NONE"
  <2>1. Requested(i) /\ Typed /\ inv[i] = "NONE"
    BY DEF IInv, CreateInvoice
  <2>2. kind[i] = NoKind
    BY <2>1 DEF Requested
  <2>3. ~IsEft(i)
    BY <2>2 DEF IsEft, NoKind
  <2> QED
    BY <2>1, <2>2, <2>3 DEF Requested
<1>2. PICK t : t = IF k.method = "EFT" THEN HandlePayment(rows[i]) ELSE rows[i]
  OBVIOUS
<1>3. /\ kind' = [kind EXCEPT ![i] = k] /\ inv' = [inv EXCEPT ![i] = "APPROVED"]
      /\ ChangeRows(i, t)
      /\ UNCHANGED <<eft, partial, recent, disb, stopped, job, files, worker, money>>
  BY <1>2 DEF CreateInvoice
<1>4. RequestTyped'
  BY <1>1, <1>3 DEF Typed, RequestTyped, InvoiceStatus
<1>5. kind'[i] = k /\ inv'[i] = "APPROVED" /\ eft'[i] = "NONE" /\ partial'[i] = "NONE"
  BY <1>1, <1>3 DEF Typed, RequestTyped
<1>6. RequestStep(i, t)
  <2>1. \A j \in Invoices : j # i => /\ kind'[j] = kind[j] /\ inv'[j] = inv[j]
                                     /\ eft'[j] = eft[j] /\ partial'[j] = partial[j]
    BY <1>1, <1>3 DEF Typed, RequestTyped
  <2> QED
    BY <1>1, <1>2, <1>3, <1>4, <2>1, ChangeIsStep
<1>7. rows'[i] = t
  BY <1>1, <1>6, RequestRows
<1>8. k # NoKind /\ (IsEft(i)' <=> k.method = "EFT")
  BY <1>5 DEF Kinds, NoKind, IsEft
<1>9. Requested(i)'
  <2>1. k.method # "EFT" => \A r \in DOMAIN t : t[r].target = "PARTIAL_REFUND"
    BY <1>1, <1>2
  <2> QED
    BY <1>5, <1>7, <1>8, <2>1 DEF Requested
<1>10. ASSUME NoRace
       PROVE  /\ RowsAgree(i)'
              /\ \A l \in job.lines : ~(l.inv = i /\ l.row # 0)
  <2>1. <<>> \in Seq(Row) /\ Proper(<<>>)
    BY <1>1, <1>10 DEF NoRace, RowsAgree
  <2>2. Proper(t) /\ (Owed(t) => t[LatestActive(t)].status = "WAITING_FOR_JOB")
        /\ \A r \in DOMAIN t : t[r].target = "INVOICE"
    <3>1. CASE k.method = "EFT"
      <4>1. PICK s \in Seq(Row) : s = rows[i] /\ Proper(s) /\ ~Owed(s) /\ DOMAIN s = {}
        <5>1. <<>> \in Seq(Row) /\ DOMAIN <<>> = {} /\ ~Owed(<<>>) /\ Proper(<<>>)
          BY <2>1, EmptyRows
        <5> QED
          BY <1>1, <5>1
      <4>2. t = HandlePayment(s)
        BY <1>2, <3>1, <4>1
      <4>3. /\ Proper(t) /\ Owed(t)
            /\ ~Owed(s) => t[LatestActive(t)].status = "WAITING_FOR_JOB"
            /\ \A r \in DOMAIN t \ DOMAIN s : t[r].target = "INVOICE"
        BY <4>1, <4>2, PaymentProper
      <4> QED
        BY <4>1, <4>3
    <3>2. CASE k.method # "EFT"
      <4>1. t = <<>> /\ DOMAIN t = {} /\ ~Owed(t)
        BY <1>1, <1>2, <3>2, EmptyRows
      <4> QED
        BY <2>1, <4>1
    <3> QED
      BY <3>1, <3>2
  <2>3. RowsAgree(i)'
    BY <1>5, <1>7, <2>2 DEF RowsAgree
  <2>4. \A l \in job.lines : ~(l.inv = i /\ l.row # 0)
    BY <1>1, <1>10, InJob
  <2> QED
    BY <2>3, <2>4
<1>11. IsEft(i)' \/ inv'[i] \in {"NONE", "APPROVED"} =>
               IsEft(i) \/ inv[i] \in {"NONE", "APPROVED"}
  BY <1>1
<1>12. inv[i] = "REFUNDED" => inv'[i] = "REFUNDED"
  BY <1>1
<1> QED
  BY <1>1, <1>6, <1>9, <1>10, <1>11, <1>12, RequestKeeps

LEMMA ApplyCreditsGood ==
    ASSUME IInv, NEW i \in Invoices, ApplyCredits(i)
    PROVE  IInv'
<1>1. Typed /\ Requested(i) /\ IsEft(i) /\ inv[i] = "APPROVED" /\ partial[i] # "APPROVED"
  BY DEF IInv, ApplyCredits, Requested
<1>2. PICK t : t = HandlePayment(rows[i])
  OBVIOUS
<1>3. /\ eft' = [eft EXCEPT ![i] = "LINKED"] /\ ChangeRows(i, t)
      /\ UNCHANGED <<kind, inv, partial, recent, disb, stopped, job, files, worker, money>>
  BY <1>2 DEF ApplyCredits
<1>4. RequestTyped'
  BY <1>1, <1>3 DEF Typed, RequestTyped
<1>5. kind'[i] = kind[i] /\ inv'[i] = "APPROVED" /\ eft'[i] = "LINKED" /\ partial'[i] = partial[i]
      /\ IsEft(i)'
  BY <1>1, <1>3 DEF Typed, RequestTyped, IsEft
<1>6. RequestStep(i, t)
  <2>1. \A j \in Invoices : j # i => /\ kind'[j] = kind[j] /\ inv'[j] = inv[j]
                                     /\ eft'[j] = eft[j] /\ partial'[j] = partial[j]
    BY <1>1, <1>3 DEF Typed, RequestTyped
  <2> QED
    BY <1>1, <1>2, <1>3, <1>4, <2>1, ChangeIsStep
<1>7. /\ rows'[i] = t /\ DOMAIN rows[i] \subseteq DOMAIN t
      /\ \A r \in DOMAIN rows[i] : t[r].target = rows[i][r].target
  BY <1>1, <1>6, RequestRows
<1>8. Requested(i)'
  <2>1. partial[i] # "NONE" => \E r \in DOMAIN t : t[r].target = "PARTIAL_REFUND"
    BY <1>1, <1>7 DEF Requested
  <2>2. kind[i] # NoKind
    BY <1>1 DEF Requested
  <2> QED
    BY <1>1, <1>5, <1>7, <2>1, <2>2 DEF Requested
<1>9. ASSUME NoRace
      PROVE  /\ RowsAgree(i)'
             /\ \A l \in job.lines : l.inv = i /\ l.row # 0 =>
                  LET x == rows[i][l.row] IN
                  /\ ~(x.target = "INVOICE" /\ ~x.is_reversal)
                  /\ x.target # "PARTIAL_REFUND"
  <2>1. RowsAgree(i) /\ rows[i] \in Seq(Row)
    BY <1>1, <1>9 DEF NoRace, Typed, RowsTyped
  <2>2. /\ Proper(t) /\ Owed(t) /\ (Owed(rows[i]) => t = rows[i])
        /\ ~Owed(rows[i]) => t[LatestActive(t)].status = "WAITING_FOR_JOB"
        /\ \A r \in DOMAIN t \ DOMAIN rows[i] : t[r].target = "INVOICE"
    BY <1>2, <2>1, PaymentProper DEF RowsAgree
  <2>3. ~PaidFor(i)
    BY <1>1 DEF PaidFor
  <2>4. t[LatestActive(t)].status = "WAITING_FOR_JOB"
    BY <2>1, <2>2, <2>3 DEF RowsAgree
  <2>5. \A r \in DOMAIN rows[i] :
          rows[i][r].target = "PARTIAL_REFUND" => rows[i][r].status = "WAITING_FOR_JOB"
    BY <1>1, <2>1, PartialsWait
  <2>6. Extends(rows[i], t)
    BY <1>6 DEF RequestStep
  <2>7. \A r \in DOMAIN t : t[r].target = "PARTIAL_REFUND" => t[r].status = "WAITING_FOR_JOB"
    BY <2>1, <2>2, <2>5, <2>6, StillWait
  <2>8. RowsAgree(i)'
    BY <1>5, <1>7, <2>2, <2>4, <2>7 DEF RowsAgree
  <2>9. \A r : ~Refunding(i, r)
    BY <1>1 DEF Refunding
  <2> QED
    BY <1>1, <1>9, <2>3, <2>8, <2>9, InJob
<1> QED
  BY <1>1, <1>5, <1>6, <1>8, <1>9, RequestKeeps

LEMMA PayGood ==
    ASSUME IInv, NEW i \in Invoices, Pay(i)
    PROVE  IInv'
<1>1. Typed /\ Requested(i) /\ inv[i] = "APPROVED" /\ (IsEft(i) => eft[i] = "LINKED")
  BY DEF IInv, Pay
<1>2. /\ inv' = [inv EXCEPT ![i] = "PAID"] /\ recent' = recent \cup {i}
      /\ UNCHANGED <<kind, eft, partial, disb, rows, stopped, job, files, worker, money, lost>>
  BY DEF Pay
<1>3. RequestTyped'
  BY <1>1, <1>2 DEF Typed, RequestTyped, InvoiceStatus
<1>4. kind'[i] = kind[i] /\ inv'[i] = "PAID" /\ eft'[i] = eft[i] /\ partial'[i] = partial[i]
      /\ IsEft(i)' = IsEft(i) /\ rows'[i] = rows[i]
  BY <1>1, <1>2 DEF Typed, RequestTyped, IsEft
<1>5. RequestStep(i, rows[i])
  <2>1. \A j \in Invoices : j # i => /\ kind'[j] = kind[j] /\ inv'[j] = inv[j]
                                     /\ eft'[j] = eft[j] /\ partial'[j] = partial[j]
    BY <1>1, <1>2 DEF Typed, RequestTyped
  <2> QED
    BY <1>1, <1>2, <1>3, <2>1, ChangeIsStep
<1>6. eft[i] # "UNAPPLIED" /\ partial[i] # "APPROVED" /\ kind[i] # NoKind
  BY <1>1 DEF Requested
<1>7. Requested(i)'
  BY <1>1, <1>4, <1>6 DEF Requested
<1>8. PaidFor(i)'
  BY <1>4, <1>6 DEF PaidFor
<1>9. ASSUME NoRace
      PROVE  /\ RowsAgree(i)'
             /\ \A l \in job.lines : l.inv = i /\ l.row # 0 =>
                  rows[i][l.row].target # "PARTIAL_REFUND"
  <2>1. RowsAgree(i) /\ (\A r : ~Refunding(i, r))
    BY <1>6, <1>9 DEF NoRace, Refunding
  <2>2. \A r \in DOMAIN rows[i] :
          rows[i][r].target = "PARTIAL_REFUND" => rows[i][r].status = "WAITING_FOR_JOB"
    BY <1>6, <2>1, PartialsWait
  <2>3. RowsAgree(i)'
    BY <1>1, <1>4, <1>8, <2>1, <2>2 DEF RowsAgree
  <2> QED
    BY <1>1, <1>9, <2>1, <2>3, InJob
<1> QED
  BY <1>1, <1>4, <1>5, <1>7, <1>8, <1>9, RequestKeeps

LEMMA ReceiptAgesGood ==
    ASSUME IInv, NEW i \in Invoices, ReceiptAges(i)
    PROVE  IInv'
<1>1. Typed /\ Requested(i)
  BY DEF IInv
<1>2. recent' = recent \ {i}
      /\ UNCHANGED <<kind, inv, eft, partial, disb, rows, stopped, job, files, worker,
                     money, lost>>
  BY DEF ReceiptAges
<1>3. RequestTyped'
  BY <1>1, <1>2 DEF Typed, RequestTyped
<1>4. RequestStep(i, rows[i])
  BY <1>1, <1>2, <1>3, ChangeIsStep
<1>5. Requested(i)' /\ IsEft(i)' = IsEft(i) /\ PaidFor(i)' = PaidFor(i)
  BY <1>1, <1>2 DEF Requested, IsEft, PaidFor
<1>6. \A r : Refunding(i, r)' = Refunding(i, r)
  BY <1>2 DEF Refunding, IsLatestPartial, SelectLastInSeq
<1>7. ASSUME NoRace
      PROVE  /\ RowsAgree(i)'
             /\ \A l \in job.lines : l.inv = i /\ l.row # 0 =>
                  LET x == rows[i][l.row] IN
                  /\ x.target = "INVOICE" /\ ~x.is_reversal => PaidFor(i)'
                  /\ x.target = "PARTIAL_REFUND" => Refunding(i, l.row)'
  <2>1. RowsAgree(i)
    BY <1>7 DEF NoRace
  <2>2. RowsAgree(i)'
    BY <1>2, <1>5, <1>6, <2>1 DEF RowsAgree
  <2> QED
    BY <1>1, <1>5, <1>6, <1>7, <2>2, InJob
<1> QED
  BY <1>2, <1>4, <1>5, <1>7, RequestKeeps

LEMMA UnapplyCreditsGood ==
    ASSUME IInv, NEW i \in Invoices, UnapplyCredits(i)
    PROVE  IInv'
<1>1. /\ Typed /\ Requested(i) /\ IsEft(i) /\ inv[i] = "PAID" /\ eft[i] = "LINKED"
      /\ partial[i] # "APPROVED"
  BY DEF IInv, UnapplyCredits
<1>2. PICK t : t = HandleReversal(rows[i])
  OBVIOUS
<1>3. /\ eft' = [eft EXCEPT ![i] = "UNAPPLIED"] /\ ChangeRows(i, t)
      /\ UNCHANGED <<kind, inv, partial, recent, disb, stopped, job, files, worker, money>>
  BY <1>2 DEF UnapplyCredits
<1>4. RequestTyped'
  BY <1>1, <1>3 DEF Typed, RequestTyped
<1>5. kind'[i] = kind[i] /\ inv'[i] = "PAID" /\ eft'[i] = "UNAPPLIED" /\ partial'[i] = partial[i]
      /\ IsEft(i)'
  BY <1>1, <1>3 DEF Typed, RequestTyped, IsEft
<1>6. RequestStep(i, t)
  <2>1. \A j \in Invoices : j # i => /\ kind'[j] = kind[j] /\ inv'[j] = inv[j]
                                     /\ eft'[j] = eft[j] /\ partial'[j] = partial[j]
    BY <1>1, <1>3 DEF Typed, RequestTyped
  <2> QED
    BY <1>1, <1>2, <1>3, <1>4, <2>1, ChangeIsStep
<1>7. /\ rows'[i] = t /\ DOMAIN rows[i] \subseteq DOMAIN t
      /\ \A r \in DOMAIN rows[i] : t[r].target = rows[i][r].target
  BY <1>1, <1>6, RequestRows
<1>8. Requested(i)'
  <2>1. partial[i] # "NONE" => \E r \in DOMAIN t : t[r].target = "PARTIAL_REFUND"
    BY <1>1, <1>7 DEF Requested
  <2>2. kind[i] # NoKind
    BY <1>1 DEF Requested
  <2> QED
    BY <1>1, <1>5, <1>7, <2>1, <2>2 DEF Requested
<1>9. ASSUME NoRace
      PROVE  /\ RowsAgree(i)'
             /\ \A l \in job.lines : l.inv = i /\ l.row # 0 /\ t[l.row] = rows[i][l.row] =>
                  LET x == rows[i][l.row] IN
                  /\ ~(x.target = "INVOICE" /\ ~x.is_reversal)
                  /\ x.target # "PARTIAL_REFUND"
  <2>1. RowsAgree(i) /\ rows[i] \in Seq(Row)
    BY <1>1, <1>9 DEF NoRace, Typed, RowsTyped
  <2>2. Proper(t) /\ ~Owed(t) /\ \A r \in DOMAIN t \ DOMAIN rows[i] : t[r].target = "INVOICE"
    BY <1>2, <2>1, ReversalProper DEF RowsAgree
  <2>3. \A r \in DOMAIN rows[i] :
          rows[i][r].target = "PARTIAL_REFUND" => rows[i][r].status = "WAITING_FOR_JOB"
    BY <1>1, <2>1, PartialsWait
  <2>4. Extends(rows[i], t)
    BY <1>6 DEF RequestStep
  <2>5. \A r \in DOMAIN t : t[r].target = "PARTIAL_REFUND" => t[r].status = "WAITING_FOR_JOB"
    BY <2>1, <2>2, <2>3, <2>4, StillWait
  <2>6. RowsAgree(i)'
    BY <1>5, <1>7, <2>2, <2>5 DEF RowsAgree
  <2>7. \A r : ~Refunding(i, r)
    BY <1>1 DEF Refunding
  <2> QED
    BY <1>1, <1>2, <1>9, <2>1, <2>6, <2>7, InJob, Cancelled
<1> QED
  BY <1>1, <1>5, <1>6, <1>8, <1>9, RequestKeeps

LEMMA UndoPaymentGood ==
    ASSUME IInv, NEW i \in Invoices, UndoPayment(i)
    PROVE  IInv'
<1>1. Typed /\ Requested(i) /\ inv[i] = "PAID" /\ eft[i] = "UNAPPLIED"
  BY DEF IInv, UndoPayment
<1>2. /\ inv' = [inv EXCEPT ![i] = "APPROVED"] /\ eft' = [eft EXCEPT ![i] = "NONE"]
      /\ recent' = recent \ {i}
      /\ UNCHANGED <<kind, partial, disb, rows, stopped, job, files, worker, money, lost>>
  BY DEF UndoPayment
<1>3. RequestTyped'
  BY <1>1, <1>2 DEF Typed, RequestTyped, InvoiceStatus
<1>4. kind'[i] = kind[i] /\ inv'[i] = "APPROVED" /\ eft'[i] = "NONE" /\ partial'[i] = partial[i]
      /\ IsEft(i)' = IsEft(i) /\ rows'[i] = rows[i]
  BY <1>1, <1>2 DEF Typed, RequestTyped, IsEft
<1>5. RequestStep(i, rows[i])
  <2>1. \A j \in Invoices : j # i => /\ kind'[j] = kind[j] /\ inv'[j] = inv[j]
                                     /\ eft'[j] = eft[j] /\ partial'[j] = partial[j]
    BY <1>1, <1>2 DEF Typed, RequestTyped
  <2> QED
    BY <1>1, <1>2, <1>3, <2>1, ChangeIsStep
<1>6. IsEft(i) /\ partial[i] # "APPROVED" /\ kind[i] # NoKind
  BY <1>1 DEF Requested
<1>7. Requested(i)'
  BY <1>1, <1>4, <1>6 DEF Requested
<1>8. ~PaidFor(i)
  BY <1>1 DEF PaidFor
<1>9. ASSUME NoRace
      PROVE  /\ RowsAgree(i)'
             /\ \A l \in job.lines : l.inv = i /\ l.row # 0 =>
                  LET x == rows[i][l.row] IN
                  /\ ~(x.target = "INVOICE" /\ ~x.is_reversal)
                  /\ x.target # "PARTIAL_REFUND"
  <2>1. RowsAgree(i) /\ (\A r : ~Refunding(i, r))
    BY <1>6, <1>9 DEF NoRace, Refunding
  <2>2. \A r \in DOMAIN rows[i] :
          rows[i][r].target = "PARTIAL_REFUND" => rows[i][r].status = "WAITING_FOR_JOB"
    BY <1>6, <2>1, PartialsWait
  <2>3. RowsAgree(i)'
    BY <1>1, <1>4, <2>1, <2>2 DEF RowsAgree
  <2> QED
    BY <1>1, <1>8, <1>9, <2>1, <2>3, InJob
<1> QED
  BY <1>1, <1>4, <1>5, <1>6, <1>7, <1>9, RequestKeeps

LEMMA RefundGood ==
    ASSUME IInv, NEW i \in Invoices, Refund(i)
    PROVE  IInv'
<1>1. /\ Typed /\ Requested(i) /\ inv[i] \in {"PAID", "APPROVED"} /\ partial[i] = "NONE"
  BY DEF IInv, Refund
<1>2. PICK t : t = IF IsEft(i) THEN HandleReversal(rows[i]) ELSE rows[i]
  OBVIOUS
<1>3. /\ inv' = [inv EXCEPT ![i] = "REFUNDED"] /\ ChangeRows(i, t)
      /\ UNCHANGED <<kind, eft, partial, recent, disb, stopped, job, files, worker, money>>
  BY <1>2 DEF Refund
<1>4. RequestTyped'
  BY <1>1, <1>3 DEF Typed, RequestTyped, InvoiceStatus
<1>5. kind'[i] = kind[i] /\ inv'[i] = "REFUNDED" /\ eft'[i] = eft[i] /\ partial'[i] = "NONE"
      /\ IsEft(i)' = IsEft(i)
  BY <1>1, <1>3 DEF Typed, RequestTyped, IsEft
<1>6. RequestStep(i, t)
  <2>1. \A j \in Invoices : j # i => /\ kind'[j] = kind[j] /\ inv'[j] = inv[j]
                                     /\ eft'[j] = eft[j] /\ partial'[j] = partial[j]
    BY <1>1, <1>3 DEF Typed, RequestTyped
  <2> QED
    BY <1>1, <1>2, <1>3, <1>4, <2>1, ChangeIsStep
<1>7. /\ rows'[i] = t /\ DOMAIN rows[i] \subseteq DOMAIN t
      /\ \A r \in DOMAIN rows[i] : t[r].target = rows[i][r].target
  BY <1>1, <1>6, RequestRows
<1>8. Requested(i)'
  <2>1. kind[i] # NoKind
    BY <1>1 DEF Requested
  <2> QED
    BY <1>1, <1>2, <1>5, <1>7, <2>1 DEF Requested
<1>9. ASSUME NoRace
      PROVE  /\ RowsAgree(i)'
             /\ \A l \in job.lines : l.inv = i /\ l.row # 0 /\ t[l.row] = rows[i][l.row] =>
                  LET x == rows[i][l.row] IN
                  /\ ~(x.target = "INVOICE" /\ ~x.is_reversal)
                  /\ x.target # "PARTIAL_REFUND"
  <2>1. RowsAgree(i) /\ rows[i] \in Seq(Row) /\ Proper(rows[i])
    BY <1>1, <1>9 DEF NoRace, Typed, RowsTyped, RowsAgree
  <2>2. ASSUME ~IsEft(i), Owed(rows[i]) PROVE FALSE
    <3>1. LatestActive(rows[i]) \in DOMAIN rows[i] /\ IsActive(rows[i][LatestActive(rows[i])])
      BY <2>1, <2>2, LatestIs DEF Owed
    <3> QED
      BY <1>1, <2>2, <3>1 DEF Requested, IsActive
  <2>3. Proper(t) /\ ~Owed(t) /\ \A r \in DOMAIN t \ DOMAIN rows[i] : t[r].target = "INVOICE"
    <3>1. CASE IsEft(i)
      BY <1>2, <2>1, <3>1, ReversalProper
    <3>2. CASE ~IsEft(i)
      BY <1>2, <2>1, <2>2, <3>2
    <3> QED
      BY <3>1, <3>2
  <2>4. \A r \in DOMAIN rows[i] :
          rows[i][r].target = "PARTIAL_REFUND" => rows[i][r].status = "WAITING_FOR_JOB"
    BY <1>1, <2>1, PartialsWait
  <2>5. Extends(rows[i], t)
    BY <1>6 DEF RequestStep
  <2>6. \A r \in DOMAIN t : t[r].target = "PARTIAL_REFUND" => t[r].status = "WAITING_FOR_JOB"
    BY <2>1, <2>3, <2>4, <2>5, StillWait
  <2>7. RowsAgree(i)'
    BY <1>5, <1>7, <2>3, <2>6 DEF RowsAgree
  <2>8. \A r : ~Refunding(i, r)
    BY <1>1 DEF Refunding
  <2>9. ASSUME NEW l \in job.lines, l.inv = i, l.row # 0, t[l.row] = rows[i][l.row],
               rows[i][l.row].target = "INVOICE", ~rows[i][l.row].is_reversal
        PROVE  FALSE
    <3>1. /\ l.row = LatestActive(rows[i]) /\ Owed(rows[i])
          /\ rows[i][l.row].status = "WAITING_FOR_JOB"
      BY <1>1, <1>9, <2>9, InJob
    <3>2. t = HandleReversal(rows[i])
      BY <1>2, <2>2, <3>1
    <3> QED
      BY <2>1, <2>9, <3>1, <3>2, Cancelled
  <2> QED
    BY <1>1, <1>9, <2>7, <2>8, <2>9, InJob
<1>10. IsEft(i)' \/ inv'[i] \in {"NONE", "APPROVED"} =>
               IsEft(i) \/ inv[i] \in {"NONE", "APPROVED"}
  BY <1>5
<1> QED
  BY <1>1, <1>5, <1>6, <1>8, <1>9, <1>10, RequestKeeps

LEMMA RequestPartialRefundGood ==
    ASSUME IInv, NEW i \in Invoices, RequestPartialRefund(i)
    PROVE  IInv'
<1>1. /\ Typed /\ Requested(i) /\ inv[i] = "PAID" /\ partial[i] = "NONE" /\ eft[i] # "UNAPPLIED"
  BY DEF IInv, RequestPartialRefund
<1>2. PICK t : t = HandlePartialRefund(rows[i])
  OBVIOUS
<1>3. PICK status \in {"PENDING", "APPROVED"} :
      /\ partial' = [partial EXCEPT ![i] = status] /\ ChangeRows(i, t)
      /\ UNCHANGED <<kind, inv, eft, recent, disb, stopped, job, files, worker, money>>
  BY <1>2 DEF RequestPartialRefund
<1>4. RequestTyped'
  BY <1>1, <1>3 DEF Typed, RequestTyped
<1>5. kind'[i] = kind[i] /\ inv'[i] = "PAID" /\ eft'[i] = eft[i] /\ partial'[i] = status
      /\ IsEft(i)' = IsEft(i)
  BY <1>1, <1>3 DEF Typed, RequestTyped, IsEft
<1>6. RequestStep(i, t)
  <2>1. \A j \in Invoices : j # i => /\ kind'[j] = kind[j] /\ inv'[j] = inv[j]
                                     /\ eft'[j] = eft[j] /\ partial'[j] = partial[j]
    BY <1>1, <1>3 DEF Typed, RequestTyped
  <2> QED
    BY <1>1, <1>2, <1>3, <1>4, <2>1, ChangeIsStep
<1>7. /\ rows'[i] = t /\ DOMAIN rows[i] \subseteq DOMAIN t
      /\ \A r \in DOMAIN rows[i] : t[r].target = rows[i][r].target
  BY <1>1, <1>6, RequestRows
<1>8. PICK n \in Nat : /\ n + 1 \in DOMAIN t /\ DOMAIN rows[i] = 1..n /\ DOMAIN t = 1..(n + 1)
                       /\ t[n + 1].target = "PARTIAL_REFUND" /\ t[n + 1].status = "WAITING_FOR_JOB"
                       /\ \A r \in 1..n : t[r] = rows[i][r]
  <2>1. rows[i] \in Seq(Row)
    BY <1>1 DEF Typed, RowsTyped
  <2>2. PICK x \in Row : x = NewRow("PARTIAL_REFUND", TRUE)
    BY DEF NewRow, Row, DisbursementStatus
  <2>3. t = Append(rows[i], x) /\ x.target = "PARTIAL_REFUND" /\ x.status = "WAITING_FOR_JOB"
    BY <1>2, <2>2 DEF HandlePartialRefund, NewRow
  <2>4. PICK n \in Nat : n = Len(rows[i])
    BY <2>1
  <2>5. DOMAIN t = 1..(n + 1) /\ t[n + 1] = x /\ DOMAIN rows[i] = 1..n
        /\ \A r \in 1..n : t[r] = rows[i][r]
    BY <2>1, <2>3, <2>4
  <2>6. n + 1 \in 1..(n + 1)
    OBVIOUS
  <2> QED
    BY <2>3, <2>5, <2>6
<1>9. Requested(i)'
  <2>1. \E r \in DOMAIN t : t[r].target = "PARTIAL_REFUND"
    BY <1>8
  <2>2. ~IsEft(i) => \A r \in DOMAIN t : t[r].target = "PARTIAL_REFUND"
    BY <1>1, <1>8 DEF Requested
  <2>3. kind[i] # NoKind
    BY <1>1 DEF Requested
  <2> QED
    BY <1>1, <1>5, <1>7, <2>1, <2>2, <2>3 DEF Requested
<1>10. PaidFor(i) = PaidFor(i)'
  BY <1>1, <1>5 DEF PaidFor
<1>11. ASSUME NoRace
       PROVE  /\ RowsAgree(i)'
              /\ \A l \in job.lines : l.inv = i /\ l.row # 0 =>
                  LET x == rows[i][l.row] IN
                  /\ x.target = "INVOICE" /\ ~x.is_reversal => PaidFor(i)'
                  /\ x.target # "PARTIAL_REFUND"
  <2>1. RowsAgree(i) /\ rows[i] \in Seq(Row) /\ Proper(rows[i])
    BY <1>1, <1>11 DEF NoRace, Typed, RowsTyped, RowsAgree
  <2>2. /\ Proper(t) /\ Owed(t) = Owed(rows[i]) /\ LatestActive(t) = LatestActive(rows[i])
        /\ LatestActive(rows[i]) # 0 => t[LatestActive(t)] = rows[i][LatestActive(rows[i])]
    BY <1>2, <2>1, PartialProper
  <2>3. \A r \in DOMAIN rows[i] :
          rows[i][r].target = "PARTIAL_REFUND" => rows[i][r].status = "WAITING_FOR_JOB"
    BY <1>1, <2>1, PartialsWait
  <2>4. \A r \in DOMAIN t : t[r].target = "PARTIAL_REFUND" => t[r].status = "WAITING_FOR_JOB"
    <3>1. \A r \in DOMAIN t : r \in 1..n \/ r = n + 1
      BY <1>8
    <3> QED
      BY <1>8, <2>3, <3>1
  <2>5. Owed(t) => t[LatestActive(t)] = rows[i][LatestActive(rows[i])]
    BY <2>2 DEF Owed
  <2>6. RowsAgree(i)'
    BY <1>1, <1>5, <1>7, <1>10, <2>1, <2>2, <2>4, <2>5 DEF RowsAgree
  <2>7. \A r : ~Refunding(i, r)
    BY <1>1 DEF Refunding
  <2> QED
    BY <1>1, <1>10, <1>11, <2>6, <2>7, InJob
<1> QED
  BY <1>1, <1>5, <1>6, <1>9, <1>11, RequestKeeps

LEMMA DecidePartialRefundGood ==
    ASSUME IInv, NEW i \in Invoices, NEW status, DecidePartialRefund(i, status)
    PROVE  IInv'
<1>1. /\ Typed /\ Requested(i) /\ partial[i] = "PENDING" /\ inv[i] = "PAID"
      /\ eft[i] # "UNAPPLIED"
  BY DEF IInv, DecidePartialRefund
<1>2. /\ partial' = [partial EXCEPT ![i] = status] /\ status \in {"APPROVED", "NONE"}
      /\ UNCHANGED <<kind, inv, eft, recent, disb, rows, stopped, job, files, worker, money, lost>>
  BY DEF DecidePartialRefund
<1>3. RequestTyped'
  BY <1>1, <1>2 DEF Typed, RequestTyped
<1>4. kind'[i] = kind[i] /\ inv'[i] = "PAID" /\ eft'[i] = eft[i] /\ partial'[i] = status
      /\ IsEft(i)' = IsEft(i) /\ rows'[i] = rows[i]
  BY <1>1, <1>2 DEF Typed, RequestTyped, IsEft
<1>5. RequestStep(i, rows[i])
  <2>1. \A j \in Invoices : j # i => /\ kind'[j] = kind[j] /\ inv'[j] = inv[j]
                                     /\ eft'[j] = eft[j] /\ partial'[j] = partial[j]
    BY <1>1, <1>2 DEF Typed, RequestTyped
  <2> QED
    BY <1>1, <1>2, <1>3, <2>1, ChangeIsStep
<1>6. Requested(i)' /\ PaidFor(i)'
  BY <1>1, <1>2, <1>4 DEF Requested, PaidFor
<1>7. ASSUME NoRace
      PROVE  /\ RowsAgree(i)'
             /\ \A l \in job.lines : l.inv = i /\ l.row # 0 =>
                  rows[i][l.row].target # "PARTIAL_REFUND"
  <2>1. RowsAgree(i) /\ (\A r : ~Refunding(i, r))
    BY <1>1, <1>7 DEF NoRace, Refunding
  <2>2. \A r \in DOMAIN rows[i] :
          rows[i][r].target = "PARTIAL_REFUND" => rows[i][r].status = "WAITING_FOR_JOB"
    BY <1>1, <2>1, PartialsWait
  <2>3. RowsAgree(i)'
    BY <1>1, <1>4, <1>6, <2>1, <2>2 DEF RowsAgree
  <2> QED
    BY <1>1, <1>7, <2>1, <2>3, InJob
<1> QED
  BY <1>1, <1>4, <1>5, <1>6, <1>7, RequestKeeps

-----------------------------------------------------------------------------
(* Steps that leave the tables alone.                                      *)

LEMMA IdleGood ==
    ASSUME IInv, UNCHANGED <<request, disb, rows, job, files, money>>,
           worker' \in {0, worker}, stopped' \subseteq Batches,
           lost \subseteq lost', lost' \subseteq Losses
    PROVE  IInv'
<1>1. UNCHANGED <<kind, inv, eft, partial, recent, disb, rows, job, files, money>>
  BY DEF request
<1>2. Typed'
  <2>1. Typed
    BY DEF IInv
  <2>2. RequestTyped' /\ RowsTyped' /\ LinesTyped(job.lines)'
    BY <1>1, <2>1 DEF Typed, RequestTyped, RowsTyped, LinesTyped
  <2>3. FilesTyped'
    BY <1>1, <2>1 DEF Typed, FilesTyped, LinesTyped
  <2> QED
    BY <1>1, <2>1, <2>2, <2>3 DEF Typed
<1>3. \A i \in Invoices : Requested(i)'
  <2>1. ASSUME NEW i \in Invoices PROVE Requested(i)'
    <3>1. Requested(i)
      BY DEF IInv
    <3> QED
      BY <1>1, <3>1 DEF Requested, IsEft
  <2> QED
    BY <2>1
<1>4. "race" \notin lost' => NoRace'
  <2>1. ASSUME NoRace PROVE NoRace'
    <3>1. \A i, r : Refunding(i, r)' = Refunding(i, r) /\ PaidFor(i)' = PaidFor(i)
      BY <1>1 DEF Refunding, IsLatestPartial, SelectLastInSeq, PaidFor
    <3>2. \A i \in Invoices : RowsAgree(i)'
      BY <1>1, <2>1, <3>1 DEF NoRace, RowsAgree
    <3>3. JobAgrees' /\ SentAgree'
      BY <1>1, <2>1, <3>1 DEF NoRace, JobAgrees, SentAgree
    <3> QED
      BY <3>2, <3>3 DEF NoRace
  <2> QED
    BY <2>1 DEF IInv
<1>5. lost' = {} => Books'
  <2>1. ASSUME Books PROVE Books'
    <3>1. \A i, b : Got(i, b)' = Got(i, b)
      BY <1>1 DEF Got
    <3>2. \A f, i : InFlight(f, i)' = InFlight(f, i)
      BY <1>1 DEF InFlight, HasLine
    <3>3. \A l : NotGot(l)' = NotGot(l)
      BY <1>1, <3>1 DEF NotGot
    <3>4. LinesAgree'
      BY <1>1, <2>1, <3>1, <3>2, <3>3 DEF Books, LinesAgree
    <3>5. \A i, r : IsPosted(i, r)' = IsPosted(i, r)
      BY <1>1 DEF IsPosted, IsPostedBy, HasLine
    <3>6. ASSUME NEW i \in Invoices
          PROVE  RowsSent(i)' /\ StatusAgrees(i)' /\ money'[i] = MoneyOf(i)'
      <4>1. RowsSent(i) /\ StatusAgrees(i) /\ money[i] = MoneyOf(i)
        BY <2>1 DEF Books
      <4>2. RowsSent(i)'
        BY <1>1, <4>1 DEF RowsSent, HasLine
      <4>3. HasFailed(i)' = HasFailed(i) /\ HasLine(job.lines, i, 0)' = HasLine(job.lines, i, 0)
        BY <1>1 DEF HasFailed, LinesOf, HasLine
      <4>4. \A f : HasLine(files[f].lines, i, 0)' = HasLine(files[f].lines, i, 0)
        BY <1>1 DEF HasLine
      <4>5. StatusAgrees(i)'
        BY <1>1, <3>1, <3>2, <4>1, <4>3, <4>4 DEF StatusAgrees, IsEft
      <4>6. PostedRows(i)' = PostedRows(i)
        BY <1>1, <3>5 DEF PostedRows
      <4> QED
        BY <1>1, <3>1, <4>1, <4>2, <4>5, <4>6 DEF MoneyOf, GotByStatus
    <3>7. (\A f \in DOMAIN files : files[f].known) /\ (worker # 0 => files[worker].feedback = "RECEIVED")
      BY <2>1 DEF Books
    <3> QED
      BY <1>1, <3>4, <3>6, <3>7 DEF Books
  <2> QED
    BY <2>1 DEF IInv
<1> QED
  BY <1>2, <1>3, <1>4, <1>5 DEF IInv

-----------------------------------------------------------------------------
(* The job.                                                                *)

LEMMA LinesAreDue ==
    ASSUME Typed, NEW batch, NEW l \in LinesDue(batch)
    PROVE  /\ l \in Line /\ l \in [inv : Invoices, row : 0..MaxRows, is_reversal : BOOLEAN]
           /\ \/ l.row = 0 /\ ~IsEft(l.inv) /\ l.is_reversal \in DueByStatus(l.inv)
              \/ /\ l.row # 0 /\ l.row \in DueRows(l.inv)
                 /\ l.is_reversal = rows[l.inv][l.row].is_reversal
<1>1. PICK i \in Invoices : l \in LinesByStatus(i) \cup LinesByRow(i)
  BY DEF LinesDue
<1>2. CASE l \in LinesByStatus(i)
  <2>1. PICK r \in DueByStatus(i) : l = [inv |-> i, row |-> 0, is_reversal |-> r] /\ ~IsEft(i)
    BY <1>2 DEF LinesByStatus
  <2>2. r \in BOOLEAN /\ 0 \in Nat /\ 0 \in 0..MaxRows
    BY DisbursementConstants DEF DueByStatus
  <2> QED
    BY <2>1, <2>2 DEF Line
<1>3. CASE l \in LinesByRow(i)
  <2>1. PICK r \in DueRows(i) : l = [inv |-> i, row |-> r, is_reversal |-> rows[i][r].is_reversal]
    BY <1>3 DEF LinesByRow
  <2>2. rows[i] \in Seq(Row) /\ Len(rows[i]) <= MaxRows /\ r \in DOMAIN rows[i] /\ MaxRows \in Nat
    BY DisbursementConstants DEF Typed, RowsTyped, DueRows
  <2>3. r \in 1..Len(rows[i]) /\ Len(rows[i]) \in Nat /\ rows[i][r].is_reversal \in BOOLEAN
    BY <2>2, RowFields
  <2>4. r \in 0..MaxRows /\ r # 0 /\ r \in Nat
    BY <2>2, <2>3
  <2> QED
    BY <2>1, <2>3, <2>4 DEF Line
<1> QED
  BY <1>1, <1>2, <1>3

LEMMA LinesOfBatch ==
    ASSUME NEW batch, NEW l \in LinesDue(batch)
    PROVE  kind[l.inv].batch = batch
<1>1. PICK i \in Invoices : l \in LinesByStatus(i) \cup LinesByRow(i) /\ kind[i].batch = batch
  BY DEF LinesDue
<1>2. l.inv = i
  BY <1>1 DEF LinesByStatus, LinesByRow
<1> QED
  BY <1>1, <1>2

LEMMA LinesDueFinite ==
    ASSUME Typed, NEW batch
    PROVE  IsFiniteSet(LinesDue(batch))
<1> DEFINE A == (Invoices \X (0..MaxRows)) \X BOOLEAN
           B == [inv : Invoices, row : 0..MaxRows, is_reversal : BOOLEAN]
           h == [a \in A |-> [inv |-> a[1][1], row |-> a[1][2], is_reversal |-> a[2]]]
<1>1. IsFiniteSet(A)
  <2>1. IsFiniteSet(Invoices) /\ IsFiniteSet(0..MaxRows)
    BY DisbursementConstants, FS_Interval
  <2>2. IsFiniteSet(BOOLEAN)
    <3>1. IsFiniteSet({TRUE}) /\ IsFiniteSet({FALSE}) /\ BOOLEAN = {TRUE} \cup {FALSE}
      BY FS_Singleton
    <3> QED
      BY <3>1, FS_Union
  <2>3. IsFiniteSet(Invoices \X (0..MaxRows))
    BY <2>1, FS_Product
  <2> QED
    BY <2>2, <2>3, FS_Product
<1>2. h \in Surjection(A, B)
  <2>1. h \in [A -> B]
    OBVIOUS
  <2>2. ASSUME NEW b \in B PROVE \E a \in A : h[a] = b
    <3>1. <<<<b.inv, b.row>>, b.is_reversal>> \in A
      OBVIOUS
    <3>2. h[<<<<b.inv, b.row>>, b.is_reversal>>] = b
      BY <3>1
    <3> QED
      BY <3>1, <3>2
  <2> QED
    BY <2>1, <2>2 DEF Surjection
<1>3. IsFiniteSet(B)
  <2> HIDE DEF A, B, h
  <2> QED
    BY <1>1, <1>2, FS_Surjection
<1>4. LinesDue(batch) \subseteq B
  BY LinesAreDue
<1> HIDE DEF B
<1> QED
  BY <1>3, <1>4, FS_Subset

LEMMA ReadDueGood ==
    ASSUME IInv, NEW batch \in Batches, ReadDue(batch)
    PROVE  IInv'
<1>1. Typed
  BY DEF IInv
<1>2. PICK D : D = LinesDue(batch)
  OBVIOUS
<1>3. /\ job' = [reading |-> TRUE, batch |-> batch, lines |-> D]
      /\ UNCHANGED <<kind, inv, eft, partial, recent, disb, rows, stopped, files, worker, money, lost>>
  BY <1>2 DEF ReadDue, request
<1>4. job'.lines = D
  BY <1>3
<1>5. \A l \in D :
           /\ l \in Line /\ l.inv \in Invoices
           /\ \/ l.row = 0 /\ ~IsEft(l.inv) /\ l.is_reversal \in DueByStatus(l.inv)
              \/ /\ l.row # 0 /\ l.row \in DueRows(l.inv)
                 /\ l.is_reversal = rows[l.inv][l.row].is_reversal
  BY <1>1, <1>2, LinesAreDue DEF Line
<1>6. IsFiniteSet(D) /\ D \subseteq Line
  BY <1>1, <1>2, <1>5, LinesDueFinite
<1>7. \A l \in D : l.row # 0 =>
         /\ l.row \in DOMAIN rows[l.inv]
         /\ l.is_reversal = rows[l.inv][l.row].is_reversal
  BY <1>5 DEF DueRows
<1>8. ASSUME NEW l \in D, NEW m \in D, l.inv = m.inv, l.row = m.row PROVE l = m
  <2>1. l.is_reversal = m.is_reversal
    <3>1. CASE l.row = 0
      <4>1. l.is_reversal \in DueByStatus(l.inv) /\ m.is_reversal \in DueByStatus(l.inv)
        BY <1>5, <1>8, <3>1
      <4> QED
        BY <4>1 DEF DueByStatus
    <3>2. CASE l.row # 0
      BY <1>5, <1>8, <3>2
    <3> QED
      BY <3>1, <3>2
  <2> QED
    BY <1>5, <1>8, <2>1 DEF Line
<1>9. Typed'
  <2>1. LinesTyped(job.lines)'
    BY <1>3, <1>4, <1>6, <1>7, <1>8 DEF LinesTyped
  <2>2. RequestTyped' /\ RowsTyped'
    BY <1>1, <1>3 DEF Typed, RequestTyped, RowsTyped
  <2>3. FilesTyped'
    BY <1>1, <1>3 DEF Typed, FilesTyped, LinesTyped
  <2>4. job' \in [reading : BOOLEAN, batch : Batches, lines : SUBSET Line]
    BY <1>3, <1>6
  <2> QED
    BY <1>1, <1>3, <2>1, <2>2, <2>3, <2>4 DEF Typed
<1>10. \A i \in Invoices : Requested(i)'
  <2>1. ASSUME NEW i \in Invoices PROVE Requested(i)'
    <3>1. Requested(i)
      BY DEF IInv
    <3> QED
      BY <1>3, <3>1 DEF Requested, IsEft
  <2> QED
    BY <2>1
<1>11. ASSUME NoRace PROVE NoRace'
  <2>1. \A i, r : Refunding(i, r)' = Refunding(i, r) /\ PaidFor(i)' = PaidFor(i)
    BY <1>3 DEF Refunding, IsLatestPartial, SelectLastInSeq, PaidFor
  <2>2. \A i \in Invoices : RowsAgree(i)'
    BY <1>3, <1>11, <2>1 DEF NoRace, RowsAgree
  <2>3. SentAgree'
    BY <1>3, <1>11 DEF NoRace, SentAgree
  <2>4. ASSUME NEW l \in D, l.row # 0
        PROVE  LET x == rows[l.inv][l.row] IN
               /\ x.status = "WAITING_FOR_JOB"
               /\ x.target = "INVOICE" /\ ~x.is_reversal => PaidFor(l.inv)
               /\ x.target = "PARTIAL_REFUND" => Refunding(l.inv, l.row)
    <3>1. PICK i \in Invoices : i = l.inv
      BY <1>5
    <3>2. PICK r : r = l.row /\ r \in DueRows(i)
      BY <1>5, <2>4, <3>1
    <3>3. rows[i][r].status = "WAITING_FOR_JOB"
      BY <3>2 DEF DueRows
    <3>4. ASSUME rows[i][r].target = "INVOICE", ~rows[i][r].is_reversal
          PROVE  PaidFor(i)
      <4>1. inv[i] = "PAID" /\ r \in DOMAIN rows[i]
        BY <3>2, <3>4 DEF DueRows
      <4>2. Proper(rows[i]) /\ RowsAgree(i)
        BY <1>11 DEF NoRace, RowsAgree
      <4>3. r = LatestActive(rows[i])
        BY <3>3, <3>4, <4>1, <4>2 DEF Proper
      <4>4. r # 0
        BY <2>4, <3>2
      <4>5. Owed(rows[i])
        BY <3>4, <4>3, <4>4 DEF Owed
      <4> QED
        BY <4>1, <4>2, <4>5 DEF RowsAgree, PaidFor
    <3>5. rows[i][r].target = "PARTIAL_REFUND" => Refunding(i, r)
      BY <3>2 DEF DueRows, Refunding
    <3> QED
      BY <3>1, <3>2, <3>3, <3>4, <3>5
  <2>5. JobAgrees'
    BY <1>3, <1>4, <2>1, <2>4 DEF JobAgrees
  <2> QED
    BY <2>2, <2>3, <2>5 DEF NoRace
<1>12. ASSUME Books PROVE Books'
  <2>1. \A i, b : Got(i, b)' = Got(i, b)
    BY <1>3 DEF Got
  <2>2. \A f, i : InFlight(f, i)' = InFlight(f, i)
    BY <1>3 DEF InFlight, HasLine
  <2>3. \A l : NotGot(l)' = NotGot(l)
    BY <1>3, <2>1 DEF NotGot
  <2>4. ASSUME NEW l \in D, l.row = 0
        PROVE  /\ disb[l.inv] # "UPLOADED" /\ NotGot(l) /\ ~IsEft(l.inv)
               /\ inv[l.inv] \in {"PAID", "REFUNDED"}
    <3>1. PICK i \in Invoices : i = l.inv
      BY <1>5
    <3>2. ~IsEft(i) /\ l.is_reversal \in DueByStatus(i) /\ StatusAgrees(i)
      BY <1>5, <1>12, <2>4, <3>1 DEF Books
    <3>3. CASE l.is_reversal
      <4>1. inv[i] = "REFUNDED" /\ disb[i] = "COMPLETED"
        BY <3>2, <3>3 DEF DueByStatus
      <4> QED
        BY <3>1, <3>2, <3>3, <4>1 DEF StatusAgrees, NotGot
    <3>4. CASE ~l.is_reversal
      <4>1. inv[i] = "PAID" /\ disb[i] \in {"NONE", "ERRORED"}
        BY <3>2, <3>4 DEF DueByStatus
      <4>2. ~Got(i, FALSE)
        <5>1. CASE disb[i] = "ERRORED"
          BY <3>2, <4>1, <5>1 DEF StatusAgrees
        <5>2. CASE disb[i] = "NONE"
          <6>1. \A f \in DOMAIN files : ~HasLine(files[f].lines, i, 0)
            BY <3>2, <5>2 DEF StatusAgrees
          <6>2. [inv |-> i, row |-> 0, is_reversal |-> FALSE].inv = i
                /\ [inv |-> i, row |-> 0, is_reversal |-> FALSE].row = 0
            OBVIOUS
          <6> QED
            BY <6>1, <6>2 DEF Got, HasLine
        <5> QED
          BY <4>1, <5>1, <5>2
      <4> QED
        BY <3>1, <3>2, <3>4, <4>1, <4>2 DEF NotGot
    <3> QED
      BY <3>3, <3>4
  <2>5. LinesAgree'
    <3>1. \A l \in job'.lines : l.row = 0 => disb'[l.inv] # "UPLOADED" /\ NotGot(l)'
      BY <1>3, <1>4, <2>3, <2>4
    <3> QED
      BY <1>3, <1>12, <2>1, <2>2, <2>3, <3>1 DEF Books, LinesAgree
  <2>6. \A i, r : IsPosted(i, r)' = IsPosted(i, r)
    BY <1>3 DEF IsPosted, IsPostedBy, HasLine
  <2>7. ASSUME NEW i \in Invoices
        PROVE  RowsSent(i)' /\ StatusAgrees(i)' /\ money'[i] = MoneyOf(i)'
    <3>1. RowsSent(i) /\ StatusAgrees(i) /\ money[i] = MoneyOf(i)
      BY <1>12 DEF Books
    <3>2. RowsSent(i)'
      BY <1>3, <3>1 DEF RowsSent, HasLine
    <3>3. HasFailed(i)' = HasFailed(i)
      BY <1>3 DEF HasFailed, LinesOf
    <3>4. \A f : HasLine(files[f].lines, i, 0)' = HasLine(files[f].lines, i, 0)
      BY <1>3 DEF HasLine
    <3>5. IsEft(i) \/ inv[i] \in {"NONE", "APPROVED"} => ~HasLine(job.lines, i, 0)'
      BY <1>4, <2>4 DEF HasLine
    <3>6. StatusAgrees(i)'
      BY <1>3, <2>1, <2>2, <3>1, <3>3, <3>4, <3>5 DEF StatusAgrees, IsEft
    <3>7. PostedRows(i)' = PostedRows(i)
      BY <1>3, <2>6 DEF PostedRows
    <3> QED
      BY <1>3, <2>1, <3>1, <3>2, <3>6, <3>7 DEF MoneyOf, GotByStatus
  <2>8. (\A f \in DOMAIN files : files[f].known) /\ (worker # 0 => files[worker].feedback = "RECEIVED")
    BY <1>12 DEF Books
  <2> QED
    BY <1>3, <2>5, <2>7, <2>8 DEF Books
<1> QED
  BY <1>3, <1>9, <1>10, <1>11, <1>12 DEF IInv

\* Statuses of rows change, and nothing else of them.
SameRows ==
    /\ rows' \in [Invoices -> Seq(Row)]
    /\ \A i \in Invoices :
         /\ DOMAIN rows'[i] = DOMAIN rows[i]
         /\ \A r \in DOMAIN rows[i] : /\ rows'[i][r].target = rows[i][r].target
                                      /\ rows'[i][r].is_reversal = rows[i][r].is_reversal

WithStatuses(marks, state) ==
    [i \in Invoices |-> [r \in DOMAIN rows[i] |->
        IF marks[<<i, r>>] THEN [rows[i][r] EXCEPT !.status = state[<<i, r>>]]
                           ELSE rows[i][r]]]

LEMMA StatusChanges ==
    ASSUME Typed, NEW marks, NEW state,
           \A i \in Invoices, r \in Nat : marks[<<i, r>>] \in BOOLEAN,
           \A i \in Invoices, r \in Nat : marks[<<i, r>>] /\ r \in DOMAIN rows[i] =>
               state[<<i, r>>] \in DisbursementStatus,
           rows' = WithStatuses(marks, state)
    PROVE  /\ SameRows
           /\ \A i \in Invoices : \A r \in DOMAIN rows[i] :
                rows'[i][r].status = IF marks[<<i, r>>] THEN state[<<i, r>>] ELSE rows[i][r].status
<1>1. ASSUME NEW i \in Invoices
      PROVE  /\ rows'[i] \in Seq(Row) /\ DOMAIN rows'[i] = DOMAIN rows[i]
             /\ \A r \in DOMAIN rows[i] :
                  /\ rows'[i][r].target = rows[i][r].target
                  /\ rows'[i][r].is_reversal = rows[i][r].is_reversal
                  /\ rows'[i][r].status = IF marks[<<i, r>>] THEN state[<<i, r>>]
                                                             ELSE rows[i][r].status
  <2>1. PICK s \in Seq(Row) : s = rows[i]
    BY DEF Typed, RowsTyped
  <2>2. PICK n \in Nat : DOMAIN s = 1..n
    BY <2>1
  <2>3. PICK t : t = rows'[i]
    OBVIOUS
  <2>4. DOMAIN t = 1..n
        /\ \A r \in 1..n : t[r] = IF marks[<<i, r>>] THEN [s[r] EXCEPT !.status = state[<<i, r>>]]
                                                     ELSE s[r]
    BY <2>1, <2>2, <2>3 DEF WithStatuses
  <2>5. ASSUME NEW r \in 1..n
        PROVE  t[r] \in Row /\ t[r].target = s[r].target /\ t[r].is_reversal = s[r].is_reversal
               /\ t[r].status = IF marks[<<i, r>>] THEN state[<<i, r>>] ELSE s[r].status
    <3>1. PICK x \in Row : x = s[r]
      BY <2>1, <2>2
    <3>2. CASE marks[<<i, r>>]
      <4>1. PICK w \in DisbursementStatus : w = state[<<i, r>>]
        BY <2>1, <2>2, <3>2
      <4>2. t[r] = [x EXCEPT !.status = w]
        BY <2>4, <3>1, <3>2, <4>1
      <4> QED
        BY <3>1, <3>2, <4>1, <4>2 DEF Row
    <3>3. CASE ~marks[<<i, r>>]
      BY <2>4, <3>1, <3>3
    <3> QED
      BY <3>2, <3>3
  <2>6. t = [r \in 1..n |-> t[r]]
    <3>1. t = [r \in DOMAIN rows[i] |-> t[r]]
      BY <2>3 DEF WithStatuses
    <3> QED
      BY <2>1, <2>2, <3>1
  <2>7. t \in Seq(Row)
    <3>1. t \in [1..n -> Row]
      BY <2>5, <2>6
    <3> QED
      BY <3>1, SeqDef
  <2> QED
    BY <2>1, <2>2, <2>3, <2>4, <2>5, <2>7
<1>2. rows' \in [Invoices -> Seq(Row)]
  <2>1. rows' = [i \in Invoices |-> rows'[i]]
    BY DEF WithStatuses
  <2> QED
    BY <1>1, <2>1
<1> QED
  BY <1>1, <1>2 DEF SameRows

LEMMA SameRowsTypes ==
    ASSUME Typed, SameRows
    PROVE  /\ RowsTyped'
           /\ \A lines : LinesTyped(lines) =>
                /\ IsFiniteSet(lines) /\ lines \subseteq Line
                /\ \A l \in lines : l.row # 0 =>
                     /\ l.row \in DOMAIN rows'[l.inv]
                     /\ l.is_reversal = rows'[l.inv][l.row].is_reversal
                /\ \A l, m \in lines : l.inv = m.inv /\ l.row = m.row => l = m
<1>1. RowsTyped'
  <2>1. ASSUME NEW i \in Invoices PROVE Len(rows'[i]) <= MaxRows
    <3>1. rows'[i] \in Seq(Row) /\ rows[i] \in Seq(Row) /\ DOMAIN rows'[i] = DOMAIN rows[i]
          /\ Len(rows[i]) <= MaxRows
      BY DEF Typed, RowsTyped, SameRows
    <3>2. Len(rows'[i]) = Len(rows[i])
      BY <3>1
    <3> QED
      BY <3>1, <3>2
  <2> QED
    BY <2>1 DEF SameRows, RowsTyped
<1>2. ASSUME NEW lines, LinesTyped(lines), NEW l \in lines, l.row # 0
      PROVE  /\ l.row \in DOMAIN rows'[l.inv]
             /\ l.is_reversal = rows'[l.inv][l.row].is_reversal
  <2>1. l.inv \in Invoices
    BY <1>2 DEF LinesTyped, Line
  <2> QED
    BY <1>2, <2>1 DEF LinesTyped, SameRows
<1> QED
  BY <1>1, <1>2 DEF LinesTyped

LEMMA SameRowsRequested ==
    ASSUME SameRows, NEW i \in Invoices, Requested(i), UNCHANGED request
    PROVE  Requested(i)'
<1>1. UNCHANGED <<kind, inv, eft, partial>>
  BY DEF request
<1>2. inv[i] = "NONE" => rows'[i] = <<>>
  <2>1. ASSUME inv[i] = "NONE" PROVE rows'[i] = <<>>
    <3>1. rows[i] = <<>>
      BY <2>1 DEF Requested
    <3>2. PICK t \in Seq(Row) : t = rows'[i] /\ DOMAIN t = DOMAIN <<>>
      BY <3>1 DEF SameRows
    <3>3. PICK n \in Nat : n = Len(t) /\ DOMAIN t = 1..n
      OBVIOUS
    <3>4. DOMAIN <<>> = {} /\ (n # 0 => 1 \in 1..n)
      OBVIOUS
    <3>5. Len(t) = 0
      BY <3>2, <3>3, <3>4
    <3> QED
      BY <3>2, <3>5, EmptySeq
  <2> QED
    BY <2>1
<1>3. /\ ~IsEft(i) => \A r \in DOMAIN rows'[i] : rows'[i][r].target = "PARTIAL_REFUND"
      /\ partial[i] # "NONE" => \E r \in DOMAIN rows'[i] : rows'[i][r].target = "PARTIAL_REFUND"
  BY DEF Requested, SameRows
<1> QED
  BY <1>1, <1>2, <1>3 DEF Requested, IsEft

LEMMA SamePartial ==
    ASSUME Typed, SameRows, NEW i \in Invoices, NEW r
    PROVE  IsLatestPartial(i, r)' <=> IsLatestPartial(i, r)
<1>1. PICK s \in Seq(Row) : s = rows[i]
  BY DEF Typed, RowsTyped
<1>2. PICK t \in Seq(Row) : t = rows'[i]
  BY DEF SameRows
<1>3. Len(t) = Len(s) /\ DOMAIN s = 1..Len(s) /\ DOMAIN t = DOMAIN s
  BY <1>1, <1>2 DEF SameRows
<1> DEFINE I(u) == {q \in 1..Len(u) : u[q].target = "PARTIAL_REFUND"}
<1>4. IsLatestPartial(i, r) <=> r = IF I(s) # {} THEN Max(I(s)) ELSE 0
  BY <1>1 DEF IsLatestPartial, SelectLastInSeq
<1>5. IsLatestPartial(i, r)' <=> r = IF I(t) # {} THEN Max(I(t)) ELSE 0
  BY <1>2 DEF IsLatestPartial, SelectLastInSeq
<1>6. I(t) = I(s)
  BY <1>1, <1>2, <1>3 DEF SameRows
<1> HIDE DEF I
<1> QED
  BY <1>4, <1>5, <1>6

\* A status of a row may change where the invoice has what the row pays or takes back.
LEMMA SameRowsAgree ==
    ASSUME Typed, SameRows, UNCHANGED request, NEW i \in Invoices, RowsAgree(i),
           \A r \in DOMAIN rows[i] :
             /\ rows'[i][r].status = "CANCELLED" <=> rows[i][r].status = "CANCELLED"
             /\ rows'[i][r].status = "WAITING_FOR_JOB" => rows[i][r].status = "WAITING_FOR_JOB"
             /\ rows[i][r].status = "WAITING_FOR_JOB" /\ rows'[i][r].status # "WAITING_FOR_JOB" =>
                  /\ rows[i][r].target = "INVOICE" /\ ~rows[i][r].is_reversal => PaidFor(i)
                  /\ rows[i][r].target = "PARTIAL_REFUND" => Refunding(i, r)
    PROVE  RowsAgree(i)'
<1>1. UNCHANGED <<kind, inv, eft, partial>>
  BY DEF request
<1>2. PICK s \in Seq(Row) : s = rows[i]
  BY DEF Typed, RowsTyped
<1>3. PICK t \in Seq(Row) : t = rows'[i]
  BY DEF SameRows
<1>4. Marked(s, t)
  BY <1>2, <1>3 DEF Marked, SameRows
<1>5. Proper(t) /\ Owed(t) = Owed(s) /\ LatestActive(t) = LatestActive(s)
  BY <1>2, <1>4, MarkedProper DEF RowsAgree
<1>6. \A r : Refunding(i, r)' <=> Refunding(i, r)
  BY <1>1, SamePartial DEF Refunding
<1>7. PaidFor(i)' = PaidFor(i)
  BY <1>1 DEF PaidFor
<1>8. ASSUME Owed(t), t[LatestActive(t)].status # "WAITING_FOR_JOB" PROVE PaidFor(i)
  <2>1. PICK m : m = LatestActive(s)
    OBVIOUS
  <2>2. m \in DOMAIN s /\ IsActive(s[m]) /\ ~s[m].is_reversal /\ Owed(s)
    BY <1>5, <1>8, <2>1, LatestIs DEF Owed
  <2>3. CASE s[m].status # "WAITING_FOR_JOB"
    BY <1>2, <2>1, <2>2, <2>3 DEF RowsAgree
  <2>4. CASE s[m].status = "WAITING_FOR_JOB"
    BY <1>2, <1>3, <1>5, <1>8, <2>1, <2>2, <2>4 DEF IsActive
  <2> QED
    BY <2>3, <2>4
<1>9. ASSUME NEW r \in DOMAIN t, t[r].target = "PARTIAL_REFUND", t[r].status # "WAITING_FOR_JOB"
      PROVE  Refunding(i, r)
  <2>1. r \in DOMAIN s /\ s[r].target = "PARTIAL_REFUND"
    BY <1>4, <1>9 DEF Marked
  <2>2. CASE s[r].status # "WAITING_FOR_JOB"
    BY <1>2, <2>1, <2>2 DEF RowsAgree
  <2>3. CASE s[r].status = "WAITING_FOR_JOB"
    BY <1>2, <1>3, <1>9, <2>1, <2>3
  <2> QED
    BY <2>2, <2>3
<1>10. /\ eft[i] = "LINKED" /\ inv[i] # "REFUNDED" => Owed(t)
       /\ eft[i] = "UNAPPLIED" \/ inv[i] = "REFUNDED" => ~Owed(t)
  BY <1>2, <1>5 DEF RowsAgree
<1> QED
  BY <1>1, <1>3, <1>5, <1>6, <1>7, <1>8, <1>9, <1>10 DEF RowsAgree

LEMMA SameRowsMoney ==
    ASSUME SameRows, NEW i \in Invoices, \A r : IsPosted(i, r)' = IsPosted(i, r),
           \A b \in BOOLEAN : Got(i, b)' = Got(i, b)
    PROVE  MoneyOf(i)' = MoneyOf(i)
<1>1. \A r \in DOMAIN rows[i] : RowAmount(rows'[i][r]) = RowAmount(rows[i][r])
  BY DEF SameRows, RowAmount
<1>2. PostedRows(i)' = PostedRows(i)
  BY <1>1 DEF SameRows, PostedRows
<1>3. DOMAIN rows'[i] = DOMAIN rows[i]
  BY DEF SameRows
<1> QED
  BY <1>2, <1>3 DEF MoneyOf, GotByStatus

\* The file that is uploaded.
LEMMA Uploaded ==
    ASSUME Typed, NEW known \in BOOLEAN, files' = Append(files, NewFile(known))
    PROVE  \E n \in Nat :
             /\ DOMAIN files = 1..n /\ Len(files) = n
             /\ DOMAIN files' = 1..(n + 1) /\ Len(files') = n + 1 /\ files' \in Seq(File)
             /\ \A f \in 1..n : f \in 1..(n + 1) /\ f # n + 1 /\ files'[f] = files[f]
             /\ n + 1 \in 1..(n + 1) /\ n + 1 \notin 1..n
             /\ \A f \in 1..(n + 1) : f \in 1..n \/ f = n + 1
             /\ files'[n + 1].lines = job.lines /\ files'[n + 1].failed = {}
             /\ files'[n + 1].known = known /\ files'[n + 1].feedback = "NONE"
<1>1. PICK s \in Seq(File) : s = files
  BY DEF Typed, FilesTyped
<1>2. PICK x \in File : /\ x = NewFile(known) /\ x.lines = job.lines /\ x.failed = {}
                        /\ x.known = known /\ x.feedback = "NONE"
  <2>1. NewFile(known) \in File
    BY DEF Typed, NewFile, File
  <2> QED
    BY <2>1 DEF NewFile
<1>3. PICK n \in Nat : n = Len(s)
  OBVIOUS
<1>4. PICK t : t = Append(s, x)
  OBVIOUS
<1>5. /\ DOMAIN s = 1..n /\ DOMAIN t = 1..(n + 1) /\ Len(t) = n + 1 /\ t \in Seq(File)
      /\ \A f \in 1..n : t[f] = s[f]
      /\ t[n + 1] = x
  BY <1>3, <1>4
<1>6. files' = t
  BY <1>1, <1>2, <1>4
<1>7. /\ \A f \in 1..n : f \in 1..(n + 1) /\ f # n + 1
      /\ n + 1 \in 1..(n + 1) /\ n + 1 \notin 1..n
      /\ \A f \in 1..(n + 1) : f \in 1..n \/ f = n + 1
  OBVIOUS
<1> QED
  BY <1>1, <1>2, <1>3, <1>5, <1>6, <1>7

\* Nothing was posted of it yet.
LEMMA UploadedNotPosted ==
    ASSUME Typed, NEW known \in BOOLEAN, files' = Append(files, NewFile(known))
    PROVE  /\ \A i, b : Got(i, b)' <=> Got(i, b)
           /\ \A i, r : IsPosted(i, r)' <=> IsPosted(i, r)
           /\ \A i : HasFailed(i)' <=> HasFailed(i)
<1>1. PICK n \in Nat :
             /\ DOMAIN files = 1..n
             /\ DOMAIN files' = 1..(n + 1)
             /\ \A f \in 1..n : f \in 1..(n + 1) /\ files'[f] = files[f]
             /\ \A f \in 1..(n + 1) : f \in 1..n \/ f = n + 1
             /\ files'[n + 1].failed = {} /\ files'[n + 1].feedback = "NONE"
  BY Uploaded
<1>2. ASSUME NEW i, NEW b PROVE Got(i, b)' <=> Got(i, b)
  BY <1>1 DEF Got
<1>3. ASSUME NEW i, NEW r PROVE IsPosted(i, r)' <=> IsPosted(i, r)
  <2>1. \A f \in 1..n : IsPostedBy(f, i, r)' <=> IsPostedBy(f, i, r)
    BY <1>1 DEF IsPostedBy, HasLine
  <2>2. ~IsPostedBy(n + 1, i, r)'
    BY <1>1 DEF IsPostedBy
  <2> QED
    BY <1>1, <2>1, <2>2 DEF IsPosted
<1>4. ASSUME NEW i PROVE HasFailed(i)' <=> HasFailed(i)
  BY <1>1 DEF HasFailed, LinesOf
<1> QED
  BY <1>2, <1>3, <1>4

LEMMA UploadTypes ==
    ASSUME Typed, NEW known \in BOOLEAN, files' = Append(files, NewFile(known)),
           SameRows, disb' \in [Invoices -> DisbursementStatus], job' = IdleJob,
           UNCHANGED <<request, stopped, worker, money>>, lost' \subseteq Losses
    PROVE  Typed'
<1>1. PICK n \in Nat :
             /\ DOMAIN files = 1..n /\ Len(files) = n
             /\ DOMAIN files' = 1..(n + 1) /\ Len(files') = n + 1 /\ files' \in Seq(File)
             /\ \A f \in 1..n : files'[f] = files[f]
             /\ \A f \in 1..(n + 1) : f \in 1..n \/ f = n + 1
             /\ files'[n + 1].lines = job.lines /\ files'[n + 1].failed = {}
  BY Uploaded
<1>2. \A lines : LinesTyped(lines) =>
                /\ IsFiniteSet(lines) /\ lines \subseteq Line
                /\ \A l \in lines : l.row # 0 =>
                     /\ l.row \in DOMAIN rows'[l.inv]
                     /\ l.is_reversal = rows'[l.inv][l.row].is_reversal
                /\ \A l, m \in lines : l.inv = m.inv /\ l.row = m.row => l = m
  BY SameRowsTypes
<1>3. RowsTyped'
  BY SameRowsTypes
<1>4. RequestTyped'
  BY DEF Typed, RequestTyped, request
<1>5. ASSUME NEW f \in 1..(n + 1)
      PROVE  /\ LinesTyped(files[f].lines)'
             /\ files'[f].failed \subseteq files'[f].lines
             /\ files'[f].feedback = "NONE" => files'[f].failed = {}
  <2>1. CASE f = n + 1
    <3>1. LinesTyped(job.lines)
      BY DEF Typed
    <3> QED
      BY <1>1, <1>2, <2>1, <3>1 DEF LinesTyped
  <2>2. CASE f \in 1..n
    <3>1. LinesTyped(files[f].lines) /\ files[f].failed \subseteq files[f].lines
          /\ (files[f].feedback = "NONE" => files[f].failed = {})
      BY <1>1, <2>2 DEF Typed, FilesTyped
    <3> QED
      BY <1>1, <1>2, <2>2, <3>1 DEF LinesTyped
  <2> QED
    BY <1>1, <2>1, <2>2
<1>6. worker' \in 0..Len(files') /\ (worker' # 0 => files'[worker'].known)
  <2>1. worker' = worker /\ worker \in 0..n /\ (worker # 0 => files[worker].known)
    BY <1>1 DEF Typed, FilesTyped
  <2> QED
    BY <1>1, <2>1
<1>7. FilesTyped'
  BY <1>1, <1>5, <1>6 DEF FilesTyped
<1>8. job' \in [reading : BOOLEAN, batch : Batches, lines : SUBSET Line] /\ LinesTyped(job.lines)'
  BY FS_EmptySet DEF IdleJob, Batches, LinesTyped
<1> QED
  BY <1>3, <1>4, <1>7, <1>8 DEF Typed

LEMMA UploadAndDieGood ==
    ASSUME IInv, UploadAndDie
    PROVE  IInv'
<1>1. Typed
  BY DEF IInv
<1>2. /\ files' = Append(files, NewFile(FALSE)) /\ job' = IdleJob /\ lost' = lost \cup {"commit"}
      /\ UNCHANGED <<request, disb, rows, stopped, worker, money>>
  BY DEF UploadAndDie, Lose
<1>3. UNCHANGED <<kind, inv, eft, partial, recent>>
  BY <1>2 DEF request
<1>4. SameRows
  BY <1>1, <1>2 DEF SameRows, Typed, RowsTyped
<1>5. Typed'
  <2>1. disb' \in [Invoices -> DisbursementStatus] /\ lost' \subseteq Losses
    BY <1>1, <1>2 DEF Typed, Losses
  <2> QED
    BY <1>1, <1>2, <1>4, <2>1, UploadTypes
<1>6. \A i \in Invoices : Requested(i)'
  BY <1>2, <1>4, SameRowsRequested DEF IInv
<1>7. ASSUME NoRace PROVE NoRace'
  <2>1. \A i \in Invoices : RowsAgree(i)'
    BY <1>1, <1>2, <1>4, <1>7, SameRowsAgree DEF NoRace
  <2>2. JobAgrees'
    BY <1>2 DEF JobAgrees, IdleJob
  <2>3. SentAgree'
    <3>1. PICK n \in Nat :
             /\ DOMAIN files = 1..n /\ DOMAIN files' = 1..(n + 1)
             /\ \A f \in 1..n : files'[f] = files[f]
             /\ \A f \in 1..(n + 1) : f \in 1..n \/ f = n + 1
             /\ files'[n + 1].known = FALSE
      BY <1>1, <1>2, Uploaded
    <3> QED
      BY <1>2, <1>7, <3>1 DEF NoRace, SentAgree
  <2> QED
    BY <2>1, <2>2, <2>3 DEF NoRace
<1> QED
  BY <1>2, <1>5, <1>6, <1>7 DEF IInv

LEMMA UploadAndCommitGood ==
    ASSUME IInv, UploadAndCommit
    PROVE  IInv'
<1>1. Typed /\ LinesTyped(job.lines)
  BY DEF IInv, Typed
<1>2. /\ files' = Append(files, NewFile(TRUE)) /\ job' = IdleJob
      /\ disb' = DisbWith(job.lines, "UPLOADED") /\ rows' = RowsWith(job.lines, "UPLOADED")
      /\ UNCHANGED <<request, stopped, worker, money, lost>>
  BY DEF UploadAndCommit
<1>3. UNCHANGED <<kind, inv, eft, partial, recent>>
  BY <1>2 DEF request
<1>4. /\ SameRows
      /\ \A i \in Invoices : \A r \in DOMAIN rows[i] :
           rows'[i][r].status = IF HasLine(job.lines, i, r) THEN "UPLOADED" ELSE rows[i][r].status
  <2>0. PICK marks, state :
          /\ marks = [ir \in Invoices \X Nat |-> HasLine(job.lines, ir[1], ir[2])]
          /\ state = [ir \in Invoices \X Nat |-> "UPLOADED"]
    OBVIOUS
  <2>1. \A i \in Invoices, r \in Nat :
          /\ marks[<<i, r>>] = HasLine(job.lines, i, r) /\ marks[<<i, r>>] \in BOOLEAN
          /\ state[<<i, r>>] = "UPLOADED" /\ "UPLOADED" \in DisbursementStatus
    BY <2>0 DEF HasLine, DisbursementStatus
  <2>2. \A i \in Invoices : \A r \in DOMAIN rows[i] : r \in Nat
    BY <1>1 DEF Typed, RowsTyped
  <2>3. rows' = WithStatuses(marks, state)
    BY <1>2, <2>1, <2>2 DEF RowsWith, WithStatuses
  <2>4. \A i \in Invoices, r \in Nat : marks[<<i, r>>] \in BOOLEAN
    BY <2>1
  <2>5. \A i \in Invoices, r \in Nat : marks[<<i, r>>] /\ r \in DOMAIN rows[i] =>
          state[<<i, r>>] \in DisbursementStatus
    BY <2>1
  <2>6. /\ SameRows
        /\ \A i \in Invoices : \A r \in DOMAIN rows[i] :
             rows'[i][r].status = IF marks[<<i, r>>] THEN state[<<i, r>>] ELSE rows[i][r].status
    BY <1>1, <2>3, <2>4, <2>5, StatusChanges
  <2> QED
    BY <2>1, <2>2, <2>6
<1>5. /\ disb' \in [Invoices -> DisbursementStatus]
      /\ \A i \in Invoices :
           disb'[i] = IF HasLine(job.lines, i, 0) THEN "UPLOADED" ELSE disb[i]
  BY <1>1, <1>2 DEF DisbWith, Typed, DisbursementStatus
<1>6. Typed'
  <2>1. lost' \subseteq Losses
    BY <1>1, <1>2 DEF Typed
  <2> QED
    BY <1>1, <1>2, <1>4, <1>5, <2>1, UploadTypes
<1>7. \A i \in Invoices : Requested(i)'
  BY <1>2, <1>4, SameRowsRequested DEF IInv
<1>8. PICK n \in Nat :
             /\ DOMAIN files = 1..n /\ Len(files) = n /\ DOMAIN files' = 1..(n + 1)
             /\ \A f \in 1..n : f \in 1..(n + 1) /\ f # n + 1 /\ files'[f] = files[f]
             /\ n + 1 \in 1..(n + 1) /\ n + 1 \notin 1..n
             /\ \A f \in 1..(n + 1) : f \in 1..n \/ f = n + 1
             /\ files'[n + 1].lines = job.lines /\ files'[n + 1].failed = {}
             /\ files'[n + 1].known = TRUE /\ files'[n + 1].feedback = "NONE"
  BY <1>1, <1>2, Uploaded
<1>9. \A l \in job.lines : l \in Line /\ l.inv \in Invoices /\ HasLine(job.lines, l.inv, l.row)
                           /\ (l.row # 0 => l.row \in DOMAIN rows[l.inv])
  BY <1>1 DEF LinesTyped, Line, HasLine
<1>10. ASSUME NoRace, NEW i \in Invoices, NEW r, r # 0, HasLine(job.lines, i, r)
       PROVE  LET s == rows[i] IN
              /\ s[r].status = "WAITING_FOR_JOB" /\ r \in DOMAIN s
              /\ s[r].target = "INVOICE" /\ ~s[r].is_reversal => PaidFor(i)
              /\ s[r].target = "PARTIAL_REFUND" => Refunding(i, r)
  <2>1. PICK l \in job.lines : l.inv = i /\ l.row = r
    BY <1>10 DEF HasLine
  <2> QED
    BY <1>1, <1>10, <2>1, InJob
<1>11. ASSUME NoRace PROVE NoRace'
  <2>1. ASSUME NEW i \in Invoices PROVE RowsAgree(i)'
    <3>1. \A r \in DOMAIN rows[i] :
            /\ rows'[i][r].status = "CANCELLED" <=> rows[i][r].status = "CANCELLED"
            /\ rows'[i][r].status = "WAITING_FOR_JOB" => rows[i][r].status = "WAITING_FOR_JOB"
            /\ rows[i][r].status = "WAITING_FOR_JOB" /\ rows'[i][r].status # "WAITING_FOR_JOB" =>
                 /\ rows[i][r].target = "INVOICE" /\ ~rows[i][r].is_reversal => PaidFor(i)
                 /\ rows[i][r].target = "PARTIAL_REFUND" => Refunding(i, r)
      <4>1. ASSUME NEW r \in DOMAIN rows[i], HasLine(job.lines, i, r)
            PROVE  /\ rows[i][r].status = "WAITING_FOR_JOB"
                   /\ rows'[i][r].status = "UPLOADED"
                   /\ rows[i][r].target = "INVOICE" /\ ~rows[i][r].is_reversal => PaidFor(i)
                   /\ rows[i][r].target = "PARTIAL_REFUND" => Refunding(i, r)
        <5>1. r # 0
          BY <1>1 DEF Typed, RowsTyped
        <5> QED
          BY <1>4, <1>10, <1>11, <4>1, <5>1
      <4>2. \A r \in DOMAIN rows[i] : ~HasLine(job.lines, i, r) =>
              rows'[i][r].status = rows[i][r].status
        BY <1>4
      <4> QED
        BY <4>1, <4>2
    <3>2. RowsAgree(i)
      BY <1>11 DEF NoRace
    <3> QED
      BY <1>1, <1>2, <1>4, <3>1, <3>2, SameRowsAgree
  <2>2. JobAgrees'
    BY <1>2 DEF JobAgrees, IdleJob
  <2>3. ASSUME NEW f \in DOMAIN files', NEW l \in files'[f].lines, l.row # 0,
               files'[f].known
        PROVE  rows'[l.inv][l.row].status \notin {"WAITING_FOR_JOB", "CANCELLED"}
    <3>1. CASE f = n + 1
      BY <1>4, <1>8, <1>9, <2>3, <3>1
    <3>2. CASE f \in 1..n
      <4>1. l \in files[f].lines /\ files[f].known
        BY <1>8, <2>3, <3>2
      <4>2. l.inv \in Invoices /\ l.row \in DOMAIN rows[l.inv]
        BY <1>1, <1>8, <2>3, <3>2, <4>1 DEF Typed, FilesTyped, LinesTyped, Line
      <4>3. rows[l.inv][l.row].status \notin {"WAITING_FOR_JOB", "CANCELLED"}
        BY <1>8, <1>11, <2>3, <3>2, <4>1 DEF NoRace, SentAgree
      <4> QED
        BY <1>4, <4>2, <4>3
    <3> QED
      BY <1>8, <3>1, <3>2
  <2>4. SentAgree'
    BY <2>3 DEF SentAgree
  <2> QED
    BY <2>1, <2>2, <2>4 DEF NoRace
<1>12. ASSUME NoRace, Books PROVE Books'
  <2>1. /\ \A i, b : Got(i, b)' <=> Got(i, b)
        /\ \A i, r : IsPosted(i, r)' <=> IsPosted(i, r)
        /\ \A i : HasFailed(i)' <=> HasFailed(i)
    BY <1>1, <1>2, UploadedNotPosted
  <2>2. \A l : NotGot(l)' <=> NotGot(l)
    BY <1>3, <2>1 DEF NotGot
  <2>3. /\ \A f \in 1..n : \A i : InFlight(f, i)' <=> InFlight(f, i)
        /\ \A i : InFlight(n + 1, i)' <=> HasLine(job.lines, i, 0)
    BY <1>8 DEF InFlight, HasLine
  <2>4. \A l \in job.lines : l.row = 0 =>
          /\ disb[l.inv] # "UPLOADED" /\ NotGot(l)
          /\ \A f \in 1..n : ~InFlight(f, l.inv)
          /\ ~IsEft(l.inv) /\ inv[l.inv] \notin {"NONE", "APPROVED"}
    <3>1. ASSUME NEW l \in job.lines, l.row = 0
          PROVE  /\ disb[l.inv] # "UPLOADED" /\ NotGot(l)
                 /\ \A f \in 1..n : ~InFlight(f, l.inv)
                 /\ ~IsEft(l.inv) /\ inv[l.inv] \notin {"NONE", "APPROVED"}
      <4>1. disb[l.inv] # "UPLOADED" /\ NotGot(l)
        BY <1>12, <3>1 DEF Books, LinesAgree
      <4>2. l.inv \in Invoices /\ StatusAgrees(l.inv) /\ HasLine(job.lines, l.inv, 0)
        BY <1>9, <1>12, <3>1 DEF Books
      <4> QED
        BY <1>8, <4>1, <4>2 DEF StatusAgrees
    <3> QED
      BY <3>1
  <2>5. \A i : HasLine(job.lines, i, 0) =>
          /\ disb[i] # "UPLOADED" /\ (\A f \in 1..n : ~InFlight(f, i))
          /\ ~IsEft(i) /\ inv[i] \notin {"NONE", "APPROVED"}
    BY <2>4 DEF HasLine
  <2>6. LinesAgree'
    <3>1. \A l \in job'.lines : FALSE
      BY <1>2 DEF IdleJob
    <3>2. ASSUME NEW f \in DOMAIN files', NEW l \in files'[f].lines,
                 l.row = 0, files'[f].feedback # "PROCESSED"
          PROVE  /\ \A g \in DOMAIN files' : InFlight(g, l.inv)' => g = f
                 /\ files'[f].feedback = "NONE" \/ l \in files'[f].failed => NotGot(l)
                 /\ l.is_reversal => inv[l.inv] = "REFUNDED"
                 /\ ~l.is_reversal => ~Got(l.inv, TRUE)
      <4>1. CASE f = n + 1
        <5>1. l \in job.lines /\ l.inv \in Invoices
          BY <1>8, <1>9, <3>2, <4>1
        <5>2. NotGot(l) /\ \A g \in 1..n : ~InFlight(g, l.inv)
          BY <2>4, <3>2, <5>1
        <5>3. \A g \in DOMAIN files' : InFlight(g, l.inv)' => g = f
          BY <1>8, <2>3, <4>1, <5>2
        <5>4. StatusAgrees(l.inv)
          BY <1>12, <5>1 DEF Books
        <5> QED
          BY <5>2, <5>3, <5>4 DEF NotGot, StatusAgrees
      <4>2. CASE f \in 1..n
        <5>1. l \in files[f].lines /\ files[f].feedback # "PROCESSED" /\ InFlight(f, l.inv)
          BY <1>8, <3>2, <4>2 DEF InFlight, HasLine
        <5>2. /\ \A g \in 1..n : InFlight(g, l.inv) => g = f
              /\ files[f].feedback = "NONE" \/ l \in files[f].failed => NotGot(l)
              /\ l.is_reversal => inv[l.inv] = "REFUNDED"
              /\ ~l.is_reversal => ~Got(l.inv, TRUE)
          BY <1>8, <1>12, <3>2, <4>2, <5>1 DEF Books, LinesAgree
        <5>3. ~HasLine(job.lines, l.inv, 0)
          BY <2>5, <4>2, <5>1
        <5>4. \A g \in DOMAIN files' : InFlight(g, l.inv)' => g = f
          BY <1>8, <2>3, <5>2, <5>3
        <5> QED
          BY <1>8, <4>2, <5>2, <5>4
      <4> QED
        BY <1>8, <4>1, <4>2
    <3> QED
      BY <1>3, <2>1, <2>2, <3>1, <3>2 DEF LinesAgree
  <2>7. ASSUME NEW i \in Invoices PROVE RowsSent(i)'
    <3>1. RowsSent(i)
      BY <1>12 DEF Books
    <3>2. \A f \in 1..n : \A r : HasLine(files[f].lines, i, r)' <=> HasLine(files[f].lines, i, r)
      BY <1>8 DEF HasLine
    <3>3. \A r : HasLine(files[n + 1].lines, i, r)' <=> HasLine(job.lines, i, r)
      BY <1>8 DEF HasLine
    <3>4. ASSUME NEW r \in DOMAIN rows'[i],
                 rows'[i][r].status \notin {"WAITING_FOR_JOB", "CANCELLED"}
          PROVE  \E f \in DOMAIN files' : HasLine(files[f].lines, i, r)'
      <4>1. r \in DOMAIN rows[i]
        BY <1>4 DEF SameRows
      <4>2. CASE HasLine(job.lines, i, r)
        BY <1>8, <3>3, <4>2
      <4>3. CASE ~HasLine(job.lines, i, r)
        <5>1. rows[i][r].status \notin {"WAITING_FOR_JOB", "CANCELLED"}
          BY <1>4, <3>4, <4>1, <4>3
        <5>2. PICK f \in 1..n : HasLine(files[f].lines, i, r)
          BY <1>8, <3>1, <4>1, <5>1 DEF RowsSent
        <5> QED
          BY <1>8, <3>2, <5>2
      <4> QED
        BY <4>2, <4>3
    <3>5. ASSUME NEW r \in DOMAIN rows[i], HasLine(job.lines, i, r),
                 NEW f \in 1..n, HasLine(files[f].lines, i, r)
          PROVE  FALSE
      <4>1. r # 0
        BY <1>1 DEF Typed, RowsTyped
      <4>2. rows[i][r].status = "WAITING_FOR_JOB"
        BY <1>10, <1>12, <3>5, <4>1
      <4>3. files[f].known
        BY <1>8, <1>12 DEF Books
      <4>4. rows[i][r].status # "WAITING_FOR_JOB"
        BY <1>8, <1>12, <3>5, <4>1, <4>3 DEF NoRace, SentAgree, HasLine
      <4> QED
        BY <4>2, <4>4
    <3>6. ASSUME NEW r \in DOMAIN rows'[i], NEW f \in DOMAIN files', NEW g \in DOMAIN files',
                 HasLine(files[f].lines, i, r)', HasLine(files[g].lines, i, r)'
          PROVE  f = g
      <4>1. r \in DOMAIN rows[i]
        BY <1>4 DEF SameRows
      <4>2. CASE f \in 1..n /\ g \in 1..n
        BY <1>8, <3>1, <3>2, <3>6, <4>1, <4>2 DEF RowsSent
      <4>3. CASE ~(f \in 1..n /\ g \in 1..n)
        BY <1>8, <3>2, <3>3, <3>5, <3>6, <4>1, <4>3
      <4> QED
        BY <4>2, <4>3
    <3> QED
      BY <3>4, <3>6 DEF RowsSent
  <2>8. ASSUME NEW i \in Invoices PROVE StatusAgrees(i)'
    <3>1. StatusAgrees(i)
      BY <1>12 DEF Books
    <3>2. ~HasLine(job.lines, i, 0)'
      BY <1>2 DEF IdleJob, HasLine
    <3>3. \A f \in 1..n : HasLine(files[f].lines, i, 0)' <=> HasLine(files[f].lines, i, 0)
      BY <1>8 DEF HasLine
    <3>4. HasLine(files[n + 1].lines, i, 0)' <=> HasLine(job.lines, i, 0)
      BY <1>8 DEF HasLine
    <3>5. CASE HasLine(job.lines, i, 0)
      <4>1. disb'[i] = "UPLOADED" /\ ~IsEft(i)' /\ inv'[i] \notin {"NONE", "APPROVED"}
        BY <1>3, <1>5, <2>5, <3>5 DEF IsEft
      <4>2. \E f \in DOMAIN files' : InFlight(f, i)'
        BY <1>8, <2>3, <3>5
      <4>3. Got(i, TRUE)' => Got(i, FALSE)' /\ inv'[i] = "REFUNDED"
        BY <1>3, <2>1, <3>1 DEF StatusAgrees
      <4> QED
        BY <4>1, <4>2, <4>3 DEF StatusAgrees
    <3>6. CASE ~HasLine(job.lines, i, 0)
      <4>1. disb'[i] = disb[i] /\ (IsEft(i)' <=> IsEft(i)) /\ inv'[i] = inv[i] /\ kind'[i] = kind[i]
        BY <1>3, <1>5, <3>6 DEF IsEft
      <4>2. (\E f \in DOMAIN files' : InFlight(f, i)') <=> (\E f \in DOMAIN files : InFlight(f, i))
        BY <1>8, <2>3, <3>6
      <4>3. disb[i] = "NONE" => \A f \in DOMAIN files' : ~HasLine(files[f].lines, i, 0)'
        BY <1>8, <3>1, <3>3, <3>4, <3>6 DEF StatusAgrees
      <4> QED
        BY <2>1, <3>1, <3>2, <4>1, <4>2, <4>3 DEF StatusAgrees
    <3> QED
      BY <3>5, <3>6
  <2>9. ASSUME NEW i \in Invoices PROVE money'[i] = MoneyOf(i)'
    <3>1. \A r : IsPosted(i, r)' = IsPosted(i, r)
      BY <2>1 DEF IsPosted
    <3>2. \A b \in BOOLEAN : Got(i, b)' = Got(i, b)
      BY <2>1 DEF Got
    <3> QED
      BY <1>2, <1>4, <1>12, <3>1, <3>2, SameRowsMoney DEF Books
  <2>10. \A f \in DOMAIN files' : files'[f].known
    BY <1>8, <1>12 DEF Books
  <2>11. worker' # 0 => files'[worker'].feedback = "RECEIVED"
    <3>1. worker' = worker /\ worker \in 0..n
      BY <1>1, <1>2, <1>8 DEF Typed, FilesTyped
    <3>2. worker # 0 => files[worker].feedback = "RECEIVED"
      BY <1>12 DEF Books
    <3> QED
      BY <1>8, <3>1, <3>2
  <2> QED
    BY <2>6, <2>7, <2>8, <2>9, <2>10, <2>11 DEF Books
<1>13. lost' = lost
  BY <1>2
<1>14. lost = {} => "race" \notin lost
  OBVIOUS
<1> QED
  BY <1>6, <1>7, <1>11, <1>12, <1>13, <1>14 DEF IInv

-----------------------------------------------------------------------------
(* CGI.                                                                    *)

\* What is posted with a file.
LEMMA PostedFile ==
    ASSUME Typed, NEW f \in DOMAIN files, NEW failed, Post(f, failed)
    PROVE  /\ files[f].feedback = "NONE" /\ failed \subseteq files[f].lines
           /\ files' \in Seq(File) /\ DOMAIN files' = DOMAIN files /\ Len(files') = Len(files)
           /\ \A g \in DOMAIN files : /\ files'[g].lines = files[g].lines
                                      /\ files'[g].known = files[g].known
                                      /\ g # f => files'[g] = files[g]
           /\ files'[f].failed = failed /\ files'[f].feedback = "SENT"
<1>1. PICK s \in Seq(File) : s = files
  BY DEF Typed, FilesTyped
<1>2. PICK x \in File : x = s[f] /\ f \in DOMAIN s
  BY <1>1
<1>3. /\ x.feedback = "NONE" /\ failed \subseteq x.lines
      /\ files' = [s EXCEPT ![f].feedback = "SENT", ![f].failed = failed]
  BY <1>1, <1>2 DEF Post
<1>4. PICK y : y = [x EXCEPT !.feedback = "SENT", !.failed = failed]
  OBVIOUS
<1>5. /\ y \in File /\ y.lines = x.lines /\ y.known = x.known /\ y.failed = failed
      /\ y.feedback = "SENT"
  BY <1>3, <1>4 DEF File
<1>6. files' = [s EXCEPT ![f] = y]
  BY <1>2, <1>3, <1>4
<1>7. /\ files' \in Seq(File) /\ DOMAIN files' = DOMAIN s /\ Len(files') = Len(s)
      /\ files'[f] = y /\ \A g \in DOMAIN s : g # f => files'[g] = s[g]
  BY <1>2, <1>5, <1>6
<1> QED
  BY <1>1, <1>2, <1>3, <1>5, <1>7

\* What is got by it.
LEMMA PostedGot ==
    ASSUME Typed, NEW f \in DOMAIN files, NEW failed, Post(f, failed), NEW i
    PROVE  /\ \A b : Got(i, b)' <=>
                \/ Got(i, b)
                \/ [inv |-> i, row |-> 0, is_reversal |-> b] \in files[f].lines \ failed
           /\ \A r : IsPosted(i, r)' <=> IsPosted(i, r) \/ HasLine(files[f].lines \ failed, i, r)
           /\ HasFailed(i) => HasFailed(i)'
           /\ \A g \in DOMAIN files : InFlight(g, i)' <=> InFlight(g, i)
           /\ \A g, r : g \in DOMAIN files =>
                (HasLine(files[g].lines, i, r)' <=> HasLine(files[g].lines, i, r))
<1>1. /\ files[f].feedback = "NONE" /\ DOMAIN files' = DOMAIN files
      /\ \A g \in DOMAIN files : /\ files'[g].lines = files[g].lines
                                 /\ g # f => files'[g] = files[g]
      /\ files'[f].failed = failed /\ files'[f].feedback = "SENT"
  BY PostedFile
<1>2. files[f].failed = {}
  BY <1>1 DEF Typed, FilesTyped
<1>3. ASSUME NEW b
      PROVE  Got(i, b)' <=>
                \/ Got(i, b)
                \/ [inv |-> i, row |-> 0, is_reversal |-> b] \in files[f].lines \ failed
  BY <1>1 DEF Got
<1>4. ASSUME NEW r
      PROVE  IsPosted(i, r)' <=> IsPosted(i, r) \/ HasLine(files[f].lines \ failed, i, r)
  <2>1. \A g \in DOMAIN files : g # f => (IsPostedBy(g, i, r)' <=> IsPostedBy(g, i, r))
    BY <1>1 DEF IsPostedBy, HasLine
  <2>2. ~IsPostedBy(f, i, r) /\ (IsPostedBy(f, i, r)' <=> HasLine(files[f].lines \ failed, i, r))
    BY <1>1 DEF IsPostedBy, HasLine
  <2> QED
    BY <1>1, <2>1, <2>2 DEF IsPosted
<1>5. HasFailed(i) => HasFailed(i)'
  <2>1. \A g \in DOMAIN files : files[g].failed \subseteq files'[g].failed
    BY <1>1, <1>2
  <2> QED
    BY <1>1, <2>1 DEF HasFailed, LinesOf
<1>6. ASSUME NEW g \in DOMAIN files PROVE InFlight(g, i)' <=> InFlight(g, i)
  BY <1>1 DEF InFlight, HasLine
<1>7. \A g, r : g \in DOMAIN files =>
                (HasLine(files[g].lines, i, r)' <=> HasLine(files[g].lines, i, r))
  BY <1>1 DEF HasLine
<1> QED
  BY <1>3, <1>4, <1>5, <1>6, <1>7

\* A file has at most one line about an invoice or a row.
LEMMA OneLine ==
    ASSUME Typed, NEW f \in DOMAIN files, NEW l \in files[f].lines, NEW m \in files[f].lines,
           l.inv = m.inv, l.row = m.row
    PROVE  l = m
BY DEF Typed, FilesTyped, LinesTyped

LEMMA LineIs ==
    ASSUME NEW l \in Line, NEW i, l.inv = i, l.row = 0
    PROVE  l = [inv |-> i, row |-> 0, is_reversal |-> l.is_reversal]
BY DEF Line

GotByStatusMoves(i, d) ==
    /\ GotByStatus(i, FALSE) - GotByStatus(i, TRUE) \in Int
    /\ GotByStatus(i, FALSE)' - GotByStatus(i, TRUE)'
         = GotByStatus(i, FALSE) - GotByStatus(i, TRUE) + d

\* What the lines by status of a file add to what the partner has got.
LEMMA PostStatusMoney ==
    ASSUME Typed, LinesAgree, NEW f \in DOMAIN files, NEW failed, Post(f, failed),
           NEW i \in Invoices, NEW Z, Z = {l \in files[f].lines \ failed : l.inv = i /\ l.row = 0},
           NEW am, \A l \in Z : am[l] = Amount(l)
    PROVE  GotByStatusMoves(i, SumFunctionOnSet(am, Z))
<1> SUFFICES /\ GotByStatus(i, FALSE) - GotByStatus(i, TRUE) \in Int
             /\ GotByStatus(i, FALSE)' - GotByStatus(i, TRUE)'
                  = GotByStatus(i, FALSE) - GotByStatus(i, TRUE) + SumFunctionOnSet(am, Z)
  BY DEF GotByStatusMoves
<1>1. /\ files[f].feedback = "NONE"
      /\ \A b : Got(i, b)' <=>
                \/ Got(i, b)
                \/ [inv |-> i, row |-> 0, is_reversal |-> b] \in files[f].lines \ failed
  BY PostedFile, PostedGot
<1>2. Share \in Int
  BY AmountsTyped
<1> DEFINE p == GotByStatus(i, FALSE)
           q == GotByStatus(i, TRUE)
<1>3. /\ p \in {0, Share} /\ q \in {0, Share}
      /\ p' \in {0, Share} /\ q' \in {0, Share}
  BY Zenon DEF GotByStatus, Share
<1>4. p \in Int /\ q \in Int /\ p' \in Int /\ q' \in Int
  <2> HIDE DEF p, q
  <2> QED
    BY <1>2, <1>3
<1>5. CASE Z = {}
  <2>1. SumFunctionOnSet(am, Z) = 0
    BY <1>5, SumEmpty
  <2>2. \A b : [inv |-> i, row |-> 0, is_reversal |-> b] \notin files[f].lines \ failed
    <3>1. ASSUME NEW b, [inv |-> i, row |-> 0, is_reversal |-> b] \in files[f].lines \ failed
          PROVE  FALSE
      <4>1. [inv |-> i, row |-> 0, is_reversal |-> b] \in Z
        BY <3>1
      <4> QED
        BY <1>5, <4>1
    <3> QED
      BY <3>1
  <2>3. (Got(i, FALSE)' <=> Got(i, FALSE)) /\ (Got(i, TRUE)' <=> Got(i, TRUE))
    BY <1>1, <2>2
  <2>4. p' = p /\ q' = q
    BY <2>3, Zenon DEF GotByStatus, Share
  <2> HIDE DEF p, q
  <2>5. p - q \in Int /\ p' - q' = p - q + SumFunctionOnSet(am, Z)
    BY <1>4, <2>1, <2>4
  <2> QED
    BY <2>5 DEF p, q
<1>6. CASE Z # {}
  <2>1. PICK l \in Z : TRUE
    BY <1>6
  <2>2. /\ l \in files[f].lines /\ l \notin failed /\ l.inv = i /\ l.row = 0 /\ l \in Line
        /\ l.is_reversal \in BOOLEAN
    BY <2>1 DEF Typed, FilesTyped, LinesTyped, Line
  <2>3. Z = {l}
    BY <2>1, <2>2, OneLine
  <2>4. am[l] = IF l.is_reversal THEN -Share ELSE Share
    BY <2>1, <2>2 DEF Amount
  <2>5. SumFunctionOnSet(am, Z) = am[l]
    <3>1. IsFiniteSet({}) /\ l \notin {} /\ \A y \in {} \cup {l} : am[y] \in Int
      BY <1>2, <2>2, <2>4, FS_EmptySet
    <3>2. SumFunctionOnSet(am, {} \cup {l}) = am[l] + SumFunctionOnSet(am, {})
      BY <3>1, SumAdd
    <3>3. {} \cup {l} = Z
      BY <2>3
    <3> QED
      BY <1>2, <2>2, <2>4, <3>2, <3>3, SumEmpty
  <2>6. NotGot(l)
    BY <1>1, <2>2 DEF LinesAgree
  <2>7. ASSUME NEW b \in BOOLEAN
        PROVE  [inv |-> i, row |-> 0, is_reversal |-> b] \in files[f].lines \ failed
                 <=> b = l.is_reversal
    <3>1. PICK m : m = [inv |-> i, row |-> 0, is_reversal |-> b]
      OBVIOUS
    <3>2. m.inv = i /\ m.row = 0 /\ m.is_reversal = b
      BY <3>1
    <3>3. ASSUME m \in files[f].lines \ failed PROVE m = l
      BY <2>2, <3>2, <3>3, OneLine
    <3>4. l = [inv |-> i, row |-> 0, is_reversal |-> l.is_reversal]
      BY <2>2, LineIs
    <3> QED
      BY <2>2, <3>1, <3>2, <3>3, <3>4
  <2>8. CASE l.is_reversal
    <3>1. ~Got(i, TRUE) /\ Got(i, TRUE)' /\ (Got(i, FALSE)' <=> Got(i, FALSE))
      BY <1>1, <2>2, <2>6, <2>7, <2>8 DEF NotGot
    <3>2. p' = p /\ q = 0 /\ q' = Share
      BY <3>1, Zenon DEF GotByStatus, Share
    <3>3. SumFunctionOnSet(am, Z) = -Share
      BY <2>4, <2>5, <2>8
    <3> HIDE DEF p, q
    <3>4. p - q \in Int /\ p' - q' = p - q + SumFunctionOnSet(am, Z)
      BY <1>2, <1>4, <3>2, <3>3
    <3> QED
      BY <3>4 DEF p, q
  <2>9. CASE ~l.is_reversal
    <3>1. ~Got(i, FALSE) /\ Got(i, FALSE)' /\ (Got(i, TRUE)' <=> Got(i, TRUE))
      BY <1>1, <2>2, <2>6, <2>7, <2>9 DEF NotGot
    <3>2. q' = q /\ p = 0 /\ p' = Share
      BY <3>1, Zenon DEF GotByStatus, Share
    <3>3. SumFunctionOnSet(am, Z) = Share
      BY <2>4, <2>5, <2>9
    <3> HIDE DEF p, q
    <3>4. p - q \in Int /\ p' - q' = p - q + SumFunctionOnSet(am, Z)
      BY <1>2, <1>4, <3>2, <3>3
    <3> QED
      BY <3>4 DEF p, q
  <2> QED
    BY <2>8, <2>9
<1> QED
  BY <1>5, <1>6

\* What its lines by row add.
LEMMA PostRowsMoney ==
    ASSUME Typed, NEW f \in DOMAIN files, NEW failed, Post(f, failed),
           NEW i \in Invoices, RowsSent(i),
           NEW R, R = {l \in files[f].lines \ failed : l.inv = i /\ l.row # 0},
           NEW am, \A l \in R : am[l] = Amount(l)
    PROVE  /\ Total(PostedRows(i), DOMAIN rows[i]) \in Int
           /\ SumFunctionOnSet(am, R) \in Int
           /\ Total(PostedRows(i)', DOMAIN rows'[i])
                = Total(PostedRows(i), DOMAIN rows[i]) + SumFunctionOnSet(am, R)
<1>1. files[f].feedback = "NONE"
  BY PostedFile
<1>2. \A r : IsPosted(i, r)' <=> IsPosted(i, r) \/ HasLine(files[f].lines \ failed, i, r)
  BY PostedGot
<1>3. rows' = rows
  BY DEF Post
<1>4. PICK s \in Seq(Row) : s = rows[i]
  BY DEF Typed, RowsTyped
<1>5. PICK D : D = DOMAIN s
  OBVIOUS
<1>6. IsFiniteSet(D) /\ (\A r \in D : RowAmount(s[r]) \in Int) /\ 0 \notin D
  <2>1. D = 1..Len(s) /\ Len(s) \in Nat
    BY <1>5
  <2>2. IsFiniteSet(D)
    BY <2>1, FS_Interval
  <2> QED
    BY <1>5, <2>1, <2>2, RowFields, AmountsTyped
<1>7. PICK v, w, d :
        /\ v = PostedRows(i) /\ w = PostedRows(i)'
        /\ d = [r \in D |-> IF HasLine(files[f].lines \ failed, i, r) THEN RowAmount(s[r]) ELSE 0]
  OBVIOUS
<1>8. \A r \in D : /\ v[r] = IF IsPosted(i, r) THEN RowAmount(s[r]) ELSE 0
                   /\ IsPosted(i, r)' => w[r] = RowAmount(s[r])
                   /\ ~IsPosted(i, r)' => w[r] = 0
                   /\ d[r] = IF HasLine(files[f].lines \ failed, i, r) THEN RowAmount(s[r]) ELSE 0
  BY <1>3, <1>4, <1>5, <1>7 DEF PostedRows
<1>9. \A r \in D : HasLine(files[f].lines \ failed, i, r) => ~IsPosted(i, r)
  <2>1. ASSUME NEW r \in D, HasLine(files[f].lines \ failed, i, r), IsPosted(i, r)
        PROVE  FALSE
    <3>1. PICK g \in DOMAIN files : IsPostedBy(g, i, r)
      BY <2>1 DEF IsPosted
    <3>2. HasLine(files[g].lines, i, r) /\ files[g].feedback # "NONE"
      BY <3>1 DEF IsPostedBy, HasLine
    <3>3. HasLine(files[f].lines, i, r)
      BY <2>1 DEF HasLine
    <3>4. g = f
      BY <1>4, <1>5, <3>2, <3>3 DEF RowsSent
    <3> QED
      BY <1>1, <3>2, <3>4
  <2> QED
    BY <2>1
<1>10. \A r \in D : v[r] \in Int /\ d[r] \in Int /\ w[r] = v[r] + d[r]
  <2>1. ASSUME NEW r \in D PROVE v[r] \in Int /\ d[r] \in Int /\ w[r] = v[r] + d[r]
    <3>1. CASE HasLine(files[f].lines \ failed, i, r)
      <4>1. v[r] = 0 /\ w[r] = RowAmount(s[r]) /\ d[r] = RowAmount(s[r])
        BY <1>2, <1>8, <1>9, <3>1, Zenon
      <4> QED
        BY <1>6, <4>1
    <3>2. CASE ~HasLine(files[f].lines \ failed, i, r)
      <4>1. v[r] \in {0, RowAmount(s[r])} /\ w[r] = v[r] /\ d[r] = 0
        BY <1>2, <1>8, <3>2, Zenon
      <4> QED
        BY <1>6, <4>1
    <3> QED
      BY <3>1, <3>2
  <2> QED
    BY <2>1
<1>11. SumFunctionOnSet(w, D) = SumFunctionOnSet(v, D) + SumFunctionOnSet(d, D)
  BY <1>6, <1>10, SumPlus
<1>12. \A l \in R : /\ l \in files[f].lines /\ l.inv = i /\ l.row \in D
                    /\ HasLine(files[f].lines \ failed, i, l.row)
                    /\ am[l] = RowAmount(s[l.row])
  <2>1. ASSUME NEW l \in R
        PROVE  /\ l \in files[f].lines /\ l.inv = i /\ l.row \in D
               /\ HasLine(files[f].lines \ failed, i, l.row)
               /\ am[l] = RowAmount(s[l.row])
    <3>1. /\ l \in files[f].lines /\ l.inv = i /\ l.row # 0
          /\ HasLine(files[f].lines \ failed, i, l.row)
      BY DEF HasLine
    <3>2. l.row \in DOMAIN rows[i] /\ l.is_reversal = rows[i][l.row].is_reversal
      BY <3>1 DEF Typed, FilesTyped, LinesTyped
    <3>3. am[l] = RowAmount(s[l.row])
      BY <1>4, <3>1, <3>2 DEF Amount, RowAmount
    <3> QED
      BY <1>4, <1>5, <3>1, <3>2, <3>3
  <2> QED
    BY <2>1
<1>13. SumFunctionOnSet(am, R) = SumFunctionOnSet(d, D)
  <2>1. PICK k : k = [l \in R |-> l.row]
    OBVIOUS
  <2>2. IsFiniteSet(R)
    <3>1. IsFiniteSet(files[f].lines) /\ R \subseteq files[f].lines
      BY DEF Typed, FilesTyped, LinesTyped
    <3> QED
      BY <3>1, FS_Subset
  <2>3. \A l \in R : k[l] \in D
    BY <1>12, <2>1
  <2>4. \A l, m \in R : k[l] = k[m] => l = m
    BY <1>12, <2>1, OneLine
  <2>5. \A r \in D : d[r] \in Int
    BY <1>10
  <2>6. \A l \in R : d[k[l]] = am[l]
    BY <1>8, <1>12, <2>1
  <2>7. \A r \in D : (\A l \in R : k[l] # r) => d[r] = 0
    <3>1. ASSUME NEW r \in D, HasLine(files[f].lines \ failed, i, r)
          PROVE  \E l \in R : k[l] = r
      <4>1. PICK l \in files[f].lines \ failed : l.inv = i /\ l.row = r
        BY <3>1 DEF HasLine
      <4> QED
        BY <1>6, <2>1, <4>1
    <3> QED
      BY <1>8, <3>1
  <2> QED
    BY <1>6, <2>2, <2>3, <2>4, <2>5, <2>6, <2>7, SumAlong
<1>14. SumFunctionOnSet(v, D) \in Int /\ SumFunctionOnSet(d, D) \in Int
  <2>1. (\A r \in D : v[r] \in Int) /\ (\A r \in D : d[r] \in Int)
    BY <1>10
  <2> QED
    BY <1>6, <2>1, SumInt
<1> QED
  BY <1>3, <1>4, <1>5, <1>7, <1>11, <1>13, <1>14 DEF Total

LEMMA PostMoney ==
    ASSUME Typed, Books, NEW f \in DOMAIN files, NEW failed, Post(f, failed), NEW i \in Invoices
    PROVE  money'[i] = MoneyOf(i)'
<1>1. PICK P : P = files[f].lines \ failed
  OBVIOUS
<1>2. money[i] \in Int /\ money'[i] = money[i] + Posted(P, i)
  BY <1>1 DEF Typed, Post
<1>3. PICK mine : mine = {l \in P : l.inv = i}
  OBVIOUS
<1>4. PICK am : am = [l \in mine |-> Amount(l)]
  OBVIOUS
<1>5. Posted(P, i) = SumFunctionOnSet(am, mine)
  BY <1>3, <1>4 DEF Posted
<1>6. PICK Z : Z = {l \in files[f].lines \ failed : l.inv = i /\ l.row = 0}
  OBVIOUS
<1>7. PICK R : R = {l \in files[f].lines \ failed : l.inv = i /\ l.row # 0}
  OBVIOUS
<1>8. mine = Z \cup R /\ Z \cap R = {}
  BY <1>1, <1>3, <1>6, <1>7
<1>9. \A l \in Z : am[l] = Amount(l)
  BY <1>4, <1>8
<1>10. \A l \in R : am[l] = Amount(l)
  BY <1>4, <1>8
<1>11. \A l \in mine : am[l] \in Int
  <2>1. ASSUME NEW l \in mine PROVE am[l] \in Int
    <3>1. l \in files[f].lines /\ l.inv = i
      BY <1>1, <1>3
    <3>2. l.row # 0 => l.row \in DOMAIN rows[i]
      BY <3>1 DEF Typed, FilesTyped, LinesTyped
    <3>3. Share \in Int /\ SentByRow \in Int
      BY AmountsTyped
    <3> QED
      BY <1>4, <3>1, <3>3 DEF Amount
  <2> QED
    BY <2>1
<1>12. IsFiniteSet(Z) /\ IsFiniteSet(R)
  <2>1. IsFiniteSet(files[f].lines) /\ Z \subseteq files[f].lines /\ R \subseteq files[f].lines
    BY <1>6, <1>7 DEF Typed, FilesTyped, LinesTyped
  <2> QED
    BY <2>1, FS_Subset
<1>13. /\ SumFunctionOnSet(am, Z) \in Int /\ SumFunctionOnSet(am, R) \in Int
       /\ SumFunctionOnSet(am, Z \cup R) = SumFunctionOnSet(am, Z) + SumFunctionOnSet(am, R)
  <2>1. \A l \in Z \cup R : am[l] \in Int
    BY <1>8, <1>11
  <2> QED
    BY <1>8, <1>12, <2>1, SumUnion
<1>14. money[i] = MoneyOf(i)
  BY DEF Books
<1>15. LinesAgree
  BY DEF Books
<1>16. RowsSent(i)
  BY DEF Books
<1>17. /\ GotByStatus(i, FALSE) - GotByStatus(i, TRUE) \in Int
       /\ GotByStatus(i, FALSE)' - GotByStatus(i, TRUE)'
             = GotByStatus(i, FALSE) - GotByStatus(i, TRUE) + SumFunctionOnSet(am, Z)
  <2>1. GotByStatusMoves(i, SumFunctionOnSet(am, Z))
    BY <1>6, <1>9, <1>15, PostStatusMoney
  <2> QED
    BY <2>1 DEF GotByStatusMoves
<1>18. /\ Total(PostedRows(i), DOMAIN rows[i]) \in Int
       /\ Total(PostedRows(i)', DOMAIN rows'[i])
                = Total(PostedRows(i), DOMAIN rows[i]) + SumFunctionOnSet(am, R)
  BY <1>7, <1>10, <1>16, PostRowsMoney
<1>19. PICK a, b, c, d : /\ a = GotByStatus(i, FALSE)' - GotByStatus(i, TRUE)'
                         /\ b = GotByStatus(i, FALSE) - GotByStatus(i, TRUE)
                         /\ c = Total(PostedRows(i), DOMAIN rows[i])
                         /\ d = Total(PostedRows(i)', DOMAIN rows'[i])
  OBVIOUS
<1>20. MoneyOf(i) = b + c /\ MoneyOf(i)' = a + d
  BY <1>19 DEF MoneyOf
<1>21. b \in Int /\ c \in Int /\ a = b + SumFunctionOnSet(am, Z)
       /\ d = c + SumFunctionOnSet(am, R)
  BY <1>17, <1>18, <1>19
<1> QED
  BY <1>2, <1>5, <1>8, <1>13, <1>14, <1>20, <1>21

\* Nothing but the feedback of a file changes.
FeedbackStep ==
    /\ files' \in Seq(File) /\ DOMAIN files' = DOMAIN files /\ Len(files') = Len(files)
    /\ \A g \in DOMAIN files : /\ files'[g].lines = files[g].lines
                               /\ files'[g].known = files[g].known
                               /\ files'[g].failed \subseteq files[g].lines
                               /\ files'[g].feedback = "NONE" => files'[g].failed = {}

LEMMA FeedbackTypes ==
    ASSUME Typed, FeedbackStep, SameRows, UNCHANGED <<request, job>>, lost' \subseteq Losses,
           disb' \in [Invoices -> DisbursementStatus], stopped' \subseteq Batches,
           money' \in [Invoices -> Int],
           worker' \in 0..Len(files), worker' # 0 => files[worker'].known
    PROVE  Typed'
<1>1. \A lines : LinesTyped(lines) =>
                /\ IsFiniteSet(lines) /\ lines \subseteq Line
                /\ \A l \in lines : l.row # 0 =>
                     /\ l.row \in DOMAIN rows'[l.inv]
                     /\ l.is_reversal = rows'[l.inv][l.row].is_reversal
                /\ \A l, m \in lines : l.inv = m.inv /\ l.row = m.row => l = m
  BY SameRowsTypes
<1>2. RowsTyped'
  BY SameRowsTypes
<1>3. RequestTyped'
  BY DEF Typed, RequestTyped, request
<1>4. ASSUME NEW f \in DOMAIN files
      PROVE  /\ LinesTyped(files[f].lines)'
             /\ files'[f].failed \subseteq files'[f].lines
             /\ files'[f].feedback = "NONE" => files'[f].failed = {}
  <2>1. LinesTyped(files[f].lines)
    BY DEF Typed, FilesTyped
  <2>2. files'[f].lines = files[f].lines
    BY DEF FeedbackStep
  <2>3. LinesTyped(files[f].lines)'
    BY <1>1, <2>1, <2>2 DEF LinesTyped
  <2> QED
    BY <2>2, <2>3 DEF FeedbackStep
<1>5. worker' \in 0..Len(files') /\ (worker' # 0 => files'[worker'].known)
  <2>1. worker' # 0 => worker' \in DOMAIN files
    BY DEF Typed, FilesTyped
  <2> QED
    BY <2>1 DEF FeedbackStep
<1>6. FilesTyped'
  BY <1>4, <1>5 DEF FilesTyped, FeedbackStep
<1>7. job' \in [reading : BOOLEAN, batch : Batches, lines : SUBSET Line] /\ LinesTyped(job.lines)'
  <2>1. LinesTyped(job.lines) /\ job' = job
    BY DEF Typed
  <2> QED
    BY <1>1, <2>1 DEF Typed, LinesTyped
<1> QED
  BY <1>2, <1>3, <1>6, <1>7 DEF Typed

\* Rows that the job has, and rows that wait, are left as they are.
LEMMA FeedbackNoRace ==
    ASSUME Typed, FeedbackStep, SameRows, UNCHANGED <<request, job>>, NoRace,
           \A i \in Invoices : \A r \in DOMAIN rows[i] :
             \/ rows'[i][r].status = rows[i][r].status
             \/ /\ rows[i][r].status \notin {"WAITING_FOR_JOB", "CANCELLED"}
                /\ rows'[i][r].status \notin {"WAITING_FOR_JOB", "CANCELLED"}
    PROVE  NoRace'
<1>1. UNCHANGED <<kind, inv, eft, partial>>
  BY DEF request
<1>2. ASSUME NEW i \in Invoices PROVE RowsAgree(i)'
  <2>1. RowsAgree(i)
    BY DEF NoRace
  <2>2. \A r \in DOMAIN rows[i] :
             /\ rows'[i][r].status = "CANCELLED" <=> rows[i][r].status = "CANCELLED"
             /\ rows'[i][r].status = "WAITING_FOR_JOB" => rows[i][r].status = "WAITING_FOR_JOB"
             /\ rows[i][r].status = "WAITING_FOR_JOB" /\ rows'[i][r].status # "WAITING_FOR_JOB" =>
                  /\ rows[i][r].target = "INVOICE" /\ ~rows[i][r].is_reversal => PaidFor(i)
                  /\ rows[i][r].target = "PARTIAL_REFUND" => Refunding(i, r)
    OBVIOUS
  <2> QED
    BY <2>1, <2>2, SameRowsAgree
<1>3. ASSUME NEW l \in job.lines, l.row # 0
      PROVE  LET x == rows'[l.inv][l.row] IN
             /\ x.status = "WAITING_FOR_JOB"
             /\ x.target = "INVOICE" /\ ~x.is_reversal => PaidFor(l.inv)'
             /\ x.target = "PARTIAL_REFUND" => Refunding(l.inv, l.row)'
  <2>1. PICK i \in Invoices : i = l.inv
    BY DEF Typed, LinesTyped, Line
  <2>2. PICK r : r = l.row /\ r \in DOMAIN rows[i]
    BY <1>3, <2>1 DEF Typed, LinesTyped
  <2>3. /\ rows[i][r].status = "WAITING_FOR_JOB"
        /\ rows[i][r].target = "INVOICE" /\ ~rows[i][r].is_reversal => PaidFor(i)
        /\ rows[i][r].target = "PARTIAL_REFUND" => Refunding(i, r)
    BY <1>3, <2>1, <2>2 DEF NoRace, JobAgrees
  <2>4. rows'[i][r].status = "WAITING_FOR_JOB"
        /\ rows'[i][r].target = rows[i][r].target
        /\ rows'[i][r].is_reversal = rows[i][r].is_reversal
    BY <2>2, <2>3 DEF SameRows
  <2>5. PaidFor(i)' <=> PaidFor(i)
    BY <1>1 DEF PaidFor
  <2>6. Refunding(i, r)' <=> Refunding(i, r)
    BY <1>1, SamePartial DEF Refunding
  <2> QED
    BY <2>1, <2>2, <2>3, <2>4, <2>5, <2>6
<1>4. JobAgrees'
  BY <1>3 DEF JobAgrees
<1>5. ASSUME NEW f \in DOMAIN files, files[f].known, NEW l \in files[f].lines, l.row # 0
      PROVE  rows'[l.inv][l.row].status \notin {"WAITING_FOR_JOB", "CANCELLED"}
  <2>1. l.inv \in Invoices /\ l.row \in DOMAIN rows[l.inv]
    BY <1>5 DEF Typed, FilesTyped, LinesTyped, Line
  <2>2. rows[l.inv][l.row].status \notin {"WAITING_FOR_JOB", "CANCELLED"}
    BY <1>5 DEF NoRace, SentAgree
  <2> QED
    BY <2>1, <2>2
<1>6. SentAgree'
  BY <1>5 DEF SentAgree, FeedbackStep
<1> QED
  BY <1>2, <1>4, <1>6 DEF NoRace

LEMMA PostGood ==
    ASSUME IInv, NEW f \in DOMAIN files, NEW failed, Post(f, failed)
    PROVE  IInv'
<1>1. Typed
  BY DEF IInv
<1>2. UNCHANGED <<request, disb, rows, stopped, job, worker, lost>>
      /\ money' = [i \in Invoices |-> money[i] + Posted(files[f].lines \ failed, i)]
  BY DEF Post
<1>3. UNCHANGED <<kind, inv, eft, partial, recent>>
  BY <1>2 DEF request
<1>4. /\ files[f].feedback = "NONE" /\ failed \subseteq files[f].lines
      /\ files' \in Seq(File) /\ DOMAIN files' = DOMAIN files /\ Len(files') = Len(files)
      /\ \A g \in DOMAIN files : /\ files'[g].lines = files[g].lines
                                 /\ files'[g].known = files[g].known
                                 /\ g # f => files'[g] = files[g]
      /\ files'[f].failed = failed /\ files'[f].feedback = "SENT"
  BY <1>1, PostedFile
<1>5. SameRows
  BY <1>1, <1>2 DEF SameRows, Typed, RowsTyped
<1>6. FeedbackStep
  BY <1>1, <1>4 DEF FeedbackStep, Typed, FilesTyped
<1>7. Typed'
  <2>1. disb' \in [Invoices -> DisbursementStatus] /\ stopped' \subseteq Batches
    BY <1>1, <1>2 DEF Typed
  <2>2. worker' \in 0..Len(files) /\ (worker' # 0 => files[worker'].known)
    BY <1>1, <1>2 DEF Typed, FilesTyped
  <2>3. money' \in [Invoices -> Int]
    <3>1. ASSUME NEW i \in Invoices PROVE Posted(files[f].lines \ failed, i) \in Int
      <4>1. PICK mine : mine = {l \in files[f].lines \ failed : l.inv = i}
        OBVIOUS
      <4>2. PICK am : am = [l \in mine |-> Amount(l)]
        OBVIOUS
      <4>3. IsFiniteSet(mine)
        <5>1. IsFiniteSet(files[f].lines) /\ mine \subseteq files[f].lines
          BY <1>1, <4>1 DEF Typed, FilesTyped, LinesTyped
        <5> QED
          BY <5>1, FS_Subset
      <4>4. \A l \in mine : am[l] \in Int
        BY <4>2, AmountsTyped DEF Amount
      <4>5. SumFunctionOnSet(am, mine) \in Int
        BY <4>3, <4>4, SumInt
      <4> QED
        BY <4>1, <4>2, <4>5 DEF Posted
    <3>2. \A i \in Invoices : money[i] \in Int
      BY <1>1 DEF Typed
    <3>3. \A i \in Invoices : money[i] + Posted(files[f].lines \ failed, i) \in Int
      <4>1. ASSUME NEW i \in Invoices
            PROVE  money[i] + Posted(files[f].lines \ failed, i) \in Int
        <5>1. PICK a, b : a = money[i] /\ b = Posted(files[f].lines \ failed, i)
          OBVIOUS
        <5>2. a \in Int /\ b \in Int
          BY <3>1, <3>2, <5>1, Zenon
        <5>3. a + b \in Int
          BY <5>2
        <5> QED
          BY <5>1, <5>3, Zenon
      <4> QED
        BY <4>1, Zenon
    <3> QED
      BY <1>2, <3>3, Zenon
  <2>4. lost' \subseteq Losses
    BY <1>1, <1>2 DEF Typed
  <2> QED
    BY <1>1, <1>2, <1>5, <1>6, <2>1, <2>2, <2>3, <2>4, FeedbackTypes
<1>8. \A i \in Invoices : Requested(i)'
  BY <1>2, <1>5, SameRowsRequested DEF IInv
<1>9. NoRace => NoRace'
  BY <1>1, <1>2, <1>5, <1>6, FeedbackNoRace
<1>10. ASSUME Books PROVE Books'
  <2>1. LinesAgree
    BY <1>10 DEF Books
  <2>2. ASSUME NEW i
        PROVE  /\ \A b : Got(i, b)' <=>
                    \/ Got(i, b)
                    \/ [inv |-> i, row |-> 0, is_reversal |-> b] \in files[f].lines \ failed
               /\ HasFailed(i) => HasFailed(i)'
               /\ \A g \in DOMAIN files : InFlight(g, i)' <=> InFlight(g, i)
               /\ \A g, r : g \in DOMAIN files =>
                    (HasLine(files[g].lines, i, r)' <=> HasLine(files[g].lines, i, r))
    BY <1>1, PostedGot
  <2>3. ASSUME NEW i, ~HasLine(files[f].lines, i, 0) PROVE \A b : Got(i, b)' <=> Got(i, b)
    <3>1. \A b : [inv |-> i, row |-> 0, is_reversal |-> b] \notin files[f].lines
      <4>1. ASSUME NEW b, [inv |-> i, row |-> 0, is_reversal |-> b] \in files[f].lines PROVE FALSE
        <5>1. PICK m \in files[f].lines : m = [inv |-> i, row |-> 0, is_reversal |-> b]
          BY <4>1
        <5>2. m.inv = i /\ m.row = 0
          BY <5>1
        <5> QED
          BY <2>3, <5>2 DEF HasLine
      <4> QED
        BY <4>1
    <3> QED
      BY <2>2, <3>1
  <2>4. \A i : HasLine(files[f].lines, i, 0) => InFlight(f, i)
    BY <1>4 DEF InFlight
  <2>5. ASSUME NEW l \in files[f].lines, l.row = 0
        PROVE  /\ l = [inv |-> l.inv, row |-> 0, is_reversal |-> l.is_reversal]
               /\ \A b : [inv |-> l.inv, row |-> 0, is_reversal |-> b] \in files[f].lines =>
                    b = l.is_reversal
               /\ NotGot(l)
    <3>1. l \in Line
      BY <1>1 DEF Typed, FilesTyped, LinesTyped
    <3>2. l = [inv |-> l.inv, row |-> 0, is_reversal |-> l.is_reversal]
      BY <2>5, <3>1, LineIs
    <3>3. ASSUME NEW b, [inv |-> l.inv, row |-> 0, is_reversal |-> b] \in files[f].lines
          PROVE  b = l.is_reversal
      <4>1. PICK m \in files[f].lines : m = [inv |-> l.inv, row |-> 0, is_reversal |-> b]
        BY <3>3
      <4>2. m.inv = l.inv /\ m.row = 0 /\ m.is_reversal = b
        BY <4>1
      <4>3. m = l
        BY <1>1, <2>5, <4>2, OneLine
      <4> QED
        BY <4>2, <4>3
    <3>4. NotGot(l)
      BY <1>4, <2>1, <2>5 DEF LinesAgree
    <3> QED
      BY <3>2, <3>3, <3>4
  <2>6. LinesAgree'
    <3>1. ASSUME NEW l \in job.lines, l.row = 0
          PROVE  disb[l.inv] # "UPLOADED" /\ NotGot(l)'
      <4>1. disb[l.inv] # "UPLOADED" /\ NotGot(l) /\ l.inv \in Invoices
        BY <1>1, <2>1, <3>1 DEF LinesAgree, Typed, LinesTyped, Line
      <4>2. ~HasLine(files[f].lines, l.inv, 0)
        BY <1>10, <2>4, <4>1 DEF Books, StatusAgrees
      <4>3. (Got(l.inv, TRUE)' <=> Got(l.inv, TRUE)) /\ (Got(l.inv, FALSE)' <=> Got(l.inv, FALSE))
        BY <2>3, <4>2
      <4> QED
        BY <1>3, <4>1, <4>3 DEF NotGot
    <3>2. ASSUME NEW g \in DOMAIN files, NEW l \in files[g].lines,
                 l.row = 0, files'[g].feedback # "PROCESSED"
          PROVE  /\ \A h \in DOMAIN files : InFlight(h, l.inv)' => h = g
                 /\ files'[g].feedback = "NONE" \/ l \in files'[g].failed => NotGot(l)'
                 /\ l.is_reversal => inv[l.inv] = "REFUNDED"
                 /\ ~l.is_reversal => ~Got(l.inv, TRUE)'
      <4>1. files[g].feedback # "PROCESSED"
        BY <1>4, <3>2
      <4>2. /\ \A h \in DOMAIN files : InFlight(h, l.inv) => h = g
            /\ files[g].feedback = "NONE" \/ l \in files[g].failed => NotGot(l)
            /\ l.is_reversal => inv[l.inv] = "REFUNDED"
            /\ ~l.is_reversal => ~Got(l.inv, TRUE)
        BY <2>1, <3>2, <4>1 DEF LinesAgree
      <4>3. \A h \in DOMAIN files : InFlight(h, l.inv)' => h = g
        BY <2>2, <4>2
      <4>4. CASE g # f
        <5>1. ~HasLine(files[f].lines, l.inv, 0)
          BY <2>4, <4>2, <4>4
        <5>2. (Got(l.inv, TRUE)' <=> Got(l.inv, TRUE)) /\ (Got(l.inv, FALSE)' <=> Got(l.inv, FALSE))
          BY <2>3, <5>1
        <5>3. NotGot(l) => NotGot(l)'
          BY <1>3, <5>2 DEF NotGot
        <5> QED
          BY <1>4, <4>2, <4>3, <4>4, <5>2, <5>3
      <4>5. CASE g = f
        <5>1. /\ l = [inv |-> l.inv, row |-> 0, is_reversal |-> l.is_reversal]
              /\ \A b : [inv |-> l.inv, row |-> 0, is_reversal |-> b] \in files[f].lines =>
                    b = l.is_reversal
              /\ NotGot(l)
          BY <2>5, <3>2, <4>5
        <5>2. ~l.is_reversal => (Got(l.inv, TRUE)' <=> Got(l.inv, TRUE))
          BY <2>2, <5>1
        <5>3. ASSUME l \in failed PROVE NotGot(l)'
          <6>1. \A b : [inv |-> l.inv, row |-> 0, is_reversal |-> b] \notin files[f].lines \ failed
            BY <5>1, <5>3
          <6>2. (Got(l.inv, TRUE)' <=> Got(l.inv, TRUE)) /\ (Got(l.inv, FALSE)' <=> Got(l.inv, FALSE))
            BY <2>2, <6>1
          <6> QED
            BY <1>3, <5>1, <6>2 DEF NotGot
        <5> QED
          BY <1>4, <4>2, <4>3, <4>5, <5>2, <5>3
      <4> QED
        BY <4>4, <4>5
    <3>3. (\A l \in job.lines : l.row = 0 => disb[l.inv] # "UPLOADED" /\ NotGot(l))'
      BY <1>2, <3>1
    <3>4. \A g \in DOMAIN files : \A l \in files[g].lines :
            l.row = 0 /\ files'[g].feedback # "PROCESSED" =>
              /\ \A h \in DOMAIN files : InFlight(h, l.inv)' => h = g
              /\ files'[g].feedback = "NONE" \/ l \in files'[g].failed => NotGot(l)'
              /\ l.is_reversal => inv'[l.inv] = "REFUNDED"
              /\ ~l.is_reversal => ~Got(l.inv, TRUE)'
      BY <1>3, <3>2
    <3>5. (\A g \in DOMAIN files : \A l \in files[g].lines :
            l.row = 0 /\ files[g].feedback # "PROCESSED" =>
              /\ \A h \in DOMAIN files : InFlight(h, l.inv) => h = g
              /\ files[g].feedback = "NONE" \/ l \in files[g].failed => NotGot(l)
              /\ l.is_reversal => inv[l.inv] = "REFUNDED"
              /\ ~l.is_reversal => ~Got(l.inv, TRUE))'
      <4>1. \A g \in DOMAIN files : files'[g].lines = files[g].lines
        BY <1>4
      <4>2. DOMAIN files' = DOMAIN files
        BY <1>4
      <4> QED
        BY <3>4, <4>1, <4>2, Zenon
    <3> QED
      BY <3>3, <3>5, Zenon DEF LinesAgree
  <2>7. ASSUME NEW i \in Invoices PROVE RowsSent(i)'
    <3>1. RowsSent(i)
      BY <1>10 DEF Books
    <3> QED
      BY <1>2, <1>4, <2>2, <3>1 DEF RowsSent
  <2>8. ASSUME NEW i \in Invoices PROVE StatusAgrees(i)'
    <3>1. StatusAgrees(i)
      BY <1>10 DEF Books
    <3>2. /\ disb'[i] = disb[i] /\ inv'[i] = inv[i] /\ kind'[i] = kind[i] /\ (IsEft(i)' <=> IsEft(i))
          /\ (HasLine(job.lines, i, 0)' <=> HasLine(job.lines, i, 0))
      BY <1>2, <1>3 DEF IsEft, HasLine
    <3>3. (\E g \in DOMAIN files' : InFlight(g, i)') <=> (\E g \in DOMAIN files : InFlight(g, i))
      BY <1>4, <2>2
    <3>4. disb[i] = "NONE" => \A g \in DOMAIN files' : ~HasLine(files[g].lines, i, 0)'
      BY <1>4, <2>2, <3>1 DEF StatusAgrees
    <3>5. CASE ~HasLine(files[f].lines, i, 0)
      <4>1. (Got(i, TRUE)' <=> Got(i, TRUE)) /\ (Got(i, FALSE)' <=> Got(i, FALSE))
        BY <2>3, <3>5
      <4> QED
        BY <2>2, <3>1, <3>2, <3>3, <3>4, <4>1 DEF StatusAgrees
    <3>6. CASE HasLine(files[f].lines, i, 0)
      <4>1. disb[i] = "UPLOADED"
        BY <2>4, <3>1, <3>6 DEF StatusAgrees
      <4>2. PICK l \in files[f].lines : l.inv = i /\ l.row = 0
        BY <3>6 DEF HasLine
      <4>3. /\ NotGot(l)
            /\ \A b : [inv |-> i, row |-> 0, is_reversal |-> b] \in files[f].lines =>
                    b = l.is_reversal
        BY <2>5, <4>2
      <4>4. Got(i, TRUE)' => Got(i, FALSE)' /\ inv[i] = "REFUNDED"
        <5>1. CASE Got(i, TRUE)
          BY <2>2, <3>1, <5>1 DEF StatusAgrees
        <5>2. CASE ~Got(i, TRUE) /\ Got(i, TRUE)'
          <6>1. l.is_reversal
            BY <2>2, <4>3, <5>2
          <6>2. inv[i] = "REFUNDED" /\ Got(i, FALSE)
            BY <4>2, <4>3, <6>1 DEF NotGot
          <6> QED
            BY <2>2, <6>2
        <5> QED
          BY <5>1, <5>2
      <4> QED
        BY <3>1, <3>2, <3>3, <3>4, <4>1, <4>4 DEF StatusAgrees
    <3> QED
      BY <3>5, <3>6
  <2>9. \A i \in Invoices : money'[i] = MoneyOf(i)'
    BY <1>1, <1>10, PostMoney
  <2>10. \A g \in DOMAIN files' : files'[g].known
    BY <1>4, <1>10 DEF Books
  <2>11. worker' # 0 => files'[worker'].feedback = "RECEIVED"
    <3>1. worker # 0 => files[worker].feedback = "RECEIVED" /\ worker \in DOMAIN files
      BY <1>1, <1>10 DEF Books, Typed, FilesTyped
    <3> QED
      BY <1>2, <1>4, <3>1
  <2> QED
    BY <2>6, <2>7, <2>8, <2>9, <2>10, <2>11 DEF Books
<1> QED
  BY <1>2, <1>7, <1>8, <1>9, <1>10 DEF IInv

-----------------------------------------------------------------------------
(* The worker.                                                             *)

\* The worker marks a file that was posted.
LEMMA MarkedFile ==
    ASSUME Typed, NEW f \in DOMAIN files,
           NEW state \in {"RECEIVED", "PROCESSED"},
           files' = [files EXCEPT ![f].feedback = state]
    PROVE  /\ FeedbackStep
           /\ \A g \in DOMAIN files : /\ files'[g].failed = files[g].failed
                                      /\ g # f => files'[g] = files[g]
           /\ files'[f].feedback = state
           /\ files[f].feedback # "NONE" =>
                /\ \A i, b : Got(i, b)' <=> Got(i, b)
                /\ \A i, r : IsPosted(i, r)' <=> IsPosted(i, r)
           /\ \A i : HasFailed(i)' <=> HasFailed(i)
           /\ \A g, i, r : g \in DOMAIN files =>
                (HasLine(files[g].lines, i, r)' <=> HasLine(files[g].lines, i, r))
<1>1. PICK s \in Seq(File) : s = files
  BY DEF Typed, FilesTyped
<1>2. PICK x \in File : x = s[f] /\ f \in DOMAIN s
  BY <1>1
<1>3. files' = [s EXCEPT ![f].feedback = state]
  BY <1>1, <1>2
<1>4. PICK y : y = [x EXCEPT !.feedback = state]
  OBVIOUS
<1>5. /\ y \in File /\ y.lines = x.lines /\ y.known = x.known /\ y.failed = x.failed
      /\ y.feedback = state
  BY <1>4 DEF File
<1>6. files' = [s EXCEPT ![f] = y]
  BY <1>2, <1>3, <1>4
<1>7. /\ files' \in Seq(File) /\ DOMAIN files' = DOMAIN s /\ Len(files') = Len(s)
      /\ files'[f] = y /\ \A g \in DOMAIN s : g # f => files'[g] = s[g]
  <2>1. PICK t : t = [s EXCEPT ![f] = y]
    OBVIOUS
  <2>2. y \in File /\ f \in DOMAIN s
    BY <1>2, <1>5
  <2>3. DOMAIN t = DOMAIN s /\ t[f] = y /\ (\A g \in DOMAIN s : g # f => t[g] = s[g])
    BY <2>1, <2>2
  <2>4. t \in Seq(File) /\ Len(t) = Len(s)
    BY <2>1, <2>2
  <2>5. t = files'
    BY <1>6, <2>1
  <2> QED
    BY <2>3, <2>4, <2>5
<1>8. \A g \in DOMAIN files :
        /\ files'[g].lines = files[g].lines /\ files'[g].known = files[g].known
        /\ files'[g].failed = files[g].failed /\ (g # f => files'[g] = files[g])
        /\ files'[g].feedback = "NONE" => files[g].feedback = "NONE"
        /\ files[f].feedback # "NONE" =>
             (files'[g].feedback = "NONE" <=> files[g].feedback = "NONE")
  BY <1>1, <1>2, <1>3, <1>5, <1>7
<1>9. \A g \in DOMAIN files : files[g].failed \subseteq files[g].lines
        /\ (files[g].feedback = "NONE" => files[g].failed = {})
  BY DEF Typed, FilesTyped
<1>10. DOMAIN files' = DOMAIN files /\ files' \in Seq(File) /\ Len(files') = Len(files)
  BY <1>1, <1>7
<1>11. FeedbackStep
  BY <1>8, <1>9, <1>10 DEF FeedbackStep
<1>12. ASSUME files[f].feedback # "NONE", NEW i, NEW b PROVE Got(i, b)' <=> Got(i, b)
  BY <1>8, <1>10, <1>12 DEF Got
<1>13. ASSUME files[f].feedback # "NONE", NEW i, NEW r PROVE IsPosted(i, r)' <=> IsPosted(i, r)
  <2>1. \A g \in DOMAIN files : IsPostedBy(g, i, r)' <=> IsPostedBy(g, i, r)
    BY <1>8, <1>13 DEF IsPostedBy, HasLine
  <2> QED
    BY <1>10, <2>1 DEF IsPosted
<1>14. ASSUME NEW i PROVE HasFailed(i)' <=> HasFailed(i)
  BY <1>8, <1>10 DEF HasFailed, LinesOf
<1>15. \A g, i, r : g \in DOMAIN files =>
                (HasLine(files[g].lines, i, r)' <=> HasLine(files[g].lines, i, r))
  BY <1>8 DEF HasLine
<1> QED
  BY <1>1, <1>5, <1>7, <1>8, <1>11, <1>12, <1>13, <1>14, <1>15

LEMMA ReceiveFeedbackGood ==
    ASSUME IInv, NEW f \in DOMAIN files, ReceiveFeedback(f)
    PROVE  IInv'
<1>1. Typed
  BY DEF IInv
<1>2. /\ UNCHANGED <<request, disb, rows, stopped, job, money, lost>>
      /\ worker' = f /\ files[f].feedback = "SENT" /\ files[f].known
      /\ files' = [files EXCEPT ![f].feedback = "RECEIVED"]
  BY DEF ReceiveFeedback
<1>3. UNCHANGED <<kind, inv, eft, partial, recent>>
  BY <1>2 DEF request
<1>4. /\ FeedbackStep
      /\ \A g \in DOMAIN files : /\ files'[g].failed = files[g].failed
                                 /\ g # f => files'[g] = files[g]
      /\ files'[f].feedback = "RECEIVED"
      /\ \A i, b : Got(i, b)' <=> Got(i, b)
      /\ \A i, r : IsPosted(i, r)' <=> IsPosted(i, r)
      /\ \A i : HasFailed(i)' <=> HasFailed(i)
      /\ \A g, i, r : g \in DOMAIN files =>
           (HasLine(files[g].lines, i, r)' <=> HasLine(files[g].lines, i, r))
  BY <1>1, <1>2, MarkedFile
<1>5. SameRows
  BY <1>1, <1>2 DEF SameRows, Typed, RowsTyped
<1>6. Typed'
  <2>1. disb' \in [Invoices -> DisbursementStatus] /\ stopped' \subseteq Batches
        /\ money' \in [Invoices -> Int]
    BY <1>1, <1>2 DEF Typed
  <2>2. worker' \in 0..Len(files) /\ (worker' # 0 => files[worker'].known)
    BY <1>1, <1>2 DEF Typed, FilesTyped
  <2>3. lost' \subseteq Losses
    BY <1>1, <1>2 DEF Typed
  <2> QED
    BY <1>1, <1>2, <1>4, <1>5, <2>1, <2>2, <2>3, FeedbackTypes
<1>7. \A i \in Invoices : Requested(i)'
  BY <1>2, <1>5, SameRowsRequested DEF IInv
<1>8. NoRace => NoRace'
  BY <1>1, <1>2, <1>4, <1>5, FeedbackNoRace
<1>9. /\ DOMAIN files' = DOMAIN files
      /\ \A g \in DOMAIN files :
           /\ files'[g].lines = files[g].lines /\ files'[g].known = files[g].known
           /\ files'[g].feedback = "NONE" <=> files[g].feedback = "NONE"
           /\ files'[g].feedback = "PROCESSED" <=> files[g].feedback = "PROCESSED"
  BY <1>2, <1>4 DEF FeedbackStep
<1>10. \A g \in DOMAIN files : \A i : InFlight(g, i)' <=> InFlight(g, i)
  BY <1>4, <1>9 DEF InFlight
<1>11. ASSUME Books PROVE Books'
  <2>1. \A l : NotGot(l)' <=> NotGot(l)
    BY <1>3, <1>4 DEF NotGot
  <2>2. LinesAgree'
    <3>1. LinesAgree
      BY <1>11 DEF Books
    <3>2. (\A l \in job.lines : l.row = 0 => disb[l.inv] # "UPLOADED" /\ NotGot(l))'
      BY <1>2, <2>1, <3>1 DEF LinesAgree
    <3>3. ASSUME NEW g \in DOMAIN files, NEW l \in files[g].lines, l.row = 0,
                 files'[g].feedback # "PROCESSED"
          PROVE  /\ \A h \in DOMAIN files : InFlight(h, l.inv)' => h = g
                 /\ files'[g].feedback = "NONE" \/ l \in files'[g].failed => NotGot(l)'
                 /\ l.is_reversal => inv'[l.inv] = "REFUNDED"
                 /\ ~l.is_reversal => ~Got(l.inv, TRUE)'
      <4>1. /\ \A h \in DOMAIN files : InFlight(h, l.inv) => h = g
            /\ files[g].feedback = "NONE" \/ l \in files[g].failed => NotGot(l)
            /\ l.is_reversal => inv[l.inv] = "REFUNDED"
            /\ ~l.is_reversal => ~Got(l.inv, TRUE)
        BY <1>9, <3>1, <3>3 DEF LinesAgree
      <4> QED
        BY <1>3, <1>4, <1>9, <1>10, <2>1, <4>1
    <3>4. (\A g \in DOMAIN files : \A l \in files[g].lines :
            l.row = 0 /\ files[g].feedback # "PROCESSED" =>
              /\ \A h \in DOMAIN files : InFlight(h, l.inv) => h = g
              /\ files[g].feedback = "NONE" \/ l \in files[g].failed => NotGot(l)
              /\ l.is_reversal => inv[l.inv] = "REFUNDED"
              /\ ~l.is_reversal => ~Got(l.inv, TRUE))'
      <4>1. \A g \in DOMAIN files : files'[g].lines = files[g].lines
        BY <1>9
      <4>2. DOMAIN files' = DOMAIN files
        BY <1>9
      <4> QED
        BY <3>3, <4>1, <4>2, Zenon
    <3> QED
      BY <3>2, <3>4, Zenon DEF LinesAgree
  <2>3. ASSUME NEW i \in Invoices PROVE RowsSent(i)' /\ StatusAgrees(i)'
    <3>1. RowsSent(i) /\ StatusAgrees(i)
      BY <1>11 DEF Books
    <3>2. RowsSent(i)'
      BY <1>2, <1>4, <1>9, <3>1 DEF RowsSent
    <3>3. /\ disb'[i] = disb[i] /\ inv'[i] = inv[i] /\ kind'[i] = kind[i] /\ (IsEft(i)' <=> IsEft(i))
          /\ (HasLine(job.lines, i, 0)' <=> HasLine(job.lines, i, 0))
      BY <1>2, <1>3 DEF IsEft, HasLine
    <3>4. (\E g \in DOMAIN files' : InFlight(g, i)') <=> (\E g \in DOMAIN files : InFlight(g, i))
      BY <1>9, <1>10
    <3>5. disb[i] = "NONE" => \A g \in DOMAIN files' : ~HasLine(files[g].lines, i, 0)'
      BY <1>4, <1>9, <3>1 DEF StatusAgrees
    <3> QED
      BY <1>4, <3>1, <3>2, <3>3, <3>4, <3>5 DEF StatusAgrees
  <2>4. ASSUME NEW i \in Invoices PROVE money'[i] = MoneyOf(i)'
    <3>1. \A r : IsPosted(i, r)' = IsPosted(i, r)
      BY <1>4 DEF IsPosted
    <3>2. \A b \in BOOLEAN : Got(i, b)' = Got(i, b)
      BY <1>4 DEF Got
    <3>3. MoneyOf(i)' = MoneyOf(i)
      BY <1>5, <3>1, <3>2, SameRowsMoney
    <3> QED
      BY <1>2, <1>11, <3>3 DEF Books
  <2>5. \A g \in DOMAIN files' : files'[g].known
    BY <1>9, <1>11 DEF Books
  <2> QED
    BY <1>2, <1>4, <2>2, <2>3, <2>4, <2>5 DEF Books
<1> QED
  BY <1>2, <1>6, <1>7, <1>8, <1>11 DEF IInv

\* What the worker writes, for every line of the file.
LEMMA ProcessedStatuses ==
    ASSUME Typed, ProcessFeedback, NEW f, f = worker
    PROVE  /\ f \in DOMAIN files /\ disb' \in [Invoices -> DisbursementStatus]
           /\ \A l \in files[f].lines : \A old :
                StatusOf(f, l, old) = IF l \in files[f].failed THEN "ERRORED"
                                      ELSE IF CreditsRegistry(l) THEN "REVERSED" ELSE "COMPLETED"
           /\ \A i \in Invoices : ~HasLine(files[f].lines, i, 0) => disb'[i] = disb[i]
           /\ \A l \in files[f].lines : l.row = 0 => disb'[l.inv] = StatusOf(f, l, disb[l.inv])
           /\ SameRows
           /\ \A i \in Invoices : \A r \in DOMAIN rows[i] :
                IF HasLine(files[f].lines, i, r)
                THEN rows'[i][r].status \in {"ERRORED", "REVERSED", "COMPLETED"}
                ELSE rows'[i][r].status = rows[i][r].status
<1>1. f \in DOMAIN files /\ f # 0
  BY DEF Typed, FilesTyped, ProcessFeedback
<1>2. PICK lineOf : lineOf = [ir \in Invoices \X Nat |->
                                CHOOSE l \in files[f].lines : l.inv = ir[1] /\ l.row = ir[2]]
  OBVIOUS
<1>3. \A i \in Invoices, r \in Nat :
        lineOf[<<i, r>>] = CHOOSE l \in files[f].lines : l.inv = i /\ l.row = r
  BY <1>2
<1>4. ASSUME NEW i \in Invoices, NEW r \in Nat, NEW l \in files[f].lines, l.inv = i, l.row = r
      PROVE  lineOf[<<i, r>>] = l
  <2>1. PICK m : m = lineOf[<<i, r>>]
    OBVIOUS
  <2>2. m \in files[f].lines /\ m.inv = i /\ m.row = r
    BY <1>3, <1>4, <2>1
  <2>3. m = l
    BY <1>1, <1>4, <2>2, OneLine
  <2> QED
    BY <2>1, <2>3
<1>5. \A l \in files[f].lines : \A old :
        StatusOf(f, l, old) = IF l \in files[f].failed THEN "ERRORED"
                              ELSE IF CreditsRegistry(l) THEN "REVERSED" ELSE "COMPLETED"
  BY DEF StatusOf, FailedStatus, Reversed, Completed
<1>6. \A i \in Invoices :
        disb'[i] = IF HasLine(files[f].lines, i, 0)
                   THEN StatusOf(f, lineOf[<<i, 0>>], disb[i]) ELSE disb[i]
  <2>1. \A i \in Invoices :
          lineOf[<<i, 0>>] = CHOOSE l \in files[f].lines : l.inv = i /\ l.row = 0
    BY <1>3
  <2>2. disb' = [i \in Invoices |-> IF HasLine(files[f].lines, i, 0)
                   THEN StatusOf(f, CHOOSE l \in files[f].lines : l.inv = i /\ l.row = 0, disb[i])
                   ELSE disb[i]]
    BY DEF ProcessFeedback
  <2>3. ASSUME NEW i \in Invoices
        PROVE  disb'[i] = IF HasLine(files[f].lines, i, 0)
                          THEN StatusOf(f, lineOf[<<i, 0>>], disb[i]) ELSE disb[i]
    <3>1. disb'[i] = IF HasLine(files[f].lines, i, 0)
            THEN StatusOf(f, CHOOSE l \in files[f].lines : l.inv = i /\ l.row = 0, disb[i])
            ELSE disb[i]
      BY <2>2, Zenon
    <3>2. lineOf[<<i, 0>>] = CHOOSE l \in files[f].lines : l.inv = i /\ l.row = 0
      BY <2>1
    <3> QED
      BY <3>1, <3>2, Zenon
  <2> QED
    BY <2>3
<1>7. \A l \in files[f].lines : l.inv \in Invoices /\ l.row \in Nat
  BY <1>1 DEF Typed, FilesTyped, LinesTyped, Line
<1>8. ASSUME NEW l \in files[f].lines, l.row = 0
      PROVE  disb'[l.inv] = StatusOf(f, l, disb[l.inv])
  <2>1. HasLine(files[f].lines, l.inv, 0) /\ lineOf[<<l.inv, 0>>] = l /\ l.inv \in Invoices
    BY <1>4, <1>7, <1>8 DEF HasLine
  <2> QED
    BY <1>6, <2>1
<1>9. disb' \in [Invoices -> DisbursementStatus]
  <2>1. ASSUME NEW i \in Invoices PROVE disb'[i] \in DisbursementStatus
    <3>1. CASE ~HasLine(files[f].lines, i, 0)
      BY <1>6, <3>1 DEF Typed
    <3>2. CASE HasLine(files[f].lines, i, 0)
      <4>1. PICK l \in files[f].lines : l.inv = i /\ l.row = 0
        BY <3>2 DEF HasLine
      <4>2. disb'[i] \in {"ERRORED", "REVERSED", "COMPLETED"}
        BY <1>5, <1>8, <4>1
      <4> QED
        BY <4>2 DEF DisbursementStatus
    <3> QED
      BY <3>1, <3>2
  <2>2. disb' = [i \in Invoices |-> disb'[i]]
    BY DEF ProcessFeedback
  <2> QED
    BY <2>1, <2>2
<1>10. /\ SameRows
       /\ \A i \in Invoices : \A r \in DOMAIN rows[i] :
            IF HasLine(files[f].lines, i, r)
            THEN rows'[i][r].status \in {"ERRORED", "REVERSED", "COMPLETED"}
            ELSE rows'[i][r].status = rows[i][r].status
  <2>1. PICK marks :
          marks = [ir \in Invoices \X Nat |-> HasLine(files[f].lines, ir[1], ir[2])]
    OBVIOUS
  <2>2. PICK state :
          state = [ir \in Invoices \X Nat |->
                     StatusOf(f, lineOf[ir], rows[ir[1]][ir[2]].status)]
    OBVIOUS
  <2>3. \A i \in Invoices, r \in Nat :
          /\ marks[<<i, r>>] <=> HasLine(files[f].lines, i, r)
          /\ marks[<<i, r>>] = HasLine(files[f].lines, i, r)
          /\ state[<<i, r>>] = StatusOf(f, lineOf[<<i, r>>], rows[i][r].status)
    BY <2>1, <2>2
  <2>4. \A i \in Invoices, r \in Nat : marks[<<i, r>>] \in BOOLEAN
    BY <2>3 DEF HasLine
  <2>5. \A i \in Invoices : \A r \in DOMAIN rows[i] : r \in Nat
    BY DEF Typed, RowsTyped
  <2>6. ASSUME NEW i \in Invoices, NEW r \in Nat, marks[<<i, r>>]
        PROVE  state[<<i, r>>] \in {"ERRORED", "REVERSED", "COMPLETED"}
    <3>1. PICK l \in files[f].lines : l.inv = i /\ l.row = r
      BY <2>3, <2>6 DEF HasLine
    <3>2. lineOf[<<i, r>>] = l
      BY <1>4, <3>1
    <3> QED
      BY <1>5, <2>3, <3>1, <3>2
  <2>7. \A i \in Invoices, r \in Nat : marks[<<i, r>>] /\ r \in DOMAIN rows[i] =>
          state[<<i, r>>] \in DisbursementStatus
    BY <2>6 DEF DisbursementStatus
  <2>8. rows' = WithStatuses(marks, state)
    <3>1. rows' = [i \in Invoices |-> [r \in DOMAIN rows[i] |->
                     IF HasLine(files[f].lines, i, r)
                     THEN [rows[i][r] EXCEPT !.status =
                              StatusOf(f, CHOOSE l \in files[f].lines : l.inv = i /\ l.row = r,
                                       rows[i][r].status)]
                     ELSE rows[i][r]]]
      BY DEF ProcessFeedback
    <3>2. \A i \in Invoices : \A r \in DOMAIN rows[i] :
            /\ marks[<<i, r>>] = HasLine(files[f].lines, i, r)
            /\ state[<<i, r>>] = StatusOf(f, CHOOSE l \in files[f].lines : l.inv = i /\ l.row = r,
                                          rows[i][r].status)
      BY <1>3, <2>3, <2>5
    <3> QED
      BY <3>1, <3>2 DEF WithStatuses
  <2>9. /\ SameRows
        /\ \A i \in Invoices : \A r \in DOMAIN rows[i] :
             rows'[i][r].status = IF marks[<<i, r>>] THEN state[<<i, r>>] ELSE rows[i][r].status
    BY <2>4, <2>7, <2>8, StatusChanges
  <2>10. ASSUME NEW i \in Invoices, NEW r \in DOMAIN rows[i]
         PROVE  IF HasLine(files[f].lines, i, r)
                THEN rows'[i][r].status \in {"ERRORED", "REVERSED", "COMPLETED"}
                ELSE rows'[i][r].status = rows[i][r].status
    <3>1. r \in Nat /\ (marks[<<i, r>>] <=> HasLine(files[f].lines, i, r))
      BY <2>3, <2>5
    <3>2. CASE marks[<<i, r>>]
      BY <2>6, <2>9, <3>1, <3>2
    <3>3. CASE ~marks[<<i, r>>]
      BY <2>9, <3>1, <3>3
    <3> QED
      BY <3>2, <3>3
  <2> QED
    BY <2>9, <2>10
<1> QED
  BY <1>1, <1>5, <1>6, <1>8, <1>9, <1>10

\* The feedback of a file, whichever way it is processed.
Processes(f) ==
    /\ files[f].feedback \notin {"NONE", "PROCESSED"}
    /\ files' = [files EXCEPT ![f].feedback = "PROCESSED"]
    /\ UNCHANGED <<request, job, money>> /\ worker' = 0
    /\ \A i \in Invoices : ~HasLine(files[f].lines, i, 0) => disb'[i] = disb[i]
    /\ \A l \in files[f].lines : l.row = 0 =>
         IF l \in files[f].failed THEN disb'[l.inv] = "ERRORED"
         ELSE \/ disb'[l.inv] = "REVERSED" /\ CreditsRegistry(l)
              \/ disb'[l.inv] = "COMPLETED" /\ ~l.is_reversal
    /\ SameRows
    /\ \A i \in Invoices : \A r \in DOMAIN rows[i] :
         HasLine(files[f].lines, i, r) \/ rows'[i][r].status = rows[i][r].status

LEMMA ProcessedBooks ==
    ASSUME Typed, NEW f \in DOMAIN files, Processes(f), Books
    PROVE  Books'
<1>1. Typed
  OBVIOUS
<1>2. UNCHANGED <<request, job, money>> /\ worker' = 0
  BY DEF Processes
<1>3. UNCHANGED <<kind, inv, eft, partial, recent>>
  BY <1>2 DEF request
<1>4. /\ f \in DOMAIN files /\ files[f].feedback \notin {"NONE", "PROCESSED"}
      /\ \A i \in Invoices : ~HasLine(files[f].lines, i, 0) => disb'[i] = disb[i]
      /\ \A l \in files[f].lines : l.row = 0 =>
           IF l \in files[f].failed THEN disb'[l.inv] = "ERRORED"
           ELSE \/ disb'[l.inv] = "REVERSED" /\ CreditsRegistry(l)
                \/ disb'[l.inv] = "COMPLETED" /\ ~l.is_reversal
      /\ SameRows
      /\ \A i \in Invoices : \A r \in DOMAIN rows[i] :
           HasLine(files[f].lines, i, r) \/ rows'[i][r].status = rows[i][r].status
  BY DEF Processes
<1>6. /\ FeedbackStep
      /\ \A g \in DOMAIN files : /\ files'[g].failed = files[g].failed
                                 /\ g # f => files'[g] = files[g]
      /\ files'[f].feedback = "PROCESSED"
      /\ \A i, b : Got(i, b)' <=> Got(i, b)
      /\ \A i, r : IsPosted(i, r)' <=> IsPosted(i, r)
      /\ \A i : HasFailed(i)' <=> HasFailed(i)
      /\ \A g, i, r : g \in DOMAIN files =>
           (HasLine(files[g].lines, i, r)' <=> HasLine(files[g].lines, i, r))
  <2>1. files' = [files EXCEPT ![f].feedback = "PROCESSED"]
    BY DEF Processes
  <2> QED
    BY <1>1, <1>4, <2>1, MarkedFile
<1>10. ASSUME Books PROVE Books'
  <2>1. files[f].feedback \notin {"NONE", "PROCESSED"}
    BY <1>4
  <2>2. (\A i, b : Got(i, b)' <=> Got(i, b)) /\ (\A i, r : IsPosted(i, r)' <=> IsPosted(i, r))
    BY <1>6, <2>1
  <2>3. /\ DOMAIN files' = DOMAIN files
        /\ \A g \in DOMAIN files :
             /\ files'[g].lines = files[g].lines /\ files'[g].known = files[g].known
             /\ g # f => files'[g].feedback = files[g].feedback
    BY <1>6 DEF FeedbackStep
  <2>4. /\ \A i : ~InFlight(f, i)'
        /\ \A g \in DOMAIN files : \A i : g # f => (InFlight(g, i)' <=> InFlight(g, i))
    BY <1>6, <2>3 DEF InFlight
  <2>5. \A l : NotGot(l)' <=> NotGot(l)
    BY <1>3, <2>2 DEF NotGot
  <2>6. \A i : HasLine(files[f].lines, i, 0) => InFlight(f, i)
    BY <2>1 DEF InFlight
  <2>7. LinesAgree
    BY <1>10 DEF Books
  <2>8. LinesAgree'
    <3>1. ASSUME NEW l \in job.lines, l.row = 0 PROVE disb'[l.inv] # "UPLOADED" /\ NotGot(l)'
      <4>1. disb[l.inv] # "UPLOADED" /\ NotGot(l) /\ l.inv \in Invoices
        BY <1>1, <2>7, <3>1 DEF LinesAgree, Typed, LinesTyped, Line
      <4>2. ~HasLine(files[f].lines, l.inv, 0)
        BY <1>4, <1>10, <2>6, <4>1 DEF Books, StatusAgrees
      <4> QED
        BY <1>4, <2>5, <4>1, <4>2
    <3>2. (\A l \in job.lines : l.row = 0 => disb[l.inv] # "UPLOADED" /\ NotGot(l))'
      BY <1>2, <3>1
    <3>3. ASSUME NEW g \in DOMAIN files, NEW l \in files[g].lines, l.row = 0,
                 files'[g].feedback # "PROCESSED"
          PROVE  /\ \A h \in DOMAIN files : InFlight(h, l.inv)' => h = g
                 /\ files'[g].feedback = "NONE" \/ l \in files'[g].failed => NotGot(l)'
                 /\ l.is_reversal => inv'[l.inv] = "REFUNDED"
                 /\ ~l.is_reversal => ~Got(l.inv, TRUE)'
      <4>1. g # f /\ files[g].feedback # "PROCESSED" /\ files'[g] = files[g]
        BY <1>6, <2>3, <3>3
      <4>2. /\ \A h \in DOMAIN files : InFlight(h, l.inv) => h = g
            /\ files[g].feedback = "NONE" \/ l \in files[g].failed => NotGot(l)
            /\ l.is_reversal => inv[l.inv] = "REFUNDED"
            /\ ~l.is_reversal => ~Got(l.inv, TRUE)
        BY <2>7, <3>3, <4>1 DEF LinesAgree
      <4> QED
        BY <1>3, <2>2, <2>4, <2>5, <4>1, <4>2
    <3>4. (\A g \in DOMAIN files : \A l \in files[g].lines :
            l.row = 0 /\ files[g].feedback # "PROCESSED" =>
              /\ \A h \in DOMAIN files : InFlight(h, l.inv) => h = g
              /\ files[g].feedback = "NONE" \/ l \in files[g].failed => NotGot(l)
              /\ l.is_reversal => inv[l.inv] = "REFUNDED"
              /\ ~l.is_reversal => ~Got(l.inv, TRUE))'
      <4>1. \A g \in DOMAIN files : files'[g].lines = files[g].lines
        BY <2>3
      <4>2. DOMAIN files' = DOMAIN files
        BY <2>3
      <4> QED
        BY <3>3, <4>1, <4>2, Zenon
    <3> QED
      BY <3>2, <3>4, Zenon DEF LinesAgree
  <2>9. ASSUME NEW i \in Invoices PROVE RowsSent(i)'
    <3>1. RowsSent(i)
      BY <1>10 DEF Books
    <3>2. ASSUME NEW r \in DOMAIN rows[i],
                 rows'[i][r].status \notin {"WAITING_FOR_JOB", "CANCELLED"}
          PROVE  \E g \in DOMAIN files : HasLine(files[g].lines, i, r)
      <4>1. CASE HasLine(files[f].lines, i, r)
        BY <4>1
      <4>2. CASE ~HasLine(files[f].lines, i, r)
        <5>1. rows[i][r].status \notin {"WAITING_FOR_JOB", "CANCELLED"}
          BY <1>4, <3>2, <4>2
        <5> QED
          BY <3>1, <5>1 DEF RowsSent
      <4> QED
        BY <4>1, <4>2
    <3>3. DOMAIN rows'[i] = DOMAIN rows[i]
      BY <1>4 DEF SameRows
    <3>4. \A r \in DOMAIN rows[i] : \A g, h \in DOMAIN files :
            HasLine(files[g].lines, i, r) /\ HasLine(files[h].lines, i, r) => g = h
      BY <3>1 DEF RowsSent
    <3> QED
      BY <1>6, <2>3, <3>2, <3>3, <3>4 DEF RowsSent
  <2>10. ASSUME NEW i \in Invoices PROVE StatusAgrees(i)'
    <3>1. StatusAgrees(i)
      BY <1>10 DEF Books
    <3>2. /\ inv'[i] = inv[i] /\ kind'[i] = kind[i] /\ (IsEft(i)' <=> IsEft(i))
          /\ (HasLine(job.lines, i, 0)' <=> HasLine(job.lines, i, 0))
          /\ (HasFailed(i)' <=> HasFailed(i))
          /\ (Got(i, TRUE)' <=> Got(i, TRUE)) /\ (Got(i, FALSE)' <=> Got(i, FALSE))
      BY <1>2, <1>3, <1>6, <2>2 DEF IsEft, HasLine
    <3>3. CASE ~HasLine(files[f].lines, i, 0)
      <4>1. disb'[i] = disb[i]
        BY <1>4, <3>3
      <4>2. \A g \in DOMAIN files : InFlight(g, i)' <=> InFlight(g, i)
        BY <2>4, <3>3 DEF InFlight
      <4>3. (\E g \in DOMAIN files' : InFlight(g, i)') <=> (\E g \in DOMAIN files : InFlight(g, i))
        BY <2>3, <4>2
      <4>4. disb[i] = "NONE" => \A g \in DOMAIN files' : ~HasLine(files[g].lines, i, 0)'
        BY <1>6, <2>3, <3>1 DEF StatusAgrees
      <4> QED
        BY <3>1, <3>2, <4>1, <4>3, <4>4 DEF StatusAgrees
    <3>4. CASE HasLine(files[f].lines, i, 0)
      <4>1. PICK l \in files[f].lines : l.inv = i /\ l.row = 0
        BY <3>4 DEF HasLine
      <4>2. l \in Line /\ l.is_reversal \in BOOLEAN
        BY <1>1, <1>4, <4>1 DEF Typed, FilesTyped, LinesTyped, Line
      <4>3. l = [inv |-> i, row |-> 0, is_reversal |-> l.is_reversal]
        BY <4>1, <4>2, LineIs
      <4>4. /\ disb[i] = "UPLOADED" /\ InFlight(f, i)
            /\ ~(IsEft(i) \/ inv[i] \in {"NONE", "APPROVED"})
        BY <1>4, <2>6, <3>1, <3>4 DEF StatusAgrees
      <4>5. /\ \A g \in DOMAIN files : InFlight(g, i) => g = f
            /\ l \in files[f].failed => NotGot(l)
            /\ l.is_reversal => inv[i] = "REFUNDED"
            /\ ~l.is_reversal => ~Got(i, TRUE)
        BY <1>4, <2>1, <2>7, <4>1 DEF LinesAgree
      <4>6. \A g \in DOMAIN files' : ~InFlight(g, i)'
        BY <2>3, <2>4, <4>5
      <4>7. IF l \in files[f].failed THEN disb'[i] = "ERRORED"
            ELSE \/ disb'[i] = "REVERSED" /\ CreditsRegistry(l)
                 \/ disb'[i] = "COMPLETED" /\ ~l.is_reversal
        BY <1>4, <4>1
      <4>8. Got(i, TRUE) => Got(i, FALSE) /\ inv[i] = "REFUNDED"
        BY <3>1 DEF StatusAgrees
      <4>9. CASE l \in files[f].failed
        <5>1. disb'[i] = "ERRORED"
          BY <4>7, <4>9
        <5>2. HasFailed(i)
          BY <1>4, <4>1, <4>9 DEF HasFailed, LinesOf
        <5>3. ~Got(i, TRUE) /\ (Got(i, FALSE) => inv[i] = "REFUNDED")
          BY <4>1, <4>2, <4>5, <4>9 DEF NotGot
        <5> QED
          BY <3>2, <4>4, <4>6, <4>8, <5>1, <5>2, <5>3 DEF StatusAgrees
      <4>10. CASE l \notin files[f].failed
        <5>1. /\ l.is_reversal => Got(i, TRUE)
              /\ ~l.is_reversal => Got(i, FALSE)
          BY <1>4, <2>1, <4>1, <4>2, <4>3, <4>10 DEF Got
        <5>2. CASE l.is_reversal
          <6>1. disb'[i] = "REVERSED"
            BY <4>7, <4>10, <5>2
          <6> QED
            BY <3>2, <4>4, <4>6, <4>8, <5>1, <5>2, <6>1 DEF StatusAgrees
        <5>3. CASE ~l.is_reversal /\ disb'[i] = "REVERSED"
          <6>1. kind[i].batch = "GA"
            BY <4>1, <4>7, <4>10, <5>3 DEF CreditsRegistry
          <6> QED
            BY <3>2, <4>4, <4>6, <4>8, <5>1, <5>3, <6>1 DEF StatusAgrees
        <5>4. CASE ~l.is_reversal /\ disb'[i] = "COMPLETED"
          BY <3>2, <4>4, <4>5, <4>6, <4>8, <5>1, <5>4 DEF StatusAgrees
        <5> QED
          BY <4>7, <4>10, <5>2, <5>3, <5>4
      <4> QED
        BY <4>9, <4>10
    <3> QED
      BY <3>3, <3>4
  <2>11. ASSUME NEW i \in Invoices PROVE money'[i] = MoneyOf(i)'
    <3>1. \A r : IsPosted(i, r)' = IsPosted(i, r)
      BY <2>2 DEF IsPosted
    <3>2. \A b \in BOOLEAN : Got(i, b)' = Got(i, b)
      BY <2>2 DEF Got
    <3>3. MoneyOf(i)' = MoneyOf(i)
      BY <1>4, <3>1, <3>2, SameRowsMoney
    <3> QED
      BY <1>2, <1>10, <3>3 DEF Books
  <2>12. \A g \in DOMAIN files' : files'[g].known
    BY <1>10, <2>3 DEF Books
  <2> QED
    BY <1>2, <2>8, <2>9, <2>10, <2>11, <2>12 DEF Books
<1> QED
  BY <1>10

LEMMA ProcessFeedbackGood ==
    ASSUME IInv, ProcessFeedback
    PROVE  IInv'
<1>1. Typed
  BY DEF IInv
<1> PICK f : f = worker
  OBVIOUS
<1>2. /\ UNCHANGED <<request, job, money, lost>> /\ worker' = 0
      /\ files' = [files EXCEPT ![f].feedback = "PROCESSED"]
      /\ stopped' \in {stopped, stopped \cup {files[f].batch}}
  BY DEF ProcessFeedback
<1>3. UNCHANGED <<kind, inv, eft, partial, recent>>
  BY <1>2 DEF request
<1>4. /\ f \in DOMAIN files /\ disb' \in [Invoices -> DisbursementStatus]
      /\ \A l \in files[f].lines : \A old :
           StatusOf(f, l, old) = IF l \in files[f].failed THEN "ERRORED"
                                 ELSE IF CreditsRegistry(l) THEN "REVERSED" ELSE "COMPLETED"
      /\ \A i \in Invoices : ~HasLine(files[f].lines, i, 0) => disb'[i] = disb[i]
      /\ \A l \in files[f].lines : l.row = 0 => disb'[l.inv] = StatusOf(f, l, disb[l.inv])
      /\ SameRows
      /\ \A i \in Invoices : \A r \in DOMAIN rows[i] :
           IF HasLine(files[f].lines, i, r)
           THEN rows'[i][r].status \in {"ERRORED", "REVERSED", "COMPLETED"}
           ELSE rows'[i][r].status = rows[i][r].status
  BY <1>1, ProcessedStatuses
<1>5. files[f].known
  BY <1>1, <1>4 DEF Typed, FilesTyped, ProcessFeedback
<1>6. /\ FeedbackStep
      /\ \A g \in DOMAIN files : /\ files'[g].failed = files[g].failed
                                 /\ g # f => files'[g] = files[g]
      /\ files'[f].feedback = "PROCESSED"
      /\ files[f].feedback # "NONE" =>
           /\ \A i, b : Got(i, b)' <=> Got(i, b)
           /\ \A i, r : IsPosted(i, r)' <=> IsPosted(i, r)
      /\ \A i : HasFailed(i)' <=> HasFailed(i)
      /\ \A g, i, r : g \in DOMAIN files =>
           (HasLine(files[g].lines, i, r)' <=> HasLine(files[g].lines, i, r))
  BY <1>1, <1>2, <1>4, MarkedFile
<1>7. Typed'
  <2>1. stopped' \subseteq Batches
    <3>1. PICK x \in File : x = files[f]
      BY <1>1, <1>4 DEF Typed, FilesTyped
    <3>2. files[f].batch \in Batches /\ stopped \subseteq Batches
      BY <1>1, <3>1 DEF Typed, File
    <3> QED
      BY <1>2, <3>2
  <2>2. money' \in [Invoices -> Int] /\ worker' \in 0..Len(files) /\ worker' = 0
    BY <1>1, <1>2 DEF Typed, FilesTyped
  <2>3. UNCHANGED <<request, job>> /\ lost' \subseteq Losses
    BY <1>1, <1>2 DEF Typed
  <2>4. disb' \in [Invoices -> DisbursementStatus] /\ SameRows
    BY <1>4
  <2> QED
    BY <1>1, <1>6, <2>1, <2>2, <2>3, <2>4, FeedbackTypes
<1>8. \A i \in Invoices : Requested(i)'
  BY <1>2, <1>4, SameRowsRequested DEF IInv
<1>9. ASSUME NoRace PROVE NoRace'
  <2>1. ASSUME NEW i \in Invoices, NEW r \in DOMAIN rows[i]
        PROVE  \/ rows'[i][r].status = rows[i][r].status
               \/ /\ rows[i][r].status \notin {"WAITING_FOR_JOB", "CANCELLED"}
                  /\ rows'[i][r].status \notin {"WAITING_FOR_JOB", "CANCELLED"}
    <3>1. CASE HasLine(files[f].lines, i, r)
      <4>1. PICK l \in files[f].lines : l.inv = i /\ l.row = r
        BY <3>1 DEF HasLine
      <4>2. r # 0
        BY <1>1 DEF Typed, RowsTyped
      <4>3. rows[i][r].status \notin {"WAITING_FOR_JOB", "CANCELLED"}
        BY <1>4, <1>5, <1>9, <4>1, <4>2 DEF NoRace, SentAgree
      <4> QED
        BY <1>4, <3>1, <4>3
    <3>2. CASE ~HasLine(files[f].lines, i, r)
      BY <1>4, <3>2
    <3> QED
      BY <3>1, <3>2
  <2>2. UNCHANGED <<request, job>> /\ SameRows /\ FeedbackStep
    BY <1>2, <1>4, <1>6
  <2> QED
    BY <1>1, <1>9, <2>1, <2>2, FeedbackNoRace
<1>10. ASSUME Books PROVE Books'
  <2>1. files[f].feedback \notin {"NONE", "PROCESSED"}
    BY <1>10 DEF Books, ProcessFeedback
  <2>2. \A l \in files[f].lines : l.row = 0 =>
          IF l \in files[f].failed THEN disb'[l.inv] = "ERRORED"
          ELSE \/ disb'[l.inv] = "REVERSED" /\ CreditsRegistry(l)
               \/ disb'[l.inv] = "COMPLETED" /\ ~l.is_reversal
    BY <1>4 DEF CreditsRegistry
  <2>3. UNCHANGED <<request, job, money>>
    BY <1>2
  <2>4. \A i \in Invoices : \A r \in DOMAIN rows[i] :
          HasLine(files[f].lines, i, r) \/ rows'[i][r].status = rows[i][r].status
    BY <1>4
  <2>5. Processes(f)
    BY <1>2, <1>4, <2>1, <2>2, <2>3, <2>4 DEF Processes
  <2> QED
    BY <1>1, <1>4, <1>10, <2>5, ProcessedBooks
<1> QED
  BY <1>2, <1>7, <1>8, <1>9, <1>10 DEF IInv

\* A line of AP by the status of its invoice is no reversal.
ApLines(batch, lines) == batch = "AP" => \A l \in lines : l.row = 0 => ~l.is_reversal
ApSends ==
    /\ ApLines(job.batch, job.lines)
    /\ \A f \in DOMAIN files : ApLines(files[f].batch, files[f].lines)

LEMMA ApSendsKept ==
    ASSUME Typed, ApSends, [Next]_vars
    PROVE  ApSends'
<1>1. CASE UNCHANGED <<job, files>>
  BY <1>1 DEF ApSends, ApLines
<1>2. ASSUME NEW batch \in Batches, ReadDue(batch) PROVE ApSends'
  <2>1. job'.batch = batch /\ job'.lines = LinesDue(batch) /\ files' = files
    BY <1>2 DEF ReadDue
  <2>2. ASSUME NEW l \in LinesDue(batch), l.row = 0, batch = "AP" PROVE ~l.is_reversal
    <3>1. l.inv \in Invoices /\ kind[l.inv].batch = batch
          /\ l.is_reversal \in DueByStatus(l.inv)
      <4>1. \/ l.row = 0 /\ ~IsEft(l.inv) /\ l.is_reversal \in DueByStatus(l.inv)
            \/ l.row # 0
        BY <1>2, <2>2, LinesAreDue
      <4>2. l \in [inv : Invoices, row : 0..MaxRows, is_reversal : BOOLEAN]
        BY <1>2, <2>2, LinesAreDue
      <4> QED
        BY <2>2, <4>1, <4>2, LinesOfBatch
    <3>2. l.is_reversal => kind[l.inv].batch # "AP"
      BY <3>1 DEF DueByStatus
    <3> QED
      BY <2>2, <3>1, <3>2
  <2> QED
    BY <2>1, <2>2 DEF ApSends, ApLines
<1>3. ASSUME NEW known \in BOOLEAN, files' = Append(files, NewFile(known)), job' = IdleJob
      PROVE  ApSends'
  <2>1. PICK n \in Nat :
             /\ DOMAIN files = 1..n /\ DOMAIN files' = 1..(n + 1)
             /\ \A f \in 1..n : files'[f] = files[f]
             /\ \A f \in 1..(n + 1) : f \in 1..n \/ f = n + 1
             /\ files'[n + 1] = NewFile(known)
    BY <1>3, Uploaded
  <2>2. ApLines(NewFile(known).batch, NewFile(known).lines)
    BY DEF ApSends, ApLines, NewFile
  <2>3. ApLines(job.batch, job.lines)'
    BY <1>3 DEF ApLines, IdleJob
  <2> QED
    BY <2>1, <2>2, <2>3 DEF ApSends, ApLines
<1>4. CASE UploadAndCommit \/ UploadAndDie
  <2>1. job' = IdleJob /\ \E known \in BOOLEAN : files' = Append(files, NewFile(known))
    BY <1>4 DEF UploadAndCommit, UploadAndDie
  <2> QED
    BY <1>3, <2>1
<1>5. ASSUME NEW f \in DOMAIN files, job' = job,
             \/ \E state : files' = [files EXCEPT ![f].feedback = state]
             \/ \E failed : files' = [files EXCEPT ![f].feedback = "SENT", ![f].failed = failed]
      PROVE  ApSends'
  <2>1. PICK s \in Seq(File) : s = files
    BY DEF Typed, FilesTyped
  <2>2. PICK x \in File : x = s[f] /\ f \in DOMAIN s
    BY <2>1
  <2>3. \E y : /\ files' = [s EXCEPT ![f] = y]
               /\ y.batch = x.batch /\ y.lines = x.lines
    <3>1. ASSUME NEW state, files' = [files EXCEPT ![f].feedback = state]
          PROVE  \E y : /\ files' = [s EXCEPT ![f] = y]
                        /\ y.batch = x.batch /\ y.lines = x.lines
      <4>1. files' = [s EXCEPT ![f] = [x EXCEPT !.feedback = state]]
        BY <2>1, <2>2, <3>1
      <4>2. PICK y : y = [x EXCEPT !.feedback = state]
        OBVIOUS
      <4>3. y.batch = x.batch /\ y.lines = x.lines
        BY <4>2 DEF File
      <4>4. files' = [s EXCEPT ![f] = y]
        BY <4>1, <4>2
      <4> QED
        BY <4>3, <4>4
    <3>2. ASSUME NEW failed, files' = [files EXCEPT ![f].feedback = "SENT", ![f].failed = failed]
          PROVE  \E y : /\ files' = [s EXCEPT ![f] = y]
                        /\ y.batch = x.batch /\ y.lines = x.lines
      <4>1. files' = [s EXCEPT ![f] = [x EXCEPT !.feedback = "SENT", !.failed = failed]]
        BY <2>1, <2>2, <3>2
      <4>2. PICK y : y = [x EXCEPT !.feedback = "SENT", !.failed = failed]
        OBVIOUS
      <4>3. y.batch = x.batch /\ y.lines = x.lines
        BY <4>2 DEF File
      <4>4. files' = [s EXCEPT ![f] = y]
        BY <4>1, <4>2
      <4> QED
        BY <4>3, <4>4
    <3> QED
      BY <1>5, <3>1, <3>2
  <2>4. PICK y : /\ files' = [s EXCEPT ![f] = y]
                 /\ y.batch = x.batch /\ y.lines = x.lines
    BY <2>3
  <2>5. /\ DOMAIN files' = DOMAIN files
        /\ \A g \in DOMAIN files : /\ files'[g].batch = files[g].batch
                                   /\ files'[g].lines = files[g].lines
    BY <2>1, <2>2, <2>4
  <2> QED
    BY <1>5, <2>5 DEF ApSends, ApLines
<1>6. ASSUME NEW f \in DOMAIN files,
             \/ \E failed : Post(f, failed)
             \/ ReceiveFeedback(f)
             \/ ProcessApFeedback(f)
      PROVE  ApSends'
  BY <1>5, <1>6 DEF Post, ReceiveFeedback, ProcessApFeedback
<1>7. CASE ProcessFeedback
  <2>1. PICK f : f = worker /\ f \in DOMAIN files
    BY <1>7 DEF Typed, FilesTyped, ProcessFeedback
  <2>2. job' = job /\ files' = [files EXCEPT ![f].feedback = "PROCESSED"]
    BY <1>7, <2>1 DEF ProcessFeedback
  <2>3. \E state : files' = [files EXCEPT ![f].feedback = state]
    BY <2>2
  <2> QED
    BY <1>5, <2>1, <2>2, <2>3
<1>8. CASE UNCHANGED vars
  BY <1>1, <1>8 DEF vars
<1>9. ASSUME NEW i \in Invoices,
             \/ \E k \in Kinds : CreateInvoice(i, k)
             \/ ApplyCredits(i) \/ Pay(i) \/ ReceiptAges(i)
             \/ UnapplyCredits(i) \/ UndoPayment(i) \/ Refund(i)
             \/ RequestPartialRefund(i)
             \/ \E status \in {"APPROVED", "NONE"} : DecidePartialRefund(i, status)
      PROVE  UNCHANGED <<job, files>>
  BY <1>9 DEF CreateInvoice, ApplyCredits, Pay, ReceiptAges, UnapplyCredits, UndoPayment,
              Refund, RequestPartialRefund, DecidePartialRefund
<1>10. CASE CorrectDistribution \/ FeedbackRaises \/ WorkerDies
  <2>1. UNCHANGED <<job, files>>
    BY <1>10 DEF CorrectDistribution, FeedbackRaises, WorkerDies
  <2> QED
    BY <1>1, <2>1
<1> QED
  BY <1>1, <1>2, <1>4, <1>6, <1>7, <1>8, <1>9, <1>10 DEF Next

\* The feedback of an AP file, delivered for the first time or again.
LEMMA ProcessApFeedbackGood ==
    ASSUME IInv, ApSends, NEW f \in DOMAIN files, ProcessApFeedback(f)
    PROVE  IInv'
<1>1. Typed
  BY DEF IInv
<1>2. /\ UNCHANGED <<request, rows, stopped, job, worker, money>> /\ worker = 0
      /\ files[f].batch = "AP" /\ files[f].known
      /\ files[f].feedback \in {"SENT", "PROCESSED"}
      /\ files' = [files EXCEPT ![f].feedback = "PROCESSED"]
      /\ IF files[f].feedback = "PROCESSED" /\ disb' # disb
         THEN lost' = lost \cup {"redelivery"} ELSE lost' = lost
  BY DEF ProcessApFeedback, Lose
<1>3. \A i \in Invoices : disb'[i] = ApStatus(f, i)
  BY DEF ProcessApFeedback
<1>4. SameRows
  BY <1>1, <1>2 DEF SameRows, Typed, RowsTyped
<1>5. disb' \in [Invoices -> DisbursementStatus]
  <2>1. \A i \in Invoices : ApStatus(f, i) \in DisbursementStatus
    BY <1>1 DEF ApStatus, FailedStatus, Typed, DisbursementStatus
  <2>2. disb' = [i \in Invoices |-> ApStatus(f, i)]
    BY DEF ProcessApFeedback
  <2> QED
    BY <2>1, <2>2
<1>6. \A i \in Invoices : ~HasLine(files[f].lines, i, 0) => disb'[i] = disb[i]
  <2>1. files[f].failed \subseteq files[f].lines
    BY <1>1 DEF Typed, FilesTyped
  <2> QED
    BY <1>3, <2>1 DEF ApStatus, HasLine
<1>7. ASSUME NEW l \in files[f].lines, l.row = 0
      PROVE  IF l \in files[f].failed THEN disb'[l.inv] = "ERRORED"
             ELSE disb'[l.inv] = "COMPLETED" /\ ~l.is_reversal
  <2>1. l.inv \in Invoices /\ files[f].failed \subseteq files[f].lines
    BY <1>1 DEF Typed, FilesTyped, LinesTyped, Line
  <2>2. \A m \in files[f].lines : m.inv = l.inv /\ m.row = 0 => m = l
    BY <1>1, <1>7 DEF Typed, FilesTyped, LinesTyped
  <2>3. ~l.is_reversal
    BY <1>2, <1>7 DEF ApSends, ApLines
  <2>4. CASE l \in files[f].failed
    <3>1. HasLine(files[f].failed, l.inv, 0)
      BY <1>7, <2>4 DEF HasLine
    <3>2. ~HasLine(files[f].lines \ files[f].failed, l.inv, 0)
      BY <2>2, <2>4 DEF HasLine
    <3> QED
      BY <1>3, <2>1, <2>4, <3>1, <3>2 DEF ApStatus, FailedStatus
  <2>5. CASE l \notin files[f].failed
    <3>1. ~HasLine(files[f].failed, l.inv, 0)
      BY <2>1, <2>2, <2>5 DEF HasLine
    <3>2. HasLine(files[f].lines \ files[f].failed, l.inv, 0)
      BY <1>7, <2>5 DEF HasLine
    <3> QED
      BY <1>3, <2>1, <2>3, <2>5, <3>1, <3>2 DEF ApStatus
  <2> QED
    BY <2>4, <2>5
<1>8. FeedbackStep
  BY <1>1, <1>2, MarkedFile
<1>9. lost' \subseteq Losses /\ lost \subseteq lost'
  BY <1>1, <1>2 DEF Typed, Losses
<1>10. Typed'
  <2>1. /\ stopped' \subseteq Batches /\ money' \in [Invoices -> Int]
        /\ worker' \in 0..Len(files) /\ worker' = 0
    BY <1>1, <1>2 DEF Typed, FilesTyped
  <2>2. UNCHANGED <<request, job>>
    BY <1>2
  <2> QED
    BY <1>1, <1>4, <1>5, <1>8, <1>9, <2>1, <2>2, FeedbackTypes
<1>11. \A i \in Invoices : Requested(i)'
  BY <1>2, <1>4, SameRowsRequested DEF IInv
<1>12. NoRace => NoRace'
  <2>1. UNCHANGED <<request, job>> /\ rows' = rows
    BY <1>2
  <2> QED
    BY <1>1, <1>4, <1>8, <2>1, FeedbackNoRace
<1>13. CASE files[f].feedback = "SENT"
  <2>1. ASSUME Books PROVE Books'
    <3>1. UNCHANGED <<request, job, money>> /\ worker' = 0
      BY <1>2
    <3>2. \A l \in files[f].lines : l.row = 0 =>
            IF l \in files[f].failed THEN disb'[l.inv] = "ERRORED"
            ELSE \/ disb'[l.inv] = "REVERSED" /\ CreditsRegistry(l)
                 \/ disb'[l.inv] = "COMPLETED" /\ ~l.is_reversal
      BY <1>7
    <3>3. \A i \in Invoices : \A r \in DOMAIN rows[i] :
            HasLine(files[f].lines, i, r) \/ rows'[i][r].status = rows[i][r].status
      BY <1>2
    <3>4. files[f].feedback \notin {"NONE", "PROCESSED"}
      BY <1>13
    <3>5. Processes(f)
      BY <1>2, <1>4, <1>6, <3>1, <3>2, <3>3, <3>4 DEF Processes
    <3> QED
      BY <1>1, <2>1, <3>5, ProcessedBooks
  <2> QED
    BY <1>9, <1>10, <1>11, <1>12, <2>1 DEF IInv
<1>14. CASE files[f].feedback = "PROCESSED" /\ disb' # disb
  BY <1>2, <1>9, <1>10, <1>11, <1>12, <1>14 DEF IInv
<1>15. CASE files[f].feedback = "PROCESSED" /\ disb' = disb
  <2>1. files' = files
    <3>1. PICK s \in Seq(File) : s = files
      BY <1>1 DEF Typed, FilesTyped
    <3>2. PICK x \in File : x = s[f] /\ f \in DOMAIN s
      BY <3>1
    <3>3. [x EXCEPT !.feedback = "PROCESSED"] = x
      BY <1>15, <3>1, <3>2 DEF File
    <3>4. files' = [s EXCEPT ![f] = [x EXCEPT !.feedback = "PROCESSED"]]
      BY <1>2, <3>1, <3>2
    <3> QED
      BY <3>1, <3>2, <3>3, <3>4
  <2>2. /\ UNCHANGED <<request, disb, rows, job, files, money>>
        /\ worker' \in {0, worker} /\ stopped' \subseteq Batches
    BY <1>1, <1>2, <1>15, <2>1 DEF Typed
  <2> QED
    BY <1>9, <2>2, IdleGood
<1> QED
  BY <1>2, <1>13, <1>14, <1>15

-----------------------------------------------------------------------------
(* Theorems.                                                               *)

LEMMA InitGood == Init => IInv
<1> SUFFICES ASSUME Init PROVE IInv
  OBVIOUS
<1> USE DEF Init
<1>1. RequestTyped /\ RowsTyped
  <2>1. MaxRows \in Nat
    BY DisbursementConstants
  <2>2. \A i \in Invoices : rows[i] = <<>>
    OBVIOUS
  <2>3. <<>> \in Seq(Row) /\ Len(<<>>) = 0
    OBVIOUS
  <2> QED
    BY <2>1, <2>2, <2>3 DEF RequestTyped, RowsTyped, InvoiceStatus
<1>2. LinesTyped(job.lines) /\ job \in [reading : BOOLEAN, batch : Batches, lines : SUBSET Line]
  BY FS_EmptySet DEF LinesTyped, IdleJob, Batches
<1>3. files = <<>> /\ DOMAIN files = {} /\ Len(files) = 0 /\ files \in Seq(File)
  OBVIOUS
<1>4. Typed
  BY <1>1, <1>2, <1>3 DEF Typed, FilesTyped, DisbursementStatus
<1>5. \A i \in Invoices : Requested(i)
  BY DEF Requested, IsEft, NoKind
<1>6. \A i \in Invoices : LatestActive(rows[i]) = 0 /\ Proper(rows[i])
  <2>0. <<>> \in Seq(Row) /\ DOMAIN <<>> = {}
    OBVIOUS
  <2>1. PICK s \in Seq(Row) : s = <<>> /\ DOMAIN s = {}
    BY <2>0
  <2>2. LatestActive(s) = 0
    BY <2>1, LatestUnique
  <2>3. Total(Worth(s), DOMAIN s) = 0
    BY <2>1, SumEmpty DEF Total
  <2>4. Proper(s)
    BY <2>1, <2>2, <2>3 DEF Proper, Alternates, Owed
  <2> QED
    BY <2>1, <2>2, <2>4
<1>7. \A i \in Invoices : RowsAgree(i)
  BY <1>6 DEF RowsAgree, Owed
<1>8. NoRace
  BY <1>3, <1>7 DEF NoRace, JobAgrees, SentAgree, IdleJob
<1>9. ASSUME NEW i \in Invoices PROVE RowsSent(i) /\ StatusAgrees(i) /\ money[i] = MoneyOf(i)
  <2>1. ~Got(i, TRUE) /\ ~Got(i, FALSE)
    BY <1>3 DEF Got
  <2>2. Total(PostedRows(i), DOMAIN rows[i]) = 0
    <3>1. DOMAIN rows[i] = {}
      OBVIOUS
    <3> QED
      BY <3>1, SumEmpty DEF Total
  <2>3. GotByStatus(i, FALSE) = 0 /\ GotByStatus(i, TRUE) = 0 /\ money[i] = 0
    BY <2>1 DEF GotByStatus
  <2>4. money[i] = MoneyOf(i)
    <3>1. PICK a, b, c : /\ a = GotByStatus(i, FALSE) /\ b = GotByStatus(i, TRUE)
                         /\ c = Total(PostedRows(i), DOMAIN rows[i])
      OBVIOUS
    <3>2. MoneyOf(i) = a - b + c
      BY <3>1, Zenon DEF MoneyOf
    <3>3. a = 0 /\ b = 0 /\ c = 0
      BY <2>2, <2>3, <3>1, Zenon
    <3> QED
      BY <2>3, <3>2, <3>3
  <2>5. RowsSent(i)
    BY DEF RowsSent
  <2>6. StatusAgrees(i)
    BY <1>3, <2>1 DEF StatusAgrees, HasLine, IdleJob
  <2> QED
    BY <2>4, <2>5, <2>6
<1>10. Books
  BY <1>3, <1>9 DEF Books, LinesAgree, IdleJob
<1> QED
  BY <1>4, <1>5, <1>8, <1>10 DEF IInv

LEMMA NextGood == IInv /\ ApSends /\ [Next]_vars => IInv'
<1> SUFFICES ASSUME IInv, ApSends, [Next]_vars PROVE IInv'
  OBVIOUS
<1>1. Typed
  BY DEF IInv
<1>2. CASE UNCHANGED vars
  <2>1. UNCHANGED <<request, disb, rows, job, files, money>> /\ worker' \in {0, worker}
        /\ stopped' \subseteq Batches /\ lost \subseteq lost' /\ lost' \subseteq Losses
    BY <1>1, <1>2 DEF vars, Typed
  <2> QED
    BY <2>1, IdleGood
<1>3. ASSUME NEW i \in Invoices, NEW k \in Kinds, CreateInvoice(i, k) PROVE IInv'
  BY <1>3, CreateInvoiceGood
<1>4. ASSUME NEW i \in Invoices, ApplyCredits(i) PROVE IInv'
  BY <1>4, ApplyCreditsGood
<1>5. ASSUME NEW i \in Invoices, Pay(i) PROVE IInv'
  BY <1>5, PayGood
<1>6. ASSUME NEW i \in Invoices, ReceiptAges(i) PROVE IInv'
  BY <1>6, ReceiptAgesGood
<1>7. ASSUME NEW i \in Invoices, UnapplyCredits(i) PROVE IInv'
  BY <1>7, UnapplyCreditsGood
<1>8. ASSUME NEW i \in Invoices, UndoPayment(i) PROVE IInv'
  BY <1>8, UndoPaymentGood
<1>9. ASSUME NEW i \in Invoices, Refund(i) PROVE IInv'
  BY <1>9, RefundGood
<1>10. ASSUME NEW i \in Invoices, RequestPartialRefund(i) PROVE IInv'
  BY <1>10, RequestPartialRefundGood
<1>11. ASSUME NEW i \in Invoices, NEW status \in {"APPROVED", "NONE"},
              DecidePartialRefund(i, status)
       PROVE  IInv'
  BY <1>11, DecidePartialRefundGood
<1>12. CASE CorrectDistribution
  <2>1. UNCHANGED <<request, disb, rows, job, files, money>> /\ worker' \in {0, worker}
        /\ stopped' \subseteq Batches /\ lost \subseteq lost' /\ lost' \subseteq Losses
    BY <1>1, <1>12 DEF CorrectDistribution, Typed
  <2> QED
    BY <2>1, IdleGood
<1>13. ASSUME NEW batch \in Batches, ReadDue(batch) PROVE IInv'
  BY <1>13, ReadDueGood
<1>14. CASE UploadAndCommit
  BY <1>14, UploadAndCommitGood
<1>15. CASE UploadAndDie
  BY <1>15, UploadAndDieGood
<1>16. ASSUME NEW f \in DOMAIN files, NEW failed, Post(f, failed) PROVE IInv'
  BY <1>16, PostGood
<1>17. ASSUME NEW f \in DOMAIN files, ReceiveFeedback(f) PROVE IInv'
  BY <1>17, ReceiveFeedbackGood
<1>18. CASE ProcessFeedback
  BY <1>18, ProcessFeedbackGood
<1>19. CASE FeedbackRaises
  <2>1. UNCHANGED <<request, disb, rows, job, files, money>> /\ worker' \in {0, worker}
        /\ stopped' \subseteq Batches /\ lost \subseteq lost' /\ lost' \subseteq Losses
    BY <1>1, <1>19 DEF FeedbackRaises, Typed
  <2> QED
    BY <2>1, IdleGood
<1>20. CASE WorkerDies
  <2>1. UNCHANGED <<request, disb, rows, job, files, money>> /\ worker' \in {0, worker}
        /\ stopped' \subseteq Batches /\ lost \subseteq lost' /\ lost' \subseteq Losses
    BY <1>1, <1>20 DEF WorkerDies, Lose, Typed, Losses
  <2> QED
    BY <2>1, IdleGood
<1>21. ASSUME NEW f \in DOMAIN files, ProcessApFeedback(f) PROVE IInv'
  BY <1>21, ProcessApFeedbackGood
<1> QED
  BY <1>2, <1>3, <1>4, <1>5, <1>6, <1>7, <1>8, <1>9, <1>10, <1>11, <1>12, <1>13, <1>14,
     <1>15, <1>16, <1>17, <1>18, <1>19, <1>20, <1>21 DEF Next

LEMMA Invariance == Spec => []IInv
<1>1. Init => IInv /\ ApSends
  BY InitGood DEF Init, ApSends, ApLines, IdleJob
<1>2. IInv /\ ApSends /\ [Next]_vars => (IInv /\ ApSends)'
  BY NextGood, ApSendsKept DEF IInv
<1> QED
  BY <1>1, <1>2, PTL DEF Spec

\* The variables keep their types: lines are about invoices and rows, a file's failed
\* lines are its own, and the worker has no file that was never sent.
THEOREM TypeCorrect == Spec => []TypeOK
<1>1. IInv => TypeOK
  <2> SUFFICES ASSUME IInv PROVE TypeOK
    OBVIOUS
  <2>1. Typed
    BY DEF IInv
  <2>2. ASSUME NEW f \in DOMAIN files
        PROVE  files[f].batch \in Batches /\ files[f].failed \subseteq files[f].lines
               /\ files[f].lines \subseteq Line
    <3>1. PICK x \in File : x = files[f]
      BY <2>1 DEF Typed, FilesTyped
    <3> QED
      BY <2>1, <3>1 DEF Typed, FilesTyped, LinesTyped, File
  <2>3. job.lines \subseteq Line /\ job.batch \in Batches
    BY <2>1 DEF Typed
  <2> QED
    BY <2>1, <2>2, <2>3 DEF Typed, RequestTyped, RowsTyped, FilesTyped, TypeOK
<1> QED
  BY <1>1, Invariance, PTL

\* Payments and reversals of an invoice are rows in turn, as long as no row is cancelled
\* while the job has it.
THEOREM Alternating == Spec => []PaymentsAndReversalsAlternate
<1>1. IInv => PaymentsAndReversalsAlternate
  BY DEF IInv, NoRace, RowsAgree, Proper, PaymentsAndReversalsAlternate
<1> QED
  BY <1>1, Invariance, PTL

-----------------------------------------------------------------------------
(* What a settled invoice comes to.                                        *)

\* What is settled was posted if it was sent.
LEMMA SettledRows ==
    ASSUME IInv, lost = {}, NEW i \in Invoices, Settled(i), ~HasFailed(i),
           NEW r \in DOMAIN rows[i]
    PROVE  IsPosted(i, r) <=> rows[i][r].status \notin {"WAITING_FOR_JOB", "CANCELLED"}
<1>1. Typed /\ NoRace /\ Books
  BY DEF IInv
<1>2. r # 0
  BY <1>1 DEF Typed, RowsTyped
<1>3. ASSUME IsPosted(i, r)
      PROVE  rows[i][r].status \notin {"WAITING_FOR_JOB", "CANCELLED"}
  <2>1. PICK f \in DOMAIN files : IsPostedBy(f, i, r)
    BY <1>3 DEF IsPosted
  <2>2. PICK l \in files[f].lines : l.inv = i /\ l.row = r
    BY <2>1 DEF IsPostedBy, HasLine
  <2>3. files[f].known
    BY <1>1 DEF Books
  <2> QED
    BY <1>1, <1>2, <2>2, <2>3 DEF NoRace, SentAgree
<1>4. ASSUME rows[i][r].status \notin {"WAITING_FOR_JOB", "CANCELLED"}
      PROVE  IsPosted(i, r)
  <2>1. PICK f \in DOMAIN files : HasLine(files[f].lines, i, r)
    BY <1>1, <1>4 DEF Books, RowsSent
  <2>2. PICK l \in files[f].lines : l.inv = i /\ l.row = r
    BY <2>1 DEF HasLine
  <2>3. files[f].feedback = "PROCESSED"
    BY <2>2 DEF Settled, LinesOf
  <2>4. l \notin files[f].failed
    BY <2>2 DEF HasFailed, LinesOf
  <2>5. IsPostedBy(f, i, r)
    BY <2>2, <2>3, <2>4 DEF IsPostedBy, HasLine
  <2> QED
    BY <2>5 DEF IsPosted
<1> QED
  BY <1>3, <1>4

\* Rows that wait and are not due: the payment of an invoice that is not PAID any more,
\* and partial refunds that were declined.
LEMMA NotDue ==
    ASSUME NEW i \in Invoices, Settled(i), NEW r \in DOMAIN rows[i],
           rows[i][r].status = "WAITING_FOR_JOB"
    PROVE  /\ rows[i][r].target = "INVOICE" => ~rows[i][r].is_reversal /\ inv[i] # "PAID"
           /\ rows[i][r].target # "INVOICE" => ~(inv[i] = "PAID" /\ Refunding(i, r))
<1>1. r \notin DueRows(i)
  BY DEF Settled
<1> QED
  BY <1>1 DEF DueRows, Refunding

\* What was posted of an invoice that is disbursed by its status.
LEMMA ByStatus ==
    ASSUME IInv, lost = {}, NEW i \in Invoices
    PROVE  /\ GotByStatus(i, FALSE) = IF Got(i, FALSE) THEN Share ELSE 0
           /\ GotByStatus(i, TRUE) = IF Got(i, TRUE) THEN Share ELSE 0
           /\ Got(i, TRUE) => Got(i, FALSE) /\ inv[i] = "REFUNDED"
           /\ disb[i] = "NONE" => ~Got(i, FALSE)
           /\ IsEft(i) => ~Got(i, FALSE)
           /\ ~IsEft(i) /\ Settled(i) /\ inv[i] = "PAID" => Got(i, FALSE)
           /\ Settled(i) /\ ~HasFailed(i) /\ inv[i] # "PAID" /\ kind[i].batch = "GI" =>
                (Got(i, FALSE) <=> Got(i, TRUE))
<1>1. StatusAgrees(i)
  BY DEF IInv, Books
<1>2. disb[i] = "NONE" => ~Got(i, FALSE) /\ ~Got(i, TRUE)
  <2>1. ASSUME disb[i] = "NONE", NEW b, Got(i, b) PROVE FALSE
    <3>1. PICK f \in DOMAIN files :
            [inv |-> i, row |-> 0, is_reversal |-> b] \in files[f].lines
      BY <2>1 DEF Got
    <3>2. HasLine(files[f].lines, i, 0)
      <4>1. PICK m \in files[f].lines : m = [inv |-> i, row |-> 0, is_reversal |-> b]
        BY <3>1
      <4>2. m.inv = i /\ m.row = 0
        BY <4>1
      <4> QED
        BY <4>2 DEF HasLine
    <3> QED
      BY <1>1, <2>1, <3>2 DEF StatusAgrees
  <2> QED
    BY <2>1
<1>3. Settled(i) => disb[i] # "UPLOADED"
  <2>1. ASSUME Settled(i), disb[i] = "UPLOADED" PROVE FALSE
    <3>1. PICK f \in DOMAIN files : InFlight(f, i)
      BY <1>1, <2>1 DEF StatusAgrees
    <3> QED
      BY <2>1, <3>1 DEF Settled, InFlight, HasLine, LinesOf
  <2> QED
    BY <2>1
<1>4. ASSUME ~IsEft(i), Settled(i), inv[i] = "PAID" PROVE Got(i, FALSE)
  <2>1. FALSE \notin DueByStatus(i)
    BY <1>4 DEF Settled
  <2>2. disb[i] \notin {"NONE", "ERRORED"}
    BY <1>4, <2>1 DEF DueByStatus
  <2>3. disb[i] \in {"COMPLETED", "REVERSED"}
    BY <1>1, <1>3, <1>4, <2>2 DEF StatusAgrees
  <2> QED
    BY <1>1, <2>3 DEF StatusAgrees
<1>5. ASSUME Settled(i), ~HasFailed(i), inv[i] # "PAID", kind[i].batch = "GI"
      PROVE  Got(i, FALSE) <=> Got(i, TRUE)
  <2>1. CASE disb[i] = "NONE"
    BY <1>2, <2>1
  <2>2. CASE disb[i] = "REVERSED"
    BY <1>1, <1>5, <2>2 DEF StatusAgrees
  <2>3. CASE disb[i] = "COMPLETED"
    <3>1. (~IsEft(i) /\ inv[i] \notin {"NONE", "APPROVED"}) \/ disb[i] = "NONE"
      BY <1>1 DEF StatusAgrees
    <3>2. inv[i] = "REFUNDED"
      BY <1>5, <2>3, <3>1 DEF IInv, Typed, RequestTyped, InvoiceStatus
    <3>3. TRUE \in DueByStatus(i)
      BY <1>5, <2>3, <3>2 DEF DueByStatus
    <3> QED
      BY <1>5, <2>3, <3>1, <3>3 DEF Settled
  <2> QED
    BY <1>1, <1>3, <1>5, <2>1, <2>2, <2>3 DEF StatusAgrees
<1>6. GotByStatus(i, FALSE) = IF Got(i, FALSE) THEN Share ELSE 0
  BY Zenon DEF GotByStatus
<1>7. GotByStatus(i, TRUE) = IF Got(i, TRUE) THEN Share ELSE 0
  BY Zenon DEF GotByStatus
<1>8. IsEft(i) => disb[i] = "NONE"
  BY <1>1 DEF StatusAgrees
<1>9. Got(i, TRUE) => Got(i, FALSE) /\ inv[i] = "REFUNDED"
  BY <1>1 DEF StatusAgrees
<1> QED
  BY <1>2, <1>4, <1>5, <1>6, <1>7, <1>8, <1>9

\* What its rows come to.
LEMMA SettledTotal ==
    ASSUME IInv, lost = {}, NEW i \in Invoices, Settled(i), ~HasFailed(i)
    PROVE  /\ PaidFor(i) =>
                Total(PostedRows(i), DOMAIN rows[i])
                  = (IF Owed(rows[i]) THEN SentByRow ELSE 0)
                      - (IF partial[i] = "APPROVED" THEN 1 ELSE 0)
           /\ inv[i] # "PAID" => Total(PostedRows(i), DOMAIN rows[i]) = 0
<1>1. Typed /\ NoRace /\ Requested(i)
  BY DEF IInv
<1>2. RowsAgree(i)
  BY <1>1 DEF NoRace
<1>3. PICK s \in Seq(Row) : s = rows[i]
  BY <1>1 DEF Typed, RowsTyped
<1>4. PICK D : D = DOMAIN s /\ D = DOMAIN rows[i]
  BY <1>3
<1>5. PICK v, w : v = PostedRows(i) /\ w = Worth(s)
  OBVIOUS
<1>6. IsFiniteSet(D)
  <2>0. DOMAIN s = 1..Len(s) /\ Len(s) \in Nat
    OBVIOUS
  <2>1. D = 1..Len(s) /\ Len(s) \in Nat
    BY <1>4, <2>0, Zenon
  <2> QED
    BY <2>1, FS_Interval
<1>7. ASSUME NEW r \in D
      PROVE  /\ s[r] \in Row /\ s[r].target \in {"INVOICE", "PARTIAL_REFUND"}
             /\ s[r].is_reversal \in BOOLEAN /\ RowAmount(s[r]) \in Int
             /\ v[r] = IF s[r].status \notin {"WAITING_FOR_JOB", "CANCELLED"}
                       THEN RowAmount(s[r]) ELSE 0
             /\ w[r] = IF s[r].target = "INVOICE" /\ s[r].status # "CANCELLED"
                       THEN RowAmount(s[r]) ELSE 0
  <2>1. /\ s[r] \in Row /\ s[r].target \in {"INVOICE", "PARTIAL_REFUND"}
        /\ s[r].is_reversal \in BOOLEAN /\ RowAmount(s[r]) \in Int
    BY <1>4, RowFields, AmountsTyped
  <2>2. IsPosted(i, r) <=> s[r].status \notin {"WAITING_FOR_JOB", "CANCELLED"}
    BY <1>3, <1>4, SettledRows
  <2>3. v[r] = IF IsPosted(i, r) THEN RowAmount(s[r]) ELSE 0
    BY <1>3, <1>4, <1>5, Zenon DEF PostedRows
  <2>4. v[r] = IF s[r].status \notin {"WAITING_FOR_JOB", "CANCELLED"} THEN RowAmount(s[r]) ELSE 0
    BY <2>2, <2>3, Zenon
  <2>5. w[r] = IF s[r].target = "INVOICE" /\ s[r].status # "CANCELLED" THEN RowAmount(s[r]) ELSE 0
    BY <1>4, <1>5, Zenon DEF Worth, IsActive
  <2> QED
    BY <2>1, <2>4, <2>5
<1>8. \A r \in D : v[r] \in Int /\ w[r] \in Int
  <2>1. ASSUME NEW r \in D PROVE v[r] \in Int /\ w[r] \in Int
    <3>1. PICK a \in Int : a = RowAmount(s[r])
      BY <1>7
    <3>2. v[r] \in {a, 0} /\ w[r] \in {a, 0}
      BY <1>7, <3>1, Zenon
    <3> QED
      BY <3>1, <3>2
  <2> QED
    BY <2>1
<1>9. SumFunctionOnSet(w, D) = IF Owed(s) THEN SentByRow ELSE 0
  BY <1>2, <1>3, <1>4, <1>5 DEF RowsAgree, Proper, Total
<1>10. \A r \in D : /\ s[r].target = "PARTIAL_REFUND" =>
                         s[r].is_reversal /\ s[r].status # "CANCELLED"
                    /\ s[r].status = "WAITING_FOR_JOB" /\ s[r].target = "INVOICE"
                         /\ ~s[r].is_reversal => r = LatestActive(s)
  BY <1>2, <1>3, <1>4 DEF RowsAgree, Proper
<1>11. \A r \in D : s[r].target = "PARTIAL_REFUND" /\ s[r].status # "WAITING_FOR_JOB"
                      => Refunding(i, r)
  BY <1>2, <1>3, <1>4 DEF RowsAgree
<1>12. \A r \in D : s[r].status = "WAITING_FOR_JOB" =>
         /\ s[r].target = "INVOICE" => ~s[r].is_reversal /\ inv[i] # "PAID"
         /\ s[r].target # "INVOICE" => ~(inv[i] = "PAID" /\ Refunding(i, r))
  BY <1>3, <1>4, NotDue
<1>13. \A r \in D : s[r].target = "PARTIAL_REFUND" => RowAmount(s[r]) = -1
  BY <1>10 DEF RowAmount
<1>14. SentByRow \in Nat
  BY AmountsTyped
<1>15. ASSUME PaidFor(i)
       PROVE  SumFunctionOnSet(v, D) = (IF Owed(s) THEN SentByRow ELSE 0)
                                          - (IF partial[i] = "APPROVED" THEN 1 ELSE 0)
  <2>1. inv[i] = "PAID"
    BY <1>15 DEF PaidFor
  <2>2. \A r \in D : s[r].target = "INVOICE" => v[r] = w[r]
    BY <1>7, <1>12, <2>1
  <2>3. \A r \in D : s[r].target = "PARTIAL_REFUND" =>
          w[r] = 0 /\ (Refunding(i, r) => v[r] = -1) /\ (~Refunding(i, r) => v[r] = 0)
    BY <1>7, <1>10, <1>11, <1>12, <1>13, <2>1
  <2>4. CASE partial[i] # "APPROVED"
    <3>1. \A r \in D : ~Refunding(i, r)
      BY <2>4 DEF Refunding
    <3>2. \A r \in D : v[r] = w[r]
      BY <1>7, <2>2, <2>3, <3>1
    <3>3. SumFunctionOnSet(v, D) = SumFunctionOnSet(w, D)
      BY <1>6, <3>2, SumSame
    <3> QED
      BY <1>9, <1>14, <2>4, <3>3
  <2>5. CASE partial[i] = "APPROVED"
    <3>1. \E r \in DOMAIN rows[i] : rows[i][r].target = "PARTIAL_REFUND"
      BY <1>1, <2>5 DEF Requested
    <3>2. PICK m \in DOMAIN rows[i] : IsLatestPartial(i, m)
      BY <1>1, <3>1, LatestPartialIs
    <3>3. m \in D /\ s[m].target = "PARTIAL_REFUND" /\ Refunding(i, m)
      <4>1. rows[i][m].target = "PARTIAL_REFUND"
        BY <1>1, <3>2, LatestPartialIs
      <4> QED
        BY <1>3, <1>4, <2>5, <3>2, <4>1 DEF Refunding
    <3>4. \A r \in D \ {m} : ~Refunding(i, r)
      BY <3>2 DEF Refunding, IsLatestPartial
    <3>5. v[m] = -1 /\ w[m] = 0
      BY <2>3, <3>3
    <3>6. \A r \in D \ {m} : w[r] = v[r]
      BY <1>7, <2>2, <2>3, <3>4
    <3>7. \A r \in D : w[r] \in Int /\ v[r] \in Int
      BY <1>8
    <3>8. SumFunctionOnSet(v, D) = SumFunctionOnSet(w, D) + (v[m] - w[m])
      BY <1>6, <3>3, <3>6, <3>7, SumBut
    <3> QED
      BY <1>9, <1>14, <2>5, <3>5, <3>8
  <2> QED
    BY <2>4, <2>5
<1>16. ASSUME inv[i] # "PAID" PROVE SumFunctionOnSet(v, D) = 0
  <2>1. \A r \in D : ~Refunding(i, r)
    BY <1>1, <1>16 DEF Refunding, Requested
  <2>2. \A r \in D : s[r].target = "PARTIAL_REFUND" => v[r] = 0 /\ w[r] = 0
    BY <1>7, <1>11, <2>1
  <2>3. \A r \in D : s[r].target = "INVOICE" /\ s[r].status # "WAITING_FOR_JOB" => v[r] = w[r]
    BY <1>7
  <2>4. CASE \E m \in D : s[m].target = "INVOICE" /\ s[m].status = "WAITING_FOR_JOB"
    <3>1. PICK m \in D : s[m].target = "INVOICE" /\ s[m].status = "WAITING_FOR_JOB"
      BY <2>4
    <3>2. ~s[m].is_reversal /\ m = LatestActive(s)
      BY <1>10, <1>12, <3>1
    <3>3. \A r \in D \ {m} : w[r] = v[r]
      BY <1>7, <1>10, <1>12, <2>2, <2>3, <3>2
    <3>4. Owed(s)
      <4>0. DOMAIN s = 1..Len(s) /\ Len(s) \in Nat
        OBVIOUS
      <4>1. m # 0
        <5>1. m \in 1..Len(s)
          BY <1>4, <3>1, <4>0, Zenon
        <5> QED
          BY <4>0, <5>1
      <4> QED
        BY <3>2, <4>1 DEF Owed
    <3>5. v[m] = 0 /\ w[m] = SentByRow
      <4>1. RowAmount(s[m]) = SentByRow
        BY <3>1, <3>2 DEF RowAmount
      <4> QED
        BY <1>7, <3>1, <4>1
    <3>6. \A r \in D : w[r] \in Int /\ v[r] \in Int
      BY <1>8
    <3>7. SumFunctionOnSet(v, D) = SumFunctionOnSet(w, D) + (v[m] - w[m])
      BY <1>6, <3>1, <3>3, <3>6, SumBut
    <3> QED
      BY <1>9, <1>14, <3>4, <3>5, <3>7
  <2>5. CASE ~\E m \in D : s[m].target = "INVOICE" /\ s[m].status = "WAITING_FOR_JOB"
    <3>1. \A r \in D : v[r] = w[r]
      BY <1>7, <2>2, <2>3, <2>5
    <3>2. SumFunctionOnSet(v, D) = SumFunctionOnSet(w, D)
      BY <1>6, <3>1, SumSame
    <3>3. ~Owed(s)
      <4>1. ASSUME Owed(s) PROVE FALSE
        <5>1. PICK m : m = LatestActive(s)
          OBVIOUS
        <5>2. m \in D /\ IsActive(s[m])
          BY <1>4, <4>1, <5>1, LatestIs DEF Owed
        <5>3. s[m].status # "WAITING_FOR_JOB"
          BY <2>5, <5>2 DEF IsActive
        <5>4. PaidFor(i)
          BY <1>2, <1>3, <4>1, <5>1, <5>3 DEF RowsAgree
        <5> QED
          BY <1>16, <5>4 DEF PaidFor
      <4> QED
        BY <4>1
    <3> QED
      BY <1>9, <3>2, <3>3
  <2> QED
    BY <2>4, <2>5
<1> QED
  BY <1>3, <1>4, <1>5, <1>15, <1>16 DEF Total

\* Rows of an invoice that is disbursed by its status are those of its partial refund.
LEMMA OnlyPartials ==
    ASSUME IInv, lost = {}, NEW i \in Invoices, ~IsEft(i)
    PROVE  /\ ~Owed(rows[i])
           /\ Total(PostedRows(i), DOMAIN rows[i]) \in Int
           /\ Total(PostedRows(i), DOMAIN rows[i]) <= 0
           /\ partial[i] = "NONE" => Total(PostedRows(i), DOMAIN rows[i]) = 0
<1>1. Typed /\ NoRace /\ Requested(i) /\ Books
  BY DEF IInv
<1>2. RowsAgree(i)
  BY <1>1 DEF NoRace
<1>3. PICK s \in Seq(Row) : s = rows[i]
  BY <1>1 DEF Typed, RowsTyped
<1>4. PICK D : D = DOMAIN s /\ D = DOMAIN rows[i]
  BY <1>3
<1>5. \A r \in D : s[r].target = "PARTIAL_REFUND" /\ s[r].is_reversal /\ RowAmount(s[r]) = -1
  BY <1>1, <1>2, <1>3, <1>4 DEF Requested, RowsAgree, Proper, RowAmount
<1>6. ~Owed(rows[i])
  <2>1. \A r \in DOMAIN s : ~IsActive(s[r])
    BY <1>4, <1>5 DEF IsActive
  <2>2. LatestActive(s) = 0
    BY <2>1, LatestUnique
  <2> QED
    BY <1>3, <2>2 DEF Owed
<1>7. IsFiniteSet(D)
  <2>0. DOMAIN s = 1..Len(s) /\ Len(s) \in Nat
    OBVIOUS
  <2>1. D = 1..Len(s) /\ Len(s) \in Nat
    BY <1>4, <2>0, Zenon
  <2> QED
    BY <2>1, FS_Interval
<1>8. PICK v : v = PostedRows(i)
  OBVIOUS
<1>9. ASSUME NEW r \in D
      PROVE  v[r] \in {-1, 0} /\ (~IsPosted(i, r) => v[r] = 0)
  <2>1. v[r] = IF IsPosted(i, r) THEN RowAmount(s[r]) ELSE 0
    BY <1>3, <1>4, <1>8, Zenon DEF PostedRows
  <2>2. v[r] \in {RowAmount(s[r]), 0} /\ (~IsPosted(i, r) => v[r] = 0)
    BY <2>1, Zenon
  <2> QED
    BY <1>5, <2>2
<1>10. PICK u, z : u = [r \in D |-> -v[r]] /\ z = [r \in D |-> 0]
  OBVIOUS
<1>11. /\ \A r \in D : u[r] \in Nat
       /\ \A r \in D : v[r] \in Int /\ u[r] \in Int /\ z[r] = v[r] + u[r]
       /\ \A r \in D : z[r] = 0 /\ v[r] \in Int
  BY <1>9, <1>10
<1>12. SumFunctionOnSet(u, D) \in Nat
  BY <1>7, <1>11, SumNat
<1>13. SumFunctionOnSet(v, D) \in Int
  BY <1>7, <1>11, SumInt
<1>14. SumFunctionOnSet(z, D) = 0
  BY <1>7, <1>11, SumZero
<1>15. SumFunctionOnSet(z, D) = SumFunctionOnSet(v, D) + SumFunctionOnSet(u, D)
  BY <1>7, <1>11, SumPlus
<1>16. SumFunctionOnSet(v, D) <= 0
  BY <1>12, <1>13, <1>14, <1>15
<1>17. ASSUME partial[i] = "NONE" PROVE SumFunctionOnSet(v, D) = 0
  <2>1. ASSUME NEW r \in D, IsPosted(i, r) PROVE FALSE
    <3>1. PICK f \in DOMAIN files : IsPostedBy(f, i, r)
      BY <2>1 DEF IsPosted
    <3>2. PICK l \in files[f].lines : l.inv = i /\ l.row = r
      BY <3>1 DEF IsPostedBy, HasLine
    <3>3. files[f].known /\ r # 0
      <4>1. DOMAIN s = 1..Len(s) /\ Len(s) \in Nat
        OBVIOUS
      <4>2. r \in 1..Len(s)
        BY <1>4, <4>1, Zenon
      <4>3. r # 0
        BY <4>1, <4>2
      <4> QED
        BY <1>1, <4>3 DEF Books
    <3>4. s[r].status # "WAITING_FOR_JOB"
      BY <1>1, <1>3, <3>2, <3>3 DEF NoRace, SentAgree
    <3>5. Refunding(i, r)
      BY <1>2, <1>3, <1>4, <1>5, <3>4 DEF RowsAgree
    <3> QED
      BY <1>17, <3>5 DEF Refunding
  <2>2. \A r \in D : v[r] = 0
    BY <1>9, <2>1
  <2> QED
    BY <1>7, <2>2, SumZero
<1> QED
  BY <1>4, <1>6, <1>8, <1>13, <1>16, <1>17 DEF Total

\* A partner has what its invoices are worth, loses what was refunded, and is never
\* paid twice, as long as no upload, feedback or row is lost.  Feedback may be delivered
\* again at any time: that of a journal is skipped, that of AP is processed again, and
\* counts as a loss only if it overwrites a status that came later.
THEOREM MoneyFollows == Spec => []MoneyFollowsInvoices
<1>1. ASSUME IInv, lost = {}, NEW i \in Invoices
      PROVE  /\ inv[i] = "PAID" /\ eft[i] # "UNAPPLIED" /\ Settled(i) /\ ~HasFailed(i)
                  => money[i] = Payment(i) - (IF partial[i] = "APPROVED" THEN 1 ELSE 0)
             /\ inv[i] # "PAID" /\ kind[i].batch = "GI" /\ Settled(i) /\ ~HasFailed(i)
                  => money[i] = 0
             /\ ~IsEft(i) => /\ money[i] <= Share
                             /\ partial[i] = "NONE" => money[i] >= 0
  <2>1. Share \in Nat /\ SentByRow \in Nat
    BY AmountsTyped
  <2>2. PICK a, b, t : /\ a = GotByStatus(i, FALSE) /\ b = GotByStatus(i, TRUE)
                       /\ t = Total(PostedRows(i), DOMAIN rows[i])
    OBVIOUS
  <2>3. money[i] = a - b + t
    BY <1>1, <2>2 DEF IInv, Books, MoneyOf
  <2>4. /\ a = IF Got(i, FALSE) THEN Share ELSE 0
        /\ b = IF Got(i, TRUE) THEN Share ELSE 0
        /\ Got(i, TRUE) => Got(i, FALSE) /\ inv[i] = "REFUNDED"
        /\ IsEft(i) => ~Got(i, FALSE)
        /\ ~IsEft(i) /\ Settled(i) /\ inv[i] = "PAID" => Got(i, FALSE)
        /\ Settled(i) /\ ~HasFailed(i) /\ inv[i] # "PAID" /\ kind[i].batch = "GI" =>
             (Got(i, FALSE) <=> Got(i, TRUE))
    BY <1>1, <2>2, ByStatus
  <2>5. ASSUME inv[i] = "PAID", eft[i] # "UNAPPLIED", Settled(i), ~HasFailed(i)
        PROVE  money[i] = Payment(i) - (IF partial[i] = "APPROVED" THEN 1 ELSE 0)
    <3>1. PICK k : k = IF partial[i] = "APPROVED" THEN 1 ELSE 0
      OBVIOUS
    <3>2. k \in {0, 1}
      BY <3>1
    <3>3. t = (IF Owed(rows[i]) THEN SentByRow ELSE 0) - k
      BY <2>2, <2>5, <3>1, <1>1, SettledTotal DEF PaidFor
    <3>4. CASE IsEft(i)
      <4>1. Owed(rows[i])
        <5>1. eft[i] = "LINKED"
          BY <1>1, <2>5, <3>4 DEF IInv, Typed, RequestTyped, Requested
        <5>2. RowsAgree(i)
          BY <1>1 DEF IInv, NoRace
        <5> QED
          BY <1>1, <2>5, <5>1, <5>2 DEF RowsAgree
      <4>2. a = 0 /\ b = 0
        BY <2>4, <3>4, Zenon
      <4>3. Payment(i) = SentByRow
        BY <3>4, Zenon DEF Payment
      <4>4. t = SentByRow - k
        BY <3>3, <4>1, Zenon
      <4> QED
        BY <2>1, <2>3, <3>1, <3>2, <4>2, <4>3, <4>4
    <3>5. CASE ~IsEft(i)
      <4>1. ~Owed(rows[i])
        BY <3>5, <1>1, OnlyPartials
      <4>2. Got(i, FALSE) /\ ~Got(i, TRUE)
        BY <2>4, <2>5, <3>5
      <4>3. a = Share /\ b = 0
        BY <2>4, <4>2, Zenon
      <4>4. Payment(i) = Share
        BY <3>5, Zenon DEF Payment
      <4>5. t = 0 - k
        BY <3>3, <4>1, Zenon
      <4> QED
        BY <2>1, <2>3, <3>1, <3>2, <4>3, <4>4, <4>5
    <3> QED
      BY <3>4, <3>5
  <2>6. ASSUME inv[i] # "PAID", kind[i].batch = "GI", Settled(i), ~HasFailed(i)
        PROVE  money[i] = 0
    <3>1. t = 0
      BY <2>2, <2>6, <1>1, SettledTotal
    <3>2. a = b
      BY <2>4, <2>6, Zenon
    <3>3. a \in {0, Share} /\ b \in {0, Share}
      BY <2>4, Zenon
    <3> QED
      BY <2>1, <2>3, <3>1, <3>2, <3>3
  <2>7. ASSUME ~IsEft(i)
        PROVE  money[i] <= Share /\ (partial[i] = "NONE" => money[i] >= 0)
    <3>1. t \in Int /\ t <= 0 /\ (partial[i] = "NONE" => t = 0)
      BY <2>2, <2>7, <1>1, OnlyPartials
    <3>2. (a = 0 /\ b = 0) \/ (a = Share /\ b = 0) \/ (a = Share /\ b = Share)
      BY <2>4, Zenon
    <3> QED
      BY <2>1, <2>3, <3>1, <3>2
  <2> QED
    BY <2>5, <2>6, <2>7
<1>2. IInv => MoneyFollowsInvoices
  <2>1. IInv => PaidIsPassedOn
    BY <1>1, Zenon DEF PaidIsPassedOn
  <2>2. IInv => RefundedIsTakenBack
    BY <1>1, Zenon DEF RefundedIsTakenBack
  <2>3. IInv => NeverPaidTwice
    BY <1>1, Zenon DEF NeverPaidTwice
  <2> QED
    BY <2>1, <2>2, <2>3 DEF MoneyFollowsInvoices
<1> QED
  BY <1>2, Invariance, PTL

=============================================================================
