-------------------------- MODULE EjvPaymentProofs --------------------------
(***************************************************************************)
(* Proofs about EjvPayment, for any number of invoices, files, failures    *)
(* and losses: the type invariant, that an invoice with an active          *)
(* reference is in a file whose feedback is yet to come, and that what CGI *)
(* posted for an invoice is what its status says.                          *)
(*                                                                         *)
(* For the last one the invariant says in which phase each invoice is: in  *)
(* no file, its charge in flight, its reversal in flight.  What makes it   *)
(* inductive is that an invoice is in at most one file in flight as long   *)
(* as none of its journals failed: a failed one takes the completed        *)
(* reference away, and after that every file reverses the invoice again.   *)
(***************************************************************************)
EXTENDS EjvPayment, SumTheorems

In(f, i) == i \in files[f].charges \cup files[f].reversals

\* CGI or the worker has the file.
Open(f) == files[f].feedback # "PROCESSED"

InJob(i) == i \in job.charges \cup job.reversals

FileAgrees(f) ==
    /\ files[f].charges \cap files[f].reversals = {}
    /\ files[f].failed \subseteq files[f].charges \cup files[f].reversals
    /\ files[f].feedback = "NONE" => files[f].failed = {}
    /\ Open(f) => \A i \in Invoices : files[f].links[i] = "UPLOADED" <=> In(f, i)

FilesAgree ==
    /\ \A f \in DOMAIN files : FileAgrees(f)
    /\ job.charges \cap job.reversals = {}
    /\ ~job.reading => job = IdleJob

OneActive(s) ==
    \A r, t \in DOMAIN s : s[r] = "ACTIVE" /\ s[t] = "ACTIVE" => r = t

\* When neither the commit of the job nor that of the worker is lost.
FilesArrive ==
    /\ \A f \in DOMAIN files : /\ files[f].known
                               /\ files[f].feedback = "RECEIVED" <=> worker = f
    /\ \A i \in Invoices :
         /\ OneActive(refs[i])
         /\ HasRef(i, "ACTIVE") => \E f \in DOMAIN files : Open(f) /\ In(f, i)

\* No file has the invoice.
InNoFile(i) == \A f \in DOMAIN files : Open(f) => ~In(f, i)

Posted(f, i) == files[f].feedback # "NONE" /\ i \notin files[f].failed

OnlyFile(f, i) == Open(f) /\ \A g \in DOMAIN files : Open(g) /\ In(g, i) => g = f

ChargeInFlight(i) ==
    /\ HasRef(i, "ACTIVE") /\ ~InJob(i) /\ receipt[i] = 0
    /\ \E f \in DOMAIN files : /\ i \in files[f].charges /\ OnlyFile(f, i)
                               /\ gl[i] = IF Posted(f, i) THEN 1 ELSE 0

ReversalInFlight(i) ==
    /\ HasRef(i, "ACTIVE") /\ ~InJob(i) /\ receipt[i] = Lines
    /\ \E f \in DOMAIN files : /\ i \in files[f].reversals /\ OnlyFile(f, i)
                               /\ gl[i] = IF Posted(f, i) THEN 0 ELSE 1

\* No file charges the invoice any more.
Closing(i) ==
    /\ i \notin job.charges /\ gl[i] <= 1
    /\ \A f \in DOMAIN files : Open(f) => i \notin files[f].charges

Untouched(i) ==
    ~HasRef(i, "ACTIVE") /\ InNoFile(i) /\ gl[i] = 0 /\ receipt[i] = 0

Charged(i) ==
    /\ ~HasRef(i, "ACTIVE") /\ HasRef(i, "COMPLETED")
    /\ InNoFile(i) /\ i \notin job.charges /\ gl[i] = 1 /\ receipt[i] = Lines

Settled(i) ==
    /\ InNoFile(i) /\ ~InJob(i) /\ gl[i] \in {0, 1}
    /\ receipt[i] > 0 => gl[i] = 0

\* What is true of an invoice in each of its states when nothing is lost.
Phase(i) ==
    /\ inv[i] \in {"NONE", "CANCELLED"} => Untouched(i) /\ ~InJob(i)
    /\ inv[i] = "APPROVED" =>
         \/ (Untouched(i) /\ i \notin job.reversals)
         \/ ChargeInFlight(i)
    /\ inv[i] = "PAID" => Charged(i) /\ ~InJob(i)
    /\ inv[i] = "REFUND_REQUESTED" =>
         \/ ChargeInFlight(i)
         \/ (HasFailed(i) /\ Closing(i))
         \/ Charged(i)
         \/ ReversalInFlight(i)
    /\ inv[i] = "REFUNDED" => (HasFailed(i) /\ Closing(i)) \/ Settled(i)

Phases == \A i \in Invoices : Phase(i)

IInv ==
    /\ TypeOK
    /\ FilesAgree
    /\ lost \subseteq {"refund"} => FilesArrive
    /\ lost = {} => Phases

-----------------------------------------------------------------------------
(* Lemmas about the operators.                                             *)

\* The last completed reference, if there is one.
LEMMA LastCompleted ==
    ASSUME NEW s \in Seq(RefStatus)
    PROVE  LET last == SelectLastInSeq(s, LAMBDA r : r = "COMPLETED")
           IN /\ "COMPLETED" \in ToSet(s) =>
                   last \in DOMAIN s /\ s[last] = "COMPLETED"
              /\ "COMPLETED" \notin ToSet(s) => last = 0
<1> DEFINE I == {i \in 1..Len(s) : s[i] = "COMPLETED"}
<1>1. SelectLastInSeq(s, LAMBDA r : r = "COMPLETED") = IF I # {} THEN Max(I) ELSE 0
  BY DEF SelectLastInSeq
<1>2. "COMPLETED" \in ToSet(s) <=> I # {}
  BY DEF ToSet
<1>3. ASSUME I # {} PROVE Max(I) \in I
  <2> DEFINE N == {Len(s) - i : i \in I}
  <2>1. N \subseteq Nat /\ N # {}
    BY <1>3
  <2> HIDE DEF N
  <2>2. PICK m \in N : \A n \in N : m <= n
    BY <2>1, LeastMember
  <2>3. PICK x \in I : m = Len(s) - x
    BY <2>2 DEF N
  <2>4. \A y \in I : Len(s) - y \in N
    BY DEF N
  <2>5. \A y \in I : x >= y
    BY <2>2, <2>3, <2>4
  <2> QED
    BY <2>5 DEF Max
<1>4. I \subseteq DOMAIN s /\ \A i \in I : s[i] = "COMPLETED"
  OBVIOUS
<1> HIDE DEF I
<1> QED
  BY <1>1, <1>2, <1>3, <1>4

LEMMA ActivatedRefs ==
    ASSUME NEW s \in Seq(RefStatus)
    PROVE  /\ Activated(s) \in Seq(RefStatus)
           /\ "ACTIVE" \in ToSet(Activated(s))
           /\ OneActive(s) => OneActive(Activated(s))
<1>1. CASE "ACTIVE" \in ToSet(s)
  BY <1>1 DEF Activated
<1>2. CASE "ACTIVE" \notin ToSet(s)
  <2>1. Activated(s) = Append(s, "ACTIVE")
    BY <1>2 DEF Activated
  <2>2. Append(s, "ACTIVE")[Len(s) + 1] = "ACTIVE"
        /\ Len(s) + 1 \in DOMAIN Append(s, "ACTIVE")
    OBVIOUS
  <2>3. \A r \in DOMAIN s : s[r] # "ACTIVE"
    BY <1>2 DEF ToSet
  <2>4. OneActive(Append(s, "ACTIVE"))
    BY <2>3 DEF OneActive
  <2>5. Append(s, "ACTIVE") \in Seq(RefStatus)
    BY DEF RefStatus
  <2> QED
    BY <2>1, <2>2, <2>4, <2>5 DEF ToSet
<1> QED
  BY <1>1, <1>2

LEMMA ReactivatedRefs ==
    ASSUME NEW s \in Seq(RefStatus)
    PROVE  /\ Reactivated(s) \in Seq(RefStatus)
           /\ "COMPLETED" \in ToSet(s) => "ACTIVE" \in ToSet(Reactivated(s))
           /\ "COMPLETED" \notin ToSet(s) => Reactivated(s) = s
           /\ OneActive(s) => OneActive(Reactivated(s))
<1> DEFINE last == SelectLastInSeq(s, LAMBDA r : r = "COMPLETED")
           c == [s EXCEPT ![last] = "CANCELLED"]
<1>1. Reactivated(s) = IF last = 0 THEN s ELSE Activated(c)
  BY DEF Reactivated
<1>2. /\ "COMPLETED" \in ToSet(s) => last \in DOMAIN s
      /\ "COMPLETED" \notin ToSet(s) => last = 0
  BY LastCompleted
<1> HIDE DEF last
<1>3. CASE "COMPLETED" \in ToSet(s)
  <2>1. c \in Seq(RefStatus) /\ last # 0
    BY <1>2, <1>3 DEF RefStatus
  <2>2. OneActive(s) => OneActive(c)
    BY DEF OneActive
  <2> QED
    BY <1>1, <1>3, <2>1, <2>2, ActivatedRefs
<1> QED
  BY <1>1, <1>2, <1>3

\* Feedback leaves no active reference.
LEMMA RefsAfterFeedback ==
    ASSUME NEW i \in Invoices, refs[i] \in Seq(RefStatus),
           NEW status \in {"COMPLETED", "CANCELLED"}
    PROVE  /\ RefsWith(i, status) \in Seq(RefStatus)
           /\ "ACTIVE" \notin ToSet(RefsWith(i, status))
           /\ OneActive(RefsWith(i, status))
           /\ HasRef(i, "ACTIVE") => status \in ToSet(RefsWith(i, status))
           /\ HasRef(i, "COMPLETED") => "COMPLETED" \in ToSet(RefsWith(i, status))
<1> DEFINE s == RefsWith(i, status)
<1>1. /\ DOMAIN s = 1..Len(refs[i])
      /\ \A r \in DOMAIN s :
           s[r] = IF refs[i][r] = "ACTIVE" THEN status ELSE refs[i][r]
  BY DEF RefsWith
<1>2. \A r \in DOMAIN s : s[r] \in RefStatus /\ s[r] # "ACTIVE"
  BY <1>1 DEF RefStatus
<1>3. s \in Seq(RefStatus)
  <2>1. s \in [1..Len(refs[i]) -> RefStatus]
    BY <1>1, <1>2 DEF RefsWith
  <2> HIDE DEF s
  <2> QED
    BY <2>1
<1> HIDE DEF s
<1>4. "ACTIVE" \notin ToSet(s) /\ OneActive(s)
  BY <1>2 DEF ToSet, OneActive
<1>5. HasRef(i, "ACTIVE") => status \in ToSet(s)
  BY <1>1 DEF HasRef, ToSet
<1>6. HasRef(i, "COMPLETED") => "COMPLETED" \in ToSet(s)
  BY <1>1 DEF HasRef, ToSet
<1> QED
  BY <1>3, <1>4, <1>5, <1>6 DEF s

\* What is known of an invoice stays true as long as no file comes or goes that
\* has it.
LEMMA PhaseKept ==
    ASSUME NEW i \in Invoices, Phase(i),
           inv'[i] = inv[i], refs'[i] = refs[i], receipt'[i] = receipt[i],
           gl'[i] = gl[i],
           i \in job'.charges => i \in job.charges,
           i \in job'.reversals => i \in job.reversals,
           DOMAIN files \subseteq DOMAIN files',
           \A g \in DOMAIN files' : Open(g)' /\ In(g, i)' =>
               g \in DOMAIN files /\ Open(g),
           \A g \in DOMAIN files :
               /\ files'[g].charges = files[g].charges
               /\ files'[g].reversals = files[g].reversals
               /\ i \in files[g].failed => i \in files'[g].failed
               /\ In(g, i) => (Open(g)' <=> Open(g)) /\ (Posted(g, i)' <=> Posted(g, i))
    PROVE  Phase(i)'
<1>1. \A s : HasRef(i, s)' <=> HasRef(i, s)
  BY DEF HasRef
<1>2. InJob(i)' => InJob(i)
  BY DEF InJob
<1>3. InNoFile(i) => InNoFile(i)'
  BY DEF InNoFile, In
<1>4. HasFailed(i) => HasFailed(i)'
  BY DEF HasFailed
<1>5. Closing(i) => Closing(i)'
  BY DEF Closing, In
<1>6. ASSUME NEW f \in DOMAIN files, In(f, i), OnlyFile(f, i)
      PROVE  OnlyFile(f, i)' /\ (Posted(f, i)' <=> Posted(f, i)) /\ f \in DOMAIN files'
  BY <1>6 DEF OnlyFile, In
<1>7. ChargeInFlight(i) => ChargeInFlight(i)'
  <2> HAVE ChargeInFlight(i)
  <2>1. PICK f \in DOMAIN files : /\ i \in files[f].charges /\ OnlyFile(f, i)
                                  /\ gl[i] = IF Posted(f, i) THEN 1 ELSE 0
    BY DEF ChargeInFlight
  <2>2. In(f, i)
    BY <2>1 DEF In
  <2>3. /\ f \in DOMAIN files' /\ i \in files'[f].charges /\ OnlyFile(f, i)'
        /\ gl'[i] = IF Posted(f, i)' THEN 1 ELSE 0
    BY <1>6, <2>1, <2>2
  <2> QED
    BY <1>1, <1>2, <2>3 DEF ChargeInFlight
<1>8. ReversalInFlight(i) => ReversalInFlight(i)'
  <2> HAVE ReversalInFlight(i)
  <2>1. PICK f \in DOMAIN files : /\ i \in files[f].reversals /\ OnlyFile(f, i)
                                  /\ gl[i] = IF Posted(f, i) THEN 0 ELSE 1
    BY DEF ReversalInFlight
  <2>2. In(f, i)
    BY <2>1 DEF In
  <2>3. /\ f \in DOMAIN files' /\ i \in files'[f].reversals /\ OnlyFile(f, i)'
        /\ gl'[i] = IF Posted(f, i)' THEN 0 ELSE 1
    BY <1>6, <2>1, <2>2
  <2> QED
    BY <1>1, <1>2, <2>3 DEF ReversalInFlight
<1>9. Untouched(i) => Untouched(i)'
  BY <1>1, <1>3 DEF Untouched
<1>10. Charged(i) => Charged(i)'
  BY <1>1, <1>3 DEF Charged
<1>11. Settled(i) => Settled(i)'
  BY <1>2, <1>3 DEF Settled
<1> QED
  BY <1>2, <1>4, <1>5, <1>7, <1>8, <1>9, <1>10, <1>11 DEF Phase

\* What the phases need of the types.
LEMMA Types ==
    ASSUME TypeOK
    PROVE  /\ \A i \in Invoices :
                /\ inv[i] \in InvoiceStatus /\ refs[i] \in Seq(RefStatus)
                /\ receipt[i] \in Nat /\ gl[i] \in Int
           /\ job.charges \subseteq Invoices /\ job.reversals \subseteq Invoices
           /\ DOMAIN files = 1..Len(files) /\ Len(files) \in Nat
           /\ \A f \in DOMAIN files : files[f] \in File
           /\ Lines \in Nat \ {0}
BY EjvConstants DEF TypeOK

-----------------------------------------------------------------------------
(* Requests.                                                               *)

LEMMA InitGood == Init => IInv
<1> SUFFICES ASSUME Init PROVE IInv
  OBVIOUS
<1>1. TypeOK
  <2>1. \A S : <<>> \in Seq(S)
    OBVIOUS
  <2>2. 0 \in 0..Len(<<>>)
    OBVIOUS
  <2>3. [i \in Invoices |-> <<>>] \in [Invoices -> Seq(RefStatus)]
    BY <2>1
  <2>4. IdleJob \in [reading : BOOLEAN, charges : SUBSET Invoices,
                      reversals : SUBSET Invoices]
    BY DEF IdleJob
  <2>5. /\ inv \in [Invoices -> InvoiceStatus] /\ receipt \in [Invoices -> Nat]
        /\ gl \in [Invoices -> Int]
    BY DEF Init, InvoiceStatus
  <2>6. files \in Seq(File) /\ worker \in 0..Len(files)
    BY <2>1, <2>2 DEF Init
  <2> QED
    BY <2>3, <2>4, <2>5, <2>6 DEF Init, TypeOK
<1>2. FilesAgree /\ FilesArrive
  BY DEF Init, FilesAgree, FilesArrive, IdleJob, OneActive, HasRef, ToSet
<1>3. Phases
  BY DEF Init, Phases, Phase, Untouched, InJob, InNoFile, IdleJob, HasRef, ToSet
<1> QED
  BY <1>1, <1>2, <1>3 DEF IInv

\* Requests write nothing that files and references depend on.
LEMMA RequestGood ==
    ASSUME IInv, TypeOK', UNCHANGED <<refs, job, files, worker>>,
           lost \subseteq lost',
           lost' = {} => \A i \in Invoices : inv'[i] # inv[i] => Phase(i)',
           lost' = {} => UNCHANGED <<receipt, gl>>
    PROVE  IInv'
<1>1. FilesAgree'
  BY DEF IInv, FilesAgree, FileAgrees, In, Open
<1>2. lost' \subseteq {"refund"} => FilesArrive'
  BY DEF IInv, FilesArrive, In, Open, HasRef
<1>3. ASSUME lost' = {}, NEW i \in Invoices PROVE Phase(i)'
  <2>1. CASE inv'[i] # inv[i]
    BY <1>3, <2>1
  <2>2. CASE inv'[i] = inv[i]
    <3>1. lost = {} /\ Phase(i)
      BY <1>3 DEF IInv, Phases
    <3> QED
      BY <1>3, <2>2, <3>1, PhaseKept DEF Open, Posted, In
  <2> QED
    BY <2>1, <2>2
<1> QED
  BY <1>1, <1>2, <1>3 DEF IInv, Phases

LEMMA CreateInvoiceGood ==
    ASSUME IInv, NEW i \in Invoices, CreateInvoice(i)
    PROVE  IInv'
<1>1. TypeOK'
  BY DEF IInv, TypeOK, CreateInvoice, InvoiceStatus
<1>2. UNCHANGED <<refs, job, files, worker, lost, receipt, gl>>
  BY DEF CreateInvoice
<1>3. inv'[i] = "APPROVED" /\ inv[i] = "NONE"
      /\ \A j \in Invoices : j # i => inv'[j] = inv[j]
  BY DEF CreateInvoice, IInv, TypeOK
<1>4. ASSUME lost' = {} PROVE Phase(i)'
  <2>1. Untouched(i) /\ ~InJob(i)
    BY <1>2, <1>3, <1>4 DEF IInv, Phases, Phase
  <2>2. Untouched(i)' /\ i \notin job'.reversals
    BY <1>2, <2>1 DEF Untouched, InJob, HasRef, InNoFile, Open, In
  <2> QED
    BY <1>3, <2>2 DEF Phase
<1> QED
  BY <1>1, <1>2, <1>3, <1>4, RequestGood

LEMMA RefundGood ==
    ASSUME IInv, NEW i \in Invoices, Refund(i)
    PROVE  IInv'
<1>1. TypeOK'
  BY DEF IInv, TypeOK, Refund, RefundStatus, InvoiceStatus, Lose, Losses
<1>2. UNCHANGED <<refs, job, files, worker, receipt, gl>>
  BY DEF Refund
<1>3. lost \subseteq lost' /\ (lost' = {} => lost = {} /\ i \notin job.charges)
  BY DEF Refund, Lose
<1>4. /\ inv[i] \in {"APPROVED", "PAID"} /\ inv'[i] = RefundStatus(i)
      /\ \A j \in Invoices : j # i => inv'[j] = inv[j]
  BY DEF Refund, IInv, TypeOK
<1>5. ASSUME lost' = {} PROVE Phase(i)'
  <2>1. Phase(i)
    BY <1>3, <1>5 DEF IInv, Phases
  <2>2. /\ \A s : HasRef(i, s)' <=> HasRef(i, s)
        /\ InJob(i)' <=> InJob(i)
        /\ InNoFile(i)' <=> InNoFile(i)
    BY <1>2 DEF HasRef, InJob, InNoFile, Open, In
  <2>3. CASE inv[i] = "PAID"
    <3>1. Charged(i)'
      BY <1>2, <2>1, <2>2, <2>3 DEF Phase, Charged
    <3>2. inv'[i] = "REFUND_REQUESTED"
      BY <1>4, <2>3 DEF RefundStatus
    <3> QED
      BY <3>1, <3>2 DEF Phase
  <2>4. CASE inv[i] = "APPROVED" /\ HasRef(i, "ACTIVE")
    <3>1. ChargeInFlight(i)
      BY <2>1, <2>4 DEF Phase, Untouched
    <3>2. ChargeInFlight(i)'
      BY <1>2, <2>2, <3>1 DEF ChargeInFlight, OnlyFile, Open, In, Posted
    <3>3. inv'[i] = "REFUND_REQUESTED"
      BY <1>4, <2>4 DEF RefundStatus
    <3> QED
      BY <3>2, <3>3 DEF Phase
  <2>5. CASE inv[i] = "APPROVED" /\ ~HasRef(i, "ACTIVE")
    <3>1. Untouched(i) /\ i \notin job.reversals
      BY <2>1, <2>5 DEF Phase, ChargeInFlight
    <3>2. Untouched(i)' /\ ~InJob(i)'
      BY <1>2, <1>3, <1>5, <2>2, <3>1 DEF Untouched, InJob
    <3>3. inv'[i] = "CANCELLED"
      BY <1>4, <2>5 DEF RefundStatus
    <3> QED
      BY <3>2, <3>3 DEF Phase
  <2> QED
    BY <1>4, <2>3, <2>4, <2>5
<1> QED
  BY <1>1, <1>2, <1>3, <1>4, <1>5, RequestGood

LEMMA OtherRequestsGood ==
    ASSUME IInv, CorrectDistribution \/ (\E i \in Invoices : RefundPartially(i))
    PROVE  IInv'
<1>1. TypeOK'
  BY DEF IInv, TypeOK, CorrectDistribution, RefundPartially
<1>2. UNCHANGED <<inv, refs, job, files, worker, lost, receipt, gl>>
  BY DEF CorrectDistribution, RefundPartially
<1> QED
  BY <1>1, <1>2, RequestGood

-----------------------------------------------------------------------------
(* The job.                                                                *)

LEMMA ReadInvoicesGood ==
    ASSUME IInv, ReadInvoices
    PROVE  IInv'
<1>1. /\ UNCHANGED <<inv, refs, receipt, files, worker, gl, lost>>
      /\ job'.reading = TRUE
      /\ job'.charges = InvoicesToCharge /\ job'.reversals = InvoicesToReverse
  BY DEF ReadInvoices
<1>2. TypeOK'
  BY DEF IInv, TypeOK, ReadInvoices, InvoicesToCharge, InvoicesToReverse
<1>3. FilesAgree'
  BY <1>1 DEF IInv, FilesAgree, FileAgrees, In, Open, InvoicesToCharge,
     InvoicesToReverse
<1>4. lost' \subseteq {"refund"} => FilesArrive'
  BY <1>1 DEF IInv, FilesArrive, In, Open, HasRef
<1>5. ASSUME lost' = {}, NEW i \in Invoices PROVE Phase(i)'
  <2>1. Phase(i)
    BY <1>1, <1>5 DEF IInv, Phases
  <2>2. /\ \A s : HasRef(i, s)' <=> HasRef(i, s)
        /\ InNoFile(i)' <=> InNoFile(i)
        /\ HasFailed(i)' <=> HasFailed(i)
    BY <1>1 DEF HasRef, InNoFile, HasFailed, Open, In
  <2>3. CASE InJob(i)' /\ inv[i] = "APPROVED"
    <3>1. Untouched(i) /\ i \notin job'.reversals
      BY <1>1, <2>1, <2>3 DEF Phase, ChargeInFlight, InJob, InvoicesToCharge,
         InvoicesToReverse
    <3> QED
      BY <1>1, <2>2, <2>3, <3>1 DEF Phase, Untouched
  <2>4. CASE InJob(i)' /\ inv[i] = "REFUND_REQUESTED"
    <3>1. ~HasRef(i, "ACTIVE") /\ i \notin job'.charges
      BY <1>1, <2>4 DEF InJob, InvoicesToCharge, InvoicesToReverse
    <3>2. (HasFailed(i) /\ Closing(i)) \/ Charged(i)
      BY <2>1, <2>4, <3>1 DEF Phase, ChargeInFlight, ReversalInFlight
    <3>3. (HasFailed(i) /\ Closing(i))' \/ Charged(i)'
      BY <1>1, <2>2, <3>1, <3>2 DEF Closing, Charged, Open
    <3> QED
      BY <1>1, <2>4, <3>3 DEF Phase
  <2>5. CASE ~InJob(i)'
    BY <1>1, <2>1, <2>5, PhaseKept DEF InJob, Open, Posted, In
  <2> QED
    BY <1>1, <2>3, <2>4, <2>5 DEF InJob, InvoicesToCharge, InvoicesToReverse
<1> QED
  BY <1>2, <1>3, <1>4, <1>5 DEF IInv, Phases

LEMMA Appended ==
    ASSUME NEW S, NEW s \in Seq(S), NEW x \in S, NEW t, t = Append(s, x)
    PROVE  /\ t \in Seq(S) /\ Len(t) = Len(s) + 1
           /\ Len(t) \notin DOMAIN s /\ DOMAIN t = DOMAIN s \cup {Len(t)}
           /\ \A f \in DOMAIN s : t[f] = s[f]
           /\ t[Len(t)] = x
OBVIOUS

\* The file that the job uploads.
LEMMA FileUploaded ==
    ASSUME IInv, NEW known \in BOOLEAN, NEW n, n = Len(files) + 1,
           files' = Append(files, NewFile(known)), job' = IdleJob
    PROVE  /\ files' \in Seq(File) /\ Len(files') = n /\ n \in Nat \ {0}
           /\ n \notin DOMAIN files /\ DOMAIN files' = DOMAIN files \cup {n}
           /\ \A f \in DOMAIN files : files'[f] = files[f]
           /\ files'[n].charges = job.charges
           /\ files'[n].reversals = job.reversals
           /\ files'[n].known = known
           /\ files'[n].failed = {}
           /\ files'[n].feedback = "NONE"
           /\ FilesAgree'
<1>1. NewFile(known) \in File
  BY Types DEF IInv, NewFile, File, LinkStatus
<1>2. files \in Seq(File)
  BY DEF IInv, TypeOK
<1>3. /\ files' \in Seq(File) /\ Len(files') = n /\ n \in Nat \ {0}
      /\ n \notin DOMAIN files /\ DOMAIN files' = DOMAIN files \cup {n}
      /\ \A f \in DOMAIN files : files'[f] = files[f]
      /\ files'[n] = NewFile(known)
  BY <1>1, <1>2, Appended
<1>4. /\ files'[n].charges = job.charges /\ files'[n].reversals = job.reversals
      /\ files'[n].known = known /\ files'[n].failed = {}
      /\ files'[n].feedback = "NONE"
      /\ \A i \in Invoices : files'[n].links[i] = "UPLOADED" <=> InJob(i)
  BY <1>3 DEF NewFile, InJob
<1>5. FilesAgree'
  <2>1. ASSUME NEW f \in DOMAIN files PROVE FileAgrees(f)'
    BY <1>3, <2>1 DEF IInv, FilesAgree, FileAgrees, Open, In
  <2>2. FileAgrees(n)'
    BY <1>4 DEF IInv, FilesAgree, FileAgrees, In, InJob
  <2>3. job' = IdleJob /\ job'.charges \cap job'.reversals = {}
    BY DEF IdleJob
  <2> QED
    BY <1>3, <2>1, <2>2, <2>3 DEF FilesAgree
<1> QED
  BY <1>3, <1>4, <1>5

LEMMA UploadAndCommitGood ==
    ASSUME IInv, UploadAndCommit
    PROVE  IInv'
<1>2. PICK n \in Nat : n = Len(files) + 1
  BY Types DEF IInv
<1>1. /\ UNCHANGED <<inv, receipt, gl, lost, worker>>
      /\ files' = Append(files, NewFile(TRUE)) /\ job' = IdleJob
      /\ \A i \in Invoices :
           refs'[i] = CASE i \in job.charges -> Activated(refs[i])
                        [] i \in job.reversals -> Reactivated(refs[i])
                        [] OTHER -> refs[i]
  BY DEF UploadAndCommit
<1>3. /\ files' \in Seq(File) /\ Len(files') = n /\ n \in Nat \ {0}
      /\ n \notin DOMAIN files /\ DOMAIN files' = DOMAIN files \cup {n}
      /\ \A f \in DOMAIN files : files'[f] = files[f]
  BY <1>1, <1>2, FileUploaded
<1>4. /\ files'[n].charges = job.charges /\ files'[n].reversals = job.reversals
      /\ files'[n].known = TRUE /\ files'[n].failed = {}
      /\ files'[n].feedback = "NONE"
  BY <1>1, <1>2, FileUploaded
<1>5. FilesAgree'
  BY <1>1, <1>2, FileUploaded
<1>6. TypeOK'
  <2>1. worker' \in 0..Len(files')
    BY <1>1, <1>2, <1>3, Types DEF IInv, TypeOK
  <2>2. refs' \in [Invoices -> Seq(RefStatus)]
    BY Types, ActivatedRefs, ReactivatedRefs DEF IInv, UploadAndCommit
  <2> QED
    BY <1>3, <2>1, <2>2 DEF IInv, TypeOK, UploadAndCommit, IdleJob
<1>7. /\ Open(n)' /\ \A i \in Invoices : In(n, i)' <=> InJob(i)
      /\ \A f \in DOMAIN files, i \in Invoices :
           (Open(f)' <=> Open(f)) /\ (In(f, i)' <=> In(f, i))
  BY <1>3, <1>4 DEF Open, In, InJob
<1>8. ASSUME lost' \subseteq {"refund"} PROVE FilesArrive'
  <2>1. FilesArrive
    BY <1>1, <1>8 DEF IInv
  <2>2. ASSUME NEW f \in DOMAIN files'
        PROVE  /\ files'[f].known
               /\ files'[f].feedback = "RECEIVED" <=> worker' = f
    <3>1. worker # n
      BY <1>2, Types DEF IInv, TypeOK
    <3>2. CASE f = n
      BY <1>1, <1>4, <3>1, <3>2
    <3>3. CASE f \in DOMAIN files
      BY <1>1, <1>3, <2>1, <3>3 DEF FilesArrive
    <3> QED
      BY <1>3, <3>2, <3>3
  <2>3. ASSUME NEW i \in Invoices
        PROVE  /\ OneActive(refs'[i])
               /\ HasRef(i, "ACTIVE")' => \E f \in DOMAIN files' : Open(f)' /\ In(f, i)'
    <3>1. CASE InJob(i)
      <4>1. OneActive(refs'[i])
        BY <1>1, <2>1, <3>1, Types, ActivatedRefs, ReactivatedRefs
           DEF IInv, InJob, FilesArrive
      <4> QED
        BY <1>3, <1>7, <3>1, <4>1
    <3>2. CASE ~InJob(i)
      <4>1. refs'[i] = refs[i]
        BY <1>1, <3>2 DEF InJob
      <4> QED
        BY <1>3, <1>7, <2>1, <4>1 DEF FilesArrive, HasRef
    <3> QED
      BY <3>1, <3>2
  <2> QED
    BY <2>2, <2>3 DEF FilesArrive
<1>9. ASSUME lost' = {}, NEW i \in Invoices PROVE Phase(i)'
  <2>1. Phase(i) /\ inv[i] \in InvoiceStatus
    BY <1>1, <1>9, Types DEF IInv, Phases
  <2>2. ~InJob(i)'
    BY <1>1 DEF InJob, IdleJob
  <2>3. InNoFile(i) => OnlyFile(n, i)'
    BY <1>3, <1>7 DEF InNoFile, OnlyFile
  <2>4. i \in job.charges => i \notin job.reversals
    BY DEF IInv, FilesAgree
  <2>5. CASE i \in job.charges
    <3>1. inv[i] = "APPROVED" /\ Untouched(i)
      BY <2>1, <2>4, <2>5 DEF Phase, InJob, ChargeInFlight, Closing, Charged,
         Settled, ReversalInFlight, InvoiceStatus
    <3>2. HasRef(i, "ACTIVE")'
      <4>1. refs'[i] = Activated(refs[i]) /\ refs[i] \in Seq(RefStatus)
        BY <1>1, <2>4, <2>5, Types DEF IInv
      <4> QED
        BY <4>1, ActivatedRefs DEF HasRef
    <3>3. ChargeInFlight(i)'
      BY <1>1, <1>3, <1>4, <2>2, <2>3, <2>5, <3>1, <3>2
         DEF ChargeInFlight, Untouched, Posted
    <3> QED
      BY <1>1, <3>1, <3>3 DEF Phase
  <2>6. CASE i \in job.reversals
    <3>1. \/ HasFailed(i) /\ Closing(i)
          \/ inv[i] = "REFUND_REQUESTED" /\ Charged(i)
      BY <2>1, <2>4, <2>6 DEF Phase, InJob, ChargeInFlight, Settled,
         ReversalInFlight, InvoiceStatus
    <3>2. inv[i] \in {"REFUND_REQUESTED", "REFUNDED"}
      BY <2>1, <2>4, <2>6 DEF Phase, InJob, InvoiceStatus, ChargeInFlight
    <3>3. CASE HasFailed(i) /\ Closing(i)
      <4>1. HasFailed(i)'
        BY <1>3, <3>3 DEF HasFailed
      <4>2. Closing(i)'
        BY <1>1, <1>3, <1>4, <1>7, <2>4, <2>6, <3>3 DEF Closing, IdleJob
      <4> QED
        BY <1>1, <3>2, <4>1, <4>2 DEF Phase
    <3>4. CASE inv[i] = "REFUND_REQUESTED" /\ Charged(i)
      <4>1. HasRef(i, "ACTIVE")'
        BY <1>1, <2>4, <2>6, <3>4, Types, ReactivatedRefs DEF IInv, HasRef, Charged
      <4>2. OnlyFile(n, i)' /\ ~Posted(n, i)' /\ receipt[i] = Lines /\ gl[i] = 1
        BY <1>4, <2>3, <3>4 DEF Charged, Posted
      <4>3. ReversalInFlight(i)'
        BY <1>1, <1>3, <1>4, <2>2, <2>6, <4>1, <4>2 DEF ReversalInFlight
      <4> QED
        BY <1>1, <3>4, <4>3 DEF Phase
    <3> QED
      BY <3>1, <3>3, <3>4
  <2>7. CASE ~InJob(i)
    <3>1. refs'[i] = refs[i] /\ ~In(n, i)'
      BY <1>1, <1>7, <2>7 DEF InJob
    <3>2. ASSUME NEW g \in DOMAIN files', Open(g)', In(g, i)'
          PROVE  g \in DOMAIN files /\ Open(g)
      BY <1>3, <1>7, <3>1, <3>2
    <3> QED
      BY <1>1, <1>3, <1>7, <2>1, <2>2, <3>1, <3>2, PhaseKept DEF InJob, Posted
  <2> QED
    BY <2>5, <2>6, <2>7 DEF InJob
<1> QED
  BY <1>5, <1>6, <1>8, <1>9 DEF IInv, Phases

LEMMA UploadAndDieGood ==
    ASSUME IInv, UploadAndDie
    PROVE  IInv'
<1>1. /\ files' = Append(files, NewFile(FALSE)) /\ job' = IdleJob
      /\ UNCHANGED <<inv, refunded, refs, receipt, stopped, worker, gl>>
      /\ lost' = lost \cup {"commit"}
  BY DEF UploadAndDie, Lose
<1>2. PICK n \in Nat : n = Len(files) + 1
  BY Types DEF IInv
<1>3. files' \in Seq(File) /\ Len(files') = n /\ FilesAgree'
  BY <1>1, <1>2, FileUploaded
<1>4. worker' \in 0..Len(files') /\ job' \in [reading : BOOLEAN,
        charges : SUBSET Invoices, reversals : SUBSET Invoices]
  BY <1>1, <1>2, <1>3, Types DEF IInv, TypeOK, IdleJob
<1>5. TypeOK'
  BY <1>1, <1>3, <1>4 DEF IInv, TypeOK, Losses
<1> QED
  BY <1>1, <1>3, <1>5 DEF IInv

-----------------------------------------------------------------------------
(* CGI and the worker.                                                     *)

\* A file in which an invoice is, as long as nothing is lost.
LEMMA InvoiceInFile ==
    ASSUME IInv, lost = {}, NEW f \in DOMAIN files, Open(f),
           NEW i \in Invoices, In(f, i)
    PROVE  \/ /\ i \in files[f].charges /\ i \notin files[f].reversals
              /\ inv[i] \in {"APPROVED", "REFUND_REQUESTED"}
              /\ ChargeInFlight(i) /\ OnlyFile(f, i)
              /\ gl[i] = IF Posted(f, i) THEN 1 ELSE 0
           \/ /\ i \in files[f].reversals /\ i \notin files[f].charges
              /\ inv[i] \in {"REFUND_REQUESTED", "REFUNDED"}
              /\ HasFailed(i) /\ Closing(i)
           \/ /\ i \in files[f].reversals /\ i \notin files[f].charges
              /\ inv[i] = "REFUND_REQUESTED"
              /\ ReversalInFlight(i) /\ OnlyFile(f, i)
              /\ gl[i] = IF Posted(f, i) THEN 0 ELSE 1
<1>1. Phase(i) /\ inv[i] \in InvoiceStatus
  BY Types DEF IInv, Phases
<1>2. ~InNoFile(i) /\ (i \in files[f].charges <=> i \notin files[f].reversals)
  BY DEF InNoFile, In, IInv, FilesAgree, FileAgrees
<1>3. \/ inv[i] \in {"APPROVED", "REFUND_REQUESTED"} /\ ChargeInFlight(i)
      \/ inv[i] \in {"REFUND_REQUESTED", "REFUNDED"} /\ HasFailed(i) /\ Closing(i)
      \/ inv[i] = "REFUND_REQUESTED" /\ ReversalInFlight(i)
  BY <1>1, <1>2 DEF Phase, InvoiceStatus, Untouched, Charged, Settled
<1>4. CASE inv[i] \in {"APPROVED", "REFUND_REQUESTED"} /\ ChargeInFlight(i)
  <2>1. PICK g \in DOMAIN files : /\ i \in files[g].charges /\ OnlyFile(g, i)
                                  /\ gl[i] = IF Posted(g, i) THEN 1 ELSE 0
    BY <1>4 DEF ChargeInFlight
  <2>2. f = g
    BY <2>1 DEF OnlyFile
  <2> QED
    BY <1>2, <1>4, <2>1, <2>2
<1>5. CASE inv[i] = "REFUND_REQUESTED" /\ ReversalInFlight(i)
  <2>1. PICK g \in DOMAIN files : /\ i \in files[g].reversals /\ OnlyFile(g, i)
                                  /\ gl[i] = IF Posted(g, i) THEN 0 ELSE 1
    BY <1>5 DEF ReversalInFlight
  <2>2. f = g
    BY <2>1 DEF OnlyFile
  <2> QED
    BY <1>2, <1>5, <2>1, <2>2
<1>6. CASE /\ inv[i] \in {"REFUND_REQUESTED", "REFUNDED"}
           /\ HasFailed(i) /\ Closing(i)
  BY <1>2, <1>6 DEF Closing
<1> QED
  BY <1>3, <1>4, <1>5, <1>6

\* One file is written.
LEMMA FileWritten ==
    ASSUME TypeOK, NEW f \in DOMAIN files, NEW x \in File,
           files' = [files EXCEPT ![f] = x]
    PROVE  /\ files' \in Seq(File) /\ Len(files') = Len(files)
           /\ DOMAIN files' = DOMAIN files /\ files'[f] = x
           /\ \A g \in DOMAIN files : g # f => files'[g] = files[g]
BY DEF TypeOK

LEMMA PostGood ==
    ASSUME IInv, NEW f \in DOMAIN files, NEW failed \in SUBSET Invoices,
           Post(f, failed)
    PROVE  IInv'
<1> DEFINE x == [files[f] EXCEPT !.feedback = "SENT", !.failed = failed]
<1>1. /\ UNCHANGED <<inv, refunded, refs, receipt, stopped, job, worker, lost>>
      /\ files[f].feedback = "NONE"
      /\ failed \subseteq files[f].charges \cup files[f].reversals
  BY DEF Post
<1>2. files[f] \in File
  BY Types DEF IInv
<1>3. x \in File
  BY <1>2 DEF File
<1>4. files' = [files EXCEPT ![f] = x]
  BY <1>2 DEF Post, File
<1>5. /\ files' \in Seq(File) /\ Len(files') = Len(files)
      /\ DOMAIN files' = DOMAIN files /\ files'[f] = x
      /\ \A g \in DOMAIN files : g # f => files'[g] = files[g]
  BY <1>3, <1>4, FileWritten DEF IInv
<1>6. /\ x.charges = files[f].charges /\ x.reversals = files[f].reversals
      /\ x.known = files[f].known /\ x.links = files[f].links
      /\ x.feedback = "SENT" /\ x.failed = failed
  BY <1>2 DEF File
<1> HIDE DEF x
<1>7. \A i \in Invoices :
        gl'[i] = gl[i] + (IF i \in files[f].charges \ failed THEN 1 ELSE 0)
                       - (IF i \in files[f].reversals \ failed THEN 1 ELSE 0)
  BY DEF Post
<1>8. TypeOK'
  <2>1. gl' \in [Invoices -> Int]
    BY Types DEF IInv, Post
  <2> QED
    BY <1>1, <1>5, <2>1 DEF IInv, TypeOK
<1>9. \A g \in DOMAIN files : /\ Open(g)' <=> Open(g)
                              /\ \A i : In(g, i)' <=> In(g, i)
  BY <1>1, <1>5, <1>6 DEF Open, In
<1>10. files[f].failed = {} /\ FilesAgree'
  <2>1. FileAgrees(f) /\ files[f].failed = {}
    BY <1>1 DEF IInv, FilesAgree, FileAgrees
  <2>2. FileAgrees(f)'
    BY <1>1, <1>5, <1>6, <1>9, <2>1 DEF FileAgrees
  <2>3. ASSUME NEW g \in DOMAIN files, g # f PROVE FileAgrees(g)'
    BY <1>5, <1>9, <2>3 DEF IInv, FilesAgree, FileAgrees
  <2> QED
    BY <1>1, <1>5, <2>1, <2>2, <2>3 DEF IInv, FilesAgree
<1>11. ASSUME lost' \subseteq {"refund"} PROVE FilesArrive'
  <2>1. FilesArrive
    BY <1>1, <1>11 DEF IInv
  <2>2. worker # f
    BY <1>1, <2>1 DEF FilesArrive
  <2>3. ASSUME NEW g \in DOMAIN files'
        PROVE  files'[g].known /\ (files'[g].feedback = "RECEIVED" <=> worker' = g)
    <3>1. CASE g = f
      BY <1>1, <1>5, <1>6, <2>1, <2>2, <3>1 DEF FilesArrive
    <3>2. CASE g # f
      BY <1>1, <1>5, <2>1, <3>2 DEF FilesArrive
    <3> QED
      BY <3>1, <3>2
  <2> QED
    BY <1>1, <1>5, <1>9, <2>1, <2>3 DEF FilesArrive, HasRef
<1>12. ASSUME lost' = {}, NEW i \in Invoices PROVE Phase(i)'
  <2>1. lost = {} /\ Phase(i)
    BY <1>1, <1>12 DEF IInv, Phases
  <2>2. Open(f) /\ ~Posted(f, i) /\ (Posted(f, i)' <=> i \notin failed)
    BY <1>1, <1>5, <1>6 DEF Open, Posted
  <2>3. CASE ~In(f, i)
    <3>1. gl'[i] = gl[i]
      BY <1>1, <1>7, <2>3, Types DEF IInv, In
    <3> QED
      BY <1>1, <1>5, <1>6, <1>9, <1>10, <2>1, <2>3, <3>1, PhaseKept DEF Posted
  <2>4. CASE In(f, i)
    <3>1. (HasRef(i, "ACTIVE")' <=> HasRef(i, "ACTIVE")) /\ (InJob(i)' <=> InJob(i))
      BY <1>1 DEF HasRef, InJob
    <3>2. OnlyFile(f, i) => OnlyFile(f, i)'
      BY <1>5, <1>9 DEF OnlyFile
    <3>3. CASE /\ i \in files[f].charges /\ i \notin files[f].reversals
               /\ inv[i] \in {"APPROVED", "REFUND_REQUESTED"}
               /\ ChargeInFlight(i) /\ OnlyFile(f, i)
               /\ gl[i] = IF Posted(f, i) THEN 1 ELSE 0
      <4>1. gl'[i] = IF Posted(f, i)' THEN 1 ELSE 0
        BY <1>7, <2>2, <3>3
      <4>2. ChargeInFlight(i)'
        BY <1>1, <1>5, <1>6, <3>1, <3>2, <3>3, <4>1 DEF ChargeInFlight
      <4> QED
        BY <1>1, <3>3, <4>2 DEF Phase
    <3>4. CASE /\ i \in files[f].reversals /\ i \notin files[f].charges
               /\ inv[i] \in {"REFUND_REQUESTED", "REFUNDED"}
               /\ HasFailed(i) /\ Closing(i)
      <4>1. gl'[i] <= 1
        BY <1>7, <3>4, Types DEF IInv, Closing
      <4>2. \A g \in DOMAIN files' : Open(g)' => i \notin files'[g].charges
        BY <1>5, <1>6, <1>9, <3>4 DEF Closing
      <4>3. Closing(i)'
        BY <1>1, <3>4, <4>1, <4>2 DEF Closing
      <4>4. HasFailed(i)'
        BY <1>5, <1>10, <3>4 DEF HasFailed
      <4> QED
        BY <1>1, <3>4, <4>3, <4>4 DEF Phase
    <3>5. CASE /\ i \in files[f].reversals /\ i \notin files[f].charges
               /\ inv[i] = "REFUND_REQUESTED"
               /\ ReversalInFlight(i) /\ OnlyFile(f, i)
               /\ gl[i] = IF Posted(f, i) THEN 0 ELSE 1
      <4>1. gl'[i] = IF Posted(f, i)' THEN 0 ELSE 1
        BY <1>7, <2>2, <3>5
      <4>2. ReversalInFlight(i)'
        BY <1>1, <1>5, <1>6, <3>1, <3>2, <3>5, <4>1 DEF ReversalInFlight
      <4> QED
        BY <1>1, <3>5, <4>2 DEF Phase
    <3> QED
      BY <2>1, <2>2, <2>4, <3>3, <3>4, <3>5, InvoiceInFile
  <2> QED
    BY <2>3, <2>4
<1> QED
  BY <1>8, <1>10, <1>11, <1>12 DEF IInv, Phases

LEMMA ReceiveFeedbackGood ==
    ASSUME IInv, NEW f \in DOMAIN files, ReceiveFeedback(f)
    PROVE  IInv'
<1> DEFINE x == [files[f] EXCEPT !.feedback = "RECEIVED"]
<1>1. /\ UNCHANGED <<inv, refunded, refs, receipt, stopped, job, gl, lost>>
      /\ worker = 0 /\ worker' = f
      /\ files[f].feedback = "SENT" /\ files' = [files EXCEPT ![f] = x]
  BY DEF ReceiveFeedback
<1>2. files[f] \in File
  BY Types DEF IInv
<1>3. x \in File
  BY <1>2 DEF File
<1>4. /\ files' \in Seq(File) /\ Len(files') = Len(files)
      /\ DOMAIN files' = DOMAIN files /\ files'[f] = x
      /\ \A g \in DOMAIN files : g # f => files'[g] = files[g]
  BY <1>1, <1>3, FileWritten DEF IInv
<1>5. /\ x.charges = files[f].charges /\ x.reversals = files[f].reversals
      /\ x.known = files[f].known /\ x.links = files[f].links
      /\ x.feedback = "RECEIVED" /\ x.failed = files[f].failed
  BY <1>2 DEF File
<1> HIDE DEF x
<1>6. TypeOK'
  BY <1>1, <1>4, Types DEF IInv, TypeOK
<1>7. \A g \in DOMAIN files :
        /\ Open(g)' <=> Open(g)
        /\ \A i : (In(g, i)' <=> In(g, i)) /\ (Posted(g, i)' <=> Posted(g, i))
  BY <1>1, <1>4, <1>5 DEF Open, In, Posted
<1>8. FilesAgree'
  <2>1. ASSUME NEW g \in DOMAIN files PROVE FileAgrees(g)'
    BY <1>1, <1>4, <1>5, <1>7 DEF IInv, FilesAgree, FileAgrees
  <2> QED
    BY <1>1, <1>4, <2>1 DEF IInv, FilesAgree
<1>9. ASSUME lost' \subseteq {"refund"} PROVE FilesArrive'
  <2>1. FilesArrive
    BY <1>1, <1>9 DEF IInv
  <2>2. ASSUME NEW g \in DOMAIN files'
        PROVE  files'[g].known /\ (files'[g].feedback = "RECEIVED" <=> worker' = g)
    <3>1. CASE g = f
      BY <1>1, <1>4, <1>5, <2>1, <3>1 DEF FilesArrive
    <3>2. CASE g # f
      <4>1. g # 0 /\ g \in DOMAIN files
        BY <1>4, Types DEF IInv
      <4> QED
        BY <1>1, <1>4, <2>1, <3>2, <4>1 DEF FilesArrive
    <3> QED
      BY <3>1, <3>2
  <2> QED
    BY <1>1, <1>4, <1>7, <2>1, <2>2 DEF FilesArrive, HasRef
<1>10. ASSUME lost' = {}, NEW i \in Invoices PROVE Phase(i)'
  <2>1. lost = {} /\ Phase(i)
    BY <1>1, <1>10 DEF IInv, Phases
  <2>2. \A g \in DOMAIN files : /\ files'[g].charges = files[g].charges
                                /\ files'[g].reversals = files[g].reversals
                                /\ files'[g].failed = files[g].failed
    BY <1>4, <1>5
  <2> QED
    BY <1>1, <1>4, <1>7, <2>1, <2>2, PhaseKept
<1> QED
  BY <1>6, <1>8, <1>9, <1>10 DEF IInv, Phases

LEMMA ProcessFeedbackGood ==
    ASSUME IInv, ProcessFeedback
    PROVE  IInv'
<1>1. PICK f \in DOMAIN files : f = worker
  BY Types DEF ProcessFeedback, IInv, TypeOK
<1> DEFINE failed == files[f].failed
           posted == (files[f].charges \cup files[f].reversals) \ failed
           links == [i \in Invoices |-> CASE i \in failed -> "ERRORED"
                                          [] i \in posted -> "COMPLETED"
                                          [] OTHER -> "NONE"]
           x == [files[f] EXCEPT !.feedback = "PROCESSED", !.links = links]
<1>2. files[f] \in File
  BY Types DEF IInv
<1>3. failed \subseteq files[f].charges \cup files[f].reversals
  BY DEF IInv, FilesAgree, FileAgrees
<1>4. \A i : i \in failed => i \notin posted
  OBVIOUS
<1>5. \A i : In(f, i) <=> i \in failed \/ i \in posted
  BY <1>3 DEF In
<1>6. failed \subseteq Invoices /\ posted \subseteq Invoices
  BY <1>2 DEF File
<1>7. /\ inv' = [i \in Invoices |-> IF i \in posted THEN StatusAfter(i) ELSE inv[i]]
      /\ refunded' = refunded \cup {i \in posted : IsReversal(i)}
      /\ refs' = [i \in Invoices |-> CASE i \in failed -> RefsWith(i, "CANCELLED")
                                       [] i \in posted -> RefsWith(i, "COMPLETED")
                                       [] OTHER -> refs[i]]
      /\ receipt' = [i \in Invoices |-> IF i \in posted THEN ReceiptAfter(i)
                                                         ELSE receipt[i]]
      /\ stopped' = (stopped \/ failed # {})
      /\ worker' = 0 /\ UNCHANGED <<job, gl, lost>>
  BY <1>1 DEF ProcessFeedback, NotPosted, FailedRef
<1>8. files' = [files EXCEPT ![f] = x]
  BY <1>1, <1>2 DEF ProcessFeedback, NotPosted, File
<1>9. x \in File
  <2>1. links \in [Invoices -> LinkStatus]
    BY <1>4 DEF LinkStatus
  <2> HIDE DEF links
  <2> QED
    BY <1>2, <2>1 DEF File
<1>10. /\ x.charges = files[f].charges /\ x.reversals = files[f].reversals
       /\ x.known = files[f].known
       /\ x.feedback = "PROCESSED" /\ x.failed = failed
  BY <1>2 DEF File
<1> HIDE DEF x, links
<1>11. /\ files' \in Seq(File) /\ Len(files') = Len(files)
       /\ DOMAIN files' = DOMAIN files /\ files'[f] = x
       /\ \A g \in DOMAIN files : g # f => files'[g] = files[g]
  BY <1>8, <1>9, FileWritten DEF IInv
<1>12. /\ ~Open(f)'
       /\ \A g \in DOMAIN files : /\ g # f => (Open(g)' <=> Open(g))
                                  /\ \A i : In(g, i)' <=> In(g, i)
  BY <1>10, <1>11 DEF Open, In
<1> HIDE DEF failed, posted
<1>13. ASSUME NEW i \in Invoices
       PROVE  /\ i \in failed => refs'[i] = RefsWith(i, "CANCELLED")
              /\ i \in posted => refs'[i] = RefsWith(i, "COMPLETED")
              /\ ~In(f, i) => /\ refs'[i] = refs[i] /\ inv'[i] = inv[i]
                              /\ receipt'[i] = receipt[i]
              /\ i \in posted => inv'[i] = StatusAfter(i) /\ receipt'[i] = ReceiptAfter(i)
              /\ i \in failed => inv'[i] = inv[i] /\ receipt'[i] = receipt[i]
  BY <1>4, <1>5, <1>7
<1>14. \A i \in Invoices : refs[i] \in Seq(RefStatus) /\ receipt[i] \in Nat
  BY Types DEF IInv
<1>15. ASSUME NEW i \in Invoices, In(f, i)
       PROVE  /\ refs'[i] \in Seq(RefStatus) /\ ~HasRef(i, "ACTIVE")'
              /\ OneActive(refs'[i])
              /\ i \in posted /\ HasRef(i, "ACTIVE") => HasRef(i, "COMPLETED")'
  BY <1>5, <1>13, <1>14, <1>15, RefsAfterFeedback DEF HasRef
<1>16. TypeOK'
  <2>1. refs' \in [Invoices -> Seq(RefStatus)]
    BY <1>7, <1>13, <1>14, <1>15
  <2>2. inv' \in [Invoices -> InvoiceStatus]
    BY <1>7, Types DEF IInv, StatusAfter, InvoiceStatus
  <2>3. receipt' \in [Invoices -> Nat]
    BY <1>7, Types DEF IInv, ReceiptAfter
  <2>4. stopped' \in BOOLEAN /\ refunded' \subseteq Invoices
    BY <1>6, <1>7 DEF IInv, TypeOK
  <2>5. worker' \in 0..Len(files')
    BY <1>7, <1>11, Types DEF IInv
  <2> QED
    BY <1>7, <1>11, <2>1, <2>2, <2>3, <2>4, <2>5 DEF IInv, TypeOK
<1>17. FilesAgree'
  <2>1. FileAgrees(f)'
    BY <1>10, <1>11, <1>12 DEF IInv, FilesAgree, FileAgrees, failed
  <2>2. ASSUME NEW g \in DOMAIN files, g # f PROVE FileAgrees(g)'
    BY <1>11, <1>12, <2>2 DEF IInv, FilesAgree, FileAgrees
  <2> QED
    BY <1>7, <1>11, <2>1, <2>2 DEF IInv, FilesAgree
<1>18. ASSUME lost' \subseteq {"refund"} PROVE FilesArrive'
  <2>1. FilesArrive
    BY <1>7, <1>18 DEF IInv
  <2>2. ASSUME NEW g \in DOMAIN files'
        PROVE  files'[g].known /\ (files'[g].feedback = "RECEIVED" <=> worker' = g)
    <3>1. worker' # g
      BY <1>7, <1>11, Types DEF IInv
    <3>2. CASE g = f
      BY <1>10, <1>11, <2>1, <3>1, <3>2 DEF FilesArrive
    <3>3. CASE g # f
      BY <1>1, <1>11, <2>1, <3>1, <3>3 DEF FilesArrive
    <3> QED
      BY <3>2, <3>3
  <2>3. ASSUME NEW i \in Invoices
        PROVE  /\ OneActive(refs'[i])
               /\ HasRef(i, "ACTIVE")' => \E g \in DOMAIN files' : Open(g)' /\ In(g, i)'
    <3>1. CASE In(f, i)
      BY <1>15, <3>1
    <3>2. CASE ~In(f, i)
      BY <1>11, <1>12, <1>13, <2>1, <3>2 DEF FilesArrive, HasRef
    <3> QED
      BY <3>1, <3>2
  <2> QED
    BY <2>2, <2>3 DEF FilesArrive
<1>19. ASSUME lost' = {}, NEW i \in Invoices PROVE Phase(i)'
  <2>1. lost = {} /\ Phase(i) /\ FilesArrive
    BY <1>7, <1>19 DEF IInv, Phases
  <2>2. files[f].feedback = "RECEIVED" /\ Open(f)
    BY <1>1, <2>1 DEF FilesArrive, Open
  <2>3. Posted(f, i) <=> i \notin failed
    BY <2>2 DEF Posted, failed
  <2>4. gl'[i] = gl[i] /\ (InJob(i)' <=> InJob(i)) /\ job' = job
    BY <1>7 DEF InJob
  <2>5. \A g \in DOMAIN files : /\ files'[g].charges = files[g].charges
                                /\ files'[g].reversals = files[g].reversals
                                /\ files'[g].failed = files[g].failed
    BY <1>10, <1>11 DEF failed
  <2>6. CASE ~In(f, i)
    <3>1. ASSUME NEW g \in DOMAIN files, In(g, i)
          PROVE  (Open(g)' <=> Open(g)) /\ (Posted(g, i)' <=> Posted(g, i))
      BY <1>11, <1>12, <2>6, <3>1 DEF Posted
    <3>2. ASSUME NEW g \in DOMAIN files', Open(g)', In(g, i)'
          PROVE  g \in DOMAIN files /\ Open(g)
      BY <1>11, <1>12, <3>2
    <3> QED
      BY <1>11, <1>13, <2>1, <2>4, <2>5, <2>6, <3>1, <3>2, PhaseKept
  <2>7. CASE In(f, i)
    <3>1. i \in failed => HasFailed(i)'
      BY <1>11, <2>5 DEF HasFailed, failed
    <3>2. OnlyFile(f, i) => InNoFile(i)'
      BY <1>11, <1>12 DEF OnlyFile, InNoFile
    <3>3. i \in failed \/ i \in posted
      BY <1>5, <2>7
    <3>4. gl[i] \in Int /\ Lines \in Nat \ {0}
      BY Types DEF IInv
    <3>5. CASE /\ i \in files[f].charges /\ i \notin files[f].reversals
               /\ inv[i] \in {"APPROVED", "REFUND_REQUESTED"}
               /\ ChargeInFlight(i) /\ OnlyFile(f, i)
               /\ gl[i] = IF Posted(f, i) THEN 1 ELSE 0
      <4>1. HasRef(i, "ACTIVE") /\ ~InJob(i) /\ receipt[i] = 0
        BY <3>5 DEF ChargeInFlight
      <4>2. CASE i \in failed
        <5>1. Untouched(i)'
          BY <1>13, <1>15, <2>3, <2>4, <2>7, <3>2, <3>5, <4>1, <4>2 DEF Untouched
        <5>2. (HasFailed(i) /\ Closing(i))'
          BY <1>11, <2>3, <2>4, <3>1, <3>2, <3>4, <3>5, <4>1, <4>2
             DEF Closing, InJob, InNoFile, In
        <5>3. inv'[i] = inv[i] /\ i \notin job'.reversals
          BY <1>13, <2>4, <4>1, <4>2 DEF InJob
        <5> QED
          BY <3>5, <5>1, <5>2, <5>3 DEF Phase
      <4>3. CASE i \in posted /\ inv[i] = "APPROVED"
        <5>1. inv'[i] = "PAID" /\ receipt'[i] = Lines
          BY <1>13, <3>4, <4>1, <4>3 DEF StatusAfter, ReceiptAfter, IsReversal
        <5>2. i \notin failed /\ gl'[i] = 1
          BY <1>4, <2>3, <2>4, <3>5, <4>3
        <5>3. ~InJob(i)' /\ i \notin job'.charges
          BY <2>4, <4>1 DEF InJob
        <5>4. /\ ~HasRef(i, "ACTIVE")' /\ HasRef(i, "COMPLETED")'
              /\ InNoFile(i)'
          BY <1>15, <2>7, <3>2, <3>5, <4>1, <4>3
        <5>5. Charged(i)'
          BY <5>1, <5>2, <5>3, <5>4 DEF Charged
        <5> QED
          BY <5>1, <5>3, <5>5 DEF Phase
      <4>4. CASE i \in posted /\ inv[i] = "REFUND_REQUESTED"
        <5>1. inv'[i] = "REFUNDED" /\ receipt'[i] = 0
          BY <1>13, <4>1, <4>4 DEF StatusAfter, ReceiptAfter, IsReversal
        <5>2. i \notin failed /\ gl'[i] = 1
          BY <1>4, <2>3, <2>4, <3>5, <4>4
        <5>3. Settled(i)'
          BY <2>4, <3>2, <3>5, <4>1, <5>1, <5>2 DEF Settled
        <5> QED
          BY <5>1, <5>3 DEF Phase
      <4> QED
        BY <3>3, <3>5, <4>2, <4>3, <4>4
    <3>6. CASE /\ i \in files[f].reversals /\ i \notin files[f].charges
               /\ inv[i] \in {"REFUND_REQUESTED", "REFUNDED"}
               /\ HasFailed(i) /\ Closing(i)
      <4>1. HasFailed(i)' /\ Closing(i)'
        BY <1>11, <1>12, <2>4, <2>5, <3>6 DEF HasFailed, Closing
      <4>2. inv'[i] \in {"REFUND_REQUESTED", "REFUNDED"}
        BY <1>13, <3>3, <3>6 DEF StatusAfter, IsReversal
      <4> QED
        BY <4>1, <4>2 DEF Phase
    <3>7. CASE /\ i \in files[f].reversals /\ i \notin files[f].charges
               /\ inv[i] = "REFUND_REQUESTED"
               /\ ReversalInFlight(i) /\ OnlyFile(f, i)
               /\ gl[i] = IF Posted(f, i) THEN 0 ELSE 1
      <4>1. HasRef(i, "ACTIVE") /\ ~InJob(i) /\ receipt[i] = Lines
        BY <3>7 DEF ReversalInFlight
      <4>2. CASE i \in failed
        <5>1. (HasFailed(i) /\ Closing(i))'
          BY <1>11, <2>3, <2>4, <3>1, <3>2, <3>4, <3>7, <4>1, <4>2
             DEF Closing, InJob, InNoFile, In
        <5> QED
          BY <1>13, <3>7, <4>2, <5>1 DEF Phase
      <4>3. CASE i \in posted
        <5>1. inv'[i] = "REFUNDED" /\ receipt'[i] = Lines
          BY <1>13, <1>14, <3>7, <4>1, <4>3 DEF StatusAfter, ReceiptAfter, IsReversal
        <5>2. i \notin failed /\ gl'[i] = 0
          BY <1>4, <2>3, <2>4, <3>7, <4>3
        <5>3. Settled(i)'
          BY <2>4, <3>2, <3>7, <4>1, <5>2 DEF Settled
        <5> QED
          BY <5>1, <5>3 DEF Phase
      <4> QED
        BY <3>3, <4>2, <4>3
    <3> QED
      BY <2>1, <2>2, <2>7, <3>5, <3>6, <3>7, InvoiceInFile
  <2> QED
    BY <2>6, <2>7
<1> QED
  BY <1>16, <1>17, <1>18, <1>19 DEF IInv, Phases

LEMMA WorkerDiesGood ==
    ASSUME IInv, WorkerDies
    PROVE  IInv'
<1>1. /\ UNCHANGED <<inv, refunded, refs, receipt, stopped, job, files, gl>>
      /\ worker' = 0 /\ lost' = lost \cup {"worker"}
  BY DEF WorkerDies, Lose
<1>2. TypeOK'
  BY <1>1, Types DEF IInv, TypeOK, Losses
<1>3. FilesAgree'
  BY <1>1 DEF IInv, FilesAgree, FileAgrees, In, Open
<1> QED
  BY <1>1, <1>2, <1>3 DEF IInv

-----------------------------------------------------------------------------
(* Theorems.                                                               *)

LEMMA StutterGood ==
    ASSUME IInv, UNCHANGED vars
    PROVE  IInv'
<1>1. TypeOK'
  BY DEF IInv, TypeOK, vars
<1> QED
  BY <1>1, RequestGood DEF vars

LEMMA NextGood == IInv /\ [Next]_vars => IInv'
<1> SUFFICES ASSUME IInv, [Next]_vars PROVE IInv'
  OBVIOUS
<1>1. CASE UNCHANGED vars
  BY <1>1, StutterGood
<1>2. CASE \E i \in Invoices : CreateInvoice(i) \/ Refund(i) \/ RefundPartially(i)
  BY <1>2, CreateInvoiceGood, RefundGood, OtherRequestsGood
<1>3. CASE CorrectDistribution
  BY <1>3, OtherRequestsGood
<1>4. CASE ReadInvoices \/ UploadAndCommit \/ UploadAndDie
  BY <1>4, ReadInvoicesGood, UploadAndCommitGood, UploadAndDieGood
<1>5. CASE \E f \in DOMAIN files : \/ \E failed \in SUBSET Invoices : Post(f, failed)
                                   \/ ReceiveFeedback(f)
  BY <1>5, PostGood, ReceiveFeedbackGood
<1>6. CASE ProcessFeedback \/ WorkerDies
  BY <1>6, ProcessFeedbackGood, WorkerDiesGood
<1> QED
  BY <1>1, <1>2, <1>3, <1>4, <1>5, <1>6 DEF Next

LEMMA Invariance == Spec => []IInv
<1>1. Init => IInv
  BY InitGood
<1>2. IInv /\ [Next]_vars => IInv'
  BY NextGood
<1> QED
  BY <1>1, <1>2, PTL DEF Spec

\* Every invoice, file and reference stays well formed.
THEOREM TypeCorrect == Spec => []TypeOK
<1>1. IInv => TypeOK
  BY DEF IInv
<1> QED
  BY <1>1, Invariance, PTL

LEMMA OneActiveReference ==
    ASSUME NEW s, OneActive(s)
    PROVE  Cardinality({r \in DOMAIN s : s[r] = "ACTIVE"}) <= 1
<1> DEFINE A == {r \in DOMAIN s : s[r] = "ACTIVE"}
<1>1. CASE A = {}
  BY <1>1, FS_EmptySet
<1>2. CASE A # {}
  <2>1. PICK r \in A : TRUE
    BY <1>2
  <2>2. A = {r}
    BY <2>1 DEF OneActive
  <2> QED
    BY <2>2, FS_Singleton
<1> QED
  BY <1>1, <1>2

\* An active reference keeps an invoice out of further files (ejv_payment_task.py,
\* _get_invoices_for_payment); it is that of one file whose feedback is yet to be
\* processed, unless the commit of the job or of the worker was lost.
THEOREM ActiveInFlight == Spec => []ActiveIsInFlight
<1>1. IInv => ActiveIsInFlight
  <2> SUFFICES ASSUME IInv, lost \subseteq {"refund"}, NEW i \in Invoices
               PROVE  /\ Cardinality({r \in DOMAIN refs[i] : refs[i][r] = "ACTIVE"}) <= 1
                      /\ HasRef(i, "ACTIVE") =>
                           \E f \in DOMAIN files :
                              /\ files[f].feedback # "PROCESSED"
                              /\ files[f].links[i] = "UPLOADED"
    BY DEF ActiveIsInFlight
  <2>1. FilesArrive
    BY DEF IInv
  <2>2. Cardinality({r \in DOMAIN refs[i] : refs[i][r] = "ACTIVE"}) <= 1
    BY <2>1, OneActiveReference DEF FilesArrive
  <2>3. ASSUME HasRef(i, "ACTIVE")
        PROVE  \E f \in DOMAIN files : /\ files[f].feedback # "PROCESSED"
                                       /\ files[f].links[i] = "UPLOADED"
    <3>1. PICK f \in DOMAIN files : Open(f) /\ In(f, i)
      BY <2>1, <2>3 DEF FilesArrive
    <3> QED
      BY <3>1 DEF IInv, FilesAgree, FileAgrees, Open
  <2> QED
    BY <2>2, <2>3
<1> QED
  BY <1>1, Invariance, PTL

\* What CGI has posted for an invoice is what its status says, whatever order its
\* files, their feedback and the requests for refunds come in, when nothing is lost.
THEOREM LedgerMatches == Spec => []LedgerMatchesInvoices
<1>1. IInv => LedgerMatchesInvoices
  <2> SUFFICES ASSUME IInv, lost = {}, NEW i \in Invoices
               PROVE  /\ gl[i] <= 1
                      /\ ~HasFailed(i) => gl[i] >= 0
                      /\ inv[i] = "PAID" => gl[i] = 1 /\ receipt[i] = Lines
                      /\ inv[i] = "REFUNDED" /\ receipt[i] > 0 /\ ~HasFailed(i)
                           => gl[i] = 0
                      /\ inv[i] = "CANCELLED" => gl[i] = 0
    BY DEF LedgerMatchesInvoices, ChargedOnce, PaidIsCharged, RefundedIsReversed,
       CancelledIsNotCharged
  <2>1. Phase(i) /\ inv[i] \in InvoiceStatus
    BY Types DEF IInv, Phases
  <2>2. ChargeInFlight(i) \/ ReversalInFlight(i) => gl[i] \in {0, 1}
    BY DEF ChargeInFlight, ReversalInFlight
  <2> QED
    BY <2>1, <2>2 DEF Phase, InvoiceStatus, Untouched, Closing, Charged, Settled
<1> QED
  BY <1>1, Invariance, PTL

=============================================================================
