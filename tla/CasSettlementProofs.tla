------------------------- MODULE CasSettlementProofs -------------------------
(***************************************************************************)
(* Proofs about CasSettlement, for any number of invoices, accounts, rows, *)
(* restarts and losses.                                                    *)
(*                                                                         *)
(* The invariant is about numbers.  A number is live for an item while the *)
(* item has an ACTIVE or COMPLETED reference with it: OneLive says that an *)
(* item has one live number at most, and all the rest hangs on it.         *)
(* Receipts and status follow the completed reference; what waits to be    *)
(* billed has no live number; what CFS stands for is live, or the job is   *)
(* about to make it so; and a fee gets its number, and CFS its amount,     *)
(* only after the row of the return is in non_sufficient_funds.            *)
(***************************************************************************)
EXTENDS CasSettlement, SumTheorems, SequenceTheorems
-----------------------------------------------------------------------------
(* The inductive invariant.                                                *)

\* The rows of a file, and what becomes of a file.
File == Seq(Row)
SettlementStatus == {"NONE", "STARTED", "PROCESSED", "REMOVED"}

Live(x, n) == refs[x][n] \in {"ACTIVE", "COMPLETED"}

NoLive(x) == \A n \in Numbers : ~Live(x, n)

HasCompleted(x) == \E n \in Numbers : refs[x][n] = "COMPLETED"

\* What an invoice was found to be when a number was first given to it stays so.
KnownAs(i, method) == inv[i].method = method /\ inv[i].status # "NONE"

\* A file has a row.
Filled(S) == \A f \in DOMAIN S : 1 \in DOMAIN S[f]

InvoicesTyped ==
    /\ inv \in [Items -> Invoice]
    /\ refs \in [Items -> [Numbers -> RefStatus]]
    /\ receipts \in [Items -> Nat]
    /\ refunded \subseteq Invoices

AccountsTyped ==
    /\ account \in [Accounts -> [status : {"ACTIVE", "FREEZE"}, nsf : BOOLEAN]]
    /\ site \in [Accounts -> {"PAD_DAILY", "PAD_STOP"}]
    /\ paying \in [Accounts -> {"NO", "COMPLETED", "DAILY"}]

PaymentsTyped == payments \in Seq(Payment)

CfsTyped ==
    /\ cfs \in [Numbers -> CfsInvoice]
    /\ nsf \subseteq Numbers

FilesTyped ==
    /\ files \in Seq(File)
    /\ settlement \in Seq(SettlementStatus)
    /\ Len(settlement) = Len(files)
    /\ Filled(files)

\* The worker is at a row of a file it received.
WorkTyped ==
    /\ work \in [phase : Phases, file : Nat, row : Nat]
    /\ work.phase = "IDLE" => work = IdleWork
    /\ work.phase # "IDLE" => /\ work.file \in DOMAIN files
                              /\ work.row \in DOMAIN files[work.file]

BillTyped ==
    /\ bill \in [items : SUBSET Invoices, number : Numbers \cup {0}]
    /\ bill = NoBill \/ bill.number \in bill.items

CountsTyped ==
    /\ restarts \in 0..MaxRestarts
    /\ lost \subseteq Losses

Typed ==
    /\ InvoicesTyped /\ AccountsTyped /\ PaymentsTyped /\ CfsTyped
    /\ FilesTyped /\ WorkTyped /\ BillTyped /\ CountsTyped

\* An invoice is owed or paid under one number at most.
OneLive ==
    \A x \in Items : \A m, n \in Numbers : Live(x, m) /\ Live(x, n) => m = n

\* Receipts count the completed references, and the status follows them.
ReceiptsCount ==
    \A x \in Items : inv[x].method # "ONLINE_BANKING" =>
        receipts[x] = IF HasCompleted(x) THEN 1 ELSE 0

StatusFollows ==
    \A x \in Items :
        /\ inv[x].status = "PAID" => HasCompleted(x)
        /\ inv[x].status = "SETTLEMENT_SCHEDULED" /\ inv[x].method # "ONLINE_BANKING"
               => ~HasCompleted(x)

\* An invoice that waits to be billed is neither owed nor paid under a number.
Unbilled ==
    \A i \in Invoices :
        /\ inv[i].status = "NONE" => inv[i].method = "PAD" /\ NoLive(i)
        /\ inv[i].status = "APPROVED" => ~HasCompleted(i)
        /\ inv[i].status = "CREATED" /\ inv[i].method = "ONLINE_BANKING" => NoLive(i)

BillWaits ==
    \A i \in bill.items : KnownAs(i, "PAD") /\ NoLive(i)

\* The items that have the number of an invoice: debits with debits and the fee
\* of their return, a deposit with itself.
ItemOf(x, n) ==
    \/ x = n /\ inv[n].status # "NONE"
    \/ x = Fee(n) /\ KnownAs(n, "PAD")
    \/ x \in Invoices /\ KnownAs(x, "PAD") /\ KnownAs(n, "PAD")

NumbersKept ==
    /\ \A x \in Items : \A n \in Invoices : Live(x, n) => ItemOf(x, n)
    /\ \A n \in Invoices : cfs[n].status # "NONE" => inv[n].status # "NONE"

\* A row is about an invoice of its kind.
RowAbout(r) ==
    /\ r.number \in Invoices
    /\ KnownAs(r.number, IF r.type = "BOLP" THEN "ONLINE_BANKING" ELSE "PAD")
    /\ r.status = "NOT_PAID" => r.type # "BOLP"

RowsKept == \A f \in DOMAIN files : \A k \in DOMAIN files[f] : RowAbout(files[f][k])

\* A fee is for a return that is recorded, and the worker adjusts it once.
FeesKept ==
    /\ \A x \in Items \ Invoices : inv[x].method = "CC"
    /\ \A x \in Items \ Invoices : x - NumInvoices \notin nsf => NoLive(x)
    /\ \A n \in Numbers : cfs[n].fees <= 1 /\ (n \notin nsf => cfs[n].fees = 0)

Returning ==
    /\ work.phase = "NSF_ROW" => row.number \notin nsf
    /\ work.phase = "NSF_REFERENCE" => NoLive(Fee(row.number))
    /\ work.phase \in {"NSF_REFERENCE", "NSF_ADJUSTMENT"} =>
         row.number \in nsf /\ cfs[row.number].fees = 0
    /\ work.phase \in {"NSF_ROW", "NSF_REFERENCE", "NSF_ADJUSTMENT"} =>
         row.status = "NOT_PAID"

\* What CFS asks for is referred to, or is about to be.
Standing(n) == cfs[n].status \notin {"NONE", "REVERSED"}

Referred ==
    "answer" \notin lost =>
        \A n \in Numbers : Standing(n) => \A x \in cfs[n].bills :
            Live(x, n) \/ (bill.number = n /\ x \in bill.items)

IInv ==
    /\ Typed
    /\ OneLive /\ ReceiptsCount /\ StatusFollows
    /\ Unbilled /\ BillWaits /\ NumbersKept /\ RowsKept
    /\ FeesKept /\ Returning /\ Referred

-----------------------------------------------------------------------------
(* Lemmas about the operators.                                             *)

LEMMA Sets ==
    /\ NumInvoices \in Nat /\ Total = 2
    /\ Invoices \subseteq Numbers /\ Invoices \subseteq Items
    /\ Numbers \subseteq Nat \ {0} /\ Items \subseteq Nat \ {0}
    /\ \A i \in Invoices : Fee(i) \in Items
    /\ \A n \in Numbers : Fee(n) \notin Invoices /\ Fee(n) - NumInvoices = n
BY SettlementConstants DEF Invoices, Numbers, Items, Fee, Total

LEMMA MinMember ==
    ASSUME NEW N, N \subseteq Nat, N # {}
    PROVE  Min(N) \in N
<1>1. \E m \in N : \A n \in N : m <= n
  BY LeastMember
<1> QED
  BY <1>1 DEF Min

LEMMA SeqPut ==
    ASSUME NEW S, NEW s \in Seq(S), NEW f, NEW v \in S
    PROVE  [s EXCEPT ![f] = v] \in Seq(S) /\ Len([s EXCEPT ![f] = v]) = Len(s)
<1>1. CASE f \in 1..Len(s)
  BY <1>1, ExceptSeq
<1>2. CASE f \notin 1..Len(s)
  <2>1. [s EXCEPT ![f] = v] = s
    BY <1>2
  <2> QED
    BY <2>1
<1> QED
  BY <1>1, <1>2

LEMMA ItemTyped ==
    ASSUME InvoicesTyped, NEW x \in Items
    PROVE  /\ inv[x] \in Invoice /\ inv[x].method \in {"PAD", "ONLINE_BANKING", "CC"}
           /\ inv[x].status \in InvoiceStatus /\ inv[x].paid \in 0..Total
           /\ receipts[x] \in Nat /\ refs[x] \in [Numbers -> RefStatus]
           /\ \A n \in Numbers : refs[x][n] \in RefStatus
BY DEF InvoicesTyped, Invoice

LEMMA NumberTyped ==
    ASSUME CfsTyped, NEW n \in Numbers
    PROVE  /\ cfs[n] \in CfsInvoice /\ cfs[n].bills \subseteq Items /\ cfs[n].fees \in Nat
           /\ cfs[n].status \in {"NONE", "OPEN", "PAID", "RETURNED", "REVERSED", "CARD"}
BY DEF CfsTyped, CfsInvoice

LEMMA TypedIsTypeOK ==
    ASSUME Typed
    PROVE  TypeOK
<1>1. files \in Seq(Seq(Row))
  BY DEF Typed, FilesTyped, File
<1>2. work \in [phase : Phases, file : 0..Len(files), row : Nat]
  <2>1. PICK fs \in Seq(File) : fs = files
    BY DEF Typed, FilesTyped
  <2>2. PICK w \in [phase : Phases, file : Nat, row : Nat] : w = work
    BY DEF Typed, WorkTyped
  <2>3. DOMAIN fs = 1..Len(fs) /\ Len(fs) \in Nat
    OBVIOUS
  <2>4. w.phase = "IDLE" => w.file = 0
    BY <2>2 DEF Typed, WorkTyped, IdleWork
  <2>5. w.phase # "IDLE" => w.file \in DOMAIN fs
    BY <2>1, <2>2 DEF Typed, WorkTyped
  <2>6. w.file \in 0..Len(fs)
    BY <2>3, <2>4, <2>5
  <2> QED
    BY <2>1, <2>2, <2>6
<1> QED
  BY <1>1, <1>2 DEF SettlementStatus, Typed, TypeOK, InvoicesTyped, AccountsTyped, PaymentsTyped, CfsTyped,
     FilesTyped, BillTyped, CountsTyped

LEMMA RowOf ==
    ASSUME FilesTyped, WorkTyped, work.phase # "IDLE"
    PROVE  /\ row \in Row /\ row = files[work.file][work.row]
           /\ work.file \in DOMAIN files /\ files[work.file] \in Seq(Row)
           /\ work.row \in DOMAIN files[work.file]
           /\ work.row \in 1..Len(files[work.file]) /\ Len(files[work.file]) \in Nat
           /\ row.number \in Numbers /\ row.type \in {"PAD", "PADR", "BOLP"}
           /\ row.status \in {"PAID", "NOT_PAID", "PARTIAL"}
<1>1. files \in Seq(File) /\ work.file \in DOMAIN files
  BY DEF FilesTyped, WorkTyped
<1>2. PICK s \in Seq(Row) : s = files[work.file]
  <2>1. files[work.file] \in File
    BY <1>1
  <2> QED
    BY <2>1 DEF File
<1>3. PICK k : k = work.row
  OBVIOUS
<1>4. k \in DOMAIN s
  BY <1>2, <1>3 DEF WorkTyped
<1>5. k \in 1..Len(s) /\ Len(s) \in Nat /\ s[k] \in Row
  BY <1>4
<1>6. row = s[k]
  BY <1>2, <1>3 DEF row
<1>7. \A r \in Row : r.number \in Numbers /\ r.type \in {"PAD", "PADR", "BOLP"}
                     /\ r.status \in {"PAID", "NOT_PAID", "PARTIAL"}
  BY DEF Row
<1> QED
  BY <1>1, <1>2, <1>3, <1>4, <1>5, <1>6, <1>7

\* A row that is written goes behind the others and moves none of them.
LEMMA WriteRow ==
    ASSUME FilesTyped,
           NEW type \in {"PAD", "PADR", "BOLP"}, NEW n \in Numbers,
           NEW status \in {"PAID", "NOT_PAID", "PARTIAL"}, Write(type, n, status)
    PROVE  /\ files' \in Seq(File) /\ Len(files) <= Len(files') /\ Len(files') \in Nat
           /\ settlement' \in Seq(SettlementStatus)
           /\ Len(settlement') = Len(files')
           /\ Filled(files')
           /\ DOMAIN files \subseteq DOMAIN files'
           /\ \A f \in DOMAIN files : \A k \in DOMAIN files[f] :
                k \in DOMAIN files'[f] /\ files'[f][k] = files[f][k]
           /\ \A f \in DOMAIN files' : \A k \in DOMAIN files'[f] :
                \/ f \in DOMAIN files /\ k \in DOMAIN files[f] /\ files'[f][k] = files[f][k]
                \/ files'[f][k] = [type |-> type, number |-> n, status |-> status]
<1>1. PICK new \in Row : new = [type |-> type, number |-> n, status |-> status]
  BY DEF Row
<1>2. PICK fs \in Seq(File) : fs = files
  BY DEF FilesTyped
<1>3. PICK last \in Nat : last = Len(fs)
  OBVIOUS
<1>4. PICK ss \in Seq(SettlementStatus) : ss = settlement
  BY DEF FilesTyped
<1>5. Len(ss) = last /\ DOMAIN fs = 1..last /\ DOMAIN ss = 1..last
  BY <1>2, <1>3, <1>4 DEF FilesTyped
<1>6. \/ /\ files' = Append(fs, <<new>>)
         /\ settlement' = Append(ss, "NONE")
      \/ /\ last > 0
         /\ files' = [fs EXCEPT ![last] = Append(@, new)]
         /\ settlement' = ss
  BY <1>1, <1>2, <1>3, <1>4 DEF Write
<1>7. CASE files' = Append(fs, <<new>>) /\ settlement' = Append(ss, "NONE")
  <2>1. /\ <<new>> \in File /\ DOMAIN <<new>> = {1}
        /\ <<new>>[1] = new
    BY DEF File
  <2>2. /\ files' \in Seq(File) /\ Len(files') = last + 1 /\ DOMAIN files' = 1..(last + 1)
        /\ files'[last + 1] = <<new>> /\ \A f \in 1..last : files'[f] = fs[f]
    <3>1. PICK one \in File : one = <<new>>
      BY <2>1
    <3>2. files' = Append(fs, one)
      BY <1>7, <3>1
    <3> QED
      BY <1>3, <1>5, <3>1, <3>2
  <2>3. /\ settlement' \in Seq(SettlementStatus)
        /\ Len(settlement') = last + 1
    BY <1>4, <1>5, <1>7 DEF SettlementStatus
  <2>4. \A f \in DOMAIN files' : f \in DOMAIN fs \/ f = last + 1
    BY <1>5, <2>2
  <2>5. DOMAIN fs \subseteq DOMAIN files'
    BY <1>5, <2>2
  <2>6. Filled(files')
    BY <1>2, <1>5, <2>1, <2>2, <2>4 DEF FilesTyped, Filled
  <2> QED
    BY <2>6, <1>1, <1>2, <1>3, <1>5, <2>1, <2>2, <2>3, <2>4, <2>5
<1>8. CASE last > 0 /\ files' = [fs EXCEPT ![last] = Append(@, new)] /\ settlement' = ss
  <2>1. PICK s \in Seq(Row) : s = fs[last]
    <3>1. fs[last] \in File
      BY <1>5, <1>8
    <3> QED
      BY <3>1 DEF File
  <2>2. PICK t \in Seq(Row) : t = Append(s, new)
    <3>1. Append(s, new) \in Seq(Row)
      BY AppendProperties
    <3> QED
      BY <3>1
  <2>3. PICK k \in Nat : k = Len(s)
    OBVIOUS
  <2>4. /\ Len(t) = k + 1 /\ DOMAIN t = 1..(k + 1) /\ DOMAIN s = 1..k /\ t[k + 1] = new
        /\ \A j \in 1..k : t[j] = s[j]
    BY <2>2, <2>3
  <2>5. 1 \in DOMAIN t /\ last \in DOMAIN fs
    BY <1>5, <1>8, <2>4
  <2>6. files' = [fs EXCEPT ![last] = t]
    BY <1>8, <2>1, <2>2
  <2>7. /\ files' \in Seq(File) /\ Len(files') = last /\ DOMAIN files' = DOMAIN fs
        /\ files'[last] = t /\ \A f \in DOMAIN fs : f # last => files'[f] = fs[f]
    <3>1. t \in File
      BY DEF File
    <3> QED
      BY <1>3, <2>5, <2>6, <3>1
  <2>8. \A j \in DOMAIN t : j \in DOMAIN s \/ j = k + 1
    BY <2>4
  <2>9. \A j \in DOMAIN s : j \in DOMAIN t /\ t[j] = s[j]
    BY <2>4
  <2>10. \A f \in DOMAIN files' : \A j \in DOMAIN files'[f] :
           \/ f \in DOMAIN fs /\ j \in DOMAIN fs[f] /\ files'[f][j] = fs[f][j]
           \/ files'[f][j] = new
    BY <2>1, <2>4, <2>7, <2>8, <2>9
  <2>11. \A f \in DOMAIN fs : \A j \in DOMAIN fs[f] :
           j \in DOMAIN files'[f] /\ files'[f][j] = fs[f][j]
    BY <2>1, <2>7, <2>9
  <2>12. Filled(files')
    BY <1>2, <2>5, <2>7 DEF FilesTyped, Filled
  <2> QED
    BY <2>12, <1>1, <1>2, <1>3, <1>4, <1>5, <1>8, <2>5, <2>7, <2>10, <2>11
<1> QED
  BY <1>6, <1>7, <1>8

-----------------------------------------------------------------------------
(* The types are kept.                                                     *)

LEMMA SameTyped ==
    /\ InvoicesTyped /\ UNCHANGED <<inv, refs, receipts, refunded>> => InvoicesTyped'
    /\ AccountsTyped /\ UNCHANGED <<account, site, paying>> => AccountsTyped'
    /\ PaymentsTyped /\ UNCHANGED payments => PaymentsTyped'
    /\ CfsTyped /\ UNCHANGED <<cfs, nsf>> => CfsTyped'
    /\ FilesTyped /\ UNCHANGED <<files, settlement>> => FilesTyped'
    /\ WorkTyped /\ UNCHANGED <<work, files>> => WorkTyped'
    /\ BillTyped /\ UNCHANGED bill => BillTyped'
    /\ CountsTyped /\ UNCHANGED <<restarts, lost>> => CountsTyped'
<1>1. InvoicesTyped /\ UNCHANGED <<inv, refs, receipts, refunded>> => InvoicesTyped'
  BY DEF InvoicesTyped
<1>2. AccountsTyped /\ UNCHANGED <<account, site, paying>> => AccountsTyped'
  BY DEF AccountsTyped
<1>3. PaymentsTyped /\ UNCHANGED payments => PaymentsTyped'
  BY DEF PaymentsTyped
<1>4. CfsTyped /\ UNCHANGED <<cfs, nsf>> => CfsTyped'
  BY DEF CfsTyped
<1>5. FilesTyped /\ UNCHANGED <<files, settlement>> => FilesTyped'
  BY DEF FilesTyped
<1>6. WorkTyped /\ UNCHANGED <<work, files>> => WorkTyped'
  BY DEF WorkTyped
<1>7. BillTyped /\ UNCHANGED bill => BillTyped'
  BY DEF BillTyped
<1>8. CountsTyped /\ UNCHANGED <<restarts, lost>> => CountsTyped'
  BY DEF CountsTyped
<1> QED
  BY <1>1, <1>2, <1>3, <1>4, <1>5, <1>6, <1>7, <1>8

LEMMA NextRowTyped ==
    ASSUME FilesTyped, WorkTyped, work.phase # "IDLE", NextRow, UNCHANGED files
    PROVE  WorkTyped' /\ work'.phase \in {"ROWS", "PAYMENTS"}
<1>1. PICK fs \in Seq(File) : fs = files
  BY DEF FilesTyped
<1>2. PICK w \in [phase : Phases, file : Nat, row : Nat] : w = work
  BY DEF WorkTyped
<1>3. PICK s \in Seq(Row) : s = fs[w.file]
  BY <1>1, <1>2, RowOf
<1>4. w.file \in DOMAIN fs /\ w.row \in DOMAIN s
  BY <1>1, <1>2, <1>3, RowOf
<1>5. DOMAIN s = 1..Len(s) /\ Len(s) \in Nat
  OBVIOUS
<1>6. work' = IF w.row < Len(s) THEN [w EXCEPT !.phase = "ROWS", !.row = w.row + 1]
                                ELSE [w EXCEPT !.phase = "PAYMENTS", !.row = 1]
  BY <1>1, <1>2, <1>3 DEF NextRow
<1>7. CASE w.row < Len(s)
  <2>1. work' = [w EXCEPT !.phase = "ROWS", !.row = w.row + 1]
    BY <1>6, <1>7
  <2>2. /\ work' \in [phase : Phases, file : Nat, row : Nat]
        /\ work'.phase = "ROWS" /\ work'.file = w.file /\ work'.row = w.row + 1
    <3>1. w.row + 1 \in Nat /\ "ROWS" \in Phases
      BY DEF Phases
    <3> QED
      BY <2>1, <3>1
  <2>3. w.row + 1 \in DOMAIN s
    BY <1>2, <1>4, <1>5, <1>7
  <2> QED
    BY <1>1, <1>3, <1>4, <2>2, <2>3 DEF WorkTyped
<1>8. CASE ~(w.row < Len(s))
  <2>1. work' = [w EXCEPT !.phase = "PAYMENTS", !.row = 1]
    BY <1>6, <1>8
  <2>2. /\ work' \in [phase : Phases, file : Nat, row : Nat]
        /\ work'.phase = "PAYMENTS" /\ work'.file = w.file /\ work'.row = 1
    BY <2>1 DEF Phases
  <2>3. 1 \in DOMAIN s
    BY <1>4, <1>5
  <2> QED
    BY <1>1, <1>3, <1>4, <2>2, <2>3 DEF WorkTyped
<1> QED
  BY <1>7, <1>8

\* The worker goes on with the same row.
LEMMA PhaseTyped ==
    ASSUME WorkTyped, work.phase # "IDLE", UNCHANGED files, NEW phase \in Phases \ {"IDLE"},
           work' = [work EXCEPT !.phase = phase]
    PROVE  WorkTyped' /\ work'.phase = phase /\ row' = row
<1>1. PICK w \in [phase : Phases, file : Nat, row : Nat] : w = work
  BY DEF WorkTyped
<1>2. /\ work' \in [phase : Phases, file : Nat, row : Nat]
      /\ work'.phase = phase /\ work'.file = w.file /\ work'.row = w.row
  BY <1>1
<1> QED
  BY <1>1, <1>2 DEF WorkTyped, row

LEMMA IdleTyped ==
    ASSUME work' = IdleWork
    PROVE  WorkTyped' /\ work'.phase = "IDLE"
BY DEF WorkTyped, IdleWork, Phases

\* A row that is written leaves the worker at its own.
LEMMA WriteTyped ==
    ASSUME Typed, NEW type \in {"PAD", "PADR", "BOLP"}, NEW n \in Numbers,
           NEW status \in {"PAID", "NOT_PAID", "PARTIAL"}, Write(type, n, status)
    PROVE  FilesTyped' /\ WorkTyped' /\ (work.phase # "IDLE" => row' = row)
<1>1. FilesTyped'
  BY WriteRow DEF Typed, FilesTyped
<1>2. WorkTyped /\ FilesTyped /\ work' = work
  BY DEF Typed, Write
<1>3. ASSUME work.phase # "IDLE"
      PROVE  /\ work.file \in DOMAIN files' /\ work.row \in DOMAIN files'[work.file]
             /\ files'[work.file][work.row] = files[work.file][work.row]
  <2>1. PICK f : f = work.file
    OBVIOUS
  <2>2. PICK k : k = work.row
    OBVIOUS
  <2>3. f \in DOMAIN files /\ k \in DOMAIN files[f]
    BY <1>2, <1>3, <2>1, <2>2 DEF WorkTyped
  <2>4. f \in DOMAIN files' /\ k \in DOMAIN files'[f] /\ files'[f][k] = files[f][k]
    BY <1>2, <2>3, WriteRow
  <2> QED
    BY <2>1, <2>2, <2>4
<1> QED
  BY <1>1, <1>2, <1>3 DEF WorkTyped, row

LEMMA InvoiceWith ==
    ASSUME NEW r \in Invoice
    PROVE  /\ \A v \in InvoiceStatus : [r EXCEPT !.status = v] \in Invoice
           /\ \A v \in InvoiceStatus : \A q \in 0..Total :
                [r EXCEPT !.status = v, !.paid = q] \in Invoice
BY DEF Invoice

LEMMA SetReferencesTyped ==
    ASSUME InvoicesTyped, NEW items, NEW n, NEW status \in RefStatus
    PROVE  SetReferences(items, n, status) \in [Items -> [Numbers -> RefStatus]]
<1>1. \A x \in Items : refs[x] \in [Numbers -> RefStatus]
  BY DEF InvoicesTyped
<1>2. \A x \in Items : [refs[x] EXCEPT ![n] = status] \in [Numbers -> RefStatus]
  BY <1>1
<1> QED
  BY <1>1, <1>2 DEF SetReferences

LEMMA CfsInvoiceWith ==
    ASSUME NEW r \in CfsInvoice
    PROVE  /\ \A v \in {"OPEN", "PAID", "RETURNED", "REVERSED", "CARD"} :
                [r EXCEPT !.status = v] \in CfsInvoice
           /\ [r EXCEPT !.fees = @ + 1] \in CfsInvoice
BY DEF CfsInvoice

LEMMA NewCfsInvoice ==
    ASSUME NEW items \in SUBSET Items
    PROVE  [status |-> "OPEN", bills |-> items, fees |-> 0] \in CfsInvoice
BY DEF CfsInvoice

LEMMA LoseTyped ==
    ASSUME CountsTyped, NEW what \in Losses, Lose(what)
    PROVE  CountsTyped' /\ lost' = lost \cup {what}
BY DEF CountsTyped, Lose

LEMMA CreateInvoiceTyped ==
    ASSUME Typed, NEW i \in Invoices, NEW m \in Methods, CreateInvoice(i, m)
    PROVE  Typed'
<1>1. [method |-> m, paid |-> 0,
       status |-> IF m = "PAD" THEN "APPROVED" ELSE "CREATED"] \in Invoice
  BY Sets, SettlementConstants DEF Invoice, InvoiceStatus
<1>2. InvoicesTyped'
  BY <1>1 DEF CreateInvoice, Typed, InvoicesTyped
<1> QED
  BY <1>2, SameTyped DEF CreateInvoice, Typed, external, faults

LEMMA RefundInvoiceTyped ==
    ASSUME Typed, NEW i \in Invoices, RefundInvoice(i)
    PROVE  Typed'
<1>1. PICK v \in {"CANCELLED", "CREDITED"} :
        inv' = [inv EXCEPT ![i] = [inv[i] EXCEPT !.status = v]]
  BY DEF RefundInvoice
<1>2. inv[i] \in Invoice /\ v \in InvoiceStatus
  BY Sets, ItemTyped DEF InvoiceStatus, Typed
<1>3. [inv[i] EXCEPT !.status = v] \in Invoice
  BY <1>2, InvoiceWith
<1>4. InvoicesTyped'
  BY <1>1, <1>3 DEF RefundInvoice, Typed, InvoicesTyped
<1> QED
  BY <1>4, SameTyped DEF RefundInvoice, Typed, external, faults

LEMMA ToConsolidate ==
    ASSUME PaymentsTyped, NEW a
    PROVE  /\ PaymentsToConsolidate(a) \subseteq DOMAIN payments
           /\ \A p \in DOMAIN payments : /\ payments[p] \in Payment
                                         /\ payments[p].number \in Numbers
           /\ IsFiniteSet(PaymentsToConsolidate(a))
<1>1. PaymentsToConsolidate(a) \subseteq DOMAIN payments
  BY DEF PaymentsToConsolidate
<1>2. PICK s \in Seq(Payment) : s = payments
  BY DEF PaymentsTyped
<1>3. DOMAIN s = 1..Len(s) /\ Len(s) \in Nat
  OBVIOUS
<1>4. IsFiniteSet(DOMAIN s)
  BY <1>3, FS_Interval
<1>5. IsFiniteSet(PaymentsToConsolidate(a))
  BY <1>1, <1>2, <1>4, FS_Subset
<1>6. \A p \in DOMAIN s : s[p] \in Payment
  OBVIOUS
<1>7. \A q \in Payment : q.number \in Numbers
  BY DEF Payment
<1> QED
  BY <1>1, <1>2, <1>5, <1>6, <1>7

\* The numbers that failed, what is owed under them, and the number it may get.
LEMMA Failed ==
    ASSUME Typed, NEW a
    PROVE  /\ FailedNumbers(a) \subseteq Numbers /\ FailedItems(a) \in SUBSET Items
           /\ \A last \in FailedItems(a) :
                ConsNumber(last) \in Numbers /\ ConsNumber(last) \notin Invoices
<1>1. FailedNumbers(a) \subseteq Numbers
  BY ToConsolidate DEF FailedNumbers, Typed
<1>2. FailedItems(a) \in SUBSET Items
  BY DEF FailedItems, Having
<1>3. \A x \in Items : ConsNumber(x) \in Numbers /\ ConsNumber(x) \notin Invoices
  BY SettlementConstants DEF ConsNumber, Numbers, Items, Invoices
<1> QED
  BY <1>1, <1>2, <1>3

LEMMA CardTyped ==
    ASSUME NEW n \in Numbers
    PROVE  CardPayment(n) \in Payment
BY DEF CardPayment, Payment

\* What a consolidation does, with its number named.
LEMMA RetryIs ==
    ASSUME Typed, NEW a \in Accounts, CreateRetryPayment(a)
    PROVE  \E new \in Numbers :
             /\ payments' \in Seq(Payment)
             /\ new \notin Invoices
             /\ cfs' = Rebilled(FailedNumbers(a), FailedItems(a), new)
             /\ refs' = [x \in Items |-> IF x \in FailedItems(a)
                                         THEN Consolidated(x, new) ELSE refs[x]]
<1> DEFINE P == PaymentsToConsolidate(a)
<1>1. PICK last \in FailedItems(a) :
        /\ cfs' = Rebilled(FailedNumbers(a), FailedItems(a), ConsNumber(last))
        /\ refs' = [x \in Items |-> IF x \in FailedItems(a)
                                    THEN Consolidated(x, ConsNumber(last)) ELSE refs[x]]
        /\ payments' = Append([p \in DOMAIN payments |->
                                 IF p \in P THEN ConsolidatedInto(p, ConsNumber(last))
                                            ELSE payments[p]], CardPayment(ConsNumber(last)))
  BY DEF CreateRetryPayment
<1>2. PICK new : new = ConsNumber(last)
  OBVIOUS
<1>3. new \in Numbers /\ new \notin Invoices
  BY <1>1, <1>2, Failed
<1>4. PICK ps \in Seq(Payment) : ps = payments
  BY DEF Typed, PaymentsTyped
<1>5. \A p \in DOMAIN payments : ConsolidatedInto(p, new) \in Payment
  <2>1. \A p \in DOMAIN payments : payments[p] \in Payment
    BY ToConsolidate DEF Typed
  <2>2. \A q \in Payment : \A c \in Numbers :
          [q EXCEPT !.cons = c, !.status = IF @ = "CREATED" THEN "DELETED" ELSE @] \in Payment
    BY DEF Payment
  <2> QED
    BY <1>3, <2>1, <2>2 DEF ConsolidatedInto
<1>6. payments' \in Seq(Payment)
  <2>1. PICK qs : qs = [p \in DOMAIN payments |->
                          IF p \in P THEN ConsolidatedInto(p, new) ELSE payments[p]]
    OBVIOUS
  <2>2. DOMAIN ps = 1..Len(ps) /\ Len(ps) \in Nat /\ \A p \in DOMAIN ps : ps[p] \in Payment
    OBVIOUS
  <2>3. PICK k \in Nat : k = Len(ps)
    BY <2>2
  <2>4. qs \in [1..k -> Payment]
    BY <1>4, <1>5, <2>1, <2>2, <2>3
  <2>5. qs \in Seq(Payment)
    BY <2>4, SeqDef
  <2>6. CardPayment(new) \in Payment
    BY <1>3, CardTyped
  <2>7. payments' = Append(qs, CardPayment(new))
    BY <1>1, <1>2, <2>1
  <2> HIDE DEF P
  <2> QED
    BY <2>5, <2>6, <2>7, AppendProperties
<1> QED
  BY <1>1, <1>2, <1>3, <1>6

LEMMA ReversedTyped ==
    ASSUME CfsTyped, NEW numbers
    PROVE  ReversedInCfs(numbers) \in [Numbers -> CfsInvoice]
<1>1. \A n \in Numbers : cfs[n] \in CfsInvoice
  BY NumberTyped
<1>2. \A n \in Numbers : [cfs[n] EXCEPT !.status = "REVERSED"] \in CfsInvoice
  BY <1>1, CfsInvoiceWith
<1> QED
  BY <1>1, <1>2 DEF ReversedInCfs

LEMMA RebilledTyped ==
    ASSUME CfsTyped, NEW numbers, NEW items \in SUBSET Items, NEW new
    PROVE  Rebilled(numbers, items, new) \in [Numbers -> CfsInvoice]
<1>1. PICK R \in [Numbers -> CfsInvoice] : R = ReversedInCfs(numbers)
  BY ReversedTyped
<1>2. PICK r \in CfsInvoice : r = [status |-> "OPEN", bills |-> items, fees |-> 0]
  BY NewCfsInvoice
<1>3. [R EXCEPT ![new] = r] \in [Numbers -> CfsInvoice]
  OBVIOUS
<1> QED
  BY <1>1, <1>2, <1>3 DEF Rebilled

LEMMA ConsolidatedTyped ==
    ASSUME InvoicesTyped, NEW items, NEW new
    PROVE  [x \in Items |-> IF x \in items THEN Consolidated(x, new) ELSE refs[x]]
               \in [Items -> [Numbers -> RefStatus]]
<1>1. \A x \in Items : refs[x] \in [Numbers -> RefStatus]
  BY DEF InvoicesTyped
<1>2. \A x \in Items : Consolidated(x, new) \in [Numbers -> RefStatus]
  BY <1>1 DEF Consolidated, RefStatus
<1> QED
  BY <1>1, <1>2

LEMMA CreateRetryPaymentTyped ==
    ASSUME Typed, NEW a \in Accounts, CreateRetryPayment(a)
    PROVE  Typed'
<1>1. PICK new \in Numbers :
             /\ payments' \in Seq(Payment)
             /\ cfs' = Rebilled(FailedNumbers(a), FailedItems(a), new)
             /\ refs' = [x \in Items |-> IF x \in FailedItems(a)
                                         THEN Consolidated(x, new) ELSE refs[x]]
  BY RetryIs
<1>2. UNCHANGED <<inv, receipts, refunded, account, nsf, site, files, settlement,
                  work, bill, paying, restarts, lost>>
  BY DEF CreateRetryPayment, faults
<1>3. refs' \in [Items -> [Numbers -> RefStatus]]
  <2>1. [x \in Items |-> IF x \in FailedItems(a) THEN Consolidated(x, new) ELSE refs[x]]
            \in [Items -> [Numbers -> RefStatus]]
    BY ConsolidatedTyped DEF Typed
  <2> QED
    BY <1>1, <2>1, Zenon
<1>4. cfs' \in [Numbers -> CfsInvoice]
  BY <1>1, Failed, RebilledTyped DEF Typed
<1>5. InvoicesTyped' /\ PaymentsTyped' /\ CfsTyped'
  BY <1>1, <1>2, <1>3, <1>4 DEF Typed, InvoicesTyped, PaymentsTyped, CfsTyped
<1> QED
  BY <1>2, <1>5, SameTyped DEF Typed

LEMMA RetryPaymentTyped ==
    ASSUME Typed, NEW a \in Accounts, RetryPayment(a)
    PROVE  Typed'
<1>1. PICK n : n = CHOOSE m \in FailedNumbers(a) : TRUE
  OBVIOUS
<1>2. payments' = Append(payments, CardPayment(n))
  BY <1>1 DEF RetryPayment
<1>3. n \in Numbers
  <2>1. Cardinality(PaymentsToConsolidate(a)) = 1
    BY DEF RetryPayment
  <2>2. PaymentsToConsolidate(a) # {}
    BY <2>1, FS_EmptySet
  <2>3. FailedNumbers(a) # {}
    BY <2>2 DEF FailedNumbers
  <2> QED
    BY <1>1, <2>3, Failed
<1>4. PaymentsTyped'
  BY <1>2, <1>3, CardTyped, AppendProperties DEF Typed, PaymentsTyped
<1> QED
  BY <1>4, SameTyped DEF RetryPayment, external, faults, Typed

LEMMA RetryBreaksOffTyped ==
    ASSUME Typed, NEW a \in Accounts, NEW numbers \in SUBSET FailedNumbers(a),
           RetryBreaksOff(a, numbers)
    PROVE  Typed' /\ lost \subseteq lost'
<1>1. cfs' = ReversedInCfs(numbers)
  BY DEF RetryBreaksOff
<1>2. CfsTyped'
  BY <1>1, ReversedTyped DEF RetryBreaksOff, tables, Typed, CfsTyped
<1>3. CountsTyped' /\ lost \subseteq lost'
  <2>1. CASE UNCHANGED lost
    BY <2>1, SameTyped DEF RetryBreaksOff, Typed
  <2>2. CASE Lose("call")
    BY <2>2, LoseTyped DEF Losses, Typed
  <2> QED
    BY <2>1, <2>2 DEF RetryBreaksOff
<1> QED
  BY <1>2, <1>3, SameTyped DEF RetryBreaksOff, tables, Typed

LEMMA RetryLostTyped ==
    ASSUME Typed, NEW a \in Accounts, RetryLost(a)
    PROVE  Typed' /\ lost' = lost \cup {"answer"}
<1>1. PICK last : cfs' = Rebilled(FailedNumbers(a), FailedItems(a), ConsNumber(last))
  BY DEF RetryLost
<1>2. CfsTyped'
  BY <1>1, Failed, RebilledTyped DEF RetryLost, tables, Typed, CfsTyped
<1>3. CountsTyped' /\ lost' = lost \cup {"answer"}
  BY LoseTyped DEF RetryLost, Losses, Typed
<1> QED
  BY <1>2, <1>3, SameTyped DEF RetryLost, tables, Typed

LEMMA CompletedTyped ==
    ASSUME InvoicesTyped, NEW items, NEW n,
           inv' = [x \in Items |-> IF x \in items THEN PaidInvoice(x) ELSE inv[x]],
           refs' = SetReferences(items, n, "COMPLETED"),
           receipts' = [x \in Items |-> receipts[x] + (IF x \in items THEN 1 ELSE 0)],
           UNCHANGED refunded
    PROVE  InvoicesTyped'
<1>1. \A x \in Items : inv[x] \in Invoice /\ receipts[x] \in Nat
  BY ItemTyped
<1>2. \A x \in Items : PaidInvoice(x) \in Invoice
  <2>1. "PAID" \in InvoiceStatus /\ Total \in 0..Total
    BY DEF InvoiceStatus, Total
  <2> QED
    BY <1>1, <2>1, InvoiceWith DEF PaidInvoice
<1>3. inv' \in [Items -> Invoice]
  BY <1>1, <1>2
<1>4. refs' \in [Items -> [Numbers -> RefStatus]]
  BY SetReferencesTyped DEF RefStatus
<1>5. receipts' \in [Items -> Nat]
  BY <1>1
<1> QED
  BY <1>3, <1>4, <1>5 DEF InvoicesTyped

LEMMA PayByCardTyped ==
    ASSUME Typed, NEW p \in DOMAIN payments, PayByCard(p)
    PROVE  Typed'
<1>1. PICK n : n = payments[p].number
  OBVIOUS
<1>2. PICK a : a = AccountOfNumber(n)
  OBVIOUS
<1>3. InvoicesTyped'
  BY <1>1, CompletedTyped DEF PayByCard, Typed
<1>4. PaymentsTyped'
  <2>1. payments' = [payments EXCEPT ![p] = [payments[p] EXCEPT !.status = "COMPLETED"]]
    BY DEF PayByCard
  <2>2. [payments[p] EXCEPT !.status = "COMPLETED"] \in Payment
    <3>1. payments[p] \in Payment
      BY ToConsolidate DEF Typed
    <3> QED
      BY <3>1 DEF Payment
  <2> QED
    BY <2>1, <2>2 DEF Typed, PaymentsTyped
<1>5. CfsTyped'
  <2>1. cfs' = [cfs EXCEPT ![n] = [cfs[n] EXCEPT !.status = "CARD"]] /\ nsf' = nsf
    BY <1>1 DEF PayByCard
  <2>2. n \in Numbers
    BY <1>1, ToConsolidate DEF Typed
  <2>3. [cfs[n] EXCEPT !.status = "CARD"] \in CfsInvoice
    BY <2>2, NumberTyped, CfsInvoiceWith DEF Typed
  <2> QED
    BY <2>1, <2>2, <2>3 DEF Typed, CfsTyped
<1>6. AccountsTyped'
  BY DEF PayByCard, Typed, AccountsTyped
<1>7. UNCHANGED <<files, settlement, work, bill, restarts, lost>>
  BY DEF PayByCard, faults
<1> QED
  BY <1>3, <1>4, <1>5, <1>6, <1>7, SameTyped DEF Typed

LEMMA UnlockTyped ==
    ASSUME Typed, NEW a \in Accounts,
           UnlockFlag(a) \/ UnlockStatus(a) \/ RequestDies(a)
    PROVE  Typed'
<1>1. UNCHANGED <<inv, refs, receipts, refunded, payments, nsf, cfs, files, settlement,
                  work, bill>>
  BY DEF UnlockFlag, UnlockStatus, RequestDies, external, tables
<1>2. AccountsTyped'
  <2>1. account[a] \in [status : {"ACTIVE", "FREEZE"}, nsf : BOOLEAN]
    BY DEF Typed, AccountsTyped
  <2>2. /\ [account[a] EXCEPT !.nsf = FALSE] \in [status : {"ACTIVE", "FREEZE"}, nsf : BOOLEAN]
        /\ [account[a] EXCEPT !.status = "ACTIVE"]
              \in [status : {"ACTIVE", "FREEZE"}, nsf : BOOLEAN]
    BY <2>1
  <2>3. /\ \/ account' = [account EXCEPT ![a] = [account[a] EXCEPT !.nsf = FALSE]]
           \/ account' = [account EXCEPT ![a] = [account[a] EXCEPT !.status = "ACTIVE"]]
           \/ account' = account
        /\ site' = site \/ site' = [site EXCEPT ![a] = "PAD_DAILY"]
        /\ \/ paying' = [paying EXCEPT ![a] = "DAILY"]
           \/ paying' = [paying EXCEPT ![a] = "NO"]
    BY DEF UnlockFlag, UnlockStatus, RequestDies, external, tables
  <2>4. account' \in [Accounts -> [status : {"ACTIVE", "FREEZE"}, nsf : BOOLEAN]]
    BY <2>2, <2>3 DEF Typed, AccountsTyped
  <2> QED
    BY <2>3, <2>4 DEF Typed, AccountsTyped
<1>3. CountsTyped'
  <2>1. CASE RequestDies(a)
    BY <2>1, LoseTyped DEF RequestDies, Losses, Typed
  <2>2. CASE ~RequestDies(a)
    BY <2>2, SameTyped DEF UnlockFlag, UnlockStatus, faults, Typed
  <2> QED
    BY <2>1, <2>2
<1> QED
  BY <1>1, <1>2, <1>3, SameTyped DEF Typed

LEMMA BillPadIs ==
    ASSUME Typed, NEW a \in Accounts, BillPad(a)
    PROVE  \E n \in PadInvoices(a) :
             /\ bill = NoBill /\ bill' = [items |-> PadInvoices(a), number |-> n]
             /\ n \in Invoices /\ n \in Numbers /\ PadInvoices(a) \subseteq Invoices
             /\ \/ /\ cfs[n].status = "NONE"
                   /\ cfs' = [cfs EXCEPT ![n] = [status |-> "OPEN",
                                                 bills |-> PadInvoices(a), fees |-> 0]]
                \/ UNCHANGED cfs
<1>1. PICK n : n = Min(PadInvoices(a))
  OBVIOUS
<1>2. PadInvoices(a) \subseteq Invoices /\ PadInvoices(a) # {}
  BY DEF PadInvoices, BillPad
<1>3. n \in PadInvoices(a)
  <2>1. PadInvoices(a) \subseteq Nat
    BY <1>2, Sets
  <2> QED
    BY <1>1, <1>2, <2>1, MinMember
<1>4. n \in Invoices /\ n \in Numbers
  BY <1>2, <1>3, Sets
<1> QED
  BY <1>1, <1>2, <1>3, <1>4 DEF BillPad

LEMMA NewBilling ==
    ASSUME CfsTyped, UNCHANGED nsf, NEW n \in Numbers, NEW items \in SUBSET Items,
           cfs' = [cfs EXCEPT ![n] = [status |-> "OPEN", bills |-> items, fees |-> 0]]
    PROVE  CfsTyped'
BY NewCfsInvoice DEF CfsTyped

LEMMA BillPadTyped ==
    ASSUME Typed, NEW a \in Accounts, BillPad(a)
    PROVE  Typed'
<1>1. PICK n \in PadInvoices(a) :
             /\ bill = NoBill /\ bill' = [items |-> PadInvoices(a), number |-> n]
             /\ n \in Invoices /\ n \in Numbers /\ PadInvoices(a) \subseteq Invoices
             /\ \/ /\ cfs[n].status = "NONE"
                   /\ cfs' = [cfs EXCEPT ![n] = [status |-> "OPEN",
                                                 bills |-> PadInvoices(a), fees |-> 0]]
                \/ UNCHANGED cfs
  BY BillPadIs
<1>2. BillTyped'
  <2>1. PICK items \in SUBSET Invoices : items = PadInvoices(a)
    BY <1>1
  <2>2. bill' = [items |-> items, number |-> n] /\ n \in items
    BY <1>1, <2>1
  <2> QED
    BY <1>1, <2>2 DEF BillTyped
<1>3. PadInvoices(a) \in SUBSET Items
  BY <1>1, Sets
<1>4. UNCHANGED <<inv, refs, receipts, refunded, account, payments, nsf, site, files,
                  settlement, work, paying, restarts, lost>>
  BY DEF BillPad, tables, faults
<1>5. CfsTyped'
  BY <1>1, <1>3, <1>4, NewBilling, SameTyped DEF Typed
<1> QED
  BY <1>2, <1>4, <1>5, SameTyped DEF Typed

LEMMA BillPadEndTyped ==
    ASSUME Typed, BillPadEnd
    PROVE  Typed'
<1>1. refs' \in [Items -> [Numbers -> RefStatus]]
  BY SetReferencesTyped DEF BillPadEnd, RefStatus, Typed
<1>2. InvoicesTyped'
  BY <1>1 DEF BillPadEnd, Typed, InvoicesTyped
<1>3. BillTyped'
  BY DEF BillPadEnd, BillTyped, NoBill
<1> QED
  BY <1>2, <1>3, SameTyped DEF BillPadEnd, Typed, external, faults

LEMMA BillOnlineBankingTyped ==
    ASSUME Typed, NEW i \in Invoices, BillOnlineBanking(i)
    PROVE  Typed'
<1>1. refs' \in [Items -> [Numbers -> RefStatus]]
  BY SetReferencesTyped DEF BillOnlineBanking, RefStatus, Typed
<1>2. inv' \in [Items -> Invoice]
  <2>1. inv' = [inv EXCEPT ![i] = [inv[i] EXCEPT !.status = "SETTLEMENT_SCHEDULED"]]
    BY DEF BillOnlineBanking
  <2>2. [inv[i] EXCEPT !.status = "SETTLEMENT_SCHEDULED"] \in Invoice
    BY Sets, ItemTyped, InvoiceWith DEF Typed, InvoiceStatus
  <2> QED
    BY <2>1, <2>2 DEF Typed, InvoicesTyped
<1>3. InvoicesTyped'
  BY <1>1, <1>2 DEF BillOnlineBanking, Typed, InvoicesTyped
<1>4. i \in Numbers /\ {i} \in SUBSET Items
  BY Sets
<1>5. /\ cfs' = [cfs EXCEPT ![i] = [status |-> "OPEN", bills |-> {i}, fees |-> 0]]
      /\ nsf' = nsf
  BY DEF BillOnlineBanking
<1>6. CfsTyped'
  BY <1>4, <1>5, NewBilling DEF Typed
<1> QED
  BY <1>3, <1>6, SameTyped DEF BillOnlineBanking, Typed, faults

LEMMA BillLostTyped ==
    ASSUME Typed, NEW n \in Invoices, NEW items \in SUBSET Invoices, BillLost(n, items)
    PROVE  Typed'
<1>1. n \in Numbers /\ items \in SUBSET Items
  BY Sets
<1>2. /\ cfs' = [cfs EXCEPT ![n] = [status |-> "OPEN", bills |-> items, fees |-> 0]]
      /\ UNCHANGED <<inv, refs, receipts, refunded, account, payments, nsf, site, files,
                     settlement, work, bill, paying>>
  BY DEF BillLost, tables
<1>3. CfsTyped'
  BY <1>1, <1>2, NewBilling DEF Typed
<1>4. CountsTyped'
  BY LoseTyped DEF BillLost, Losses, Typed
<1> QED
  BY <1>2, <1>3, <1>4, SameTyped DEF Typed

\* What CFS and the bank do about the CFS invoice of an invoice: a row and a status.
LEMMA BankIs ==
    ASSUME Typed, NEW n \in Invoices,
           Debit(n) \/ Return(n) \/ RepeatReturn(n) \/ Deposit(n)
    PROVE  \E type \in {"PAD", "PADR", "BOLP"}, status \in {"PAID", "NOT_PAID", "PARTIAL"},
              new \in {"PAID", "RETURNED"} :
             /\ Write(type, n, status)
             /\ \/ UNCHANGED cfs
                \/ /\ cfs[n].status \in {"OPEN", "PAID"}
                   /\ cfs' = [cfs EXCEPT ![n] = [cfs[n] EXCEPT !.status = new]]
             /\ UNCHANGED <<inv, refs, receipts, refunded, account, payments, nsf, site, work,
                            bill, paying>>
             /\ lost \subseteq lost'
             /\ \/ type = "PAD" /\ status = "PAID" /\ Debit(n)
                \/ type = "PADR" /\ status = "NOT_PAID" /\ (Return(n) \/ RepeatReturn(n))
                \/ type = "BOLP" /\ status # "NOT_PAID" /\ Deposit(n)
<1>1. \A type, status : Write(type, n, status) =>
        UNCHANGED <<inv, refs, receipts, refunded, account, payments, nsf, site, work,
                    bill, paying>>
  BY DEF Write, tables
<1>2. CASE Debit(n)
  <2>1. /\ Write("PAD", n, "PAID") /\ cfs[n].status = "OPEN" /\ UNCHANGED faults
        /\ cfs' = [cfs EXCEPT ![n] = [cfs[n] EXCEPT !.status = "PAID"]]
    BY <1>2 DEF Debit
  <2> QED
    BY <1>1, <1>2, <2>1 DEF faults
<1>3. CASE Return(n)
  <2>1. /\ Write("PADR", n, "NOT_PAID") /\ cfs[n].status \in {"OPEN", "PAID"}
        /\ UNCHANGED faults
        /\ cfs' = [cfs EXCEPT ![n] = [cfs[n] EXCEPT !.status = "RETURNED"]]
    BY <1>3 DEF Return
  <2> QED
    BY <1>1, <1>3, <2>1 DEF faults
<1>4. CASE RepeatReturn(n)
  <2>1. Write("PADR", n, "NOT_PAID") /\ UNCHANGED cfs /\ lost \subseteq lost'
    BY <1>4 DEF RepeatReturn, Lose
  <2> QED
    BY <1>1, <1>4, <2>1
<1>5. CASE Deposit(n)
  <2>1. /\ \/ /\ Write("BOLP", n, "PAID") /\ cfs[n].status = "OPEN"
              /\ cfs' = [cfs EXCEPT ![n] = [cfs[n] EXCEPT !.status = "PAID"]]
           \/ Write("BOLP", n, "PARTIAL") /\ UNCHANGED cfs
        /\ UNCHANGED faults
    BY <1>5 DEF Deposit
  <2> QED
    BY <1>1, <1>5, <2>1 DEF faults
<1> QED
  BY <1>2, <1>3, <1>4, <1>5

LEMMA BankTyped ==
    ASSUME Typed, NEW n \in Invoices,
           Debit(n) \/ Return(n) \/ RepeatReturn(n) \/ Deposit(n)
    PROVE  Typed'
<1>1. PICK type \in {"PAD", "PADR", "BOLP"}, status \in {"PAID", "NOT_PAID", "PARTIAL"},
           new \in {"PAID", "RETURNED"} :
             /\ Write(type, n, status)
             /\ \/ UNCHANGED cfs
                \/ /\ cfs[n].status \in {"OPEN", "PAID"}
                   /\ cfs' = [cfs EXCEPT ![n] = [cfs[n] EXCEPT !.status = new]]
             /\ UNCHANGED <<inv, refs, receipts, refunded, account, payments, nsf, site, work,
                            bill, paying>>
  BY BankIs
<1>2. n \in Numbers
  BY Sets
<1>3. CfsTyped'
  <2>1. [cfs[n] EXCEPT !.status = new] \in CfsInvoice
    BY <1>2, NumberTyped, CfsInvoiceWith DEF Typed
  <2> QED
    BY <1>1, <1>2, <2>1 DEF Typed, CfsTyped
<1>4. FilesTyped' /\ WorkTyped'
  BY <1>1, <1>2, WriteTyped
<1>5. CountsTyped'
  <2>1. CASE RepeatReturn(n)
    BY <2>1, LoseTyped DEF RepeatReturn, Losses, Typed
  <2>2. CASE ~RepeatReturn(n)
    BY <2>2, SameTyped DEF Debit, Return, Deposit, faults, Typed
  <2> QED
    BY <2>1, <2>2
<1> QED
  BY <1>1, <1>3, <1>4, <1>5, SameTyped DEF Typed

LEMMA ReceiveTyped ==
    ASSUME Typed, NEW f \in DOMAIN files, Receive(f)
    PROVE  Typed'
<1>1. PICK fs \in Seq(File) : fs = files
  BY DEF Typed, FilesTyped
<1>2. DOMAIN fs = 1..Len(fs) /\ Len(fs) \in Nat
  OBVIOUS
<1>3. work' = [phase |-> "ROWS", file |-> f, row |-> 1] /\ UNCHANGED files
  BY DEF Receive, external
<1>4. f \in Nat /\ 1 \in DOMAIN files[f]
  BY <1>1, <1>2 DEF Typed, FilesTyped, Filled
<1>5. WorkTyped'
  BY <1>3, <1>4 DEF WorkTyped, Phases
<1>6. FilesTyped'
  <2>1. settlement' = [settlement EXCEPT ![f] = "STARTED"]
    BY DEF Receive
  <2>2. PICK ss \in Seq(SettlementStatus) : ss = settlement
    BY DEF Typed, FilesTyped
  <2>3. PICK ts : ts = [ss EXCEPT ![f] = "STARTED"]
    OBVIOUS
  <2>4. ts \in Seq(SettlementStatus) /\ Len(ts) = Len(ss)
    <3>1. "STARTED" \in SettlementStatus /\ "REMOVED" \in SettlementStatus
      BY DEF SettlementStatus
    <3> QED
      BY <2>2, <2>3, <3>1, SeqPut
  <2>5. settlement' = ts
    BY <2>1, <2>2, <2>3
  <2> QED
    BY <1>3, <2>2, <2>4, <2>5 DEF Typed, FilesTyped
<1>7. CountsTyped'
  <2>1. Lose("order") \/ UNCHANGED faults
    BY DEF Receive
  <2> QED
    BY <2>1, LoseTyped, SameTyped DEF Typed, Losses, faults
<1>8. UNCHANGED <<inv, refs, receipts, refunded, account, payments, nsf, cfs, site, bill,
                  paying>>
  BY DEF Receive, tables, external
<1> QED
  BY <1>5, <1>6, <1>7, <1>8, SameTyped DEF Typed

LEMMA ProcessPaidTyped ==
    ASSUME InvoicesTyped, NEW items, ProcessPaid(items), UNCHANGED refunded
    PROVE  InvoicesTyped'
<1>1. CASE \E x \in items : inv[x].method = "CC"
  BY <1>1, SameTyped DEF ProcessPaid
<1>2. CASE ~\E x \in items : inv[x].method = "CC"
  BY <1>2, CompletedTyped DEF ProcessPaid
<1> QED
  BY <1>1, <1>2

LEMMA ProcessConsolidatedPaidTyped ==
    ASSUME Typed, ProcessConsolidatedPaid
    PROVE  Typed'
<1>1. InvoicesTyped'
  BY ProcessPaidTyped DEF ProcessConsolidatedPaid, Typed
<1>2. work.phase # "IDLE" /\ NextRow /\ UNCHANGED files
  BY DEF ProcessConsolidatedPaid, external
<1>3. WorkTyped'
  BY <1>2, NextRowTyped DEF Typed
<1> QED
  BY <1>1, <1>3, SameTyped DEF ProcessConsolidatedPaid, Typed, external, faults

LEMMA ProcessUnconsolidatedTyped ==
    ASSUME Typed, ProcessUnconsolidated
    PROVE  Typed'
<1>1. PICK items : items = AwaitingDeposit(row.number)
  OBVIOUS
<1>2. /\ \/ UNCHANGED <<inv, refs, receipts>>
         \/ ProcessPaid(items)
         \/ /\ inv' = [x \in Items |-> IF x \in items
                                       THEN [inv[x] EXCEPT !.status = "PARTIAL", !.paid = Total - 1]
                                       ELSE inv[x]]
            /\ receipts' = [x \in Items |-> receipts[x] + (IF x \in items THEN 1 ELSE 0)]
            /\ UNCHANGED refs
      /\ UNCHANGED refunded
  BY <1>1, Zenon DEF ProcessUnconsolidated
<1>3. ASSUME inv' = [x \in Items |-> IF x \in items
                                     THEN [inv[x] EXCEPT !.status = "PARTIAL", !.paid = Total - 1]
                                     ELSE inv[x]],
             receipts' = [x \in Items |-> receipts[x] + (IF x \in items THEN 1 ELSE 0)],
             UNCHANGED <<refs, refunded>>
      PROVE  InvoicesTyped'
  <2>1. \A x \in Items : inv[x] \in Invoice /\ receipts[x] \in Nat
    BY ItemTyped DEF Typed
  <2>2. "PARTIAL" \in InvoiceStatus /\ Total - 1 \in 0..Total
    BY DEF InvoiceStatus, Total
  <2>3. \A x \in Items : [inv[x] EXCEPT !.status = "PARTIAL", !.paid = Total - 1] \in Invoice
    BY <2>1, <2>2, InvoiceWith
  <2>4. inv' \in [Items -> Invoice]
    BY <1>3, <2>1, <2>3
  <2>5. receipts' \in [Items -> Nat]
    <3>1. receipts' = [x \in Items |-> receipts[x] + (IF x \in items THEN 1 ELSE 0)]
      BY <1>3
    <3>2. \A x \in Items : receipts[x] \in Nat
      BY <2>1
    <3> QED
      BY <3>1, <3>2
  <2> QED
    BY <1>3, <2>4, <2>5 DEF Typed, InvoicesTyped
<1>4. InvoicesTyped'
  BY <1>2, <1>3, ProcessPaidTyped, SameTyped DEF Typed
<1>5. work.phase # "IDLE" /\ NextRow /\ UNCHANGED files
  BY DEF ProcessUnconsolidated, external
<1>6. WorkTyped'
  BY <1>5, NextRowTyped DEF Typed
<1> QED
  BY <1>4, <1>6, SameTyped DEF ProcessUnconsolidated, Typed, external, faults

\* The outcomes of a returned debit: for a frozen account the row is over;
\* otherwise what the debit paid is owed again.
Reopens(n) ==
    /\ work' = [work EXCEPT !.phase = "NSF_ROW"]
    /\ refs' = SetReferences(Reopened(n), n, "ACTIVE")
    /\ receipts' = [x \in Items |-> ReceiptsLeft(x, x \in Reopened(n))]
    /\ inv' = [x \in Items |->
                 IF x \in Reopened(n)
                 THEN [inv[x] EXCEPT !.status = "SETTLEMENT_SCHEDULED", !.paid = 0]
                 ELSE IF x = Fee(n)
                 THEN [method |-> "CC", status |-> "CREATED", paid |-> 0]
                 ELSE inv[x]]

LEMMA ProcessFailedIs ==
    ASSUME ProcessFailed, NEW n, n = row.number
    PROVE  /\ work.phase = "ROWS" /\ row.status = "NOT_PAID" /\ ~IsDuplicate(n)
           /\ \E a : /\ account' = [account EXCEPT ![a] = [status |-> "FREEZE", nsf |-> TRUE]]
                     /\ site' = [site EXCEPT ![a] = "PAD_STOP"]
           /\ UNCHANGED <<refunded, payments, nsf, cfs, files, settlement, bill, paying,
                          restarts, lost>>
           /\ \/ NextRow /\ UNCHANGED <<inv, refs, receipts>>
              \/ Reopens(n)
<1>1. PICK a : a = AccountOfNumber(n)
  OBVIOUS
<1>2. /\ work.phase = "ROWS" /\ row.status = "NOT_PAID" /\ ~IsDuplicate(n)
      /\ account' = [account EXCEPT ![a] = [status |-> "FREEZE", nsf |-> TRUE]]
      /\ site' = [site EXCEPT ![a] = "PAD_STOP"]
      /\ UNCHANGED <<refunded, payments, nsf, cfs, files, settlement, bill, paying,
                          restarts, lost>>
  BY <1>1 DEF ProcessFailed, faults
<1>3. \/ NextRow /\ UNCHANGED <<inv, refs, receipts>>
      \/ Reopens(n)
  BY Zenon DEF ProcessFailed, Reopens
<1> QED
  BY <1>2, <1>3, Zenon

LEMMA ProcessFailedTyped ==
    ASSUME Typed, ProcessFailed
    PROVE  Typed'
<1>1. PICK n : n = row.number
  OBVIOUS
<1>2. AccountsTyped'
  <2>1. PICK a : /\ account' = [account EXCEPT ![a] = [status |-> "FREEZE", nsf |-> TRUE]]
                 /\ site' = [site EXCEPT ![a] = "PAD_STOP"]
    BY <1>1, ProcessFailedIs
  <2>2. paying' = paying
    BY <1>1, ProcessFailedIs
  <2> QED
    BY <2>1, <2>2 DEF Typed, AccountsTyped
<1>3. UNCHANGED <<refunded, payments, nsf, cfs, files, settlement, bill, paying,
                  restarts, lost>> /\ work.phase = "ROWS"
  BY <1>1, ProcessFailedIs
<1>4. CASE NextRow /\ UNCHANGED <<inv, refs, receipts>>
  <2>1. WorkTyped'
    BY <1>3, <1>4, NextRowTyped DEF Typed
  <2> QED
    BY <1>2, <1>3, <1>4, <2>1, SameTyped DEF Typed
<1>5. CASE Reopens(n)
  <2>1. "NSF_ROW" \in Phases \ {"IDLE"} /\ work.phase # "IDLE"
    BY <1>3 DEF Phases
  <2>2. WorkTyped'
    BY <1>3, <1>5, <2>1, PhaseTyped DEF Typed, Reopens
  <2>3. refs' \in [Items -> [Numbers -> RefStatus]]
    BY <1>5, SetReferencesTyped DEF RefStatus, Typed, Reopens
  <2>4. \A x \in Items : inv[x] \in Invoice /\ receipts[x] \in Nat
    BY ItemTyped DEF Typed
  <2>5. receipts' \in [Items -> Nat]
    <3>1. receipts' = [x \in Items |-> ReceiptsLeft(x, x \in Reopened(n))]
      BY <1>5 DEF Reopens
    <3>2. \A x \in Items : receipts[x] \in Nat
      BY <2>4
    <3>3. \A x \in Items : ReceiptsLeft(x, TRUE) \in Nat /\ ReceiptsLeft(x, FALSE) \in Nat
      BY <3>2 DEF ReceiptsLeft
    <3>4. \A x \in Items : ReceiptsLeft(x, x \in Reopened(n)) \in Nat
      BY <3>2 DEF ReceiptsLeft
    <3> QED
      BY <3>1, <3>4, Zenon
  <2>6. inv' \in [Items -> Invoice]
    <3>1. {"SETTLEMENT_SCHEDULED", "CREATED"} \subseteq InvoiceStatus /\ 0 \in 0..Total
      BY DEF InvoiceStatus, Total
    <3>2. \A x \in Items : [inv[x] EXCEPT !.status = "SETTLEMENT_SCHEDULED", !.paid = 0] \in Invoice
      BY <2>4, <3>1, InvoiceWith
    <3>3. [method |-> "CC", status |-> "CREATED", paid |-> 0] \in Invoice
      BY <3>1 DEF Invoice
    <3> QED
      BY <1>5, <2>4, <3>2, <3>3 DEF Reopens
  <2>7. InvoicesTyped'
    BY <1>3, <2>3, <2>5, <2>6 DEF InvoicesTyped, Typed
  <2> QED
    BY <1>2, <1>3, <2>2, <2>7, SameTyped DEF Typed
<1> QED
  BY <1>1, <1>4, <1>5, ProcessFailedIs, Zenon

LEMMA ProcessDuplicateTyped ==
    ASSUME Typed, ProcessDuplicate
    PROVE  Typed'
<1>1. work.phase # "IDLE" /\ NextRow /\ UNCHANGED files
  BY DEF ProcessDuplicate, external
<1>2. WorkTyped'
  BY <1>1, NextRowTyped DEF Typed
<1> QED
  BY <1>2, SameTyped DEF ProcessDuplicate, Typed, external, tables, faults

LEMMA SaveNsfTyped ==
    ASSUME Typed, SaveNsf
    PROVE  Typed'
<1>1. /\ work.phase # "IDLE" /\ UNCHANGED files /\ "NSF_REFERENCE" \in Phases \ {"IDLE"}
      /\ work' = [work EXCEPT !.phase = "NSF_REFERENCE"]
  BY DEF SaveNsf, external, Phases
<1>2. WorkTyped'
  BY <1>1, PhaseTyped DEF Typed
<1>3. row.number \in Numbers
  BY <1>1, RowOf DEF Typed
<1>4. CfsTyped'
  BY <1>3 DEF SaveNsf, external, Typed, CfsTyped
<1> QED
  BY <1>2, <1>4, SameTyped DEF SaveNsf, Typed, external, faults

LEMMA SaveNsfReferenceTyped ==
    ASSUME Typed, SaveNsfReference
    PROVE  Typed'
<1>1. PICK n : n = row.number
  OBVIOUS
<1>2. /\ work.phase # "IDLE" /\ UNCHANGED files /\ "NSF_ADJUSTMENT" \in Phases \ {"IDLE"}
      /\ \/ work' = IdleWork /\ UNCHANGED refs
         \/ /\ refs' = SetReferences({Fee(n)}, n, "ACTIVE")
            /\ work' = [work EXCEPT !.phase = "NSF_ADJUSTMENT"]
  BY <1>1 DEF SaveNsfReference, external, Phases
<1>3. WorkTyped'
  BY <1>2, PhaseTyped, IdleTyped DEF Typed
<1>4. refs' \in [Items -> [Numbers -> RefStatus]]
  <2>1. SetReferences({Fee(n)}, n, "ACTIVE") \in [Items -> [Numbers -> RefStatus]]
    BY SetReferencesTyped DEF RefStatus, Typed
  <2> QED
    BY <1>2, <2>1 DEF Typed, InvoicesTyped
<1>5. InvoicesTyped'
  BY <1>4 DEF SaveNsfReference, Typed, InvoicesTyped
<1> QED
  BY <1>3, <1>5, SameTyped DEF SaveNsfReference, Typed, external, faults

LEMMA AdjustNsfTyped ==
    ASSUME Typed, AdjustNsf
    PROVE  Typed'
<1>1. work.phase # "IDLE" /\ NextRow /\ UNCHANGED files
  BY DEF AdjustNsf
<1>2. WorkTyped'
  BY <1>1, NextRowTyped DEF Typed
<1>3. PICK n : n = row.number
  OBVIOUS
<1>4. n \in Numbers
  BY <1>1, <1>3, RowOf DEF Typed
<1>5. cfs' = [cfs EXCEPT ![n] = [cfs[n] EXCEPT !.fees = @ + 1]] /\ nsf' = nsf
  BY <1>3 DEF AdjustNsf, tables
<1>6. CfsTyped'
  <2>1. [cfs[n] EXCEPT !.fees = @ + 1] \in CfsInvoice
    BY <1>4, NumberTyped, CfsInvoiceWith DEF Typed
  <2> QED
    BY <1>4, <1>5, <2>1 DEF Typed, CfsTyped
<1> QED
  BY <1>2, <1>6, SameTyped DEF AdjustNsf, Typed, tables, faults

LEMMA CreatePaymentRecordsTyped ==
    ASSUME Typed, CreatePaymentRecords
    PROVE  Typed'
<1>1. work.phase = "PAYMENTS" /\ UNCHANGED files
  BY DEF CreatePaymentRecords, external
<1>2. payments' \in Seq(Payment)
  <2>1. PICK ps \in Seq(Payment) : ps = payments
    BY DEF Typed, PaymentsTyped
  <2>2. PICK pay \in Payment : pay = NewPayment
    <3>1. PICK n \in Numbers : n = row.number
      BY <1>1, RowOf DEF Typed
    <3>2. PICK m : m = IF row.type = "BOLP" THEN "ONLINE_BANKING" ELSE "PAD"
      OBVIOUS
    <3>3. PICK t : t = IF row.status = "NOT_PAID" THEN "FAILED" ELSE "COMPLETED"
      OBVIOUS
    <3>4. NewPayment = [number |-> n, cons |-> 0, method |-> m, status |-> t]
      BY <3>1, <3>2, <3>3 DEF NewPayment
    <3>5. [number |-> n, cons |-> 0, method |-> m, status |-> t] \in Payment
      BY <3>2, <3>3 DEF Payment
    <3> QED
      BY <3>4, <3>5
  <2>3. \A p : Overwritten(p) \in Seq(Payment)
    <3> SUFFICES ASSUME NEW p PROVE Overwritten(p) \in Seq(Payment)
      OBVIOUS
    <3>1. CASE p \in DOMAIN ps
      <4>1. PICK q \in Payment : q = [ps[p] EXCEPT !.method = pay.method, !.status = pay.status]
        <5>1. ps[p] \in Payment
          BY <3>1
        <5>2. pay.method \in {"PAD", "ONLINE_BANKING"} /\ pay.status \in {"FAILED", "COMPLETED"}
          BY <2>2 DEF NewPayment
        <5> QED
          BY <5>1, <5>2 DEF Payment
      <4>2. Overwritten(p) = [ps EXCEPT ![p] = q]
        BY <2>1, <2>2, <3>1, <4>1 DEF Overwritten
      <4> QED
        BY <3>1, <4>2
    <3>2. CASE p \notin DOMAIN ps
      <4>1. Overwritten(p) = ps
        BY <2>1, <3>2 DEF Overwritten
      <4> QED
        BY <4>1
    <3> QED
      BY <3>1, <3>2
  <2>4. Append(payments, NewPayment) \in Seq(Payment)
    BY <2>1, <2>2, AppendProperties
  <2>5. SavedPayments \in Seq(Payment)
    BY <2>1, <2>3, <2>4, Zenon DEF SavedPayments
  <2>6. payments' = payments \/ payments' = SavedPayments
    BY DEF CreatePaymentRecords
  <2> QED
    BY <2>1, <2>5, <2>6
<1>3. WorkTyped'
  <2>1. \/ work' = IdleWork
        \/ work.row < Len(files[work.file]) /\ work' = [work EXCEPT !.row = @ + 1]
    BY DEF CreatePaymentRecords
  <2>2. CASE work.row < Len(files[work.file]) /\ work' = [work EXCEPT !.row = @ + 1]
    <3>1. PICK s \in Seq(Row) : s = files[work.file]
      BY <1>1, RowOf DEF Typed
    <3>2. PICK w \in [phase : Phases, file : Nat, row : Nat] : w = work
      BY DEF Typed, WorkTyped
    <3>3. w.row \in 1..Len(s) /\ w.row < Len(s) /\ Len(s) \in Nat /\ DOMAIN s = 1..Len(s)
      BY <1>1, <2>2, <3>1, <3>2, RowOf DEF Typed
    <3>4. w.row + 1 \in DOMAIN s /\ w.row + 1 \in Nat
      BY <3>3
    <3>5. /\ work' \in [phase : Phases, file : Nat, row : Nat]
          /\ work'.phase = w.phase /\ work'.file = w.file /\ work'.row = w.row + 1
      BY <2>2, <3>2, <3>4
    <3>6. w.phase = "PAYMENTS" /\ w.file \in DOMAIN files /\ files'[w.file] = s
      BY <1>1, <3>1, <3>2, RowOf DEF Typed
    <3> QED
      BY <1>1, <3>4, <3>5, <3>6 DEF WorkTyped
  <2> QED
    BY <2>1, <2>2, IdleTyped
<1>4. FilesTyped'
  <2>1. settlement' = settlement \/ settlement' = [settlement EXCEPT ![work.file] = "PROCESSED"]
    BY DEF CreatePaymentRecords
  <2>2. PICK ss \in Seq(SettlementStatus) : ss = settlement
    BY DEF Typed, FilesTyped
  <2>3. PICK f : f = work.file
    OBVIOUS
  <2>4. PICK ts : ts = [ss EXCEPT ![f] = "PROCESSED"]
    OBVIOUS
  <2>5. ts \in Seq(SettlementStatus) /\ Len(ts) = Len(ss)
    <3>1. {"STARTED", "PROCESSED", "REMOVED"} \subseteq SettlementStatus
      BY DEF SettlementStatus
    <3> QED
      BY <2>2, <2>4, <3>1, SeqPut
  <2>6. settlement' = settlement \/ settlement' = ts
    BY <2>1, <2>2, <2>3, <2>4
  <2> QED
    BY <1>1, <2>2, <2>5, <2>6 DEF Typed, FilesTyped
<1> QED
  BY <1>2, <1>3, <1>4, SameTyped DEF CreatePaymentRecords, Typed, PaymentsTyped, external, faults

LEMMA RestartTyped ==
    ASSUME Typed, NEW f \in DOMAIN files, Restart(f)
    PROVE  Typed'
<1>1. FilesTyped'
  <2>1. settlement' = [settlement EXCEPT ![f] = "REMOVED"] /\ UNCHANGED files
    BY DEF Restart, external
  <2>2. PICK ss \in Seq(SettlementStatus) : ss = settlement
    BY DEF Typed, FilesTyped
  <2>3. PICK ts : ts = [ss EXCEPT ![f] = "REMOVED"]
    OBVIOUS
  <2>4. ts \in Seq(SettlementStatus) /\ Len(ts) = Len(ss)
    <3>1. "STARTED" \in SettlementStatus /\ "REMOVED" \in SettlementStatus
      BY DEF SettlementStatus
    <3> QED
      BY <2>2, <2>3, <3>1, SeqPut
  <2>5. settlement' = ts
    BY <2>1, <2>2, <2>3
  <2> QED
    BY <2>1, <2>2, <2>4, <2>5 DEF Typed, FilesTyped
<1>2. CountsTyped'
  <2>1. MaxRestarts \in Nat /\ restarts \in 0..MaxRestarts
    BY SettlementConstants DEF Typed, CountsTyped
  <2>2. restarts' = restarts + 1 /\ restarts < MaxRestarts /\ lost' = lost
    BY DEF Restart
  <2> QED
    BY <2>1, <2>2 DEF Typed, CountsTyped
<1> QED
  BY <1>1, <1>2, SameTyped DEF Restart, Typed, tables, external

LEMMA WorkerDiesTyped ==
    ASSUME Typed, WorkerDies
    PROVE  Typed'
<1>1. CountsTyped'
  BY LoseTyped DEF WorkerDies, Losses, Typed
<1>2. WorkTyped'
  BY IdleTyped DEF WorkerDies
<1> QED
  BY <1>1, <1>2, SameTyped DEF WorkerDies, Typed, tables, external

LEMMA InitTyped ==
    ASSUME Init
    PROVE  Typed
<1>1. InvoicesTyped
  BY DEF Init, InvoicesTyped, Invoice, InvoiceStatus, RefStatus, Total
<1>2. AccountsTyped /\ CfsTyped
  BY DEF Init, AccountsTyped, CfsTyped, CfsInvoice
<1>3. PaymentsTyped
  BY DEF Init, PaymentsTyped
<1>4. FilesTyped
  <2>1. files = <<>> /\ settlement = <<>>
    BY DEF Init
  <2>2. PICK n : n = Len(files)
    OBVIOUS
  <2>3. /\ files \in Seq(File) /\ settlement \in Seq(SettlementStatus)
        /\ Len(settlement) = Len(files) /\ DOMAIN files = {}
    BY <2>1 DEF SettlementStatus
  <2> QED
    BY <2>3 DEF FilesTyped, Filled
<1>5. WorkTyped /\ BillTyped
  BY DEF Init, WorkTyped, BillTyped, IdleWork, NoBill, Phases
<1>6. CountsTyped
  BY SettlementConstants DEF Init, CountsTyped
<1> QED
  BY <1>1, <1>2, <1>3, <1>4, <1>5, <1>6 DEF Typed

LEMMA NextTyped ==
    ASSUME Typed, [Next]_vars
    PROVE  Typed'
<1>1. CASE UNCHANGED vars
  BY <1>1, SameTyped DEF vars, tables, external, faults, Typed
<1>2. ASSUME NEW i \in Invoices, NEW m \in Methods, CreateInvoice(i, m)
      PROVE  Typed'
  BY <1>2, CreateInvoiceTyped
<1>3. ASSUME NEW i \in Invoices, RefundInvoice(i) \/ BillOnlineBanking(i)
      PROVE  Typed'
  BY <1>3, RefundInvoiceTyped, BillOnlineBankingTyped
<1>4. ASSUME NEW a \in Accounts,
             \/ RetryPayment(a) \/ CreateRetryPayment(a) \/ RetryLost(a)
             \/ UnlockFlag(a) \/ UnlockStatus(a) \/ RequestDies(a) \/ BillPad(a)
      PROVE  Typed'
  BY <1>4, RetryPaymentTyped, CreateRetryPaymentTyped, RetryLostTyped, UnlockTyped,
     BillPadTyped
<1>5. ASSUME NEW p \in DOMAIN payments, PayByCard(p)
      PROVE  Typed'
  BY <1>5, PayByCardTyped
<1>6. CASE BillPadEnd
  BY <1>6, BillPadEndTyped
<1>7. ASSUME NEW n \in Invoices, Debit(n) \/ Return(n) \/ RepeatReturn(n) \/ Deposit(n)
      PROVE  Typed'
  BY <1>7, BankTyped
<1>8. ASSUME NEW n \in Invoices, NEW items \in SUBSET Invoices, BillLost(n, items)
      PROVE  Typed'
  BY <1>8, BillLostTyped
<1>9. ASSUME NEW f \in DOMAIN files, Receive(f) \/ Restart(f)
      PROVE  Typed'
  BY <1>9, ReceiveTyped, RestartTyped
<1>10. CASE ProcessRow
  BY <1>10, ProcessConsolidatedPaidTyped, ProcessUnconsolidatedTyped, ProcessFailedTyped,
     ProcessDuplicateTyped, SaveNsfTyped, SaveNsfReferenceTyped, AdjustNsfTyped DEF ProcessRow
<1>11. CASE CreatePaymentRecords \/ WorkerDies
  BY <1>11, CreatePaymentRecordsTyped, WorkerDiesTyped
<1>12. ASSUME NEW a \in Accounts, NEW numbers \in SUBSET FailedNumbers(a),
              RetryBreaksOff(a, numbers)
       PROVE  Typed'
  BY <1>12, RetryBreaksOffTyped
<1> QED
  BY <1>1, <1>2, <1>3, <1>4, <1>5, <1>6, <1>7, <1>8, <1>9, <1>10, <1>11, <1>12 DEF Next

\* Whatever the numbers of invoices, accounts, rows and losses, each variable has
\* its type, and the worker is at a row that exists (the tables of the model,
\* payment_reconciliations.py's walk over a file).
THEOREM TypeCorrect == Spec => []TypeOK
<1>1. Init => Typed
  BY InitTyped
<1>2. Typed /\ [Next]_vars => Typed'
  BY NextTyped
<1>3. Typed => TypeOK
  BY TypedIsTypeOK
<1> QED
  BY <1>1, <1>2, <1>3, PTL DEF Spec

-----------------------------------------------------------------------------
(* What a step that leaves the numbers alone keeps.                        *)

\* No number is given or taken away.
SameLive == \A x \in Items : \A n \in Numbers : Live(x, n)' <=> Live(x, n)

\* An invoice that is known stays known.
Kept ==
    \A x \in Items : inv[x].status # "NONE" =>
        inv'[x].method = inv[x].method /\ inv'[x].status # "NONE"

\* CFS bills nothing that it did not bill.
CfsStands ==
    \A n \in Numbers : /\ cfs'[n].fees = cfs[n].fees /\ cfs'[n].bills = cfs[n].bills
                       /\ cfs'[n].status = "NONE" <=> cfs[n].status = "NONE"
                       /\ Standing(n)' => Standing(n)

RowStays ==
    \/ work' = work /\ (work.phase # "IDLE" => row' = row)
    \/ work'.phase \in {"IDLE", "ROWS", "PAYMENTS"}

LEMMA RefsUnchanged ==
    ASSUME UNCHANGED refs
    PROVE  SameLive /\ \A x \in Items : HasCompleted(x)' <=> HasCompleted(x)
BY DEF SameLive, Live, HasCompleted

LEMMA CfsUnchanged ==
    ASSUME UNCHANGED cfs
    PROVE  CfsStands
BY DEF CfsStands, Standing

LEMMA InvUnchanged ==
    ASSUME UNCHANGED inv
    PROVE  Kept /\ \A x \in Items \ Invoices : inv'[x].method = inv[x].method
BY DEF Kept

LEMMA KnownStays ==
    ASSUME Kept, NEW i \in Items, NEW m, KnownAs(i, m)
    PROVE  KnownAs(i, m)'
BY DEF Kept, KnownAs

LEMMA NoLiveSame ==
    ASSUME SameLive, NEW x \in Items
    PROVE  NoLive(x)' <=> NoLive(x)
BY DEF SameLive, NoLive

LEMMA FrameOneLive ==
    ASSUME OneLive, SameLive
    PROVE  OneLive'
BY DEF OneLive, SameLive

LEMMA FrameBill ==
    ASSUME Typed, BillWaits, UNCHANGED bill, Kept,
           \A x \in Items : NoLive(x) => NoLive(x)'
    PROVE  BillWaits'
<1> SUFFICES ASSUME NEW i \in bill.items
             PROVE  KnownAs(i, "PAD")' /\ NoLive(i)'
  BY DEF BillWaits, KnownAs, NoLive, Live
<1>1. i \in Items
  BY Sets DEF Typed, BillTyped
<1>2. KnownAs(i, "PAD") /\ NoLive(i)
  BY DEF BillWaits
<1> QED
  BY <1>1, <1>2, KnownStays

LEMMA ItemOfStays ==
    ASSUME Kept, NEW x \in Items, NEW n \in Invoices, ItemOf(x, n)
    PROVE  ItemOf(x, n)'
<1>1. n \in Items
  BY Sets
<1>2. CASE x = n /\ inv[n].status # "NONE"
  BY <1>1, <1>2 DEF ItemOf, Kept
<1>3. CASE x = Fee(n) /\ KnownAs(n, "PAD")
  BY <1>1, <1>3, KnownStays DEF ItemOf
<1>4. CASE x \in Invoices /\ KnownAs(x, "PAD") /\ KnownAs(n, "PAD")
  BY <1>1, <1>4, KnownStays DEF ItemOf
<1> QED
  BY <1>2, <1>3, <1>4 DEF ItemOf

LEMMA FrameNumbers ==
    ASSUME NumbersKept, Kept,
           \A x \in Items : \A n \in Invoices : Live(x, n)' => Live(x, n),
           \A n \in Invoices : cfs'[n].status # "NONE" =>
               cfs[n].status # "NONE" \/ inv[n].status # "NONE"
    PROVE  NumbersKept'
<1>1. ASSUME NEW x \in Items, NEW n \in Invoices, Live(x, n)'
      PROVE  ItemOf(x, n)'
  <2>1. ItemOf(x, n)
    BY <1>1 DEF NumbersKept
  <2> QED
    BY <2>1, ItemOfStays
<1>2. ASSUME NEW n \in Invoices, cfs'[n].status # "NONE"
      PROVE  inv'[n].status # "NONE"
  <2>1. inv[n].status # "NONE" /\ n \in Items
    BY <1>2, Sets DEF NumbersKept
  <2> QED
    BY <2>1 DEF Kept
<1> QED
  BY <1>1, <1>2 DEF NumbersKept

LEMMA AboutStays ==
    ASSUME Kept, NEW r, RowAbout(r)
    PROVE  RowAbout(r)'
<1>1. r.number \in Items
  BY Sets DEF RowAbout
<1> QED
  BY <1>1, KnownStays DEF RowAbout

LEMMA FrameRows ==
    ASSUME RowsKept, Kept, UNCHANGED files
    PROVE  RowsKept'
<1>1. \A f \in DOMAIN files : \A k \in DOMAIN files[f] : RowAbout(files[f][k])'
  <2> SUFFICES ASSUME NEW f \in DOMAIN files, NEW k \in DOMAIN files[f]
               PROVE  RowAbout(files[f][k])'
    OBVIOUS
  <2>1. PICK r : r = files[f][k]
    OBVIOUS
  <2>2. RowAbout(r)
    BY <2>1 DEF RowsKept
  <2>3. RowAbout(r)'
    BY <2>2, AboutStays
  <2>4. files'[f][k] = r
    BY <2>1
  <2> QED
    BY <2>3, <2>4 DEF RowAbout, KnownAs
<1> QED
  BY <1>1 DEF RowsKept, RowAbout, KnownAs

LEMMA FrameFees ==
    ASSUME FeesKept, nsf \subseteq nsf',
           \A x \in Items \ Invoices : inv'[x].method = "CC",
           \A x \in Items \ Invoices : NoLive(x) => NoLive(x)',
           \A n \in Numbers : cfs'[n].fees = cfs[n].fees \/ cfs'[n].fees = 0
    PROVE  FeesKept'
<1>1. ASSUME NEW x \in Items \ Invoices, x - NumInvoices \notin nsf'
      PROVE  NoLive(x)'
  BY <1>1 DEF FeesKept
<1>2. ASSUME NEW n \in Numbers
      PROVE  cfs'[n].fees <= 1 /\ (n \notin nsf' => cfs'[n].fees = 0)
  BY DEF FeesKept
<1> QED
  BY <1>1, <1>2 DEF FeesKept

LEMMA FrameReturning ==
    ASSUME Typed, Returning, RowStays,
           nsf \subseteq nsf', work' = work => nsf' = nsf,
           \A x \in Items \ Invoices : NoLive(x) => NoLive(x)',
           \A n \in Numbers : cfs'[n].fees = cfs[n].fees \/ cfs'[n].fees = 0,
           work.phase = "NSF_REFERENCE" => row.number \in Invoices
    PROVE  Returning'
<1>1. CASE work'.phase \in {"IDLE", "ROWS", "PAYMENTS"}
  BY <1>1 DEF Returning
<1>2. CASE work' = work /\ (work.phase # "IDLE" => row' = row)
  <2>1. CASE work.phase = "NSF_ROW"
    BY <1>2, <2>1 DEF Returning
  <2>2. CASE work.phase \in {"NSF_REFERENCE", "NSF_ADJUSTMENT"}
    <3>1. PICK n \in Numbers : n = row.number
      BY <2>2, RowOf DEF Typed
    <3>2. row' = row /\ work' = work
      BY <1>2, <2>2
    <3>3. n \in nsf' /\ cfs'[n].fees = 0 /\ row.status = "NOT_PAID"
      BY <2>2, <3>1 DEF Returning
    <3>4. work.phase = "NSF_REFERENCE" => NoLive(Fee(n))'
      BY <3>1, Sets DEF Returning
    <3> QED
      BY <2>2, <3>1, <3>2, <3>3, <3>4 DEF Returning
  <2>3. CASE work.phase \notin {"NSF_ROW", "NSF_REFERENCE", "NSF_ADJUSTMENT"}
    BY <1>2, <2>3 DEF Returning
  <2> QED
    BY <2>1, <2>2, <2>3
<1> QED
  BY <1>1, <1>2 DEF RowStays

LEMMA FrameReferred ==
    ASSUME Referred, lost \subseteq lost', CfsStands, UNCHANGED bill,
           Typed, \A x \in Items : \A n \in Numbers : Live(x, n) => Live(x, n)'
    PROVE  Referred'
<1> SUFFICES ASSUME "answer" \notin lost', NEW n \in Numbers, Standing(n)', NEW x \in cfs'[n].bills
             PROVE  Live(x, n)' \/ (bill'.number = n /\ x \in bill'.items)
  BY DEF Referred
<1>1. "answer" \notin lost /\ Standing(n) /\ x \in cfs[n].bills
  BY DEF CfsStands
<1>2. x \in Items
  BY <1>1, NumberTyped DEF Typed
<1>3. Live(x, n) \/ (bill.number = n /\ x \in bill.items)
  BY <1>1 DEF Referred
<1> QED
  BY <1>2, <1>3

LEMMA RowIsAbout ==
    ASSUME Typed, RowsKept, work.phase # "IDLE"
    PROVE  RowAbout(row) /\ row.number \in Invoices
<1>1. PICK f \in DOMAIN files : \E k \in DOMAIN files[f] : row = files[f][k]
  BY RowOf DEF Typed
<1>2. RowAbout(row)
  BY <1>1 DEF RowsKept
<1> QED
  BY <1>2 DEF RowAbout

\* A step that gives no number and takes none.
LEMMA Frame ==
    ASSUME Typed, IInv, SameLive, Kept, CfsStands, UNCHANGED <<nsf, bill>>,
           lost \subseteq lost',
           \A x \in Items \ Invoices : inv'[x].method = inv[x].method
    PROVE  /\ OneLive' /\ BillWaits' /\ NumbersKept' /\ FeesKept' /\ Referred'
           /\ RowStays => Returning'
           /\ UNCHANGED files => RowsKept'
<1>1. \A x \in Items : NoLive(x) => NoLive(x)'
  BY NoLiveSame
<1>2. /\ \A x \in Items : \A n \in Invoices : Live(x, n)' => Live(x, n)
      /\ \A x \in Items : \A n \in Numbers : Live(x, n) => Live(x, n)'
  BY Sets DEF SameLive
<1>3. \A n \in Numbers : cfs'[n].fees = cfs[n].fees \/ cfs'[n].fees = 0
  BY DEF CfsStands
<1>4. \A n \in Invoices : cfs'[n].status # "NONE" =>
               cfs[n].status # "NONE" \/ inv[n].status # "NONE"
  BY Sets DEF CfsStands
<1>5. OneLive' /\ BillWaits'
  BY <1>1, FrameOneLive, FrameBill DEF IInv
<1>6. NumbersKept'
  BY <1>2, <1>4, FrameNumbers DEF IInv
<1>7. FeesKept'
  <2>1. \A x \in Items \ Invoices : inv'[x].method = "CC"
    BY DEF IInv, FeesKept
  <2> QED
    BY <1>1, <1>3, <2>1, FrameFees DEF IInv
<1>8. Referred'
  BY <1>2, FrameReferred DEF IInv
<1>9. RowStays => Returning'
  <2>1. work.phase = "NSF_REFERENCE" => row.number \in Invoices
    BY RowIsAbout DEF IInv
  <2> QED
    BY <1>1, <1>3, <2>1, FrameReturning DEF IInv
<1>10. UNCHANGED files => RowsKept'
  BY FrameRows DEF IInv
<1> QED
  BY <1>5, <1>6, <1>7, <1>8, <1>9, <1>10

LEMMA FrameStatus ==
    ASSUME IInv, UNCHANGED inv, \A x \in Items : HasCompleted(x)' <=> HasCompleted(x),
           \A x \in Items : receipts'[x] = receipts[x],
           \A i \in Invoices : NoLive(i) /\ ~KnownAs(i, "PAD") => NoLive(i)'
    PROVE  ReceiptsCount' /\ StatusFollows' /\ Unbilled'
<1>1. ReceiptsCount'
  BY Zenon DEF IInv, ReceiptsCount
<1>2. StatusFollows'
  BY DEF IInv, StatusFollows
<1>3. Unbilled'
  <2> SUFFICES ASSUME NEW i \in Invoices
               PROVE  /\ inv[i].status = "NONE" => inv[i].method = "PAD" /\ NoLive(i)'
                      /\ inv[i].status = "APPROVED" => ~HasCompleted(i)'
                      /\ inv[i].status = "CREATED" /\ inv[i].method = "ONLINE_BANKING"
                             => NoLive(i)'
    BY DEF Unbilled
  <2>1. i \in Items
    BY Sets
  <2> QED
    BY <2>1 DEF IInv, Unbilled, KnownAs
<1> QED
  BY <1>1, <1>2, <1>3

\* A step about accounts, payments or files, or the worker going on.
LEMMA QuietStep ==
    ASSUME IInv, Typed', UNCHANGED <<inv, refs, receipts, nsf, cfs, files, bill>>,
           lost \subseteq lost', RowStays
    PROVE  IInv'
<1>1. Typed
  BY DEF IInv
<1>2. SameLive /\ CfsStands /\ Kept
  BY RefsUnchanged, CfsUnchanged, InvUnchanged
<1>3. /\ OneLive' /\ BillWaits' /\ NumbersKept' /\ FeesKept' /\ Referred' /\ Returning'
      /\ RowsKept'
  BY <1>1, <1>2, Frame
<1>4. ReceiptsCount' /\ StatusFollows' /\ Unbilled'
  BY <1>2, FrameStatus, RefsUnchanged, NoLiveSame, Sets
<1> QED
  BY <1>3, <1>4 DEF IInv

-----------------------------------------------------------------------------
(* The steps keep the invariant.                                           *)

LEMMA CreateInvoiceKeeps ==
    ASSUME IInv, Typed', NEW i \in Invoices, NEW m \in Methods, CreateInvoice(i, m)
    PROVE  IInv'
<1>1. Typed /\ i \in Items
  BY Sets DEF IInv
<1>2. UNCHANGED <<refs, receipts, nsf, cfs, files, work, bill, lost>>
  BY DEF CreateInvoice, external, faults
<1>3. /\ inv[i].status = "NONE"
      /\ inv' = [inv EXCEPT ![i] = [method |-> m, paid |-> 0,
                    status |-> IF m = "PAD" THEN "APPROVED" ELSE "CREATED"]]
  BY DEF CreateInvoice
<1>4. \A x \in Items : x # i => inv'[x] = inv[x]
  BY <1>1, <1>3 DEF Typed, InvoicesTyped
<1>5. /\ inv'[i].method = m /\ m \in {"PAD", "ONLINE_BANKING"}
      /\ inv'[i].status \in {"APPROVED", "CREATED"}
  BY <1>1, <1>3, SettlementConstants DEF Typed, InvoicesTyped
<1>6. NoLive(i) /\ inv[i].method = "PAD"
  BY <1>3 DEF IInv, Unbilled
<1>7. Kept /\ \A x \in Items \ Invoices : inv'[x].method = inv[x].method
  BY <1>3, <1>4 DEF Kept
<1>8. SameLive /\ CfsStands /\ \A x \in Items : HasCompleted(x)' <=> HasCompleted(x)
  BY <1>2, RefsUnchanged, CfsUnchanged
<1>9. RowStays
  BY <1>2 DEF RowStays, row
<1>10. /\ OneLive' /\ BillWaits' /\ NumbersKept' /\ FeesKept' /\ Referred' /\ Returning'
       /\ RowsKept'
  BY <1>1, <1>2, <1>7, <1>8, <1>9, Frame
<1>11. ~HasCompleted(i)
  BY <1>6 DEF NoLive, HasCompleted, Live
<1>12. receipts[i] = 0
  BY <1>1, <1>6, <1>11 DEF IInv, ReceiptsCount
<1>13. ReceiptsCount'
  <2> SUFFICES ASSUME NEW x \in Items, inv'[x].method # "ONLINE_BANKING"
               PROVE  receipts'[x] = IF HasCompleted(x)' THEN 1 ELSE 0
    BY DEF ReceiptsCount
  <2>1. CASE x = i
    BY <1>2, <1>8, <1>11, <1>12, <2>1
  <2>2. CASE x # i
    <3>1. receipts[x] = IF HasCompleted(x) THEN 1 ELSE 0
      BY <1>4, <2>2 DEF IInv, ReceiptsCount
    <3> QED
      BY <1>2, <1>8, <3>1
  <2> QED
    BY <2>1, <2>2
<1>14. StatusFollows'
  <2> SUFFICES ASSUME NEW x \in Items
               PROVE  /\ inv'[x].status = "PAID" => HasCompleted(x)'
                      /\ inv'[x].status = "SETTLEMENT_SCHEDULED"
                            /\ inv'[x].method # "ONLINE_BANKING" => ~HasCompleted(x)'
    BY DEF StatusFollows
  <2> QED
    BY <1>4, <1>5, <1>8 DEF IInv, StatusFollows
<1>15. Unbilled'
  <2> SUFFICES ASSUME NEW j \in Invoices
               PROVE  /\ inv'[j].status = "NONE" => inv'[j].method = "PAD" /\ NoLive(j)'
                      /\ inv'[j].status = "APPROVED" => ~HasCompleted(j)'
                      /\ inv'[j].status = "CREATED" /\ inv'[j].method = "ONLINE_BANKING"
                             => NoLive(j)'
    BY DEF Unbilled
  <2>1. j \in Items /\ (NoLive(j)' <=> NoLive(j))
    BY <1>8, Sets, NoLiveSame
  <2> QED
    BY <1>4, <1>5, <1>6, <1>8, <1>11, <2>1 DEF IInv, Unbilled
<1> QED
  BY <1>10, <1>13, <1>14, <1>15 DEF IInv

\* A step that changes the status of invoices other than to what says something
\* about their numbers.
LEMMA StatusStep ==
    ASSUME IInv, UNCHANGED refs,
           \A x \in Items :
              /\ inv'[x].method = inv[x].method
              /\ \/ inv'[x].status = inv[x].status
                 \/ inv'[x].status \in {"CANCELLED", "CREDITED", "PARTIAL"}
                 \/ inv[x].method = "ONLINE_BANKING" /\ inv'[x].status = "SETTLEMENT_SCHEDULED"
    PROVE  StatusFollows' /\ Unbilled'
<1>1. SameLive /\ \A x \in Items : HasCompleted(x)' <=> HasCompleted(x)
  BY RefsUnchanged
<1>2. StatusFollows'
  <2> SUFFICES ASSUME NEW x \in Items
               PROVE  /\ inv'[x].status = "PAID" => HasCompleted(x)'
                      /\ inv'[x].status = "SETTLEMENT_SCHEDULED"
                            /\ inv'[x].method # "ONLINE_BANKING" => ~HasCompleted(x)'
    BY DEF StatusFollows
  <2> QED
    BY <1>1 DEF IInv, StatusFollows
<1>3. Unbilled'
  <2> SUFFICES ASSUME NEW j \in Invoices
               PROVE  /\ inv'[j].status = "NONE" => inv'[j].method = "PAD" /\ NoLive(j)'
                      /\ inv'[j].status = "APPROVED" => ~HasCompleted(j)'
                      /\ inv'[j].status = "CREATED" /\ inv'[j].method = "ONLINE_BANKING"
                             => NoLive(j)'
    BY DEF Unbilled
  <2>1. j \in Items /\ (NoLive(j)' <=> NoLive(j))
    BY <1>1, Sets, NoLiveSame
  <2> QED
    BY <1>1, <2>1 DEF IInv, Unbilled
<1> QED
  BY <1>2, <1>3

LEMMA RefundInvoiceKeeps ==
    ASSUME IInv, Typed', NEW i \in Invoices, RefundInvoice(i)
    PROVE  IInv'
<1>1. Typed /\ i \in Items
  BY Sets DEF IInv
<1>2. UNCHANGED <<refs, receipts, nsf, cfs, files, work, bill, lost>>
  BY DEF RefundInvoice, external, faults
<1>3. PICK v \in {"CANCELLED", "CREDITED"} :
        inv' = [inv EXCEPT ![i] = [inv[i] EXCEPT !.status = v]]
  BY DEF RefundInvoice
<1>4. \A x \in Items : x # i => inv'[x] = inv[x]
  BY <1>1, <1>3 DEF Typed, InvoicesTyped
<1>5. inv'[i].method = inv[i].method /\ inv'[i].status = v
  <2>1. inv[i] \in Invoice /\ inv'[i] = [inv[i] EXCEPT !.status = v]
    BY <1>1, <1>3 DEF Typed, InvoicesTyped
  <2> QED
    BY <2>1 DEF Invoice
<1>6. Kept /\ \A x \in Items : inv'[x].method = inv[x].method
  BY <1>4, <1>5 DEF Kept
<1>7. SameLive /\ CfsStands /\ \A x \in Items : HasCompleted(x)' <=> HasCompleted(x)
  BY <1>2, RefsUnchanged, CfsUnchanged
<1>8. RowStays
  BY <1>2 DEF RowStays, row
<1>9. /\ OneLive' /\ BillWaits' /\ NumbersKept' /\ FeesKept' /\ Referred' /\ Returning'
      /\ RowsKept'
  BY <1>1, <1>2, <1>6, <1>7, <1>8, Frame
<1>10. ReceiptsCount'
  BY <1>2, <1>6, <1>7, Zenon DEF IInv, ReceiptsCount
<1>11. StatusFollows' /\ Unbilled'
  BY <1>2, <1>4, <1>5, StatusStep
<1> QED
  BY <1>9, <1>10, <1>11 DEF IInv

LEMMA FailedItemsLive ==
    ASSUME Typed, NEW a, NEW x \in FailedItems(a)
    PROVE  x \in Items /\ \E k \in FailedNumbers(a) : k \in Numbers /\ refs[x][k] = "ACTIVE"
<1>1. FailedNumbers(a) \subseteq Numbers
  BY ToConsolidate DEF FailedNumbers, Typed
<1>2. PICK k \in FailedNumbers(a) : x \in Having("ACTIVE", k)
  BY DEF FailedItems
<1> QED
  BY <1>1, <1>2 DEF Having

\* What CFS has after the numbers were reversed and, maybe, billed again.
LEMMA RebilledIs ==
    ASSUME Typed, NEW a, NEW new \in Numbers,
           cfs' = Rebilled(FailedNumbers(a), FailedItems(a), new)
    PROVE  /\ \A n \in Numbers : n = new /\ cfs[new].status = "NONE" =>
                cfs'[n].bills = FailedItems(a) /\ cfs'[n].fees = 0
           /\ \A n \in Numbers : ~(n = new /\ cfs[new].status = "NONE") =>
                /\ n \in FailedNumbers(a) =>
                     cfs'[n].status = "REVERSED" /\ cfs'[n].fees = cfs[n].fees
                /\ n \notin FailedNumbers(a) => cfs'[n] = cfs[n]
<1> DEFINE again == [status |-> "OPEN", bills |-> FailedItems(a), fees |-> 0]
<1>1. PICK R : R = ReversedInCfs(FailedNumbers(a))
  OBVIOUS
<1>2. R \in [Numbers -> CfsInvoice]
  BY <1>1, ReversedTyped DEF Typed
<1>3. \A n \in Numbers :
        R[n] = IF n \in FailedNumbers(a) THEN [cfs[n] EXCEPT !.status = "REVERSED"] ELSE cfs[n]
  BY <1>1 DEF ReversedInCfs
<1>4. \A n \in Numbers : n \in FailedNumbers(a) =>
        R[n].status = "REVERSED" /\ R[n].fees = cfs[n].fees
  <2>1. \A n \in Numbers : cfs[n] \in CfsInvoice
    BY NumberTyped DEF Typed
  <2>2. \A c \in CfsInvoice : /\ [c EXCEPT !.status = "REVERSED"].status = "REVERSED"
                              /\ [c EXCEPT !.status = "REVERSED"].fees = c.fees
    BY DEF CfsInvoice
  <2> QED
    BY <1>3, <2>1, <2>2
<1>5. \A n \in Numbers : n \notin FailedNumbers(a) => R[n] = cfs[n]
  BY <1>3
<1>6. CASE cfs[new].status = "NONE"
  <2>1. cfs' = [R EXCEPT ![new] = again]
    BY <1>1, <1>6 DEF Rebilled
  <2>2. cfs'[new].bills = FailedItems(a) /\ cfs'[new].fees = 0
    BY <1>2, <2>1
  <2>3. \A n \in Numbers : n # new => cfs'[n] = R[n]
    BY <1>2, <2>1
  <2> HIDE DEF again
  <2> QED
    BY <1>4, <1>5, <1>6, <2>2, <2>3
<1>7. CASE cfs[new].status # "NONE"
  <2>1. cfs' = R
    BY <1>1, <1>7 DEF Rebilled
  <2> QED
    BY <1>4, <1>5, <1>7, <2>1
<1> QED
  BY <1>6, <1>7

\* A number that failed is owed, so its invoice is known.
LEMMA FailedKnown ==
    ASSUME IInv, NEW a, NEW n \in Invoices, n \in FailedNumbers(a)
    PROVE  inv[n].status # "NONE"
<1>1. PICK p \in PaymentsToConsolidate(a) : n = payments[p].number
  BY DEF FailedNumbers
<1>2. PICK x \in Having("ACTIVE", n) : TRUE
  BY <1>1 DEF PaymentsToConsolidate
<1>3. x \in Items /\ Live(x, n)
  BY <1>2 DEF Having, Live
<1> QED
  BY <1>3 DEF IInv, NumbersKept, ItemOf, KnownAs

\* What holds of fees and numbers in CFS then.
LEMMA RebilledKeeps ==
    ASSUME IInv, NEW a, NEW new \in Numbers, new \notin Invoices,
           cfs' = Rebilled(FailedNumbers(a), FailedItems(a), new),
           UNCHANGED <<inv, nsf, files, work>>,
           \A x \in Items : NoLive(x) => NoLive(x)',
           \A x \in Items : \A n \in Invoices : Live(x, n)' => Live(x, n)
    PROVE  NumbersKept' /\ RowsKept' /\ FeesKept' /\ Returning'
<1>1. Typed
  BY DEF IInv
<1>2. RowStays /\ Kept
  BY InvUnchanged DEF RowStays, row
<1>3. \A n \in Numbers : cfs'[n].fees = cfs[n].fees \/ cfs'[n].fees = 0
  BY <1>1, RebilledIs
<1>4. NumbersKept'
  <2>1. \A n \in Invoices : cfs'[n].status # "NONE" =>
             cfs[n].status # "NONE" \/ inv[n].status # "NONE"
    <3> SUFFICES ASSUME NEW n \in Invoices, cfs'[n].status # "NONE"
                 PROVE  cfs[n].status # "NONE" \/ inv[n].status # "NONE"
      OBVIOUS
    <3>1. n \in Numbers /\ n # new
      BY Sets
    <3>2. CASE n \in FailedNumbers(a)
      BY <3>2, FailedKnown
    <3>3. CASE n \notin FailedNumbers(a)
      BY <1>1, <3>1, <3>3, RebilledIs
    <3> QED
      BY <3>2, <3>3
  <2> QED
    BY <1>2, <2>1, FrameNumbers DEF IInv
<1>5. RowsKept'
  BY <1>2, FrameRows DEF IInv
<1>6. FeesKept'
  <2>1. \A x \in Items \ Invoices : inv'[x].method = "CC"
    BY DEF IInv, FeesKept
  <2> QED
    BY <1>3, <2>1, FrameFees DEF IInv
<1>7. Returning'
  <2>1. work.phase = "NSF_REFERENCE" => row.number \in Invoices
    BY <1>1, RowIsAbout DEF IInv
  <2> QED
    BY <1>1, <1>2, <1>3, <2>1, FrameReturning DEF IInv
<1> QED
  BY <1>4, <1>5, <1>6, <1>7

LEMMA CreateRetryPaymentKeeps ==
    ASSUME IInv, Typed', NEW a \in Accounts, CreateRetryPayment(a)
    PROVE  IInv'
<1>1. Typed
  BY DEF IInv
<1>2. PICK new \in Numbers :
             /\ new \notin Invoices
             /\ cfs' = Rebilled(FailedNumbers(a), FailedItems(a), new)
             /\ refs' = [x \in Items |-> IF x \in FailedItems(a)
                                         THEN Consolidated(x, new) ELSE refs[x]]
  BY <1>1, RetryIs
<1>3. UNCHANGED <<inv, receipts, nsf, files, work, bill, lost>>
  BY DEF CreateRetryPayment, faults
<1>4. Kept
  BY <1>3, InvUnchanged
<1>5. \A x \in Items : x \notin FailedItems(a) => refs'[x] = refs[x]
  BY <1>2
<1>6. \A x \in FailedItems(a) : \A n \in Numbers :
        refs'[x][n] = IF n = new THEN "ACTIVE"
                      ELSE IF refs[x][n] = "ACTIVE" THEN "CANCELLED" ELSE refs[x][n]
  <2> SUFFICES ASSUME NEW x \in FailedItems(a)
               PROVE  refs'[x] = Consolidated(x, new)
    BY DEF Consolidated
  <2>1. x \in Items
    BY <1>1, FailedItemsLive
  <2> QED
    BY <1>2, <2>1
<1>7. ASSUME NEW x \in FailedItems(a)
      PROVE  /\ x \in Items /\ Live(x, new)' /\ ~HasCompleted(x) /\ ~HasCompleted(x)'
             /\ \A n \in Numbers : n # new => ~Live(x, n)'
             /\ \A n \in Numbers : Live(x, n) => n \in FailedNumbers(a)
  <2>1. PICK k \in FailedNumbers(a) : k \in Numbers /\ refs[x][k] = "ACTIVE"
    BY <1>1, FailedItemsLive
  <2>2. x \in Items
    BY <1>1, FailedItemsLive
  <2>3. \A n \in Numbers : Live(x, n) => n = k
    BY <2>1, <2>2 DEF IInv, OneLive, Live
  <2>4. \A n \in Numbers : refs[x][n] # "COMPLETED"
    BY <2>1, <2>3 DEF Live
  <2>5. refs'[x][new] = "ACTIVE"
    BY <1>6
  <2>6. \A n \in Numbers : n # new => refs'[x][n] \notin {"ACTIVE", "COMPLETED"}
    BY <1>6, <2>4
  <2> QED
    BY <2>1, <2>2, <2>3, <2>4, <2>5, <2>6 DEF Live, HasCompleted
<1>8. /\ \A x \in Items : HasCompleted(x)' <=> HasCompleted(x)
      /\ \A x \in Items : NoLive(x) => NoLive(x)'
      /\ \A x \in Items : \A n \in Numbers : n # new /\ Live(x, n)' => Live(x, n)
  <2> SUFFICES ASSUME NEW x \in Items
               PROVE  /\ HasCompleted(x)' <=> HasCompleted(x)
                      /\ NoLive(x) => NoLive(x)'
                      /\ \A n \in Numbers : n # new /\ Live(x, n)' => Live(x, n)
    OBVIOUS
  <2>1. CASE x \in FailedItems(a)
    <3>1. ~NoLive(x)
      BY <1>1, <2>1, FailedItemsLive DEF NoLive, Live
    <3> QED
      BY <1>7, <2>1, <3>1
  <2>2. CASE x \notin FailedItems(a)
    BY <1>5, <2>2 DEF HasCompleted, NoLive, Live
  <2> QED
    BY <2>1, <2>2
<1>9. OneLive'
  <2> SUFFICES ASSUME NEW x \in Items, NEW m \in Numbers, NEW n \in Numbers,
                      Live(x, m)', Live(x, n)'
               PROVE  m = n
    BY DEF OneLive
  <2>1. CASE x \in FailedItems(a)
    BY <1>7, <2>1
  <2>2. CASE x \notin FailedItems(a)
    BY <1>5, <2>2 DEF IInv, OneLive, Live
  <2> QED
    BY <2>1, <2>2
<1>10. NumbersKept' /\ RowsKept' /\ FeesKept' /\ Returning'
  <2>1. \A x \in Items : \A n \in Invoices : Live(x, n)' => Live(x, n)
    BY <1>2, <1>8, Sets
  <2> QED
    BY <1>2, <1>3, <1>8, <2>1, RebilledKeeps
<1>11. BillWaits'
  BY <1>1, <1>3, <1>4, <1>8, FrameBill DEF IInv
<1>12. Referred'
  <2> SUFFICES ASSUME "answer" \notin lost, NEW n \in Numbers, Standing(n)',
                      NEW x \in cfs'[n].bills
               PROVE  Live(x, n)' \/ (bill.number = n /\ x \in bill.items)
    BY <1>3 DEF Referred
  <2>1. CASE n = new /\ cfs[new].status = "NONE"
    <3>1. x \in FailedItems(a)
      BY <1>1, <1>2, <2>1, RebilledIs
    <3> QED
      BY <1>7, <2>1, <3>1
  <2>2. CASE ~(n = new /\ cfs[new].status = "NONE")
    <3>1. n \notin FailedNumbers(a) /\ cfs'[n] = cfs[n]
      BY <1>1, <1>2, <2>2, RebilledIs DEF Standing
    <3>2. Standing(n) /\ x \in cfs[n].bills
      BY <3>1 DEF Standing
    <3>3. Live(x, n) \/ (bill.number = n /\ x \in bill.items)
      BY <3>2 DEF IInv, Referred
    <3>4. x \in Items
      BY <1>1, <3>2, NumberTyped DEF Typed
    <3>5. ASSUME Live(x, n)
          PROVE  Live(x, n)'
      <4>1. x \notin FailedItems(a)
        BY <1>7, <3>1, <3>5
      <4> QED
        BY <1>5, <3>4, <3>5, <4>1 DEF Live
    <3> QED
      BY <3>3, <3>5
  <2> QED
    BY <2>1, <2>2
<1>13. ReceiptsCount' /\ StatusFollows' /\ Unbilled'
  BY <1>3, <1>8, FrameStatus, Sets
<1> QED
  BY <1>9, <1>10, <1>11, <1>12, <1>13 DEF IInv

LEMMA RetryPaymentKeeps ==
    ASSUME IInv, Typed', NEW a \in Accounts, RetryPayment(a)
    PROVE  IInv'
<1>1. UNCHANGED <<inv, refs, receipts, nsf, cfs, files, work, bill, lost>>
  BY DEF RetryPayment, external, faults
<1>2. RowStays
  BY <1>1 DEF RowStays, row
<1> QED
  BY <1>1, <1>2, QuietStep

LEMMA RetryBreaksOffKeeps ==
    ASSUME IInv, Typed', NEW a \in Accounts, NEW numbers \in SUBSET FailedNumbers(a),
           RetryBreaksOff(a, numbers)
    PROVE  IInv'
<1>1. Typed
  BY DEF IInv
<1>2. UNCHANGED <<inv, refs, receipts, nsf, files, work, bill>> /\ lost \subseteq lost'
  BY <1>1, RetryBreaksOffTyped DEF RetryBreaksOff, tables
<1>3. SameLive /\ Kept /\ (\A x \in Items \ Invoices : inv'[x].method = inv[x].method)
      /\ \A x \in Items : HasCompleted(x)' <=> HasCompleted(x)
  BY <1>2, RefsUnchanged, InvUnchanged
<1>4. RowStays
  BY <1>2 DEF RowStays, row
<1>5. CfsStands
  <2> SUFFICES ASSUME NEW n \in Numbers
               PROVE  /\ cfs'[n].fees = cfs[n].fees /\ cfs'[n].bills = cfs[n].bills
                      /\ cfs'[n].status = "NONE" <=> cfs[n].status = "NONE"
                      /\ Standing(n)' => Standing(n)
    BY DEF CfsStands
  <2>1. cfs[n] \in CfsInvoice
    BY <1>1, NumberTyped DEF Typed
  <2>2. cfs'[n] = IF n \in numbers THEN [cfs[n] EXCEPT !.status = "REVERSED"] ELSE cfs[n]
    BY DEF RetryBreaksOff, ReversedInCfs
  <2>3. n \in numbers => cfs[n].status # "NONE"
    BY DEF RetryBreaksOff
  <2> QED
    BY <2>1, <2>2, <2>3 DEF CfsInvoice, Standing
<1>6. /\ OneLive' /\ BillWaits' /\ NumbersKept' /\ FeesKept' /\ Referred' /\ Returning'
      /\ RowsKept'
  BY <1>1, <1>2, <1>3, <1>4, <1>5, Frame
<1>7. ReceiptsCount' /\ StatusFollows' /\ Unbilled'
  BY <1>2, <1>3, FrameStatus, NoLiveSame, Sets
<1> QED
  BY <1>6, <1>7 DEF IInv

LEMMA RetryLostKeeps ==
    ASSUME IInv, Typed', NEW a \in Accounts, RetryLost(a)
    PROVE  IInv'
<1>1. Typed
  BY DEF IInv
<1>2. UNCHANGED <<inv, refs, receipts, nsf, files, work, bill>>
  BY DEF RetryLost, tables
<1>3. PICK last \in FailedItems(a) :
             cfs' = Rebilled(FailedNumbers(a), FailedItems(a), ConsNumber(last))
  BY DEF RetryLost
<1>4. SameLive /\ Kept /\ \A x \in Items : HasCompleted(x)' <=> HasCompleted(x)
  BY <1>2, RefsUnchanged, InvUnchanged
<1>5. \A x \in Items : NoLive(x) => NoLive(x)'
  BY <1>4, NoLiveSame
<1>6. NumbersKept' /\ RowsKept' /\ FeesKept' /\ Returning'
  <2>1. PICK new \in Numbers : new = ConsNumber(last) /\ new \notin Invoices
    BY <1>1, Failed
  <2>2. \A x \in Items : \A n \in Invoices : Live(x, n)' => Live(x, n)
    BY <1>4, Sets DEF SameLive
  <2> QED
    BY <1>2, <1>3, <1>5, <2>1, <2>2, RebilledKeeps
<1>7. OneLive' /\ BillWaits'
  BY <1>1, <1>2, <1>4, <1>5, FrameOneLive, FrameBill DEF IInv
<1>8. Referred'
  <2>1. "answer" \in lost'
    BY <1>1, RetryLostTyped
  <2> QED
    BY <2>1 DEF Referred
<1>9. ReceiptsCount' /\ StatusFollows' /\ Unbilled'
  BY <1>2, <1>4, <1>5, FrameStatus, Sets
<1> QED
  BY <1>6, <1>7, <1>8, <1>9 DEF IInv

\* Owed numbers become paid ones: a payment by card, and a row about a debit or a
\* whole deposit.
Completes(n) ==
    /\ inv' = [x \in Items |-> IF x \in Having("ACTIVE", n) THEN PaidInvoice(x) ELSE inv[x]]
    /\ refs' = SetReferences(Having("ACTIVE", n), n, "COMPLETED")
    /\ receipts' = [x \in Items |-> receipts[x]
                                      + (IF x \in Having("ACTIVE", n) THEN 1 ELSE 0)]

LEMMA SetReferencesAt ==
    ASSUME InvoicesTyped, NEW items, NEW n \in Numbers, NEW status,
           refs' = SetReferences(items, n, status), NEW x \in Items
    PROVE  /\ x \in items => refs'[x][n] = status
           /\ x \notin items => refs'[x] = refs[x]
           /\ \A m \in Numbers : m # n => refs'[x][m] = refs[x][m]
<1>1. refs'[x] = IF x \in items THEN [refs[x] EXCEPT ![n] = status] ELSE refs[x]
  BY DEF SetReferences
<1>2. refs[x] \in [Numbers -> RefStatus]
  BY ItemTyped
<1> QED
  BY <1>1, <1>2

LEMMA CompletesKeeps ==
    ASSUME IInv, NEW n \in Numbers, Completes(n)
    PROVE  /\ SameLive /\ Kept
           /\ \A x \in Items \ Invoices : inv'[x].method = inv[x].method
           /\ ReceiptsCount' /\ StatusFollows' /\ Unbilled'
<1> DEFINE items == Having("ACTIVE", n)
<1>1. Typed /\ InvoicesTyped
  BY DEF IInv, Typed
<1>2. \A x \in Items : x \in items <=> refs[x][n] = "ACTIVE"
  BY DEF Having
<1>3. \A x \in Items : /\ x \in items => refs'[x][n] = "COMPLETED"
                       /\ x \notin items => refs'[x] = refs[x]
                       /\ \A m \in Numbers : m # n => refs'[x][m] = refs[x][m]
  BY <1>1, SetReferencesAt DEF Completes
<1>4. \A x \in Items : /\ x \notin items => inv'[x] = inv[x] /\ receipts'[x] = receipts[x]
                       /\ x \in items => /\ inv'[x] = PaidInvoice(x)
                                         /\ receipts'[x] = receipts[x] + 1
  <2>1. \A x \in Items : receipts[x] \in Nat
    BY <1>1, ItemTyped
  <2>2. \A x \in Items : inv'[x] = IF x \in items THEN PaidInvoice(x) ELSE inv[x]
    BY DEF Completes
  <2>3. \A x \in Items : receipts'[x] = receipts[x] + (IF x \in items THEN 1 ELSE 0)
    BY DEF Completes
  <2> HIDE DEF items
  <2> QED
    BY <2>1, <2>2, <2>3
<1>5. \A x \in items : inv'[x].method = inv[x].method /\ inv'[x].status = "PAID"
  <2> SUFFICES ASSUME NEW x \in items
               PROVE  inv'[x].method = inv[x].method /\ inv'[x].status = "PAID"
    OBVIOUS
  <2>1. x \in Items
    BY DEF Having
  <2>2. inv'[x] = [inv[x] EXCEPT !.status = "PAID", !.paid = Total]
    BY <1>4, <2>1 DEF PaidInvoice
  <2>3. inv[x] \in Invoice
    BY <1>1, <2>1, ItemTyped
  <2> QED
    BY <2>2, <2>3 DEF Invoice
<1> HIDE DEF items
<1>6. \A x \in Items : \A m \in Numbers : Live(x, m)' <=> Live(x, m)
  BY <1>2, <1>3 DEF Live
<1>7. \A x \in items : x \in Items => ~HasCompleted(x) /\ HasCompleted(x)'
  <2> SUFFICES ASSUME NEW x \in items, x \in Items
               PROVE  ~HasCompleted(x) /\ HasCompleted(x)'
    OBVIOUS
  <2>1. \A m \in Numbers : Live(x, m) => m = n
    BY <1>2 DEF IInv, OneLive, Live
  <2>2. ~HasCompleted(x)
    BY <1>2, <2>1 DEF HasCompleted, Live
  <2>3. HasCompleted(x)'
    BY <1>3 DEF HasCompleted
  <2> QED
    BY <2>2, <2>3
<1>8. \A x \in Items : x \notin items => (HasCompleted(x)' <=> HasCompleted(x))
  BY <1>3 DEF HasCompleted
<1>9. SameLive
  BY <1>6 DEF SameLive
<1>10. Kept /\ \A x \in Items : inv'[x].method = inv[x].method
  BY <1>4, <1>5 DEF Kept
<1>11. ReceiptsCount'
  <2> SUFFICES ASSUME NEW x \in Items, inv'[x].method # "ONLINE_BANKING"
               PROVE  receipts'[x] = IF HasCompleted(x)' THEN 1 ELSE 0
    BY DEF ReceiptsCount
  <2>1. receipts[x] = IF HasCompleted(x) THEN 1 ELSE 0
    BY <1>10 DEF IInv, ReceiptsCount
  <2>2. CASE x \in items
    <3>1. receipts[x] = 0
      BY <1>7, <2>1, <2>2
    <3>2. receipts'[x] = receipts[x] + 1
      BY <1>4, <2>2
    <3>3. receipts'[x] = 1
      BY <3>1, <3>2
    <3> QED
      BY <1>7, <2>2, <3>3
  <2>3. CASE x \notin items
    BY <1>4, <1>8, <2>1, <2>3
  <2> QED
    BY <2>2, <2>3
<1>12. StatusFollows'
  <2> SUFFICES ASSUME NEW x \in Items
               PROVE  /\ inv'[x].status = "PAID" => HasCompleted(x)'
                      /\ inv'[x].status = "SETTLEMENT_SCHEDULED"
                            /\ inv'[x].method # "ONLINE_BANKING" => ~HasCompleted(x)'
    BY DEF StatusFollows
  <2> QED
    BY <1>4, <1>5, <1>7, <1>8 DEF IInv, StatusFollows
<1>13. Unbilled'
  <2> SUFFICES ASSUME NEW j \in Invoices
               PROVE  /\ inv'[j].status = "NONE" => inv'[j].method = "PAD" /\ NoLive(j)'
                      /\ inv'[j].status = "APPROVED" => ~HasCompleted(j)'
                      /\ inv'[j].status = "CREATED" /\ inv'[j].method = "ONLINE_BANKING"
                             => NoLive(j)'
    BY DEF Unbilled
  <2>1. j \in Items /\ (NoLive(j)' <=> NoLive(j))
    BY <1>9, Sets, NoLiveSame
  <2> QED
    BY <1>4, <1>5, <1>8, <2>1 DEF IInv, Unbilled
<1> QED
  BY <1>9, <1>10, <1>11, <1>12, <1>13

LEMMA PayByCardKeeps ==
    ASSUME IInv, Typed', NEW p \in DOMAIN payments, PayByCard(p)
    PROVE  IInv'
<1>1. Typed
  BY DEF IInv
<1>2. PICK n : n = payments[p].number
  OBVIOUS
<1>3. n \in Numbers
  BY <1>1, <1>2, ToConsolidate DEF Typed
<1>4. Completes(n)
  BY <1>2 DEF PayByCard, Completes
<1>5. UNCHANGED <<nsf, files, work, bill, lost>>
  BY DEF PayByCard, faults
<1>6. CfsStands
  <2>1. /\ cfs' = [cfs EXCEPT ![n] = [cfs[n] EXCEPT !.status = "CARD"]]
        /\ cfs[n].status \in {"OPEN", "RETURNED"}
    BY <1>2 DEF PayByCard
  <2>2. /\ cfs'[n] = [cfs[n] EXCEPT !.status = "CARD"] /\ cfs[n] \in CfsInvoice
        /\ \A m \in Numbers : m # n => cfs'[m] = cfs[m]
    BY <1>1, <1>3, <2>1 DEF Typed, CfsTyped
  <2>3. cfs'[n].status = "CARD" /\ cfs'[n].fees = cfs[n].fees /\ cfs'[n].bills = cfs[n].bills
    BY <2>2 DEF CfsInvoice
  <2> QED
    BY <2>1, <2>2, <2>3 DEF CfsStands, Standing
<1>7. RowStays
  BY <1>5 DEF RowStays, row
<1>8. /\ SameLive /\ Kept /\ ReceiptsCount' /\ StatusFollows' /\ Unbilled'
      /\ \A x \in Items \ Invoices : inv'[x].method = inv[x].method
  BY <1>3, <1>4, CompletesKeeps
<1>9. /\ OneLive' /\ BillWaits' /\ NumbersKept' /\ FeesKept' /\ Referred' /\ Returning'
      /\ RowsKept'
  BY <1>1, <1>5, <1>6, <1>7, <1>8, Frame
<1> QED
  BY <1>8, <1>9 DEF IInv

\* A row that completes what has its number, or does nothing.
LEMMA RowKeeps ==
    ASSUME IInv, Typed', Completes(row.number), work.phase # "IDLE",
           UNCHANGED <<nsf, cfs, files, bill>>, lost \subseteq lost', RowStays
    PROVE  IInv'
<1>1. Typed
  BY DEF IInv
<1>2. PICK n : n = row.number
  OBVIOUS
<1>3. n \in Numbers /\ Completes(n)
  BY <1>1, <1>2, RowOf DEF Typed
<1>4. CfsStands
  BY CfsUnchanged
<1>5. /\ SameLive /\ Kept /\ ReceiptsCount' /\ StatusFollows' /\ Unbilled'
      /\ \A x \in Items \ Invoices : inv'[x].method = inv[x].method
  BY <1>3, CompletesKeeps
<1>6. /\ OneLive' /\ BillWaits' /\ NumbersKept' /\ FeesKept' /\ Referred' /\ Returning'
      /\ RowsKept'
  BY <1>1, <1>4, <1>5, Frame
<1> QED
  BY <1>5, <1>6 DEF IInv

LEMMA NextRowStays ==
    ASSUME Typed, work.phase # "IDLE", NextRow, UNCHANGED files
    PROVE  RowStays
BY NextRowTyped DEF Typed, RowStays

LEMMA ProcessPaidIs ==
    ASSUME ProcessPaid(Having("ACTIVE", row.number))
    PROVE  Completes(row.number) \/ UNCHANGED <<inv, refs, receipts>>
BY Zenon DEF ProcessPaid, Completes

LEMMA ProcessConsolidatedPaidKeeps ==
    ASSUME IInv, Typed', ProcessConsolidatedPaid
    PROVE  IInv'
<1>1. Typed
  BY DEF IInv
<1>2. /\ work.phase # "IDLE" /\ NextRow
      /\ UNCHANGED <<nsf, cfs, files, bill, lost>>
      /\ ProcessPaid(Having("ACTIVE", row.number))
  BY DEF ProcessConsolidatedPaid, external, faults
<1>3. RowStays
  BY <1>1, <1>2, NextRowStays
<1>4. Completes(row.number) \/ UNCHANGED <<inv, refs, receipts>>
  BY <1>2, ProcessPaidIs
<1> QED
  BY <1>2, <1>3, <1>4, RowKeeps, QuietStep

\* What is owed under the number of a deposit is the invoice of that number.
LEMMA DepositIsFor ==
    ASSUME IInv, work.phase # "IDLE", row.type = "BOLP",
           NEW x \in Having("ACTIVE", row.number)
    PROVE  x = row.number /\ x \in Items /\ inv[x].method = "ONLINE_BANKING"
<1>1. Typed /\ RowAbout(row) /\ row.number \in Invoices
  BY RowIsAbout DEF IInv
<1>2. x \in Items /\ Live(x, row.number)
  BY DEF Having, Live
<1>3. ItemOf(x, row.number)
  BY <1>1, <1>2 DEF IInv, NumbersKept
<1>4. inv[row.number].method = "ONLINE_BANKING"
  BY <1>1 DEF RowAbout, KnownAs
<1> QED
  BY <1>2, <1>3, <1>4 DEF ItemOf, KnownAs

LEMMA ProcessUnconsolidatedKeeps ==
    ASSUME IInv, Typed', ProcessUnconsolidated
    PROVE  IInv'
<1>1. Typed
  BY DEF IInv
<1>2. PICK items : items = AwaitingDeposit(row.number)
  OBVIOUS
<1>3. items = Having("ACTIVE", row.number)
  BY <1>2 DEF AwaitingDeposit
<1>4. /\ work.phase # "IDLE" /\ row.type = "BOLP" /\ NextRow
      /\ UNCHANGED <<nsf, cfs, files, bill, lost>>
  BY DEF ProcessUnconsolidated, external, faults
<1>5. RowStays
  BY <1>1, <1>4, NextRowStays
<1>6. \/ UNCHANGED <<inv, refs, receipts>>
      \/ ProcessPaid(items)
      \/ /\ inv' = [x \in Items |-> IF x \in items
                                    THEN [inv[x] EXCEPT !.status = "PARTIAL", !.paid = Total - 1]
                                    ELSE inv[x]]
         /\ receipts' = [x \in Items |-> receipts[x] + (IF x \in items THEN 1 ELSE 0)]
         /\ UNCHANGED refs
  BY <1>2, Zenon DEF ProcessUnconsolidated
<1>7. CASE UNCHANGED <<inv, refs, receipts>>
  BY <1>4, <1>5, <1>7, QuietStep
<1>8. CASE ProcessPaid(items)
  <2>1. Completes(row.number) \/ UNCHANGED <<inv, refs, receipts>>
    BY <1>3, <1>8, ProcessPaidIs
  <2> QED
    BY <1>4, <1>5, <2>1, RowKeeps, QuietStep
<1>9. ASSUME inv' = [x \in Items |-> IF x \in items
                                     THEN [inv[x] EXCEPT !.status = "PARTIAL", !.paid = Total - 1]
                                     ELSE inv[x]],
             receipts' = [x \in Items |-> receipts[x] + (IF x \in items THEN 1 ELSE 0)],
             UNCHANGED refs
      PROVE  IInv'
  <2>1. \A x \in items : x \in Items /\ inv[x].method = "ONLINE_BANKING"
    BY <1>3, <1>4, DepositIsFor
  <2>2. \A x \in Items : inv[x] \in Invoice /\ receipts[x] \in Nat
    BY <1>1, ItemTyped DEF Typed
  <2>3. \A x \in Items : x \notin items => inv'[x] = inv[x]
    BY <1>9
  <2>4. \A x \in items : inv'[x].method = inv[x].method /\ inv'[x].status = "PARTIAL"
    <3> SUFFICES ASSUME NEW x \in items
                 PROVE  inv'[x].method = inv[x].method /\ inv'[x].status = "PARTIAL"
      OBVIOUS
    <3>1. inv[x] \in Invoice
      BY <2>1, <2>2
    <3>2. inv'[x] = [inv[x] EXCEPT !.status = "PARTIAL", !.paid = Total - 1]
      BY <1>9, <2>1
    <3> QED
      BY <3>1, <3>2 DEF Invoice
  <2>5. \A x \in Items : x \notin items => receipts'[x] = receipts[x]
    <3>1. receipts' = [x \in Items |-> receipts[x] + (IF x \in items THEN 1 ELSE 0)]
      BY <1>9
    <3>2. \A x \in Items : receipts[x] \in Nat
      BY <2>2
    <3> QED
      BY <3>1, <3>2
  <2>6. Kept /\ \A x \in Items : inv'[x].method = inv[x].method
    BY <2>3, <2>4 DEF Kept
  <2>7. SameLive /\ CfsStands /\ \A x \in Items : HasCompleted(x)' <=> HasCompleted(x)
    BY <1>4, <1>9, RefsUnchanged, CfsUnchanged
  <2>8. /\ OneLive' /\ BillWaits' /\ NumbersKept' /\ FeesKept' /\ Referred' /\ Returning'
        /\ RowsKept'
    BY <1>1, <1>4, <1>5, <2>6, <2>7, Frame
  <2>9. ReceiptsCount'
    <3> SUFFICES ASSUME NEW x \in Items, inv'[x].method # "ONLINE_BANKING"
                 PROVE  receipts'[x] = IF HasCompleted(x)' THEN 1 ELSE 0
      BY DEF ReceiptsCount
    <3>1. x \notin items /\ inv[x].method # "ONLINE_BANKING"
      BY <2>1, <2>6
    <3>2. receipts[x] = IF HasCompleted(x) THEN 1 ELSE 0
      BY <3>1 DEF IInv, ReceiptsCount
    <3> QED
      BY <2>5, <2>7, <3>1, <3>2
  <2>10. StatusFollows' /\ Unbilled'
    BY <1>9, <2>3, <2>4, StatusStep
  <2> QED
    BY <2>8, <2>9, <2>10 DEF IInv
<1> QED
  BY <1>6, <1>7, <1>8, <1>9

LEMMA BankKeeps ==
    ASSUME IInv, Typed', NEW n \in Invoices,
           Debit(n) \/ Return(n) \/ RepeatReturn(n) \/ Deposit(n)
    PROVE  IInv'
<1>1. Typed /\ n \in Numbers
  BY Sets DEF IInv
<1>2. PICK type \in {"PAD", "PADR", "BOLP"}, status \in {"PAID", "NOT_PAID", "PARTIAL"},
           new \in {"PAID", "RETURNED"} :
             /\ Write(type, n, status)
             /\ \/ UNCHANGED cfs
                \/ /\ cfs[n].status \in {"OPEN", "PAID"}
                   /\ cfs' = [cfs EXCEPT ![n] = [cfs[n] EXCEPT !.status = new]]
             /\ UNCHANGED <<inv, refs, receipts, refunded, account, payments, nsf, site, work,
                            bill, paying>>
             /\ lost \subseteq lost'
             /\ \/ type = "PAD" /\ status = "PAID" /\ Debit(n)
                \/ type = "PADR" /\ status = "NOT_PAID" /\ (Return(n) \/ RepeatReturn(n))
                \/ type = "BOLP" /\ status # "NOT_PAID" /\ Deposit(n)
  BY <1>1, BankIs
<1>3. CfsStands
  <2>1. CASE UNCHANGED cfs
    BY <2>1, CfsUnchanged
  <2>2. CASE /\ cfs[n].status \in {"OPEN", "PAID"}
             /\ cfs' = [cfs EXCEPT ![n] = [cfs[n] EXCEPT !.status = new]]
    <3>1. /\ cfs'[n] = [cfs[n] EXCEPT !.status = new] /\ cfs[n] \in CfsInvoice
          /\ \A m \in Numbers : m # n => cfs'[m] = cfs[m]
      BY <1>1, <2>2 DEF Typed, CfsTyped
    <3>2. cfs'[n].status = new /\ cfs'[n].fees = cfs[n].fees /\ cfs'[n].bills = cfs[n].bills
      BY <3>1 DEF CfsInvoice
    <3> QED
      BY <2>2, <3>1, <3>2 DEF CfsStands, Standing
  <2> QED
    BY <1>2, <2>1, <2>2
<1>4. SameLive /\ Kept /\ (\A x \in Items \ Invoices : inv'[x].method = inv[x].method)
      /\ \A x \in Items : HasCompleted(x)' <=> HasCompleted(x)
  BY <1>2, RefsUnchanged, InvUnchanged
<1>5. RowStays
  BY <1>1, <1>2, WriteTyped DEF RowStays
<1>6. OneLive' /\ BillWaits' /\ NumbersKept' /\ FeesKept' /\ Referred' /\ Returning'
  BY <1>1, <1>2, <1>3, <1>4, <1>5, Frame
<1>7. ReceiptsCount' /\ StatusFollows' /\ Unbilled'
  BY <1>2, <1>4, FrameStatus, NoLiveSame, Sets
<1>8. KnownAs(n, IF type = "BOLP" THEN "ONLINE_BANKING" ELSE "PAD")
  <2>1. cfs[n].status # "NONE" => inv[n].status # "NONE"
    BY DEF IInv, NumbersKept
  <2>2. CASE type = "PAD" /\ Debit(n)
    BY <2>1, <2>2 DEF Debit, Method, KnownAs
  <2>3. CASE type = "PADR" /\ Return(n)
    BY <2>1, <2>3 DEF Return, Method, KnownAs
  <2>4. CASE type = "PADR" /\ RepeatReturn(n)
    <3>1. PICK f \in DOMAIN files : \E r \in ToSet(files[f]) :
            r.number = n /\ r.status = "NOT_PAID"
      BY <2>4 DEF RepeatReturn
    <3>2. PICK k \in DOMAIN files[f] :
            files[f][k].number = n /\ files[f][k].status = "NOT_PAID"
      BY <3>1 DEF ToSet
    <3>3. RowAbout(files[f][k])
      BY <3>2 DEF IInv, RowsKept
    <3> QED
      BY <2>4, <3>2, <3>3 DEF RowAbout
  <2>5. CASE type = "BOLP" /\ Deposit(n)
    BY <2>1, <2>5 DEF Deposit, Method, KnownAs
  <2> QED
    BY <1>2, <2>2, <2>3, <2>4, <2>5
<1>9. RowsKept'
  <2>1. \A f \in DOMAIN files' : \A k \in DOMAIN files'[f] :
          \/ f \in DOMAIN files /\ k \in DOMAIN files[f] /\ files'[f][k] = files[f][k]
          \/ files'[f][k] = [type |-> type, number |-> n, status |-> status]
    BY <1>1, <1>2, WriteRow DEF Typed
  <2>2. RowAbout([type |-> type, number |-> n, status |-> status])
    BY <1>2, <1>8 DEF RowAbout
  <2>3. \A f \in DOMAIN files' : \A k \in DOMAIN files'[f] : RowAbout(files'[f][k])
    BY <2>1, <2>2 DEF IInv, RowsKept
  <2> QED
    BY <1>2, <2>3 DEF RowsKept, RowAbout, KnownAs
<1> QED
  BY <1>6, <1>7, <1>9 DEF IInv

\* CFS bills items under a number that it did not have.
LEMMA NewInvoiceIs ==
    ASSUME Typed, NEW n \in Numbers, NEW items,
           cfs' = [cfs EXCEPT ![n] = [status |-> "OPEN", bills |-> items, fees |-> 0]]
    PROVE  /\ cfs'[n].bills = items /\ cfs'[n].fees = 0 /\ Standing(n)'
           /\ \A m \in Numbers : m # n => cfs'[m] = cfs[m]
           /\ \A m \in Numbers : cfs'[m].fees = cfs[m].fees \/ cfs'[m].fees = 0
<1>1. /\ cfs'[n] = [status |-> "OPEN", bills |-> items, fees |-> 0]
      /\ \A m \in Numbers : m # n => cfs'[m] = cfs[m]
  BY DEF Typed, CfsTyped
<1>2. cfs'[n].bills = items /\ cfs'[n].fees = 0 /\ cfs'[n].status = "OPEN"
  BY <1>1
<1> QED
  BY <1>1, <1>2 DEF Standing

\* What billing keeps, whatever becomes of the answer.
LEMMA BillingKeeps ==
    ASSUME IInv, Typed', NEW n \in Invoices, inv[n].status # "NONE", NEW items,
           UNCHANGED cfs
             \/ cfs' = [cfs EXCEPT ![n] = [status |-> "OPEN", bills |-> items, fees |-> 0]],
           UNCHANGED <<inv, refs, receipts, nsf, files, work>>
    PROVE  /\ OneLive' /\ NumbersKept' /\ FeesKept' /\ Returning' /\ RowsKept'
           /\ ReceiptsCount' /\ StatusFollows' /\ Unbilled'
<1>1. Typed /\ n \in Numbers
  BY Sets DEF IInv
<1>2. SameLive /\ Kept /\ (\A x \in Items \ Invoices : inv'[x].method = inv[x].method)
      /\ \A x \in Items : HasCompleted(x)' <=> HasCompleted(x)
  BY RefsUnchanged, InvUnchanged
<1>3. /\ \A m \in Numbers : m # n => cfs'[m] = cfs[m]
      /\ \A m \in Numbers : cfs'[m].fees = cfs[m].fees \/ cfs'[m].fees = 0
  BY <1>1, NewInvoiceIs
<1>4. \A x \in Items : NoLive(x) => NoLive(x)'
  BY <1>2, NoLiveSame
<1>5. RowStays
  BY DEF RowStays, row
<1>6. NumbersKept'
  <2>1. \A x \in Items : \A m \in Invoices : Live(x, m)' => Live(x, m)
    BY <1>2, Sets DEF SameLive
  <2>2. \A m \in Invoices : cfs'[m].status # "NONE" =>
               cfs[m].status # "NONE" \/ inv[m].status # "NONE"
    BY <1>3, Sets
  <2> QED
    BY <1>2, <2>1, <2>2, FrameNumbers DEF IInv
<1>7. FeesKept'
  <2>1. \A x \in Items \ Invoices : inv'[x].method = "CC"
    BY DEF IInv, FeesKept
  <2> QED
    BY <1>3, <1>4, <2>1, FrameFees DEF IInv
<1>8. Returning'
  <2>1. work.phase = "NSF_REFERENCE" => row.number \in Invoices
    BY <1>1, RowIsAbout DEF IInv
  <2> QED
    BY <1>1, <1>3, <1>4, <1>5, <2>1, FrameReturning DEF IInv
<1>9. OneLive' /\ RowsKept'
  BY <1>2, FrameOneLive, FrameRows DEF IInv
<1>10. ReceiptsCount' /\ StatusFollows' /\ Unbilled'
  BY <1>2, <1>4, FrameStatus, Sets
<1> QED
  BY <1>6, <1>7, <1>8, <1>9, <1>10

LEMMA PadInvoicesWait ==
    ASSUME IInv, NEW a, NEW i \in PadInvoices(a)
    PROVE  i \in Invoices /\ KnownAs(i, "PAD") /\ NoLive(i)
<1>1. /\ i \in Invoices /\ inv[i].method = "PAD" /\ inv[i].status = "APPROVED"
      /\ ActiveRefs(i) = {}
  BY DEF PadInvoices
<1>2. ~HasCompleted(i)
  BY <1>1 DEF IInv, Unbilled
<1>3. \A n \in Numbers : refs[i][n] # "ACTIVE"
  BY <1>1 DEF ActiveRefs
<1> QED
  BY <1>1, <1>2, <1>3 DEF KnownAs, NoLive, Live, HasCompleted

LEMMA BillPadKeeps ==
    ASSUME IInv, Typed', NEW a \in Accounts, BillPad(a)
    PROVE  IInv'
<1>1. Typed
  BY DEF IInv
<1>2. PICK n \in PadInvoices(a) :
             /\ bill = NoBill /\ bill' = [items |-> PadInvoices(a), number |-> n]
             /\ n \in Invoices /\ n \in Numbers /\ PadInvoices(a) \subseteq Invoices
             /\ \/ /\ cfs[n].status = "NONE"
                   /\ cfs' = [cfs EXCEPT ![n] = [status |-> "OPEN",
                                                 bills |-> PadInvoices(a), fees |-> 0]]
                \/ UNCHANGED cfs
  BY <1>1, BillPadIs
<1>3. UNCHANGED <<inv, refs, receipts, nsf, files, work, lost>>
  BY DEF BillPad, tables, faults
<1>4. inv[n].status # "NONE"
  BY <1>2, PadInvoicesWait DEF KnownAs
<1>5. /\ OneLive' /\ NumbersKept' /\ FeesKept' /\ Returning' /\ RowsKept'
      /\ ReceiptsCount' /\ StatusFollows' /\ Unbilled'
  BY <1>2, <1>3, <1>4, BillingKeeps
<1>6. bill'.items = PadInvoices(a) /\ bill'.number = n
  BY <1>2
<1>7. BillWaits'
  <2> SUFFICES ASSUME NEW i \in PadInvoices(a)
               PROVE  KnownAs(i, "PAD")' /\ NoLive(i)'
    BY <1>6 DEF BillWaits, KnownAs, NoLive, Live
  <2>1. KnownAs(i, "PAD") /\ NoLive(i)
    BY PadInvoicesWait
  <2> QED
    BY <1>3, <2>1 DEF KnownAs, NoLive, Live
<1>8. Referred'
  <2> SUFFICES ASSUME "answer" \notin lost, NEW m \in Numbers, Standing(m)',
                      NEW x \in cfs'[m].bills
               PROVE  Live(x, m)' \/ (bill'.number = m /\ x \in bill'.items)
    BY <1>3 DEF Referred
  <2>1. bill.items = {}
    BY <1>2 DEF NoBill
  <2>2. CASE cfs'[m] = cfs[m]
    <3>1. Standing(m) /\ x \in cfs[m].bills
      BY <2>2 DEF Standing
    <3>2. Live(x, m)
      BY <2>1, <3>1 DEF IInv, Referred
    <3> QED
      BY <1>3, <3>2 DEF Live
  <2>3. CASE cfs'[m] # cfs[m]
    <3>1. m = n /\ cfs'[m].bills = PadInvoices(a)
      BY <1>1, <1>2, <2>3, NewInvoiceIs
    <3> QED
      BY <1>6, <3>1
  <2> QED
    BY <2>2, <2>3
<1> QED
  BY <1>5, <1>7, <1>8 DEF IInv

LEMMA BillLostKeeps ==
    ASSUME IInv, Typed', NEW n \in Invoices, NEW items \in SUBSET Invoices, BillLost(n, items)
    PROVE  IInv'
<1>1. Typed
  BY DEF IInv
<1>2. /\ cfs' = [cfs EXCEPT ![n] = [status |-> "OPEN", bills |-> items, fees |-> 0]]
      /\ UNCHANGED <<inv, refs, receipts, nsf, files, work, bill>>
      /\ "answer" \in lost'
  BY DEF BillLost, tables, Lose
<1>3. inv[n].status # "NONE"
  <2>1. CASE \E a \in Accounts : items = PadInvoices(a) /\ items # {} /\ n = Min(items)
    <3>1. PICK a \in Accounts : items = PadInvoices(a) /\ items # {} /\ n = Min(items)
      BY <2>1
    <3>2. items \subseteq Nat
      BY Sets
    <3>3. n \in PadInvoices(a)
      BY <3>1, <3>2, MinMember
    <3> QED
      BY <3>3, PadInvoicesWait DEF KnownAs
  <2>2. CASE inv[n].status = "CREATED"
    BY <2>2
  <2> QED
    BY <2>1, <2>2 DEF BillLost
<1>4. /\ OneLive' /\ NumbersKept' /\ FeesKept' /\ Returning' /\ RowsKept'
      /\ ReceiptsCount' /\ StatusFollows' /\ Unbilled'
  BY <1>2, <1>3, BillingKeeps
<1>5. BillWaits'
  <2>1. Kept /\ SameLive
    BY <1>2, InvUnchanged, RefsUnchanged
  <2> QED
    BY <1>1, <1>2, <2>1, FrameBill, NoLiveSame DEF IInv
<1>6. Referred'
  BY <1>2 DEF Referred
<1> QED
  BY <1>4, <1>5, <1>6 DEF IInv

\* Numbers that are given to items that have none.
LEMMA GivesNumber ==
    ASSUME IInv, NEW items, NEW n \in Numbers,
           refs' = SetReferences(items, n, "ACTIVE"),
           \A x \in items \cap Items : NoLive(x)
    PROVE  /\ OneLive'
           /\ \A x \in Items : HasCompleted(x)' <=> HasCompleted(x)
           /\ \A x \in Items : x \notin items => (NoLive(x)' <=> NoLive(x))
           /\ \A x \in Items, m \in Numbers : Live(x, m) => Live(x, m)'
           /\ \A x \in Items, m \in Numbers :
                Live(x, m)' => Live(x, m) \/ (x \in items /\ m = n)
           /\ \A x \in items \cap Items : Live(x, n)'
<1>1. \A x \in Items : /\ x \in items => refs'[x][n] = "ACTIVE"
                       /\ x \notin items => refs'[x] = refs[x]
                       /\ \A m \in Numbers : m # n => refs'[x][m] = refs[x][m]
  BY SetReferencesAt DEF IInv, Typed
<1>2. ASSUME NEW x \in Items, x \in items
      PROVE  /\ \A m \in Numbers : ~Live(x, m) /\ (Live(x, m)' <=> m = n)
             /\ ~HasCompleted(x) /\ ~HasCompleted(x)'
  <2>1. \A m \in Numbers : refs[x][m] \notin {"ACTIVE", "COMPLETED"}
    BY <1>2 DEF NoLive, Live
  <2>2. refs'[x][n] = "ACTIVE" /\ \A m \in Numbers : m # n => refs'[x][m] = refs[x][m]
    BY <1>1, <1>2
  <2> QED
    BY <2>1, <2>2 DEF Live, HasCompleted
<1>3. ASSUME NEW x \in Items, x \notin items
      PROVE  /\ \A m \in Numbers : Live(x, m)' <=> Live(x, m)
             /\ HasCompleted(x)' <=> HasCompleted(x)
             /\ NoLive(x)' <=> NoLive(x)
  BY <1>1, <1>3 DEF Live, HasCompleted, NoLive
<1>4. OneLive'
  <2> SUFFICES ASSUME NEW x \in Items, NEW l \in Numbers, NEW m \in Numbers,
                      Live(x, l)', Live(x, m)'
               PROVE  l = m
    BY DEF OneLive
  <2>1. CASE x \in items
    BY <1>2, <2>1
  <2>2. CASE x \notin items
    BY <1>3, <2>2 DEF IInv, OneLive
  <2> QED
    BY <2>1, <2>2
<1> QED
  BY <1>2, <1>3, <1>4

LEMMA BillPadEndKeeps ==
    ASSUME IInv, Typed', BillPadEnd
    PROVE  IInv'
<1>1. Typed /\ bill.number \in bill.items /\ bill.items \subseteq Invoices
  BY DEF IInv, Typed, BillTyped, BillPadEnd
<1>2. PICK n : n = bill.number
  OBVIOUS
<1>3. n \in Invoices /\ n \in Numbers /\ n \in bill.items
  BY <1>1, <1>2, Sets
<1>4. /\ refs' = SetReferences(bill.items, n, "ACTIVE") /\ bill' = NoBill
      /\ UNCHANGED <<inv, receipts, nsf, cfs, files, work, lost>>
  BY <1>2 DEF BillPadEnd, external, faults
<1>5. \A x \in bill.items : KnownAs(x, "PAD") /\ NoLive(x)
  BY DEF IInv, BillWaits
<1>6. /\ OneLive'
      /\ \A x \in Items : HasCompleted(x)' <=> HasCompleted(x)
      /\ \A x \in Items : x \notin bill.items => (NoLive(x)' <=> NoLive(x))
      /\ \A x \in Items, m \in Numbers : Live(x, m) => Live(x, m)'
      /\ \A x \in Items, m \in Numbers :
           Live(x, m)' => Live(x, m) \/ (x \in bill.items /\ m = n)
      /\ \A x \in bill.items \cap Items : Live(x, n)'
  BY <1>3, <1>4, <1>5, GivesNumber
<1>7. RowStays /\ Kept
  BY <1>4, InvUnchanged DEF RowStays, row
<1>8. BillWaits'
  BY <1>4 DEF BillWaits, NoBill
<1>9. NumbersKept'
  <2>1. ASSUME NEW x \in Items, NEW m \in Invoices, Live(x, m)'
        PROVE  ItemOf(x, m)'
    <3>1. m \in Numbers
      BY Sets
    <3>2. CASE Live(x, m)
      BY <1>7, <3>2, ItemOfStays DEF IInv, NumbersKept
    <3>3. CASE x \in bill.items /\ m = n
      <4>1. ItemOf(x, m)
        BY <1>1, <1>3, <1>5, <3>3 DEF ItemOf
      <4> QED
        BY <1>7, <4>1, ItemOfStays
    <3> QED
      BY <1>6, <2>1, <3>1, <3>2, <3>3
  <2>2. \A m \in Invoices : cfs'[m].status # "NONE" => inv'[m].status # "NONE"
    BY <1>4 DEF IInv, NumbersKept
  <2> QED
    BY <2>1, <2>2 DEF NumbersKept
<1>10. \A x \in Items \ Invoices : NoLive(x) => NoLive(x)'
  BY <1>1, <1>6
<1>11. FeesKept'
  <2>1. \A x \in Items \ Invoices : inv'[x].method = "CC"
    BY <1>4 DEF IInv, FeesKept
  <2> QED
    BY <1>4, <1>10, <2>1, FrameFees DEF IInv
<1>12. Returning'
  <2>1. work.phase = "NSF_REFERENCE" => row.number \in Invoices
    BY <1>1, RowIsAbout DEF IInv
  <2> QED
    BY <1>1, <1>4, <1>7, <1>10, <2>1, FrameReturning DEF IInv
<1>13. RowsKept'
  BY <1>4, <1>7, FrameRows DEF IInv
<1>14. ReceiptsCount' /\ StatusFollows' /\ Unbilled'
  <2>1. \A i \in Invoices : NoLive(i) /\ ~KnownAs(i, "PAD") => NoLive(i)'
    BY <1>5, <1>6, Sets
  <2> QED
    BY <1>4, <1>6, <2>1, FrameStatus
<1>15. Referred'
  <2> SUFFICES ASSUME "answer" \notin lost, NEW m \in Numbers, Standing(m), NEW x \in cfs[m].bills
               PROVE  Live(x, m)'
    BY <1>4 DEF Referred, Standing, Live
  <2>1. x \in Items
    BY <1>1, NumberTyped DEF Typed
  <2>2. Live(x, m) \/ (n = m /\ x \in bill.items)
    BY <1>2 DEF IInv, Referred
  <2> QED
    BY <1>6, <2>1, <2>2
<1> QED
  BY <1>6, <1>8, <1>9, <1>11, <1>12, <1>13, <1>14, <1>15 DEF IInv

LEMMA BillOnlineBankingKeeps ==
    ASSUME IInv, Typed', NEW i \in Invoices, BillOnlineBanking(i)
    PROVE  IInv'
<1>1. Typed /\ i \in Numbers /\ i \in Items
  BY Sets DEF IInv
<1>2. /\ inv[i].method = "ONLINE_BANKING" /\ inv[i].status = "CREATED"
      /\ cfs' = [cfs EXCEPT ![i] = [status |-> "OPEN", bills |-> {i}, fees |-> 0]]
      /\ refs' = SetReferences({i}, i, "ACTIVE")
      /\ inv' = [inv EXCEPT ![i] = [inv[i] EXCEPT !.status = "SETTLEMENT_SCHEDULED"]]
      /\ UNCHANGED <<receipts, nsf, files, work, bill, lost>>
  BY DEF BillOnlineBanking, faults
<1>3. NoLive(i)
  BY <1>2 DEF IInv, Unbilled
<1>4. /\ OneLive'
      /\ \A x \in Items : HasCompleted(x)' <=> HasCompleted(x)
      /\ \A x \in Items : x \notin {i} => (NoLive(x)' <=> NoLive(x))
      /\ \A x \in Items, m \in Numbers : Live(x, m) => Live(x, m)'
      /\ \A x \in Items, m \in Numbers :
           Live(x, m)' => Live(x, m) \/ (x \in {i} /\ m = i)
      /\ \A x \in {i} \cap Items : Live(x, i)'
  BY <1>1, <1>2, <1>3, GivesNumber
<1>5. \A x \in Items : x # i => inv'[x] = inv[x]
  BY <1>1, <1>2 DEF Typed, InvoicesTyped
<1>6. inv'[i].method = "ONLINE_BANKING" /\ inv'[i].status = "SETTLEMENT_SCHEDULED"
  <2>1. inv[i] \in Invoice /\ inv'[i] = [inv[i] EXCEPT !.status = "SETTLEMENT_SCHEDULED"]
    BY <1>1, <1>2 DEF Typed, InvoicesTyped
  <2> QED
    BY <1>2, <2>1 DEF Invoice
<1>7. Kept /\ \A x \in Items : inv'[x].method = inv[x].method
  BY <1>2, <1>5, <1>6 DEF Kept
<1>8. RowStays
  BY <1>2 DEF RowStays, row
<1>9. /\ cfs'[i].bills = {i} /\ cfs'[i].fees = 0
      /\ \A m \in Numbers : m # i => cfs'[m] = cfs[m]
      /\ \A m \in Numbers : cfs'[m].fees = cfs[m].fees \/ cfs'[m].fees = 0
  BY <1>1, <1>2, NewInvoiceIs
<1>10. BillWaits'
  <2> SUFFICES ASSUME NEW j \in bill.items
               PROVE  KnownAs(j, "PAD")' /\ NoLive(j)'
    BY <1>2 DEF BillWaits, KnownAs, NoLive, Live
  <2>1. KnownAs(j, "PAD") /\ NoLive(j) /\ j \in Items
    BY <1>1, Sets DEF IInv, BillWaits, Typed, BillTyped
  <2>2. j # i
    BY <1>2, <2>1 DEF KnownAs
  <2> QED
    BY <1>4, <1>7, <2>1, <2>2, KnownStays
<1>11. NumbersKept'
  <2>1. ASSUME NEW x \in Items, NEW m \in Invoices, Live(x, m)'
        PROVE  ItemOf(x, m)'
    <3>1. m \in Numbers
      BY Sets
    <3>2. CASE Live(x, m)
      BY <1>7, <3>2, ItemOfStays DEF IInv, NumbersKept
    <3>3. CASE x = i /\ m = i
      BY <1>6, <3>3 DEF ItemOf
    <3> QED
      BY <1>4, <2>1, <3>1, <3>2, <3>3
  <2>2. ASSUME NEW m \in Invoices, cfs'[m].status # "NONE"
        PROVE  inv'[m].status # "NONE"
    <3>1. m \in Numbers /\ m \in Items
      BY Sets
    <3>2. CASE m = i
      BY <1>6, <3>2
    <3>3. CASE m # i
      BY <1>5, <1>9, <2>2, <3>1, <3>3 DEF IInv, NumbersKept
    <3> QED
      BY <3>2, <3>3
  <2> QED
    BY <2>1, <2>2 DEF NumbersKept
<1>12. \A x \in Items \ Invoices : NoLive(x) => NoLive(x)'
  BY <1>4
<1>13. FeesKept'
  <2>1. \A x \in Items \ Invoices : inv'[x].method = "CC"
    BY <1>7 DEF IInv, FeesKept
  <2> QED
    BY <1>2, <1>9, <1>12, <2>1, FrameFees DEF IInv
<1>14. Returning'
  <2>1. work.phase = "NSF_REFERENCE" => row.number \in Invoices
    BY <1>1, RowIsAbout DEF IInv
  <2> QED
    BY <1>1, <1>2, <1>8, <1>9, <1>12, <2>1, FrameReturning DEF IInv
<1>15. RowsKept'
  BY <1>2, <1>7, FrameRows DEF IInv
<1>16. ReceiptsCount'
  BY <1>2, <1>4, <1>7, Zenon DEF IInv, ReceiptsCount
<1>17. StatusFollows'
  <2> SUFFICES ASSUME NEW x \in Items
               PROVE  /\ inv'[x].status = "PAID" => HasCompleted(x)'
                      /\ inv'[x].status = "SETTLEMENT_SCHEDULED"
                            /\ inv'[x].method # "ONLINE_BANKING" => ~HasCompleted(x)'
    BY DEF StatusFollows
  <2> QED
    BY <1>4, <1>5, <1>6 DEF IInv, StatusFollows
<1>18. Unbilled'
  <2> SUFFICES ASSUME NEW j \in Invoices
               PROVE  /\ inv'[j].status = "NONE" => inv'[j].method = "PAD" /\ NoLive(j)'
                      /\ inv'[j].status = "APPROVED" => ~HasCompleted(j)'
                      /\ inv'[j].status = "CREATED" /\ inv'[j].method = "ONLINE_BANKING"
                             => NoLive(j)'
    BY DEF Unbilled
  <2>1. j \in Items
    BY Sets
  <2> QED
    BY <1>4, <1>5, <1>6, <2>1 DEF IInv, Unbilled
<1>19. Referred'
  <2> SUFFICES ASSUME "answer" \notin lost, NEW m \in Numbers, Standing(m)',
                      NEW x \in cfs'[m].bills
               PROVE  Live(x, m)' \/ (bill.number = m /\ x \in bill.items)
    BY <1>2 DEF Referred
  <2>1. CASE m = i
    BY <1>1, <1>4, <1>9, <2>1
  <2>2. CASE m # i
    <3>1. Standing(m) /\ x \in cfs[m].bills
      BY <1>9, <2>2 DEF Standing
    <3>2. Live(x, m) \/ (bill.number = m /\ x \in bill.items)
      BY <3>1 DEF IInv, Referred
    <3>3. x \in Items
      BY <1>1, <3>1, NumberTyped DEF Typed
    <3> QED
      BY <1>4, <3>2, <3>3
  <2> QED
    BY <2>1, <2>2
<1> QED
  BY <1>4, <1>10, <1>11, <1>13, <1>14, <1>15, <1>16, <1>17, <1>18, <1>19 DEF IInv

\* A debit that is returned is owed again, and there is a fee to be paid.
LEMMA ReopensKeeps ==
    ASSUME IInv, NEW n \in Numbers, n \notin nsf, Reopens(n)
    PROVE  /\ SameLive /\ Kept
           /\ \A x \in Items \ Invoices : inv'[x].method = inv[x].method
           /\ ReceiptsCount' /\ StatusFollows' /\ Unbilled'
<1>1. PICK items : items = Reopened(n)
  OBVIOUS
<1>2. PICK fee : fee = Fee(n)
  OBVIOUS
<1>3. Typed /\ InvoicesTyped
  BY DEF IInv, Typed
<1>4. \A x \in Items : x \in items <=> refs[x][n] = "COMPLETED"
  BY <1>1 DEF Reopened, Having
<1>5. \A x \in Items : /\ x \in items => refs'[x][n] = "ACTIVE"
                       /\ x \notin items => refs'[x] = refs[x]
                       /\ \A m \in Numbers : m # n => refs'[x][m] = refs[x][m]
  <2>1. refs' = SetReferences(items, n, "ACTIVE")
    BY <1>1 DEF Reopens
  <2> QED
    BY <1>3, <2>1, SetReferencesAt
<1>6. fee \in Items => /\ fee \notin Invoices /\ NoLive(fee) /\ inv[fee].method = "CC"
  <2>1. fee \notin Invoices /\ fee - NumInvoices = n
    BY <1>2, Sets
  <2> QED
    BY <2>1 DEF IInv, FeesKept
<1>7. fee \in Items => fee \notin items
  BY <1>4, <1>6 DEF NoLive, Live
<1>8. \A x \in Items :
        /\ x \in items => inv'[x] = [inv[x] EXCEPT !.status = "SETTLEMENT_SCHEDULED", !.paid = 0]
        /\ x = fee => inv'[x] = [method |-> "CC", status |-> "CREATED", paid |-> 0]
        /\ x \notin items /\ x # fee => inv'[x] = inv[x]
  BY <1>1, <1>2, <1>7 DEF Reopens
<1>9. \A x \in Items : x \in items => /\ inv'[x].method = inv[x].method
                                      /\ inv'[x].status = "SETTLEMENT_SCHEDULED"
  <2> SUFFICES ASSUME NEW x \in Items, x \in items
               PROVE  inv'[x].method = inv[x].method /\ inv'[x].status = "SETTLEMENT_SCHEDULED"
    OBVIOUS
  <2>1. inv[x] \in Invoice
    BY <1>3, ItemTyped
  <2>2. inv'[x] = [inv[x] EXCEPT !.status = "SETTLEMENT_SCHEDULED", !.paid = 0]
    BY <1>8
  <2> QED
    BY <2>1, <2>2 DEF Invoice
<1>10. fee \in Items => inv'[fee].method = "CC" /\ inv'[fee].status = "CREATED"
  <2>1. fee \in Items => inv'[fee] = [method |-> "CC", status |-> "CREATED", paid |-> 0]
    BY <1>8
  <2> QED
    BY <2>1
<1>11. \A x \in Items : inv'[x].method = inv[x].method
  BY <1>6, <1>8, <1>9, <1>10
<1>12. Kept
  BY <1>8, <1>9, <1>10, <1>11 DEF Kept
<1>13. SameLive
  BY <1>4, <1>5 DEF SameLive, Live
<1>14. \A x \in Items : x \in items => HasCompleted(x) /\ ~HasCompleted(x)'
  <2> SUFFICES ASSUME NEW x \in Items, x \in items
               PROVE  HasCompleted(x) /\ ~HasCompleted(x)'
    OBVIOUS
  <2>1. \A m \in Numbers : Live(x, m) => m = n
    BY <1>4 DEF IInv, OneLive, Live
  <2>2. HasCompleted(x)
    BY <1>4 DEF HasCompleted
  <2>3. ~HasCompleted(x)'
    BY <1>5, <2>1 DEF HasCompleted, Live
  <2> QED
    BY <2>2, <2>3
<1>15. \A x \in Items : x \notin items => (HasCompleted(x)' <=> HasCompleted(x))
  BY <1>5 DEF HasCompleted
<1>16. \A x \in Items : /\ x \in items /\ receipts[x] = 1 => receipts'[x] = 0
                        /\ x \notin items => receipts'[x] = receipts[x]
  <2> SUFFICES ASSUME NEW x \in Items
               PROVE  /\ x \in items /\ receipts[x] = 1 => receipts'[x] = 0
                      /\ x \notin items => receipts'[x] = receipts[x]
    OBVIOUS
  <2>1. receipts'[x] = ReceiptsLeft(x, x \in Reopened(n))
    BY DEF Reopens
  <2>2. receipts[x] \in Nat
    BY <1>3, ItemTyped
  <2>3. CASE x \in items
    <3>1. receipts[x] > 0 => receipts'[x] = receipts[x] - 1
      BY <1>1, <2>1, <2>3 DEF ReceiptsLeft
    <3> QED
      BY <2>2, <2>3, <3>1
  <2>4. CASE x \notin items
    BY <1>1, <2>1, <2>4 DEF ReceiptsLeft
  <2> QED
    BY <2>3, <2>4
<1>17. ReceiptsCount'
  <2> SUFFICES ASSUME NEW x \in Items, inv'[x].method # "ONLINE_BANKING"
               PROVE  receipts'[x] = IF HasCompleted(x)' THEN 1 ELSE 0
    BY DEF ReceiptsCount
  <2>1. receipts[x] = IF HasCompleted(x) THEN 1 ELSE 0
    BY <1>11 DEF IInv, ReceiptsCount
  <2>2. CASE x \in items
    BY <1>14, <1>16, <2>1, <2>2
  <2>3. CASE x \notin items
    BY <1>15, <1>16, <2>1, <2>3
  <2> QED
    BY <2>2, <2>3
<1>18. StatusFollows'
  <2> SUFFICES ASSUME NEW x \in Items
               PROVE  /\ inv'[x].status = "PAID" => HasCompleted(x)'
                      /\ inv'[x].status = "SETTLEMENT_SCHEDULED"
                            /\ inv'[x].method # "ONLINE_BANKING" => ~HasCompleted(x)'
    BY DEF StatusFollows
  <2>1. CASE x \in items
    BY <1>9, <1>14, <2>1
  <2>2. CASE x = fee
    BY <1>10, <2>2
  <2>3. CASE x \notin items /\ x # fee
    BY <1>8, <1>15, <2>3 DEF IInv, StatusFollows
  <2> QED
    BY <2>1, <2>2, <2>3
<1>19. Unbilled'
  <2> SUFFICES ASSUME NEW j \in Invoices
               PROVE  /\ inv'[j].status = "NONE" => inv'[j].method = "PAD" /\ NoLive(j)'
                      /\ inv'[j].status = "APPROVED" => ~HasCompleted(j)'
                      /\ inv'[j].status = "CREATED" /\ inv'[j].method = "ONLINE_BANKING"
                             => NoLive(j)'
    BY DEF Unbilled
  <2>1. j \in Items /\ (NoLive(j)' <=> NoLive(j)) /\ j # fee
    BY <1>6, <1>13, Sets, NoLiveSame
  <2>2. CASE j \in items
    BY <1>9, <2>1, <2>2
  <2>3. CASE j \notin items
    BY <1>8, <1>15, <2>1, <2>3 DEF IInv, Unbilled
  <2> QED
    BY <2>2, <2>3
<1> QED
  BY <1>11, <1>12, <1>13, <1>17, <1>18, <1>19

LEMMA ProcessFailedKeeps ==
    ASSUME IInv, Typed', ProcessFailed
    PROVE  IInv'
<1>1. Typed
  BY DEF IInv
<1>2. PICK n : n = row.number
  OBVIOUS
<1>3. /\ work.phase = "ROWS" /\ row.status = "NOT_PAID" /\ ~IsDuplicate(n)
      /\ UNCHANGED <<nsf, cfs, files, bill, lost>>
      /\ (NextRow /\ UNCHANGED <<inv, refs, receipts>>) \/ Reopens(n)
  BY <1>2, ProcessFailedIs
<1>4. CASE NextRow /\ UNCHANGED <<inv, refs, receipts>>
  <2>1. RowStays
    BY <1>1, <1>3, <1>4, NextRowStays
  <2> QED
    BY <1>3, <1>4, <2>1, QuietStep
<1>5. CASE Reopens(n)
  <2>1. n \in Numbers /\ n \notin nsf
    BY <1>1, <1>2, <1>3, RowOf DEF Typed, IsDuplicate
  <2>2. /\ SameLive /\ Kept
        /\ \A x \in Items \ Invoices : inv'[x].method = inv[x].method
        /\ ReceiptsCount' /\ StatusFollows' /\ Unbilled'
    BY <1>5, <2>1, ReopensKeeps
  <2>3. CfsStands
    BY <1>3, CfsUnchanged
  <2>4. /\ OneLive' /\ BillWaits' /\ NumbersKept' /\ FeesKept' /\ Referred'
        /\ RowsKept'
    BY <1>1, <1>3, <2>2, <2>3, Frame
  <2>5. work'.phase = "NSF_ROW" /\ row' = row
    <3>1. work' = [work EXCEPT !.phase = "NSF_ROW"] /\ "NSF_ROW" \in Phases \ {"IDLE"}
      BY <1>5 DEF Reopens, Phases
    <3> QED
      BY <1>1, <1>3, <3>1, PhaseTyped DEF Typed
  <2>6. Returning'
    BY <1>2, <1>3, <2>1, <2>5 DEF Returning
  <2> QED
    BY <2>2, <2>4, <2>6 DEF IInv
<1> QED
  BY <1>3, <1>4, <1>5

LEMMA SaveNsfKeeps ==
    ASSUME IInv, Typed', SaveNsf
    PROVE  IInv'
<1>1. Typed
  BY DEF IInv
<1>2. PICK n : n = row.number
  OBVIOUS
<1>3. /\ work.phase = "NSF_ROW" /\ nsf' = nsf \cup {n}
      /\ work' = [work EXCEPT !.phase = "NSF_REFERENCE"]
      /\ UNCHANGED <<inv, refs, receipts, cfs, files, bill, lost>>
  BY <1>2 DEF SaveNsf, external, faults
<1>4. n \in Numbers
  BY <1>1, <1>2, <1>3, RowOf DEF Typed
<1>5. work'.phase = "NSF_REFERENCE" /\ row' = row
  <2>1. "NSF_REFERENCE" \in Phases \ {"IDLE"}
    BY DEF Phases
  <2> QED
    BY <1>1, <1>3, <2>1, PhaseTyped DEF Typed
<1>6. SameLive /\ Kept /\ CfsStands /\ \A x \in Items : HasCompleted(x)' <=> HasCompleted(x)
  BY <1>3, RefsUnchanged, InvUnchanged, CfsUnchanged
<1>7. \A x \in Items : NoLive(x) => NoLive(x)'
  BY <1>6, NoLiveSame
<1>8. OneLive' /\ BillWaits'
  BY <1>1, <1>3, <1>6, <1>7, FrameOneLive, FrameBill DEF IInv
<1>9. NumbersKept'
  <2>1. \A x \in Items : \A m \in Invoices : Live(x, m)' => Live(x, m)
    BY <1>6, Sets DEF SameLive
  <2>2. \A m \in Invoices : cfs'[m].status # "NONE" =>
               cfs[m].status # "NONE" \/ inv[m].status # "NONE"
    BY <1>3
  <2> QED
    BY <1>6, <2>1, <2>2, FrameNumbers DEF IInv
<1>10. FeesKept'
  <2>1. \A x \in Items \ Invoices : inv'[x].method = "CC"
    BY <1>3 DEF IInv, FeesKept
  <2>2. nsf \subseteq nsf' /\ \A m \in Numbers : cfs'[m].fees = cfs[m].fees
    BY <1>3
  <2> QED
    BY <1>7, <2>1, <2>2, FrameFees DEF IInv
<1>11. Returning'
  <2>1. n \notin nsf /\ row.status = "NOT_PAID"
    BY <1>2, <1>3 DEF IInv, Returning
  <2>2. cfs[n].fees = 0
    BY <1>4, <2>1 DEF IInv, FeesKept
  <2>3. Fee(n) \in Items /\ Fee(n) \notin Invoices /\ Fee(n) - NumInvoices = n
    <3>1. n \in Invoices
      BY <1>1, <1>2, <1>3, RowIsAbout DEF IInv
    <3> QED
      BY <1>4, <3>1, Sets
  <2>4. NoLive(Fee(n))
    BY <2>1, <2>3 DEF IInv, FeesKept
  <2>5. NoLive(Fee(n))'
    BY <1>7, <2>3, <2>4
  <2>6. row'.number = n /\ row'.status = "NOT_PAID" /\ n \in nsf' /\ cfs'[n].fees = 0
    BY <1>2, <1>3, <1>5, <2>1, <2>2
  <2> QED
    BY <1>5, <2>5, <2>6 DEF Returning
<1>12. RowsKept' /\ Referred'
  <2>1. \A x \in Items : \A m \in Numbers : Live(x, m) => Live(x, m)'
    BY <1>6 DEF SameLive
  <2> QED
    BY <1>1, <1>3, <1>6, <2>1, FrameRows, FrameReferred DEF IInv
<1>13. ReceiptsCount' /\ StatusFollows' /\ Unbilled'
  BY <1>3, <1>6, <1>7, FrameStatus, Sets
<1> QED
  BY <1>8, <1>9, <1>10, <1>11, <1>12, <1>13 DEF IInv

LEMMA SaveNsfReferenceKeeps ==
    ASSUME IInv, Typed', SaveNsfReference
    PROVE  IInv'
<1>1. Typed
  BY DEF IInv
<1>2. PICK n : n = row.number
  OBVIOUS
<1>3. /\ work.phase = "NSF_REFERENCE"
      /\ UNCHANGED <<inv, receipts, nsf, cfs, files, bill, lost>>
      /\ \/ work' = IdleWork /\ UNCHANGED refs
         \/ /\ refs' = SetReferences({Fee(n)}, n, "ACTIVE")
            /\ work' = [work EXCEPT !.phase = "NSF_ADJUSTMENT"]
  BY <1>2 DEF SaveNsfReference, external, faults
<1>4. CASE work' = IdleWork /\ UNCHANGED refs
  <2>1. RowStays
    BY <1>4, IdleTyped DEF RowStays
  <2> QED
    BY <1>3, <1>4, <2>1, QuietStep
<1>5. ASSUME refs' = SetReferences({Fee(n)}, n, "ACTIVE"),
             work' = [work EXCEPT !.phase = "NSF_ADJUSTMENT"]
      PROVE  IInv'
  <2>1. PICK fee : fee = Fee(n)
    OBVIOUS
  <2>2. n \in Invoices /\ n \in Numbers /\ RowAbout(row)
    BY <1>1, <1>2, <1>3, RowIsAbout, Sets DEF IInv
  <2>3. fee \in Items /\ fee \notin Invoices /\ fee - NumInvoices = n
    BY <2>1, <2>2, Sets
  <2>4. n \in nsf /\ cfs[n].fees = 0 /\ row.status = "NOT_PAID" /\ NoLive(fee)
    BY <1>2, <1>3, <2>1 DEF IInv, Returning
  <2>5. refs' = SetReferences({fee}, n, "ACTIVE")
    BY <1>5, <2>1
  <2>6. /\ OneLive'
        /\ \A x \in Items : HasCompleted(x)' <=> HasCompleted(x)
        /\ \A x \in Items : x \notin {fee} => (NoLive(x)' <=> NoLive(x))
        /\ \A x \in Items, m \in Numbers : Live(x, m) => Live(x, m)'
        /\ \A x \in Items, m \in Numbers :
             Live(x, m)' => Live(x, m) \/ (x \in {fee} /\ m = n)
    <3>1. \A x \in {fee} \cap Items : NoLive(x)
      BY <2>4
    <3> QED
      BY <2>2, <2>5, <3>1, GivesNumber
  <2>7. work'.phase = "NSF_ADJUSTMENT" /\ row' = row
    <3>1. "NSF_ADJUSTMENT" \in Phases \ {"IDLE"}
      BY DEF Phases
    <3> QED
      BY <1>1, <1>3, <1>5, <3>1, PhaseTyped DEF Typed
  <2>8. Kept /\ CfsStands
    BY <1>3, InvUnchanged, CfsUnchanged
  <2>9. ItemOf(fee, n)
    BY <1>2, <2>1, <2>2, <2>4 DEF ItemOf, RowAbout
  <2>10. NumbersKept'
    <3>1. ASSUME NEW x \in Items, NEW m \in Invoices, Live(x, m)'
          PROVE  ItemOf(x, m)'
      <4>1. m \in Numbers
        BY Sets
      <4>2. CASE Live(x, m)
        BY <2>8, <4>2, ItemOfStays DEF IInv, NumbersKept
      <4>3. CASE x = fee /\ m = n
        BY <2>8, <2>9, <4>3, ItemOfStays
      <4> QED
        BY <2>6, <3>1, <4>1, <4>2, <4>3
    <3>2. \A m \in Invoices : cfs'[m].status # "NONE" => inv'[m].status # "NONE"
      BY <1>3 DEF IInv, NumbersKept
    <3> QED
      BY <3>1, <3>2 DEF NumbersKept
  <2>11. FeesKept'
    <3>1. \A x \in Items \ Invoices : inv'[x].method = "CC"
      BY <1>3 DEF IInv, FeesKept
    <3>2. \A x \in Items \ Invoices : x - NumInvoices \notin nsf' => NoLive(x)'
      BY <1>3, <2>3, <2>4, <2>6 DEF IInv, FeesKept
    <3>3. \A m \in Numbers : cfs'[m].fees <= 1 /\ (m \notin nsf' => cfs'[m].fees = 0)
      BY <1>3 DEF IInv, FeesKept
    <3> QED
      BY <3>1, <3>2, <3>3 DEF FeesKept
  <2>12. Returning'
    <3>1. row'.number = n /\ row'.status = "NOT_PAID" /\ n \in nsf' /\ cfs'[n].fees = 0
      BY <1>2, <1>3, <2>4, <2>7
    <3> QED
      BY <2>7, <3>1 DEF Returning
  <2>13. BillWaits'
    <3> SUFFICES ASSUME NEW i \in bill.items
                 PROVE  KnownAs(i, "PAD")' /\ NoLive(i)'
      BY <1>3 DEF BillWaits, KnownAs, NoLive, Live
    <3>1. i \in Invoices /\ i \in Items
      BY <1>1, Sets DEF Typed, BillTyped
    <3>2. KnownAs(i, "PAD") /\ NoLive(i)
      BY DEF IInv, BillWaits
    <3> QED
      BY <2>3, <2>6, <2>8, <3>1, <3>2, KnownStays
  <2>14. RowsKept' /\ Referred'
    <3>1. \A x \in Items : \A m \in Numbers : Live(x, m) => Live(x, m)'
      BY <2>6
    <3> QED
      BY <1>1, <1>3, <2>8, <3>1, FrameRows, FrameReferred DEF IInv
  <2>15. ReceiptsCount' /\ StatusFollows' /\ Unbilled'
    <3>1. \A i \in Invoices : NoLive(i) => NoLive(i)'
      BY <2>3, <2>6, Sets
    <3> QED
      BY <1>3, <2>6, <3>1, FrameStatus
  <2> QED
    BY <2>6, <2>10, <2>11, <2>12, <2>13, <2>14, <2>15 DEF IInv
<1> QED
  BY <1>3, <1>4, <1>5

LEMMA AdjustNsfKeeps ==
    ASSUME IInv, Typed', AdjustNsf
    PROVE  IInv'
<1>1. Typed
  BY DEF IInv
<1>2. PICK n : n = row.number
  OBVIOUS
<1>3. /\ work.phase = "NSF_ADJUSTMENT" /\ NextRow
      /\ UNCHANGED <<inv, refs, receipts, nsf, files, bill, lost>>
      /\ cfs' = [cfs EXCEPT ![n] = [cfs[n] EXCEPT !.fees = @ + 1]]
  BY <1>2 DEF AdjustNsf, tables, faults
<1>4. n \in Numbers /\ n \in nsf /\ cfs[n].fees = 0
  BY <1>1, <1>2, <1>3, RowOf DEF IInv, Typed, Returning
<1>5. /\ \A m \in Numbers : m # n => cfs'[m] = cfs[m]
      /\ cfs'[n].fees = 1 /\ cfs'[n].bills = cfs[n].bills /\ cfs'[n].status = cfs[n].status
  <2>1. cfs'[n] = [cfs[n] EXCEPT !.fees = @ + 1] /\ cfs[n] \in CfsInvoice
    BY <1>1, <1>3, <1>4 DEF Typed, CfsTyped
  <2>2. \A m \in Numbers : m # n => cfs'[m] = cfs[m]
    BY <1>1, <1>3 DEF Typed, CfsTyped
  <2>3. cfs'[n].fees = cfs[n].fees + 1 /\ cfs'[n].bills = cfs[n].bills
        /\ cfs'[n].status = cfs[n].status
    BY <2>1 DEF CfsInvoice
  <2> QED
    BY <1>4, <2>2, <2>3
<1>6. SameLive /\ Kept /\ \A x \in Items : HasCompleted(x)' <=> HasCompleted(x)
  BY <1>3, RefsUnchanged, InvUnchanged
<1>7. \A x \in Items : NoLive(x) => NoLive(x)'
  BY <1>6, NoLiveSame
<1>8. OneLive' /\ BillWaits' /\ RowsKept'
  BY <1>1, <1>3, <1>6, <1>7, FrameOneLive, FrameBill, FrameRows DEF IInv
<1>9. NumbersKept'
  <2>1. \A x \in Items : \A m \in Invoices : Live(x, m)' => Live(x, m)
    BY <1>6, Sets DEF SameLive
  <2>2. \A m \in Invoices : cfs'[m].status # "NONE" =>
               cfs[m].status # "NONE" \/ inv[m].status # "NONE"
    BY <1>5, Sets
  <2> QED
    BY <1>6, <2>1, <2>2, FrameNumbers DEF IInv
<1>10. FeesKept'
  <2>1. \A x \in Items \ Invoices : inv'[x].method = "CC"
    BY <1>3 DEF IInv, FeesKept
  <2>2. \A x \in Items \ Invoices : x - NumInvoices \notin nsf' => NoLive(x)'
    BY <1>3, <1>7 DEF IInv, FeesKept
  <2>3. \A m \in Numbers : cfs'[m].fees <= 1 /\ (m \notin nsf' => cfs'[m].fees = 0)
    BY <1>3, <1>4, <1>5 DEF IInv, FeesKept
  <2> QED
    BY <2>1, <2>2, <2>3 DEF FeesKept
<1>11. Returning'
  <2>1. work'.phase \in {"ROWS", "PAYMENTS"}
    BY <1>1, <1>3, NextRowTyped DEF Typed
  <2> QED
    BY <2>1 DEF Returning
<1>12. Referred'
  <2> SUFFICES ASSUME "answer" \notin lost, NEW m \in Numbers, Standing(m)', NEW x \in cfs'[m].bills
               PROVE  Live(x, m) \/ (bill.number = m /\ x \in bill.items)
    BY <1>3 DEF Referred, Live
  <2>1. Standing(m) /\ x \in cfs[m].bills
    BY <1>5 DEF Standing
  <2> QED
    BY <2>1 DEF IInv, Referred
<1>13. ReceiptsCount' /\ StatusFollows' /\ Unbilled'
  BY <1>3, <1>6, <1>7, FrameStatus, Sets
<1> QED
  BY <1>8, <1>9, <1>10, <1>11, <1>12, <1>13 DEF IInv

\* Steps that leave invoices, references and CFS alone.
LEMMA RequestKeeps ==
    ASSUME IInv, Typed', NEW a \in Accounts, UnlockFlag(a) \/ UnlockStatus(a) \/ RequestDies(a)
    PROVE  IInv'
<1>1. UNCHANGED <<inv, refs, receipts, nsf, cfs, files, work, bill>> /\ lost \subseteq lost'
  BY DEF UnlockFlag, UnlockStatus, RequestDies, Lose, tables, external, faults
<1>2. RowStays
  BY <1>1 DEF RowStays, row
<1> QED
  BY <1>1, <1>2, QuietStep

LEMMA FileKeeps ==
    ASSUME IInv, Typed', NEW f \in DOMAIN files, Receive(f) \/ Restart(f)
    PROVE  IInv'
<1>1. UNCHANGED <<inv, refs, receipts, nsf, cfs, files, bill>> /\ lost \subseteq lost'
  BY DEF Receive, Restart, Lose, tables, external, faults
<1>2. RowStays
  BY DEF RowStays, Receive, Restart, IdleWork
<1> QED
  BY <1>1, <1>2, QuietStep

LEMMA WorkerKeeps ==
    ASSUME IInv, Typed', ProcessDuplicate \/ CreatePaymentRecords \/ WorkerDies
    PROVE  IInv'
<1>1. UNCHANGED <<inv, refs, receipts, nsf, cfs, files, bill>> /\ lost \subseteq lost'
  BY DEF ProcessDuplicate, CreatePaymentRecords, WorkerDies, Lose, tables, external, faults
<1>2. Typed
  BY DEF IInv
<1>3. CASE ProcessDuplicate
  <2>1. work.phase # "IDLE" /\ NextRow
    BY <1>3 DEF ProcessDuplicate
  <2>2. RowStays
    BY <1>1, <1>2, <2>1, NextRowStays
  <2> QED
    BY <1>1, <2>2, QuietStep
<1>4. CASE CreatePaymentRecords \/ WorkerDies
  <2>1. work' = IdleWork \/ (work.phase = "PAYMENTS" /\ work' = [work EXCEPT !.row = @ + 1])
    BY <1>4 DEF CreatePaymentRecords, WorkerDies
  <2>2. work'.phase \in {"IDLE", "PAYMENTS"}
    <3>1. PICK w \in [phase : Phases, file : Nat, row : Nat] : w = work
      BY <1>2 DEF Typed, WorkTyped
    <3> QED
      BY <2>1, <3>1 DEF IdleWork
  <2>3. RowStays
    BY <2>2 DEF RowStays
  <2> QED
    BY <1>1, <2>3, QuietStep
<1> QED
  BY <1>3, <1>4

LEMMA InitInv ==
    ASSUME Init
    PROVE  IInv
<1>1. Typed
  BY InitTyped
<1>2. /\ \A x \in Items : /\ inv[x].status = "NONE" /\ receipts[x] = 0
                          /\ x \in Invoices => inv[x].method = "PAD"
                          /\ x \notin Invoices => inv[x].method = "CC"
                          /\ \A n \in Numbers : refs[x][n] = "NONE"
      /\ \A n \in Numbers : cfs[n].status = "NONE" /\ cfs[n].fees = 0
      /\ nsf = {} /\ files = <<>> /\ work.phase = "IDLE" /\ bill.items = {}
  BY DEF Init, IdleWork, NoBill
<1>3. \A x \in Items : NoLive(x) /\ ~HasCompleted(x)
  BY <1>2 DEF NoLive, HasCompleted, Live
<1>4. OneLive /\ NumbersKept
  <2>1. \A n \in Invoices : cfs[n].status = "NONE"
    BY <1>2, Sets
  <2>2. \A x \in Items : \A n \in Numbers : ~Live(x, n)
    BY <1>3 DEF NoLive
  <2> QED
    BY <2>1, <2>2, Sets DEF OneLive, NumbersKept
<1>5. ReceiptsCount /\ StatusFollows
  BY <1>2, <1>3 DEF ReceiptsCount, StatusFollows
<1>6. Unbilled /\ BillWaits
  BY <1>2, <1>3, Sets DEF Unbilled, BillWaits
<1>7. RowsKept
  BY <1>2 DEF RowsKept
<1>8. FeesKept
  BY <1>2, <1>3 DEF FeesKept
<1>9. Returning /\ Referred
  BY <1>2 DEF Returning, Referred, Standing
<1> QED
  BY <1>1, <1>4, <1>5, <1>6, <1>7, <1>8, <1>9 DEF IInv

LEMMA NextInv ==
    ASSUME IInv, [Next]_vars
    PROVE  IInv'
<1>0. Typed'
  BY NextTyped DEF IInv
<1>1. CASE UNCHANGED vars
  <2>1. UNCHANGED <<inv, refs, receipts, nsf, cfs, files, work, bill, lost>>
    BY <1>1 DEF vars, tables, external, faults
  <2>2. RowStays
    BY <2>1 DEF RowStays, row
  <2> QED
    BY <1>0, <2>1, <2>2, QuietStep
<1>2. ASSUME NEW i \in Invoices, NEW m \in Methods, CreateInvoice(i, m)
      PROVE  IInv'
  BY <1>0, <1>2, CreateInvoiceKeeps
<1>3. ASSUME NEW i \in Invoices, RefundInvoice(i) \/ BillOnlineBanking(i)
      PROVE  IInv'
  BY <1>0, <1>3, RefundInvoiceKeeps, BillOnlineBankingKeeps
<1>4. ASSUME NEW a \in Accounts,
             \/ RetryPayment(a) \/ CreateRetryPayment(a) \/ RetryLost(a)
             \/ UnlockFlag(a) \/ UnlockStatus(a) \/ RequestDies(a) \/ BillPad(a)
      PROVE  IInv'
  BY <1>0, <1>4, RetryPaymentKeeps, CreateRetryPaymentKeeps, RetryLostKeeps, RequestKeeps,
     BillPadKeeps
<1>5. ASSUME NEW p \in DOMAIN payments, PayByCard(p)
      PROVE  IInv'
  BY <1>0, <1>5, PayByCardKeeps
<1>6. CASE BillPadEnd
  BY <1>0, <1>6, BillPadEndKeeps
<1>7. ASSUME NEW n \in Invoices, Debit(n) \/ Return(n) \/ RepeatReturn(n) \/ Deposit(n)
      PROVE  IInv'
  BY <1>0, <1>7, BankKeeps
<1>8. ASSUME NEW n \in Invoices, NEW items \in SUBSET Invoices, BillLost(n, items)
      PROVE  IInv'
  BY <1>0, <1>8, BillLostKeeps
<1>9. ASSUME NEW f \in DOMAIN files, Receive(f) \/ Restart(f)
      PROVE  IInv'
  BY <1>0, <1>9, FileKeeps
<1>10. CASE ProcessRow
  BY <1>0, <1>10, ProcessConsolidatedPaidKeeps, ProcessUnconsolidatedKeeps, ProcessFailedKeeps,
     WorkerKeeps, SaveNsfKeeps, SaveNsfReferenceKeeps, AdjustNsfKeeps DEF ProcessRow
<1>11. CASE CreatePaymentRecords \/ WorkerDies
  BY <1>0, <1>11, WorkerKeeps
<1>12. ASSUME NEW a \in Accounts, NEW numbers \in SUBSET FailedNumbers(a),
              RetryBreaksOff(a, numbers)
       PROVE  IInv'
  BY <1>0, <1>12, RetryBreaksOffKeeps
<1> QED
  BY <1>1, <1>2, <1>3, <1>4, <1>5, <1>6, <1>7, <1>8, <1>9, <1>10, <1>11, <1>12 DEF Next

\* Whatever the constants, the invariant holds in every reachable state.
THEOREM Inductive == Spec => []IInv
<1>1. Init => IInv
  BY InitInv
<1>2. IInv /\ [Next]_vars => IInv'
  BY NextInv
<1> QED
  BY <1>1, <1>2, PTL DEF Spec

-----------------------------------------------------------------------------
(* What the invariant says of invoices, of CFS and of steps.               *)

LEMMA AtMostOne ==
    ASSUME NEW S, S \subseteq Numbers, \A m, n \in S : m = n
    PROVE  Cardinality(S) <= 1
<1>1. CASE S = {}
  BY <1>1, FS_EmptySet
<1>2. CASE S # {}
  <2>1. PICK n \in S : TRUE
    BY <1>2
  <2>2. S = {n}
    BY <2>1
  <2>3. Cardinality({n}) = 1
    BY FS_Singleton
  <2> QED
    BY <2>2, <2>3
<1> QED
  BY <1>1, <1>2

LEMMA InvoicesDoAgree ==
    ASSUME IInv
    PROVE  InvoicesAgree
<1>1. PaidHasReceipt
  BY DEF PaidHasReceipt, IInv, ReceiptsCount, StatusFollows
<1>2. OneActiveReference
  <2> SUFFICES ASSUME NEW x \in Items
               PROVE  /\ Cardinality(ActiveRefs(x)) <= 1
                      /\ inv[x].status = "PAID" => ActiveRefs(x) = {}
    BY DEF OneActiveReference
  <2>1. ActiveRefs(x) \subseteq Numbers /\ \A n \in ActiveRefs(x) : Live(x, n)
    BY DEF ActiveRefs, Live
  <2>2. \A m, n \in ActiveRefs(x) : m = n
    BY <2>1 DEF IInv, OneLive
  <2>3. Cardinality(ActiveRefs(x)) <= 1
    BY <2>1, <2>2, AtMostOne
  <2>4. ASSUME inv[x].status = "PAID"
        PROVE  ActiveRefs(x) = {}
    <3>1. PICK n \in Numbers : refs[x][n] = "COMPLETED"
      BY <2>4 DEF IInv, StatusFollows, HasCompleted
    <3>2. \A m \in Numbers : Live(x, m) => m = n
      BY <3>1 DEF IInv, OneLive, Live
    <3> QED
      BY <2>1, <3>1, <3>2 DEF ActiveRefs
  <2> QED
    BY <2>3, <2>4
<1> QED
  BY <1>1, <1>2 DEF InvoicesAgree

LEMMA CfsDoesOweOnce ==
    ASSUME IInv
    PROVE  CfsOwesOnce
<1>1. FeeOnce
  BY DEF FeeOnce, IInv, FeesKept
<1>2. BilledOnce
  <2> SUFFICES ASSUME "answer" \notin lost, NEW x \in Items
               PROVE  Cardinality({n \in Numbers : /\ x \in cfs[n].bills
                                     /\ cfs[n].status \notin {"NONE", "REVERSED"}}) <= 1
    BY DEF BilledOnce
  <2> DEFINE S == {n \in Numbers : /\ x \in cfs[n].bills
                                   /\ cfs[n].status \notin {"NONE", "REVERSED"}}
  <2>1. \A n \in S : n \in Numbers /\ (Live(x, n) \/ (bill.number = n /\ x \in bill.items))
    BY DEF IInv, Referred, Standing
  <2> HIDE DEF S
  <2>2. CASE x \in bill.items
    <3>1. \A n \in Numbers : ~Live(x, n)
      BY <2>2 DEF IInv, BillWaits, NoLive
    <3>2. \A m, n \in S : m = n
      BY <2>1, <3>1
    <3> QED
      BY <2>1, <3>2, AtMostOne DEF S
  <2>3. CASE x \notin bill.items
    <3>1. \A m, n \in S : m = n
      BY <2>1, <2>3 DEF IInv, OneLive
    <3> QED
      BY <2>1, <3>1, AtMostOne DEF S
  <2> QED
    BY <2>2, <2>3
<1> QED
  BY <1>1, <1>2 DEF CfsOwesOnce

\* Whatever is billed, debited, returned, consolidated, paid by card or processed
\* twice, and wherever a process dies: a PAID invoice has one receipt and nothing
\* owed, an owed one no receipt and one number (payment_reconciliations.py's
\* _process_paid_invoices and _process_failed_payments, payment.py's
\* create_consolidated_invoices_payment).
THEOREM InvoicesAlwaysAgree == Spec => []InvoicesAgree
<1>1. IInv => InvoicesAgree
  BY InvoicesDoAgree
<1> QED
  BY <1>1, Inductive, PTL

\* Unless an answer of CFS was lost, nothing is billed by two CFS invoices that
\* stand; and a return adds one fee to its CFS invoice, however often its row is
\* processed (cfs_create_invoice_task.py, _create_nsf_invoice).
THEOREM CfsAlwaysOwesOnce == Spec => []CfsOwesOnce
<1>1. IInv => CfsOwesOnce
  BY CfsDoesOweOnce
<1> QED
  BY <1>1, Inductive, PTL

-----------------------------------------------------------------------------
(* A paid invoice.                                                         *)

LEMMA PaidIsCompleted ==
    ASSUME IInv, NEW x \in Items, inv[x].status = "PAID"
    PROVE  HasCompleted(x) /\ ActiveRefs(x) = {}
BY InvoicesDoAgree DEF IInv, StatusFollows, InvoicesAgree, OneActiveReference

\* A row about a deposit or a payment by card takes only what is owed.
LEMMA CompletingStands ==
    ASSUME IInv, NEW n, Completes(n)
    PROVE  PaidStays
<1> SUFFICES ASSUME NEW x \in Items, inv[x].status = "PAID"
             PROVE  inv'[x].status \in {"PAID", "CREDITED"}
  BY DEF PaidStays
<1>1. inv'[x] = inv[x] \/ inv'[x] = [inv[x] EXCEPT !.status = "PAID", !.paid = Total]
  BY DEF Completes, PaidInvoice
<1>2. inv[x] \in Invoice
  BY ItemTyped DEF IInv, Typed
<1> QED
  BY <1>1, <1>2 DEF Invoice

LEMMA UnconsolidatedStands ==
    ASSUME IInv, ProcessUnconsolidated
    PROVE  PaidStays
<1>1. PICK items : items = AwaitingDeposit(row.number)
  OBVIOUS
<1>2. items = Having("ACTIVE", row.number)
  BY <1>1 DEF AwaitingDeposit
<1>3. \/ UNCHANGED <<inv, refs, receipts>>
      \/ ProcessPaid(items)
      \/ inv' = [x \in Items |-> IF x \in items
                                 THEN [inv[x] EXCEPT !.status = "PARTIAL", !.paid = Total - 1]
                                 ELSE inv[x]]
  BY <1>1, Zenon DEF ProcessUnconsolidated
<1>4. CASE UNCHANGED <<inv, refs, receipts>>
  BY <1>4 DEF PaidStays
<1>5. CASE ProcessPaid(items)
  BY <1>2, <1>4, <1>5, ProcessPaidIs, CompletingStands
<1>6. CASE inv' = [x \in Items |-> IF x \in items
                                   THEN [inv[x] EXCEPT !.status = "PARTIAL", !.paid = Total - 1]
                                   ELSE inv[x]]
  <2> SUFFICES ASSUME NEW x \in Items, inv[x].status = "PAID"
               PROVE  inv'[x] = inv[x]
    BY DEF PaidStays
  <2>1. row.number \in Numbers
    <3>1. Typed /\ work.phase # "IDLE"
      BY DEF IInv, ProcessUnconsolidated
    <3> QED
      BY <3>1, RowOf DEF Typed
  <2>2. x \notin items
    BY <1>2, <2>1, PaidIsCompleted DEF Having, ActiveRefs
  <2> QED
    BY <1>6, <2>2
<1> QED
  BY <1>3, <1>4, <1>5, <1>6

\* What a returned debit had paid are debits, and the row says so.
LEMMA FailedStands ==
    ASSUME IInv, ProcessFailed
    PROVE  PaidStays
<1>1. PICK n : n = row.number
  OBVIOUS
<1>2. /\ work.phase = "ROWS" /\ row.status = "NOT_PAID" /\ ~IsDuplicate(n)
      /\ UNCHANGED inv \/ Reopens(n)
  BY <1>1, ProcessFailedIs
<1>3. CASE UNCHANGED inv
  BY <1>3 DEF PaidStays
<1>4. CASE Reopens(n)
  <2>1. Typed /\ RowAbout(row) /\ n \in Invoices /\ n \in Numbers /\ n \notin nsf
    BY <1>1, <1>2, RowIsAbout, Sets DEF IInv, IsDuplicate
  <2>2. KnownAs(n, "PAD")
    BY <1>1, <1>2, <2>1 DEF RowAbout
  <2>3. Fee(n) \in Items /\ Fee(n) \notin Invoices /\ NoLive(Fee(n))
    <3>1. Fee(n) \in Items /\ Fee(n) \notin Invoices /\ Fee(n) - NumInvoices = n
      BY <2>1, Sets
    <3> QED
      BY <2>1, <3>1 DEF IInv, FeesKept
  <2> SUFFICES ASSUME NEW x \in Items, inv[x].status = "PAID"
               PROVE  \/ inv'[x].status \in {"PAID", "CREDITED"}
                      \/ /\ inv'[x].status = "SETTLEMENT_SCHEDULED"
                         /\ inv[x].method = "PAD"
                         /\ row.status = "NOT_PAID"
    BY DEF PaidStays
  <2>4. x # Fee(n)
    BY <2>3, PaidIsCompleted DEF NoLive, Live, HasCompleted
  <2>5. CASE x \in Reopened(n)
    <3>1. inv'[x] = [inv[x] EXCEPT !.status = "SETTLEMENT_SCHEDULED", !.paid = 0]
      BY <1>4, <2>5 DEF Reopens
    <3>2. inv'[x].status = "SETTLEMENT_SCHEDULED"
      BY <2>1, <3>1, ItemTyped DEF Typed, Invoice
    <3>3. ItemOf(x, n)
      BY <2>1, <2>5 DEF IInv, NumbersKept, Reopened, Having, Live
    <3>4. inv[x].method = "PAD"
      BY <2>2, <2>4, <3>3 DEF ItemOf, KnownAs
    <3> QED
      BY <1>2, <3>2, <3>4
  <2>6. CASE x \notin Reopened(n)
    <3>1. inv'[x] = inv[x]
      BY <1>4, <2>4, <2>6 DEF Reopens
    <3> QED
      BY <3>1
  <2> QED
    BY <2>5, <2>6
<1> QED
  BY <1>2, <1>3, <1>4

LEMMA RequestStands ==
    ASSUME IInv, NEW i \in Invoices,
           \/ \E m \in Methods : CreateInvoice(i, m)
           \/ RefundInvoice(i) \/ BillOnlineBanking(i)
    PROVE  PaidStays
<1> SUFFICES ASSUME NEW x \in Items, inv[x].status = "PAID"
             PROVE  inv'[x].status \in {"PAID", "CREDITED"}
  BY DEF PaidStays
<1>1. inv \in [Items -> Invoice] /\ inv[x] \in Invoice
  BY ItemTyped DEF IInv, Typed, InvoicesTyped
<1>2. CASE \E m \in Methods : CreateInvoice(i, m)
  <2>1. x # i /\ inv'[x] = inv[x]
    BY <1>1, <1>2 DEF CreateInvoice
  <2> QED
    BY <2>1
<1>3. CASE BillOnlineBanking(i)
  <2>1. x # i /\ inv'[x] = inv[x]
    BY <1>1, <1>3 DEF BillOnlineBanking
  <2> QED
    BY <2>1
<1>4. CASE RefundInvoice(i)
  <2>1. PICK v : /\ inv' = [inv EXCEPT ![i] = [inv[i] EXCEPT !.status = v]]
                 /\ inv[i].status = "PAID" => v = "CREDITED"
    BY <1>4 DEF RefundInvoice
  <2>2. x # i => inv'[x] = inv[x]
    BY <1>1, <2>1
  <2>3. x = i => inv'[x].status = v
    BY <1>1, <2>1 DEF Invoice
  <2> QED
    BY <2>1, <2>2, <2>3
<1> QED
  BY <1>2, <1>3, <1>4

LEMMA StepStands ==
    ASSUME IInv, [Next]_vars
    PROVE  PaidStays
<1>1. ASSUME UNCHANGED inv
      PROVE  PaidStays
  BY <1>1 DEF PaidStays
<1>2. CASE UNCHANGED vars
  BY <1>1, <1>2 DEF vars, tables
<1>3. ASSUME NEW i \in Invoices,
             \/ \E m \in Methods : CreateInvoice(i, m)
             \/ RefundInvoice(i) \/ BillOnlineBanking(i)
      PROVE  PaidStays
  BY <1>3, RequestStands
<1>4. ASSUME NEW a \in Accounts,
             \/ RetryPayment(a) \/ CreateRetryPayment(a) \/ RetryLost(a)
             \/ UnlockFlag(a) \/ UnlockStatus(a) \/ RequestDies(a) \/ BillPad(a)
      PROVE  PaidStays
  BY <1>1, <1>4 DEF RetryPayment, CreateRetryPayment, RetryLost, UnlockFlag, UnlockStatus,
     RequestDies, BillPad, tables
<1>5. ASSUME NEW p \in DOMAIN payments, PayByCard(p)
      PROVE  PaidStays
  <2>1. Completes(payments[p].number)
    BY <1>5 DEF PayByCard, Completes
  <2> QED
    BY <2>1, CompletingStands
<1>6. CASE BillPadEnd
  BY <1>1, <1>6 DEF BillPadEnd
<1>7. ASSUME NEW n \in Invoices, Debit(n) \/ Return(n) \/ RepeatReturn(n) \/ Deposit(n)
      PROVE  PaidStays
  BY <1>1, <1>7 DEF Debit, Return, RepeatReturn, Deposit, Write, tables
<1>8. ASSUME NEW n \in Invoices, NEW items \in SUBSET Invoices, BillLost(n, items)
      PROVE  PaidStays
  BY <1>1, <1>8 DEF BillLost, tables
<1>9. ASSUME NEW f \in DOMAIN files, Receive(f) \/ Restart(f)
      PROVE  PaidStays
  BY <1>1, <1>9 DEF Receive, Restart, tables
<1>10. CASE ProcessConsolidatedPaid
  <2>1. ProcessPaid(Having("ACTIVE", row.number))
    BY <1>10 DEF ProcessConsolidatedPaid
  <2>2. Completes(row.number) \/ UNCHANGED inv
    BY <2>1, ProcessPaidIs
  <2> QED
    BY <1>1, <2>2, CompletingStands
<1>11. CASE ProcessUnconsolidated \/ ProcessFailed
  BY <1>11, UnconsolidatedStands, FailedStands
<1>12. CASE \/ ProcessDuplicate \/ SaveNsf \/ SaveNsfReference \/ AdjustNsf
            \/ CreatePaymentRecords \/ WorkerDies
  BY <1>1, <1>12 DEF ProcessDuplicate, SaveNsf, SaveNsfReference, AdjustNsf,
     CreatePaymentRecords, WorkerDies, tables
<1>13. ASSUME NEW a \in Accounts, NEW numbers \in SUBSET FailedNumbers(a),
              RetryBreaksOff(a, numbers)
       PROVE  PaidStays
  BY <1>1, <1>13 DEF RetryBreaksOff, tables
<1> QED
  BY <1>2, <1>3, <1>4, <1>5, <1>6, <1>7, <1>8, <1>9, <1>10, <1>11, <1>12, <1>13
     DEF Next, ProcessRow

\* A PAID invoice changes only by a refund, or by a row that says that its debit
\* was returned: not by a row that comes late, twice or for a part of it
\* (_process_unconsolidated_invoices, _process_partial_paid_invoices).
THEOREM PaidInvoicesStand == Spec => [][PaidStays]_vars
<1>1. IInv /\ [Next]_vars => PaidStays
  BY StepStands
<1> QED
  BY <1>1, Inductive, PTL DEF Spec

=============================================================================
