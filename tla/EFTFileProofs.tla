--------------------------- MODULE EFTFileProofs ---------------------------
(***************************************************************************)
(* Proofs about EFTFile, for any number of files, lines, workers and       *)
(* crashes: the type invariant and, as long as no two deliveries of a file *)
(* arrive at the very same time, that a file is credited as a whole, once  *)
(* or not at all, and that what was deposited for a short name is what is  *)
(* left of it and what was paid from it.                                   *)
(*                                                                         *)
(* The invariant follows the row of a file: a worker that has read it is   *)
(* the only one, a worker that is saving its lines has it IN_PROGRESS, and *)
(* until that worker commits its transactions no credit is of this row.    *)
(***************************************************************************)
EXTENDS EFTFile, SumTheorems

-----------------------------------------------------------------------------
(* Credits are taken in the order of their files and lines.                *)

Before(j, k) == j[1] < k[1] \/ (j[1] = k[1] /\ j[2] < k[2])

Total(f, S) == SumFunctionOnSet(f, S)

Lesser(a, b) == IF a <= b THEN a ELSE b

LEMMA Pairs ==
    ASSUME NEW j \in Nat \X Nat, NEW k \in Nat \X Nat
    PROVE  /\ j[1] \in Nat /\ j[2] \in Nat
           /\ j[1] = k[1] /\ j[2] = k[2] => j = k
OBVIOUS

LEMMA EitherBefore ==
    ASSUME NEW j \in Nat \X Nat, NEW k \in Nat \X Nat
    PROVE  /\ j = k \/ Before(j, k) \/ Before(k, j)
           /\ Before(j, k) => j # k /\ ~Before(k, j)
           /\ \A l \in Nat \X Nat : Before(j, k) /\ Before(k, l) => Before(j, l)
BY Pairs DEF Before

LEMMA TakenOfOne ==
    ASSUME NEW rest \in Int, NEW r \in Nat
    PROVE  Min({Max({0, rest}), r}) = Lesser(IF rest >= 0 THEN rest ELSE 0, r)
<1> DEFINE m == Max({0, rest})
<1>1. m = IF rest >= 0 THEN rest ELSE 0
  <2>1. m = IF 0 >= rest THEN 0 ELSE rest
    BY MaxOfTwo
  <2> QED
    BY <2>1
<1>2. m \in Int
  BY <1>1
<1> HIDE DEF m
<1>3. Min({m, r}) = IF m <= r THEN m ELSE r
  BY <1>2, MaxOfTwo
<1> QED
  BY <1>1, <1>3 DEF Lesser, m

LEMMA LastKey ==
    ASSUME NEW S, IsFiniteSet(S), S # {}, S \subseteq Nat \X Nat
    PROVE  \E m \in S : \A j \in S : j # m => Before(j, m)
<1> DEFINE HasLast(T) == \E m \in T : \A j \in T : j # m => Before(j, m)
           C == {T \in SUBSET S : T # {} /\ ~HasLast(T)}
<1> SUFFICES ASSUME C # {} PROVE FALSE
  OBVIOUS
<1>1. C \subseteq SUBSET S /\ {} \notin C
  OBVIOUS
<1>2. PICK T \in C : T # {} /\ \A x \in T : T \ {x} \notin C
  <2> HIDE DEF C
  <2> QED
    BY <1>1, Minimal
<1>3. T \subseteq S /\ ~HasLast(T)
  OBVIOUS
<1>4. PICK x \in T : TRUE
  BY <1>2
<1>5. CASE T \ {x} = {}
  BY <1>3, <1>4, <1>5
<1>6. CASE T \ {x} # {}
  <2>1. HasLast(T \ {x})
    BY <1>2, <1>3, <1>6
  <2>2. PICK y \in T \ {x} : \A j \in T \ {x} : j # y => Before(j, y)
    BY <2>1
  <2>3. /\ x \in Nat \X Nat /\ y \in Nat \X Nat /\ x # y
        /\ \A j \in T : j \in Nat \X Nat
    BY <1>3, <2>2
  <2>4. Before(x, y) \/ Before(y, x)
    BY <2>3, EitherBefore
  <2>5. CASE Before(x, y)
    BY <1>3, <2>2, <2>5
  <2>6. CASE Before(y, x)
    <3>1. ASSUME NEW j \in T, j # x PROVE Before(j, x)
      <4>1. j = y \/ Before(j, y)
        BY <2>2, <3>1
      <4> QED
        BY <2>3, <2>6, <4>1, EitherBefore
    <3> QED
      BY <1>3, <3>1
  <2> QED
    BY <2>4, <2>5, <2>6
<1> QED
  BY <1>5, <1>6

\* What is taken from each credit adds up to the amount, or to all there is.
LEMMA TakenInOrder ==
    ASSUME NEW C, IsFiniteSet(C), C \subseteq Nat \X Nat, NEW a \in Nat,
           NEW r, \A k \in C : r[k] \in Nat,
           NEW t, \A k \in C : t[k] =
               Min({Max({0, a - Total(r, {j \in C : Before(j, k)})}), r[k]})
    PROVE  /\ \A k \in C : t[k] \in 0..r[k]
           /\ Total(t, C) = Lesser(a, Total(r, C))
<1>1. ASSUME NEW T \in SUBSET C
      PROVE  IsFiniteSet(T) /\ Total(r, T) \in Nat
  <2>1. IsFiniteSet(T) /\ \A k \in T : r[k] \in Nat
    BY FS_Subset
  <2> QED
    BY <2>1, SumNat DEF Total
<1>2. ASSUME NEW k \in C
      PROVE  LET rest == a - Total(r, {j \in C : Before(j, k)})
             IN t[k] = Lesser(IF rest >= 0 THEN rest ELSE 0, r[k])
  <2> DEFINE B == {j \in C : Before(j, k)}
  <2>1. B \in SUBSET C /\ t[k] = Min({Max({0, a - Total(r, B)}), r[k]})
    OBVIOUS
  <2> HIDE DEF B
  <2>2. PICK rest \in Int : rest = a - Total(r, B)
    BY <1>1, <2>1
  <2>3. PICK q \in Nat : q = r[k]
    OBVIOUS
  <2>4. t[k] = Min({Max({0, rest}), q})
    BY <2>1, <2>2, <2>3
  <2>5. t[k] = Lesser(IF rest >= 0 THEN rest ELSE 0, q)
    BY <2>4, TakenOfOne
  <2> QED
    BY <2>2, <2>3, <2>5 DEF B
<1>3. ASSUME NEW k \in C PROVE t[k] \in 0..r[k]
  <2>1. a - Total(r, {j \in C : Before(j, k)}) \in Int /\ r[k] \in Nat
    BY <1>1
  <2> QED
    BY <1>2, <2>1 DEF Lesser
<1> DEFINE Initial(T) == \A k \in T, j \in C : Before(j, k) => j \in T
           Bad == {T \in SUBSET C : Initial(T) /\ Total(t, T) # Lesser(a, Total(r, T))}
<1>4. ASSUME Bad # {} PROVE FALSE
  <2>1. {} \notin Bad /\ Bad \subseteq SUBSET C
    BY SumEmpty DEF Total, Lesser
  <2>2. PICK T \in Bad : T # {} /\ \A x \in T : T \ {x} \notin Bad
    <3> HIDE DEF Bad
    <3> QED
      BY <1>4, <2>1, Minimal
  <2>3. T \subseteq C /\ Initial(T) /\ Total(t, T) # Lesser(a, Total(r, T))
    OBVIOUS
  <2> HIDE DEF Initial
  <2>4. PICK x \in T : \A j \in T : j # x => Before(j, x)
    BY <1>1, <2>2, <2>3, LastKey
  <2> DEFINE U == T \ {x}
  <2>5. \A j \in C : j \in Nat \X Nat
    OBVIOUS
  <2>6. Initial(U) /\ {j \in C : Before(j, x)} = U
    <3>1. \A j \in U : Before(j, x)
      BY <2>4
    <3>2. ASSUME NEW k \in U, NEW j \in C, Before(j, k) PROVE j \in U
      <4>1. j \in T
        BY <2>3, <3>2 DEF Initial
      <4>2. j # x
        BY <2>3, <2>5, <3>1, <3>2 DEF Before
      <4> QED
        BY <4>1, <4>2
    <3>3. ASSUME NEW j \in C, Before(j, x) PROVE j \in U
      <4>1. j \in T
        BY <2>3, <3>3 DEF Initial
      <4>2. j # x
        BY <2>5, <3>3 DEF Before
      <4> QED
        BY <4>1, <4>2
    <3> QED
      BY <2>3, <3>1, <3>2, <3>3 DEF Initial
  <2>7. Total(t, U) = Lesser(a, Total(r, U))
    BY <2>2, <2>3, <2>6
  <2>8. Total(r, U) \in Nat /\ Total(r, T) \in Nat /\ r[x] \in Nat /\ IsFiniteSet(T)
    BY <1>1, <2>3
  <2>9. Total(r, T) = r[x] + Total(r, U)
    BY <2>3, <2>8, SumOut DEF Total
  <2>10. Total(t, T) = t[x] + Total(t, U)
    <3>1. \A k \in T : t[k] \in Int
      <4>1. \A k \in C : r[k] \in Nat /\ t[k] \in 0..r[k]
        BY <1>3
      <4> QED
        BY <2>3, <4>1
    <3> HIDE DEF U
    <3>2. SumFunctionOnSet(t, T) = t[x] + SumFunctionOnSet(t, T \ {x})
      BY <2>8, <3>1, SumOut
    <3> QED
      BY <3>2 DEF Total, U
  <2>11. t[x] = Lesser(IF a - Total(r, U) >= 0 THEN a - Total(r, U) ELSE 0, r[x])
    BY <1>2, <2>3, <2>6
  <2> HIDE DEF U
  <2> QED
    BY <2>3, <2>7, <2>8, <2>9, <2>10, <2>11 DEF Lesser
<1>5. Initial(C)
  OBVIOUS
<1> QED
  BY <1>3, <1>4, <1>5

\* What is added in the same way to two sums leaves their difference.
LEMMA BothGrow ==
    ASSUME NEW C, IsFiniteSet(C), NEW N, IsFiniteSet(N), C \cap N = {},
           NEW f, NEW g, \A k \in C : f[k] \in Int /\ g[k] \in Int,
           NEW f2, NEW g2, \A k \in C : f2[k] = f[k] /\ g2[k] = g[k],
           \A k \in N : f2[k] \in Int /\ g2[k] = f2[k],
           NEW d \in Int, Total(f, C) = Total(g, C) + d
    PROVE  Total(f2, C \cup N) = Total(g2, C \cup N) + d
<1>1. /\ SumFunctionOnSet(f2, C) \in Int /\ SumFunctionOnSet(f2, N) \in Int
      /\ SumFunctionOnSet(f2, C \cup N) = SumFunctionOnSet(f2, C) + SumFunctionOnSet(f2, N)
  <2>1. \A k \in C \cup N : f2[k] \in Int
    OBVIOUS
  <2> QED
    BY <2>1, SumUnion
<1>2. /\ SumFunctionOnSet(g2, C) \in Int /\ SumFunctionOnSet(g2, N) \in Int
      /\ SumFunctionOnSet(g2, C \cup N) = SumFunctionOnSet(g2, C) + SumFunctionOnSet(g2, N)
  <2>1. \A k \in C \cup N : g2[k] \in Int
    OBVIOUS
  <2> QED
    BY <2>1, SumUnion
<1>3. SumFunctionOnSet(f2, C) = SumFunctionOnSet(f, C)
  BY SumSame
<1>4. SumFunctionOnSet(g2, C) = SumFunctionOnSet(g, C)
  BY SumSame
<1>5. SumFunctionOnSet(f2, N) = SumFunctionOnSet(g2, N)
  BY SumSame
<1> QED
  BY <1>1, <1>2, <1>3, <1>4, <1>5 DEF Total


-----------------------------------------------------------------------------
(* The invariant.                                                          *)

Status == {"IN_PROGRESS", "COMPLETED", "FAILED"}
Txn == [shortName : ShortName, amount : Nat, status : Status]
Tables == UNION {[D -> Txn] : D \in SUBSET (Nat \ {0})}
Row == [ref : Refs, status : Status, txns : Tables]
Credit == [shortName : ShortName, amount : Nat, remaining : Nat]
Job == [pc : {"READ", "SAVING", "CREDITED", "APPLYING"},
        message : [ref : Refs, number : Nat], lines : Seq(Line), valid : BOOLEAN,
        id : Nat, next : Nat \ {0}, names : SUBSET ShortName]

PollingTyped ==
    /\ DOMAIN sftp \subseteq Refs /\ \A f \in DOMAIN sftp : sftp[f] \in Contents
    /\ DOMAIN bucket \subseteq Refs /\ \A f \in DOMAIN bucket : bucket[f] \in Contents
    /\ poll \in [pc : {"IDLE", "COPIED", "MOVED"}, list : SUBSET DOMAIN bucket]
    /\ messages \subseteq [ref : DOMAIN bucket, number : Nat]
    /\ sent \in Nat

CreditsTyped ==
    /\ DOMAIN credits \subseteq Nat \X Nat /\ IsFiniteSet(DOMAIN credits)
    /\ \A k \in DOMAIN credits : credits[k] \in Credit /\ credits[k].remaining <= credits[k].amount
    /\ DOMAIN spent \subseteq ShortName /\ \A sn \in DOMAIN spent : spent[sn] \in Nat
    /\ accounts \in [Accounts -> [owing : Nat, pending : BOOLEAN]]
    /\ \A a \in Accounts : accounts[a].pending => accounts[a].owing > 0

WorkersTyped ==
    /\ worker \in [Workers -> {Idle} \cup Job]
    /\ \A w \in Workers : worker[w] # Idle =>
         \/ worker[w].id \in DOMAIN files
         \/ worker[w].pc = "READ" /\ worker[w].id = 0

Typed == PollingTyped /\ files \in Seq(Row) /\ CreditsTyped /\ WorkersTyped

Whole(id) ==
    \A n \in DOMAIN files[id].txns :
        LET tx == files[id].txns[n]
        IN IF tx.status = "COMPLETED" /\ tx.amount > 0
           THEN <<id, n>> \in DOMAIN credits /\ credits[<<id, n>>].amount = tx.amount
           ELSE <<id, n>> \notin DOMAIN credits

\* A row that is FAILED has failed transactions and no credits.
Failure(id) ==
    files[id].status = "FAILED" =>
        /\ \A k \in DOMAIN credits : k[1] # id
        /\ \A n \in DOMAIN files[id].txns : files[id].txns[n].status = "FAILED"

\* A file has one row.
RowsAgree ==
    /\ \A id, jd \in DOMAIN files : files[id].ref = files[jd].ref => id = jd
    /\ \A k \in DOMAIN credits : k[1] \in DOMAIN files
    /\ \A id \in DOMAIN files : Whole(id) /\ Failure(id)

\* Who has read a file is alone with it, and its row may be written anew.
Reading(w) ==
    worker[w].pc = "READ" =>
        /\ \A v \in Workers :
             worker[v].pc = "READ" /\ worker[v].message.ref = worker[w].message.ref => v = w
        /\ worker[w].next = 1
        /\ IF worker[w].id = 0
           THEN \A id \in DOMAIN files : files[id].ref # worker[w].message.ref
           ELSE /\ worker[w].id \in DOMAIN files
                /\ files[worker[w].id].ref = worker[w].message.ref
                /\ files[worker[w].id].status = "FAILED"

\* So is who writes the row.
Writing(w) ==
    worker[w].pc \in {"SAVING", "CREDITED"} =>
        /\ files[worker[w].id].status = "IN_PROGRESS"
        /\ \A v \in Workers :
             worker[v].pc \in {"SAVING", "CREDITED"} /\ worker[v].id = worker[w].id => v = w

\* The lines before the next one have transactions; others are left of what failed.
Lines(k, txns) ==
    /\ ~k.valid => k.next = 1
    /\ k.next <= Len(k.lines) + 1
    /\ \A n \in 1..(k.next - 1) :
         /\ n \in DOMAIN txns /\ txns[n].amount = k.lines[n].amount
         /\ txns[n].status = IF k.lines[n].ok THEN "IN_PROGRESS" ELSE "FAILED"
    /\ \A n \in DOMAIN txns : n >= k.next => txns[n].status = "FAILED"

Saving(w) ==
    worker[w].pc = "SAVING" =>
        /\ \A k \in DOMAIN credits : k[1] # worker[w].id
        /\ Lines(worker[w], files[worker[w].id].txns)

Deposited(sn) == Total([k \in CreditsFor(sn) |-> credits[k].amount], CreditsFor(sn))

\* Of all short names, those that have no credits too.
Books == \A sn \in ShortName : Deposited(sn) = Balance(sn) + SpentBy(sn)

FilesInv ==
    /\ RowsAgree
    /\ \A w \in Workers : Reading(w) /\ Writing(w) /\ Saving(w)

IInv == Typed /\ (~Racing => FilesInv /\ Books)

-----------------------------------------------------------------------------
(* Lemmas about the operators.                                             *)

LEMMA UpdatedAt ==
    ASSUME NEW old, NEW new
    PROVE  /\ DOMAIN Updated(old, new) = DOMAIN old \cup DOMAIN new
           /\ \A x \in DOMAIN new : Updated(old, new)[x] = new[x]
           /\ \A x \in DOMAIN old \ DOMAIN new : Updated(old, new)[x] = old[x]
BY DEF Updated

LEMMA TableFields ==
    ASSUME NEW t \in Tables
    PROVE  DOMAIN t \subseteq Nat \ {0} /\ \A n \in DOMAIN t : t[n] \in Txn
BY DEF Tables

LEMMA TableMade ==
    ASSUME NEW D \in SUBSET (Nat \ {0}), NEW t \in [D -> Txn]
    PROVE  t \in Tables
BY DEF Tables

\* A line and its short name.
LEMMA LineTyped ==
    ASSUME NEW k \in Job, NEW n \in DOMAIN k.lines
    PROVE  /\ DOMAIN k.lines = 1..Len(k.lines) /\ Len(k.lines) \in Nat /\ n \in Nat
           /\ k.lines[n] \in Line /\ k.lines[n].amount \in Nat /\ k.lines[n].ok \in BOOLEAN
           /\ ShortNameOf(k.lines[n], n) \in ShortName
<1>1. k.lines \in Seq(Line)
  BY DEF Job
<1>2. /\ DOMAIN k.lines = 1..Len(k.lines) /\ Len(k.lines) \in Nat
      /\ k.lines[n] \in Line /\ n \in Nat
  BY <1>1
<1> QED
  BY <1>2 DEF Line, ShortNameOf, ShortName

LEMMA CollectedTyped ==
    ASSUME NEW w \in Workers, worker[w] \in Job, NEW n \in DOMAIN worker[w].lines
    PROVE  Collected(w, n) \in ShortName
<1> DEFINE sn(k) == ShortNameOf(worker[w].lines[k], k)
           same == {k \in DOMAIN worker[w].lines : [sn(k) EXCEPT !.type = sn(n).type] = sn(n)}
<1>1. sn(n) \in ShortName /\ Len(worker[w].lines) \in Nat
      /\ DOMAIN worker[w].lines = 1..Len(worker[w].lines)
  BY LineTyped
<1>2. n \in same
  BY <1>1 DEF ShortName
<1>3. same \subseteq 0..Len(worker[w].lines)
  BY <1>1
<1>4. Collected(w, n) = sn(Max(same))
  BY DEF Collected
<1>5. same \subseteq DOMAIN worker[w].lines
  OBVIOUS
<1> HIDE DEF same
<1>6. Max(same) \in same
  BY <1>1, <1>2, <1>3, GreatestMember
<1> QED
  BY <1>4, <1>5, <1>6, LineTyped

\* One row is written.
LEMMA FileWritten ==
    ASSUME files \in Seq(Row), NEW id \in DOMAIN files, NEW x \in Row,
           files' = [files EXCEPT ![id] = x]
    PROVE  /\ files' \in Seq(Row) /\ DOMAIN files' = DOMAIN files /\ files'[id] = x
           /\ \A jd \in DOMAIN files : jd # id => files'[jd] = files[jd]
OBVIOUS

LEMMA RowTyped ==
    ASSUME Typed, NEW id \in DOMAIN files
    PROVE  /\ files[id] \in Row /\ files[id].status \in Status /\ files[id].ref \in Refs
           /\ files[id].txns \in Tables /\ id \in Nat \ {0}
           /\ DOMAIN files = 1..Len(files) /\ Len(files) \in Nat
<1>1. files[id] \in Row /\ DOMAIN files = 1..Len(files) /\ Len(files) \in Nat
  BY DEF Typed
<1> QED
  BY <1>1 DEF Row

LEMMA WorkerTyped ==
    ASSUME Typed, NEW w \in Workers, worker[w].pc # "IDLE"
    PROVE  /\ worker[w] \in Job /\ worker[w].lines \in Seq(Line)
           /\ worker[w].valid \in BOOLEAN /\ worker[w].id \in Nat
           /\ worker[w].next \in Nat \ {0} /\ worker[w].names \subseteq ShortName
           /\ worker[w].message \in [ref : Refs, number : Nat]
           /\ worker[w].message.ref \in Refs
           /\ worker[w].pc # "READ" => worker[w].id \in DOMAIN files
<1>1. worker[w] \in Job
  BY DEF Typed, WorkersTyped, Idle
<1>2. worker[w].pc # "READ" => worker[w].id \in DOMAIN files
  BY DEF Typed, WorkersTyped, Idle
<1> QED
  BY <1>1, <1>2 DEF Job

-----------------------------------------------------------------------------
(* Steps that write no row.                                                *)

\* A worker goes on.
LEMMA WorkerGoesOn ==
    ASSUME Typed, NEW w \in Workers, NEW k,
           worker' = [worker EXCEPT ![w] = k], DOMAIN files \subseteq DOMAIN files',
           k = Idle \/ (k \in Job /\ (k.id \in DOMAIN files' \/ (k.pc = "READ" /\ k.id = 0)))
    PROVE  WorkersTyped' /\ worker'[w] = k /\ \A v \in Workers : v # w => worker'[v] = worker[v]
BY DEF Typed, WorkersTyped

LEMMA InitGood == Init => IInv
<1> SUFFICES ASSUME Init PROVE IInv
  OBVIOUS
<1>1. PollingTyped /\ WorkersTyped
  BY DEF Init, PollingTyped, WorkersTyped, Idle
<1>2. files \in Seq(Row) /\ DOMAIN files = {}
  BY DEF Init
<1>3. DOMAIN credits = {} /\ DOMAIN spent = {}
  BY DEF Init
<1>4. CreditsTyped
  BY <1>3, FS_EmptySet DEF Init, CreditsTyped
<1>5. FilesInv
  BY <1>2, <1>3 DEF Init, FilesInv, RowsAgree, Reading, Writing, Saving, Idle
<1>6. Books
  <2> SUFFICES ASSUME NEW sn \in ShortName PROVE Deposited(sn) = Balance(sn) + SpentBy(sn)
    BY DEF Books
  <2>1. CreditsFor(sn) = {}
    BY <1>3 DEF CreditsFor
  <2>2. Deposited(sn) = 0 /\ Balance(sn) = 0
    BY <2>1, SumEmpty DEF Deposited, Balance, Total, Remaining
  <2>3. SpentBy(sn) = 0
    BY <1>3 DEF SpentBy
  <2> QED
    BY <2>2, <2>3
<1> QED
  BY <1>1, <1>2, <1>4, <1>5, <1>6 DEF IInv, Typed

\* Workers only turn to what has no row, and no credit comes.
LEMMA FilesKept ==
    ASSUME Typed, FilesInv, files' = files, DOMAIN credits' = DOMAIN credits,
           \A k \in DOMAIN credits : credits'[k].amount = credits[k].amount,
           \A v \in Workers : \/ worker'[v] = worker[v]
                              \/ worker'[v].pc \notin {"READ", "SAVING", "CREDITED"}
    PROVE  FilesInv'
<1>1. RowsAgree'
  BY DEF FilesInv, RowsAgree, Whole, Failure
<1>2. ASSUME NEW w \in Workers PROVE Reading(w)' /\ Writing(w)' /\ Saving(w)'
  <2>1. CASE worker'[w].pc \notin {"READ", "SAVING", "CREDITED"}
    BY <2>1 DEF Reading, Writing, Saving
  <2>2. CASE worker'[w] = worker[w]
    <3>1. Reading(w)'
      BY <2>2 DEF FilesInv, Reading
    <3>2. Writing(w)'
      BY <2>2 DEF FilesInv, Writing
    <3>3. Saving(w)'
      BY <2>2 DEF FilesInv, Saving, Lines
    <3> QED
      BY <3>1, <3>2, <3>3
  <2> QED
    BY <2>1, <2>2
<1> QED
  BY <1>1, <1>2 DEF FilesInv

LEMMA BooksUnchanged ==
    ASSUME Books, UNCHANGED <<credits, spent>>
    PROVE  Books'
BY DEF Books, Deposited, Balance, Remaining, SpentBy, CreditsFor

LEMMA PollingGood ==
    ASSUME IInv,
           \/ \E f \in Refs, c \in Contents : Send(f, c)
           \/ Poll \/ PollerDies
    PROVE  IInv'
<1>1. UNCHANGED <<files, credits, spent, accounts, worker>>
  BY DEF Send, Poll, PollCopy, PollMove, PollPublish, PollerDies
<1>2. WorkersTyped' /\ CreditsTyped'
  BY <1>1 DEF IInv, Typed, WorkersTyped, CreditsTyped
<1>3. PollingTyped'
  <2>1. CASE \E f \in Refs, c \in Contents : Send(f, c)
    <3>1. PICK f \in Refs, c \in Contents : Send(f, c)
      BY <2>1
    <3>2. sftp' = Updated(sftp, [x \in {f} |-> c])
      BY <3>1 DEF Send
    <3>3. DOMAIN sftp' \subseteq Refs /\ \A x \in DOMAIN sftp' : sftp'[x] \in Contents
      BY <3>2 DEF Updated, IInv, Typed, PollingTyped
    <3> QED
      BY <3>1, <3>3 DEF Send, IInv, Typed, PollingTyped
  <2>2. CASE PollCopy
    <3>1. bucket' = Updated(bucket, sftp) /\ UNCHANGED <<sftp, messages, sent>>
          /\ poll' = [pc |-> "COPIED", list |-> DOMAIN sftp]
      BY <2>2 DEF PollCopy
    <3>2. /\ DOMAIN bucket' = DOMAIN bucket \cup DOMAIN sftp
          /\ \A x \in DOMAIN bucket' : bucket'[x] \in Contents
      BY <3>1 DEF Updated, IInv, Typed, PollingTyped
    <3> QED
      BY <3>1, <3>2 DEF IInv, Typed, PollingTyped
  <2>3. CASE PollMove
    <3>1. sftp' = RestrictDomain(sftp, LAMBDA f : f \notin poll.list)
      BY <2>3 DEF PollMove
    <3>2. DOMAIN sftp' \subseteq DOMAIN sftp /\ \A x \in DOMAIN sftp' : sftp'[x] = sftp[x]
      BY <3>1 DEF RestrictDomain, Restrict
    <3>3. poll' = [poll EXCEPT !.pc = "MOVED"] /\ UNCHANGED <<bucket, messages, sent>>
      BY <2>3 DEF PollMove
    <3> QED
      BY <3>2, <3>3 DEF IInv, Typed, PollingTyped
  <2>4. CASE PollPublish \/ PollerDies
    BY <2>4 DEF PollPublish, PollerDies, IInv, Typed, PollingTyped
  <2> QED
    BY <2>1, <2>2, <2>3, <2>4 DEF Poll
<1>4. ~Racing => FilesInv' /\ Books'
  BY <1>1, FilesKept, BooksUnchanged DEF IInv
<1> QED
  BY <1>1, <1>2, <1>3, <1>4 DEF IInv, Typed

\* Bills, and the receipts of the EFT job.
LEMMA AccountsGood ==
    ASSUME IInv,
           \/ \E a \in Accounts, amount \in AmountsOwing : Bill(a, amount)
           \/ \E a \in Accounts : EftJob(a)
    PROVE  IInv'
<1>1. UNCHANGED <<polling, messages, files, credits, spent, worker>>
  BY DEF Bill, EftJob
<1>2. WorkersTyped' /\ PollingTyped'
  BY <1>1 DEF IInv, Typed, WorkersTyped, PollingTyped, polling
<1>3. /\ accounts' \in [Accounts -> [owing : Nat, pending : BOOLEAN]]
      /\ \A a \in Accounts : accounts'[a].pending => accounts'[a].owing > 0
  <2>1. CASE \E a \in Accounts, amount \in AmountsOwing : Bill(a, amount)
    <3>1. PICK a \in Accounts, amount \in AmountsOwing : Bill(a, amount)
      BY <2>1
    <3>2. amount \in Nat \ {0}
      BY EFTFileConstants
    <3> QED
      BY <3>1, <3>2 DEF IInv, Typed, CreditsTyped, Bill
  <2>2. CASE \E a \in Accounts : EftJob(a)
    BY <2>2 DEF IInv, Typed, CreditsTyped, EftJob
  <2> QED
    BY <2>1, <2>2
<1>4. CreditsTyped'
  BY <1>1, <1>3 DEF IInv, Typed, CreditsTyped
<1>5. ~Racing => FilesInv' /\ Books'
  BY <1>1, FilesKept, BooksUnchanged DEF IInv
<1> QED
  BY <1>1, <1>2, <1>4, <1>5 DEF IInv, Typed

\* The message is answered, the worker dies or a short name is passed over.
LEMMA WorkerEndsGood ==
    ASSUME IInv, NEW w \in Workers,
           PassOver(w) \/ SaveRaises(w) \/ ApplyRaises(w) \/ Finish(w) \/ WorkerDies(w)
    PROVE  IInv'
<1>1. UNCHANGED <<polling, files, credits, spent, accounts>>
  BY DEF PassOver, SaveRaises, ApplyRaises, Finish, WorkerDies
<1>2. \E k : /\ worker' = [worker EXCEPT ![w] = k]
             /\ k = Idle \/ (k \in Job /\ k.id \in DOMAIN files /\ k.pc = "APPLYING")
  <2>1. CASE PassOver(w)
    <3>1. PICK sn \in ToApply(w) : Done(w, sn)
      BY <2>1 DEF PassOver
    <3>2. worker[w].pc = "APPLYING"
      BY <3>1 DEF ToApply
    <3>3. worker[w] \in Job /\ worker[w].id \in DOMAIN files
      BY <3>2, WorkerTyped DEF IInv
    <3>4. worker' = [worker EXCEPT ![w] = [worker[w] EXCEPT !.names = @ \ {sn}]]
      BY <3>1 DEF Done
    <3>5. LET k == [worker[w] EXCEPT !.names = @ \ {sn}]
          IN k \in Job /\ k.id \in DOMAIN files /\ k.pc = "APPLYING"
      BY <3>2, <3>3 DEF Job
    <3> QED
      BY <3>4, <3>5
  <2>2. CASE SaveRaises(w) \/ ApplyRaises(w) \/ Finish(w) \/ WorkerDies(w)
    BY <2>2 DEF SaveRaises, ApplyRaises, Finish, WorkerDies, Answer
  <2> QED
    BY <2>1, <2>2
<1>3. PICK k : /\ worker' = [worker EXCEPT ![w] = k]
               /\ k = Idle \/ (k \in Job /\ k.id \in DOMAIN files /\ k.pc = "APPLYING")
  BY <1>2
<1>4. WorkersTyped' /\ worker'[w] = k /\ \A v \in Workers : v # w => worker'[v] = worker[v]
  BY <1>1, <1>3, WorkerGoesOn DEF IInv
<1>5. \A v \in Workers : \/ worker'[v] = worker[v]
                         \/ worker'[v].pc \notin {"READ", "SAVING", "CREDITED"}
  BY <1>3, <1>4 DEF Idle
<1>6. messages' \subseteq messages
  BY DEF PassOver, SaveRaises, ApplyRaises, Finish, WorkerDies, Answer, Done
<1>7. PollingTyped' /\ CreditsTyped'
  BY <1>1, <1>6 DEF IInv, Typed, PollingTyped, CreditsTyped, polling
<1>8. ~Racing => FilesInv' /\ Books'
  BY <1>1, <1>5, FilesKept, BooksUnchanged DEF IInv
<1> QED
  BY <1>1, <1>4, <1>7, <1>8 DEF IInv, Typed

-----------------------------------------------------------------------------
(* Payments.                                                               *)

\* What is paid from a short name is taken from its credits.
LEMMA PayGood ==
    ASSUME Typed, NEW sn \in ShortName, NEW a \in Accounts, Covers(sn, a), Pay(sn, a)
    PROVE  /\ CreditsTyped' /\ DOMAIN credits' = DOMAIN credits
           /\ \A k \in DOMAIN credits : credits'[k].amount = credits[k].amount
           /\ Books => Books'
<1> DEFINE C == CreditsFor(sn)
           t == Taken(sn, accounts[a].owing)
           r == [k \in C |-> credits[k].remaining]
<1>1. /\ C \subseteq DOMAIN credits /\ C \subseteq Nat \X Nat /\ IsFiniteSet(C)
      /\ \A k \in C : credits[k].shortName = sn
      /\ \A k \in DOMAIN credits : credits[k].shortName = sn => k \in C
  BY FS_Subset DEF CreditsFor, Typed, CreditsTyped
<1>2. \A k \in DOMAIN credits :
        /\ credits[k] \in Credit /\ credits[k].remaining <= credits[k].amount
        /\ credits[k].remaining \in Nat /\ credits[k].amount \in Nat
        /\ credits[k].shortName \in ShortName
  BY DEF Typed, CreditsTyped, Credit
<1>3. accounts[a] \in [owing : Nat, pending : BOOLEAN] /\ accounts[a].owing \in Nat
  BY DEF Typed, CreditsTyped
<1>4. /\ 0 < accounts[a].owing /\ accounts[a].owing <= Balance(sn)
      /\ Balance(sn) = Total(r, C)
  BY DEF Covers, Balance, Remaining, Total
<1> HIDE DEF C, t
<1>5. DOMAIN t = C /\ \A k \in C : r[k] = credits[k].remaining /\ r[k] \in Nat
  BY <1>1, <1>2 DEF t, Taken, C
<1>6. ASSUME NEW k \in C
      PROVE  t[k] = Min({Max({0, accounts[a].owing - Total(r, {j \in C : Before(j, k)})}), r[k]})
  <2> DEFINE B == {j \in C : Before(j, k)}
  <2>1. IsFiniteSet(B) /\ B \subseteq C
    BY <1>1, FS_Subset
  <2>2. t[k] = Min({Max({0, accounts[a].owing - Remaining(B)}), credits[k].remaining})
    BY DEF t, Taken, NotTaken, C, Before
  <2>3. Remaining(B) = Total(r, B)
    <3> HIDE DEF B
    <3>1. \A j \in B : [j1 \in B |-> credits[j1].remaining][j] = r[j]
      BY <2>1
    <3>2. SumFunctionOnSet([j1 \in B |-> credits[j1].remaining], B) = SumFunctionOnSet(r, B)
      BY <2>1, <3>1, SumSame
    <3> QED
      BY <3>2 DEF Remaining, Total
  <2> QED
    BY <1>5, <2>2, <2>3
<1> HIDE DEF r
<1>7. /\ \A k \in C : t[k] \in 0..r[k]
      /\ Total(t, C) = Lesser(accounts[a].owing, Total(r, C))
  BY <1>1, <1>3, <1>5, <1>6, TakenInOrder
<1>8. Total(t, C) = accounts[a].owing
  BY <1>3, <1>4, <1>7 DEF Lesser
<1>9. /\ DOMAIN credits' = DOMAIN credits
      /\ \A k \in C : credits'[k] = [credits[k] EXCEPT !.remaining = credits[k].remaining - t[k]]
      /\ \A k \in DOMAIN credits : k \notin C => credits'[k] = credits[k]
      /\ spent' = Updated(spent, [s \in {sn} |-> SpentBy(sn) + accounts[a].owing])
      /\ accounts' = [accounts EXCEPT ![a].pending = TRUE]
  BY <1>1, <1>5 DEF Pay, t
<1>10. ASSUME NEW k \in DOMAIN credits
       PROVE  /\ credits'[k] \in Credit /\ credits'[k].remaining <= credits'[k].amount
              /\ credits'[k].amount = credits[k].amount
              /\ credits'[k].shortName = credits[k].shortName
              /\ k \in C => credits'[k].remaining = r[k] - t[k]
              /\ k \notin C => credits'[k].remaining = credits[k].remaining
  <2>1. CASE k \in C
    <3>1. t[k] \in Nat /\ t[k] <= credits[k].remaining
      BY <1>2, <1>5, <1>7, <2>1
    <3>2. /\ credits'[k].amount = credits[k].amount
          /\ credits'[k].shortName = credits[k].shortName
          /\ credits'[k].remaining = credits[k].remaining - t[k]
          /\ credits'[k] = [shortName |-> credits[k].shortName, amount |-> credits[k].amount,
                            remaining |-> credits[k].remaining - t[k]]
      BY <1>2, <1>9, <2>1 DEF Credit
    <3>3. credits[k].remaining - t[k] \in Nat /\ credits[k].remaining - t[k] <= credits[k].amount
      BY <1>2, <3>1
    <3> QED
      BY <1>2, <1>5, <2>1, <3>2, <3>3 DEF Credit
  <2>2. CASE k \notin C
    BY <1>2, <1>9, <2>2
  <2> QED
    BY <2>1, <2>2
<1>11. SpentBy(sn) \in Nat
  BY DEF SpentBy, Typed, CreditsTyped
<1>12. /\ DOMAIN spent' = DOMAIN spent \cup {sn}
       /\ spent'[sn] = SpentBy(sn) + accounts[a].owing
       /\ \A s \in DOMAIN spent : s # sn => spent'[s] = spent[s]
  BY <1>9 DEF Updated
<1>13. CreditsTyped'
  <2>1. /\ accounts' \in [Accounts -> [owing : Nat, pending : BOOLEAN]]
        /\ \A b \in Accounts : accounts'[b].pending => accounts'[b].owing > 0
    BY <1>3, <1>4, <1>9 DEF Typed, CreditsTyped
  <2>2. DOMAIN spent' \subseteq ShortName /\ \A s \in DOMAIN spent' : spent'[s] \in Nat
    BY <1>3, <1>11, <1>12 DEF Typed, CreditsTyped
  <2>3. /\ DOMAIN credits' \subseteq Nat \X Nat /\ IsFiniteSet(DOMAIN credits')
        /\ \A k \in DOMAIN credits' : credits'[k] \in Credit
                                      /\ credits'[k].remaining <= credits'[k].amount
    BY <1>9, <1>10 DEF Typed, CreditsTyped
  <2> QED
    BY <2>1, <2>2, <2>3 DEF CreditsTyped
<1>14. ASSUME Books PROVE Books'
  <2> SUFFICES ASSUME NEW s \in ShortName
               PROVE  Deposited(s)' = Balance(s)' + SpentBy(s)'
    BY DEF Books
  <2>1. CreditsFor(s)' = CreditsFor(s) /\ CreditsFor(s) \subseteq DOMAIN credits
    BY <1>9, <1>10 DEF CreditsFor
  <2>2. Deposited(s) = Balance(s) + SpentBy(s)
    BY <1>14 DEF Books
  <2>3. Deposited(s)' = Deposited(s)
    <3> DEFINE D == CreditsFor(s)
    <3>1. [k \in D |-> credits'[k].amount] = [k \in D |-> credits[k].amount]
      BY <1>10, <2>1
    <3> QED
      BY <2>1, <3>1 DEF Deposited
  <2>4. CASE s = sn
    <3> DEFINE r1 == [k \in C |-> credits'[k].remaining]
    <3>1. \A k \in C : /\ r[k] = credits[k].remaining /\ t[k] \in Int /\ r1[k] \in Int
                       /\ r[k] = r1[k] + t[k]
      <4>1. \A k \in C : t[k] \in 0..r[k] /\ r[k] \in Nat /\ r1[k] = r[k] - t[k]
        BY <1>1, <1>5, <1>7, <1>10
      <4> HIDE DEF r1
      <4>2. ASSUME NEW k \in C PROVE t[k] \in Int /\ r1[k] \in Int /\ r[k] = r1[k] + t[k]
        BY <4>1
      <4> QED
        BY <1>5, <4>2
    <3> HIDE DEF r1
    <3>2. SumFunctionOnSet(r, C) = SumFunctionOnSet(r1, C) + SumFunctionOnSet(t, C)
      BY <1>1, <3>1, SumPlus
    <3>3. Balance(s)' = SumFunctionOnSet(r1, C)
      BY <2>1, <2>4 DEF Balance, Remaining, C, r1
    <3>4. SumFunctionOnSet(r1, C) \in Int
      BY <1>1, <3>1, SumInt
    <3>5. SpentBy(s)' = SpentBy(s) + accounts[a].owing
      BY <1>12, <2>4 DEF SpentBy
    <3> QED
      BY <1>3, <1>4, <1>8, <1>11, <2>2, <2>3, <2>4, <3>2, <3>3, <3>4, <3>5 DEF Total
  <2>5. CASE s # sn
    <3> DEFINE D == CreditsFor(s)
    <3>1. [k \in D |-> credits'[k].remaining] = [k \in D |-> credits[k].remaining]
      <4>1. \A k \in D : k \notin C
        BY <1>1, <2>5 DEF CreditsFor
      <4> QED
        BY <1>10, <2>1, <4>1
    <3>2. Balance(s)' = Balance(s)
      BY <2>1, <3>1 DEF Balance, Remaining
    <3>3. SpentBy(s)' = SpentBy(s)
      BY <1>12, <2>5 DEF SpentBy
    <3> QED
      BY <2>2, <2>3, <3>2, <3>3
  <2> QED
    BY <2>4, <2>5
<1> QED
  BY <1>9, <1>10, <1>13, <1>14

LEMMA AccountsLinked ==
    ASSUME NEW sn \in ShortName
    PROVE  AccountsOf(sn) \subseteq Accounts
BY EFTFileConstants DEF AccountsOf, ShortName

LEMMA PaymentsGood ==
    ASSUME IInv,
           \/ \E w \in Workers : AutoPay(w)
           \/ \E a \in Accounts, sn \in ShortNames : StaffPays(sn, a)
    PROVE  IInv'
<1>1. CASE \E w \in Workers : AutoPay(w)
  <2>1. PICK w \in Workers : AutoPay(w)
    BY <1>1
  <2>2. PICK sn \in ToApply(w) : \E b \in AccountsOf(sn) :
               /\ ~PassesOver(sn) /\ ~accounts[b].pending /\ Pay(sn, b) /\ Done(w, sn)
               /\ UNCHANGED <<polling, files>>
    BY <2>1 DEF AutoPay
  <2>3. PICK a \in AccountsOf(sn) :
               /\ ~PassesOver(sn) /\ ~accounts[a].pending /\ Pay(sn, a) /\ Done(w, sn)
               /\ UNCHANGED <<polling, files>>
    BY <2>2
  <2>4. worker[w].pc = "APPLYING" /\ sn \in worker[w].names
    BY <2>3 DEF ToApply
  <2>5. worker[w] \in Job /\ worker[w].id \in DOMAIN files /\ sn \in ShortName
    BY <2>4, WorkerTyped DEF IInv
  <2>6. a \in Accounts /\ Covers(sn, a)
    BY <2>3, <2>5, AccountsLinked DEF PassesOver
  <2>7. /\ CreditsTyped' /\ DOMAIN credits' = DOMAIN credits
        /\ \A k \in DOMAIN credits : credits'[k].amount = credits[k].amount
        /\ Books => Books'
    BY <2>3, <2>5, <2>6, PayGood DEF IInv
  <2> DEFINE k == [worker[w] EXCEPT !.names = @ \ {sn}]
  <2>8. worker' = [worker EXCEPT ![w] = k] /\ UNCHANGED messages
    BY <2>3 DEF Done
  <2>9. k \in Job /\ k.id \in DOMAIN files' /\ k.pc = "APPLYING"
    BY <2>3, <2>4, <2>5 DEF Job
  <2> HIDE DEF k
  <2>10. WorkersTyped' /\ worker'[w] = k /\ \A v \in Workers : v # w => worker'[v] = worker[v]
    BY <2>3, <2>8, <2>9, WorkerGoesOn DEF IInv
  <2>11. PollingTyped'
    BY <2>3, <2>8 DEF IInv, Typed, PollingTyped, polling
  <2>12. ~Racing => FilesInv'
    <3>1. \A v \in Workers : \/ worker'[v] = worker[v]
                             \/ worker'[v].pc \notin {"READ", "SAVING", "CREDITED"}
      BY <2>9, <2>10
    <3> QED
      BY <2>3, <2>7, <3>1, FilesKept DEF IInv
  <2> QED
    BY <2>3, <2>7, <2>10, <2>11, <2>12 DEF IInv, Typed
<1>2. CASE \E a \in Accounts, sn \in ShortNames : StaffPays(sn, a)
  <2>1. PICK a \in Accounts, sn \in ShortNames : StaffPays(sn, a)
    BY <1>2
  <2>2. sn \in ShortName
    BY DEF ShortNames, IInv, Typed, CreditsTyped, Credit
  <2>3. /\ Covers(sn, a) /\ Pay(sn, a)
        /\ UNCHANGED <<polling, messages, files, worker>>
    BY <2>1 DEF StaffPays
  <2>4. /\ CreditsTyped' /\ DOMAIN credits' = DOMAIN credits
        /\ \A k \in DOMAIN credits : credits'[k].amount = credits[k].amount
        /\ Books => Books'
    BY <2>2, <2>3, PayGood DEF IInv
  <2>5. PollingTyped' /\ WorkersTyped'
    BY <2>3 DEF IInv, Typed, PollingTyped, WorkersTyped, polling
  <2>6. ~Racing => FilesInv'
    BY <2>3, <2>4, FilesKept DEF IInv
  <2> QED
    BY <2>3, <2>4, <2>5, <2>6 DEF IInv, Typed
<1> QED
  BY <1>1, <1>2

-----------------------------------------------------------------------------
(* Steps that write a row.                                                 *)

\* A worker receives the file.
LEMMA ReceiveGood ==
    ASSUME IInv, NEW w \in Workers, NEW m \in messages, Receive(w, m)
    PROVE  IInv'
<1>1. UNCHANGED <<polling, files, credits, spent, accounts>> /\ messages' \subseteq messages
      /\ worker[w] = Idle
  BY DEF Receive
<1>2. PollingTyped' /\ CreditsTyped'
  BY <1>1 DEF IInv, Typed, PollingTyped, CreditsTyped, polling
<1>3. CASE UNCHANGED worker
  <2>1. WorkersTyped'
    BY <1>1, <1>3 DEF IInv, Typed, WorkersTyped
  <2>2. ~Racing => FilesInv' /\ Books'
    BY <1>1, <1>3, FilesKept, BooksUnchanged DEF IInv
  <2> QED
    BY <1>1, <1>2, <2>1, <2>2 DEF IInv, Typed
<1>4. CASE /\ bucket[m.ref].decodes /\ Cardinality(Rows(m.ref)) <= 1 /\ ~Skips(m.ref)
           /\ worker' = [worker EXCEPT ![w] =
                [pc |-> "READ", message |-> m, lines |-> bucket[m.ref].lines,
                 valid |-> bucket[m.ref].valid, id |-> Max(Rows(m.ref) \cup {0}), next |-> 1,
                 names |-> {}]]
  <2> DEFINE id == Max(Rows(m.ref) \cup {0})
             k == [pc |-> "READ", message |-> m, lines |-> bucket[m.ref].lines,
                   valid |-> bucket[m.ref].valid, id |-> id, next |-> 1, names |-> {}]
  <2>1. m.ref \in DOMAIN bucket /\ m \in [ref : Refs, number : Nat] /\ m.ref \in Refs
    BY DEF IInv, Typed, PollingTyped
  <2>2. bucket[m.ref].lines \in Seq(Line) /\ bucket[m.ref].valid \in BOOLEAN
    BY <2>1, EFTFileConstants DEF IInv, Typed, PollingTyped
  <2>3. /\ id \in Rows(m.ref) \cup {0}
        /\ \A jd \in Rows(m.ref) : id >= jd
        /\ Rows(m.ref) \subseteq DOMAIN files /\ \A jd \in DOMAIN files : jd \in Nat \ {0}
    <3>1. Len(files) \in Nat /\ DOMAIN files = 1..Len(files)
      BY DEF IInv, Typed
    <3>2. Rows(m.ref) \cup {0} \subseteq 0..Len(files) /\ Rows(m.ref) \subseteq DOMAIN files
      BY <3>1 DEF Rows
    <3> QED
      BY <3>1, <3>2, GreatestMember
  <2>4. worker' = [worker EXCEPT ![w] = k]
    BY <1>4
  <2> HIDE DEF id
  <2>5. k \in Job /\ (k.id \in DOMAIN files' \/ (k.pc = "READ" /\ k.id = 0))
    BY <1>1, <2>1, <2>2, <2>3 DEF Job
  <2>6. /\ k.pc = "READ" /\ k.message = m /\ k.id = id /\ k.next = 1
    OBVIOUS
  <2> HIDE DEF k
  <2>7. WorkersTyped' /\ worker'[w] = k /\ \A v \in Workers : v # w => worker'[v] = worker[v]
    BY <1>1, <2>4, <2>5, WorkerGoesOn DEF IInv
  <2>8. ASSUME ~Racing PROVE FilesInv'
    <3>1. FilesInv
      BY <2>8 DEF IInv
    <3>2. RowsAgree'
      BY <1>1, <3>1 DEF FilesInv, RowsAgree, Whole, Failure
    <3>3. \A v \in Workers : worker[v].pc = "READ" => worker[v].message.ref # m.ref
      BY <2>8 DEF Receive
    <3>4. ASSUME NEW v \in Workers, v # w
          PROVE  Reading(v)' /\ Writing(v)' /\ Saving(v)'
      <4>1. Reading(v)'
        BY <1>1, <2>6, <2>7, <3>1, <3>3, <3>4 DEF FilesInv, Reading
      <4>2. Writing(v)'
        BY <1>1, <2>6, <2>7, <3>1, <3>4 DEF FilesInv, Writing
      <4>3. Saving(v)'
        BY <1>1, <2>7, <3>1, <3>4 DEF FilesInv, Saving, Lines
      <4> QED
        BY <4>1, <4>2, <4>3
    <3>5. Reading(w)'
      <4>1. \A v \in Workers :
              worker'[v].pc = "READ" /\ worker'[v].message.ref = worker'[w].message.ref => v = w
        BY <2>6, <2>7, <3>3
      <4>2. CASE id = 0
        <5>1. \A jd \in DOMAIN files : files[jd].ref # m.ref
          BY <2>3, <4>2 DEF Rows
        <5> QED
          BY <1>1, <2>6, <2>7, <4>1, <4>2, <5>1 DEF Reading
      <4>3. CASE id \in Rows(m.ref)
        <5>1. /\ id \in DOMAIN files /\ files[id].ref = m.ref
              /\ files[id].status \notin {"IN_PROGRESS", "COMPLETED"}
          BY <1>4, <4>3 DEF Rows, Skips
        <5>2. files[id].status = "FAILED"
          BY <5>1, RowTyped DEF IInv, Status
        <5>3. id # 0
          BY <2>3, <5>1
        <5> QED
          BY <1>1, <2>6, <2>7, <4>1, <5>1, <5>2, <5>3 DEF Reading
      <4> QED
        BY <2>3, <4>2, <4>3
    <3>6. Writing(w)' /\ Saving(w)'
      BY <2>6, <2>7 DEF Writing, Saving
    <3> QED
      BY <3>2, <3>4, <3>5, <3>6 DEF FilesInv
  <2>9. ~Racing => Books'
    BY <1>1, BooksUnchanged DEF IInv
  <2> QED
    BY <1>1, <1>2, <2>7, <2>8, <2>9 DEF IInv, Typed
<1> QED
  BY <1>3, <1>4 DEF Receive

\* The bucket cannot be read.
LEMMA ReadFailsGood ==
    ASSUME IInv, NEW w \in Workers, NEW m \in messages, ReadFails(w, m)
    PROVE  IInv'
<1>1. /\ UNCHANGED <<polling, files, credits, spent, accounts, worker>>
      /\ messages' \subseteq messages
  BY DEF ReadFails
<1>2. PollingTyped' /\ CreditsTyped'
  BY <1>1 DEF IInv, Typed, PollingTyped, CreditsTyped, polling
<1>3. WorkersTyped'
  BY <1>1 DEF IInv, Typed, WorkersTyped
<1>4. ~Racing => FilesInv' /\ Books'
  BY <1>1, FilesKept, BooksUnchanged DEF IInv
<1> QED
  BY <1>1, <1>2, <1>3, <1>4 DEF IInv, Typed

\* Worker w writes row id, its own or a new one, and the credits of this row.
LEMMA RowWritten ==
    ASSUME Typed, FilesInv, NEW w \in Workers, NEW id \in Nat \ {0},
           \/ id \notin DOMAIN files
           \/ /\ id \in DOMAIN files /\ worker[w].id = id
              /\ \/ worker[w].pc = "READ"
                 \/ worker[w].pc \in {"SAVING", "CREDITED"},
           worker[w].pc # "IDLE",
           worker[w].pc = "READ" /\ id \notin DOMAIN files => worker[w].id = 0,
           worker[w].pc # "READ" => id \in DOMAIN files,
           DOMAIN files' = DOMAIN files \cup {id},
           \A jd \in DOMAIN files : jd # id => files'[jd] = files[jd],
           files'[id].ref = IF id \in DOMAIN files THEN files[id].ref
                                                   ELSE worker[w].message.ref,
           \A k : k[1] # id => (k \in DOMAIN credits' <=> k \in DOMAIN credits),
           \A k \in DOMAIN credits : k[1] # id => credits'[k].amount = credits[k].amount,
           \A v \in Workers : v # w => worker'[v] = worker[v],
           worker'[w].pc # "READ",
           worker'[w].pc \in {"SAVING", "CREDITED"} =>
               worker'[w].id = id /\ files'[id].status = "IN_PROGRESS",
           Whole(id)', Failure(id)', Saving(w)'
    PROVE  FilesInv'
<1>1. /\ \A jd, ld \in DOMAIN files : files[jd].ref = files[ld].ref => jd = ld
      /\ \A k \in DOMAIN credits : k[1] \in DOMAIN files
      /\ \A jd \in DOMAIN files : Whole(jd) /\ Failure(jd)
      /\ \A v \in Workers : Reading(v) /\ Writing(v) /\ Saving(v)
  BY DEF FilesInv, RowsAgree
<1>2. \A v \in Workers : worker[v].pc \in {"SAVING", "CREDITED"} => worker[v].id \in DOMAIN files
  BY WorkerTyped
<1>3. ASSUME NEW v \in Workers, v # w, worker[v].pc \in {"SAVING", "CREDITED"}
      PROVE  worker[v].id # id
  <2>1. files[worker[v].id].status = "IN_PROGRESS" /\ worker[v].id \in DOMAIN files
    BY <1>1, <1>2, <1>3 DEF Writing
  <2>2. CASE worker[w].pc = "READ" /\ id \in DOMAIN files
    BY <1>1, <2>1, <2>2, RowTyped DEF Reading
  <2>3. CASE worker[w].pc \in {"SAVING", "CREDITED"} /\ id \in DOMAIN files
    BY <1>1, <1>3, <2>3 DEF Writing
  <2> QED
    BY <2>1, <2>2, <2>3
<1>4. ASSUME NEW v \in Workers, v # w, worker[v].pc = "READ"
      PROVE  /\ worker[v].id # id
             /\ worker[v].id = 0 => files'[id].ref # worker[v].message.ref
  <2>1. CASE id \in DOMAIN files
    <3>1. CASE worker[w].pc = "READ"
      <4>1. files[id].ref = worker[w].message.ref /\ files'[id].ref = files[id].ref
        BY <1>1, <2>1, <3>1 DEF Reading
      <4>2. worker[v].message.ref # worker[w].message.ref
        BY <1>1, <1>4, <3>1 DEF Reading
      <4>3. worker[v].id # 0 => files[worker[v].id].ref = worker[v].message.ref
        BY <1>1, <1>4 DEF Reading
      <4> QED
        BY <4>1, <4>2, <4>3
    <3>2. CASE worker[w].pc \in {"SAVING", "CREDITED"}
      <4>1. files[id].status = "IN_PROGRESS"
        BY <1>1, <2>1, <3>2 DEF Writing
      <4> QED
        BY <1>1, <1>4, <2>1, <4>1, RowTyped DEF Reading
    <3> QED
      BY <2>1, <3>1, <3>2
  <2>2. CASE id \notin DOMAIN files
    <3>1. worker[w].pc = "READ" /\ worker[w].id = 0
      BY <2>2
    <3>2. worker[v].message.ref # worker[w].message.ref
      BY <1>1, <1>4, <3>1 DEF Reading
    <3>3. worker[v].id = 0 \/ worker[v].id \in DOMAIN files
      BY <1>1, <1>4 DEF Reading
    <3>4. DOMAIN files' = DOMAIN files \cup {id}
      OBVIOUS
    <3> QED
      BY <1>1, <1>4, <2>2, <3>1, <3>2, <3>3 DEF Reading
  <2> QED
    BY <2>1, <2>2
<1>5. ASSUME NEW v \in Workers, v # w
      PROVE  Reading(v)' /\ Writing(v)' /\ Saving(v)'
  <2>1. Reading(v)'
    <3> SUFFICES ASSUME worker[v].pc = "READ" PROVE Reading(v)'
      BY <1>5 DEF Reading
    <3>1. \A u \in Workers :
            worker'[u].pc = "READ" /\ worker'[u].message.ref = worker'[v].message.ref => u = v
      BY <1>1, <1>5 DEF Reading
    <3>2. CASE worker[v].id = 0
      BY <1>1, <1>4, <1>5, <3>1, <3>2 DEF Reading
    <3>3. CASE worker[v].id # 0
      BY <1>1, <1>4, <1>5, <3>1, <3>3 DEF Reading
    <3> QED
      BY <3>2, <3>3
  <2>2. Writing(v)'
    <3> SUFFICES ASSUME worker[v].pc \in {"SAVING", "CREDITED"} PROVE Writing(v)'
      BY <1>5 DEF Writing
    <3>1. worker[v].id # id /\ worker[v].id \in DOMAIN files
      BY <1>2, <1>3, <1>5
    <3> QED
      BY <1>1, <1>5, <3>1 DEF Writing
  <2>3. Saving(v)'
    <3> SUFFICES ASSUME worker[v].pc = "SAVING" PROVE Saving(v)'
      BY <1>5 DEF Saving
    <3>1. worker[v].id # id /\ worker[v].id \in DOMAIN files
      BY <1>2, <1>3, <1>5
    <3>2. \A k \in DOMAIN credits' : k[1] # worker[v].id
      BY <1>1, <3>1 DEF Saving
    <3>3. Lines(worker[v], files[worker[v].id].txns)
      BY <1>1 DEF Saving
    <3>4. worker'[v] = worker[v] /\ files'[worker[v].id] = files[worker[v].id]
      BY <1>5, <3>1
    <3>5. Lines(worker'[v], files'[worker'[v].id].txns)
      BY <3>3, <3>4
    <3> QED
      BY <3>2, <3>4, <3>5 DEF Saving, Lines
  <2> QED
    BY <2>1, <2>2, <2>3
<1>6. Reading(w)' /\ Writing(w)'
  <2>1. Reading(w)'
    BY DEF Reading
  <2>2. Writing(w)'
    BY <1>3 DEF Writing
  <2> QED
    BY <2>1, <2>2
<1>7. \A jd, ld \in DOMAIN files' : files'[jd].ref = files'[ld].ref => jd = ld
  <2>1. ASSUME NEW jd \in DOMAIN files, id \notin DOMAIN files
        PROVE  files[jd].ref # files'[id].ref
    BY <1>1, <2>1 DEF Reading
  <2> QED
    BY <1>1, <2>1
<1>8. \A k \in DOMAIN credits' : k[1] \in DOMAIN files'
  BY <1>1
<1>9. ASSUME NEW jd \in DOMAIN files', jd # id PROVE Whole(jd)' /\ Failure(jd)'
  <2>1. jd \in DOMAIN files /\ files'[jd] = files[jd] /\ Whole(jd) /\ Failure(jd)
    BY <1>1, <1>9
  <2>2. Whole(jd)'
    <3>1. \A n : /\ <<jd, n>> \in DOMAIN credits' <=> <<jd, n>> \in DOMAIN credits
                 /\ <<jd, n>> \in DOMAIN credits =>
                      credits'[<<jd, n>>].amount = credits[<<jd, n>>].amount
      BY <1>9
    <3> QED
      BY <2>1, <3>1 DEF Whole
  <2>3. Failure(jd)'
    BY <1>9, <2>1 DEF Failure
  <2> QED
    BY <2>2, <2>3
<1> QED
  BY <1>5, <1>6, <1>7, <1>8, <1>9 DEF FilesInv, RowsAgree

LEMMA ClaimGood ==
    ASSUME IInv, NEW w \in Workers, Claim(w)
    PROVE  IInv'
<1>1. worker[w].pc = "READ"
  BY DEF Claim
<1>2. /\ UNCHANGED <<polling, messages, credits, spent, accounts>>
  BY DEF Claim
<1>3. worker[w] \in Job /\ worker[w].message.ref \in Refs
      /\ (worker[w].id \in DOMAIN files \/ worker[w].id = 0)
  BY <1>1, WorkerTyped DEF IInv, Typed, WorkersTyped, Idle
<1>4. files \in Seq(Row) /\ Len(files) \in Nat /\ DOMAIN files = 1..Len(files)
  BY DEF IInv, Typed
<1>5. PICK id \in Nat \ {0} : id = IF worker[w].id = 0 THEN Len(files) + 1 ELSE worker[w].id
  BY <1>3, <1>4
<1> DEFINE x == IF id \in DOMAIN files THEN [files[id] EXCEPT !.status = "IN_PROGRESS"]
                ELSE [ref |-> worker[w].message.ref, status |-> "IN_PROGRESS", txns |-> <<>>]
           k == [worker[w] EXCEPT !.pc = "SAVING", !.id = id]
<1>6. id \in DOMAIN files <=> worker[w].id # 0
  BY <1>3, <1>4, <1>5
<1>7. x \in Row /\ x.status = "IN_PROGRESS"
      /\ x.ref = (IF id \in DOMAIN files THEN files[id].ref ELSE worker[w].message.ref)
      /\ x.txns = (IF id \in DOMAIN files THEN files[id].txns ELSE <<>>)
  <2>1. <<>> \in Tables /\ "IN_PROGRESS" \in Status
    <3>1. [n \in {} |-> <<>>] \in [{} -> Txn] /\ <<>> = [n \in {} |-> <<>>]
      OBVIOUS
    <3> QED
      BY <3>1, TableMade DEF Status
  <2>2. CASE id \in DOMAIN files
    <3>1. files[id] \in Row
      BY <1>4, <2>2
    <3> QED
      BY <2>1, <2>2, <3>1 DEF Row
  <2>3. CASE id \notin DOMAIN files
    BY <1>3, <2>1, <2>3 DEF Row
  <2> QED
    BY <2>2, <2>3
<1>8. /\ files' \in Seq(Row) /\ DOMAIN files' = DOMAIN files \cup {id}
      /\ \A jd \in DOMAIN files : jd # id => files'[jd] = files[jd]
      /\ files'[id] = x
  <2>1. CASE id \in DOMAIN files
    <3>1. files' = [files EXCEPT ![id] = x]
      BY <1>5, <1>6, <2>1 DEF Claim
    <3> HIDE DEF x
    <3> QED
      BY <1>4, <1>7, <2>1, <3>1, FileWritten
  <2>2. CASE id \notin DOMAIN files
    <3>1. files' = Append(files, x) /\ id = Len(files) + 1
      BY <1>5, <1>6, <2>2 DEF Claim
    <3> HIDE DEF x
    <3> QED
      BY <1>4, <1>7, <3>1
  <2> QED
    BY <2>1, <2>2
<1>9. worker' = [worker EXCEPT ![w] = k]
  BY <1>3, <1>5 DEF Claim, Job
<1>10. /\ k \in Job /\ k.pc = "SAVING" /\ k.id = id /\ k.next = worker[w].next
       /\ k.lines = worker[w].lines /\ k.valid = worker[w].valid
  BY <1>3, <1>5 DEF Job
<1> HIDE DEF x, k
<1>11. WorkersTyped' /\ worker'[w] = k /\ \A v \in Workers : v # w => worker'[v] = worker[v]
  BY <1>8, <1>9, <1>10, WorkerGoesOn DEF IInv
<1>12. PollingTyped' /\ CreditsTyped'
  BY <1>2 DEF IInv, Typed, PollingTyped, CreditsTyped, polling
<1>13. ASSUME ~Racing PROVE FilesInv'
  <2>1. FilesInv /\ Reading(w)
    BY <1>13 DEF IInv, FilesInv
  <2>2. worker[w].next = 1
    BY <1>1, <2>1 DEF Reading
  <2>3. \A kk \in DOMAIN credits : kk[1] # id
    <3>1. CASE id \in DOMAIN files
      <4>1. files[id].status = "FAILED"
        BY <1>1, <1>5, <1>6, <2>1, <3>1 DEF Reading
      <4> QED
        BY <2>1, <3>1, <4>1 DEF FilesInv, RowsAgree, Failure
    <3>2. CASE id \notin DOMAIN files
      BY <2>1, <3>2 DEF FilesInv, RowsAgree
    <3> QED
      BY <3>1, <3>2
  <2>4. \A n \in DOMAIN x.txns : x.txns[n].status = "FAILED"
    <3>1. CASE id \in DOMAIN files
      <4>1. files[id].status = "FAILED"
        BY <1>1, <1>5, <1>6, <2>1, <3>1 DEF Reading
      <4> QED
        BY <1>7, <2>1, <3>1, <4>1 DEF FilesInv, RowsAgree, Failure
    <3>2. CASE id \notin DOMAIN files
      BY <1>7, <3>2
    <3> QED
      BY <3>1, <3>2
  <2>5. Whole(id)' /\ Failure(id)'
    <3>1. \A n : <<id, n>> \notin DOMAIN credits'
      BY <1>2, <2>3
    <3> QED
      BY <1>7, <1>8, <2>4, <3>1 DEF Whole, Failure
  <2>6. Lines(k, x.txns)
    <3>1. Len(worker[w].lines) \in Nat
      BY <1>3 DEF Job
    <3>2. DOMAIN x.txns \subseteq Nat
      BY <1>7, TableFields DEF Row
    <3> QED
      BY <1>10, <2>2, <2>4, <3>1, <3>2 DEF Lines
  <2>7. Saving(w)'
    BY <1>2, <1>8, <1>10, <1>11, <2>3, <2>6 DEF Saving, Lines
  <2>8. id \in DOMAIN files => worker[w].id = id
    BY <1>5, <1>6
  <2> QED
    BY <1>1, <1>2, <1>6, <1>7, <1>8, <1>10, <1>11, <2>1, <2>5, <2>7, <2>8, RowWritten DEF IInv
<1>14. ~Racing => Books'
  BY <1>2, BooksUnchanged DEF IInv
<1> QED
  BY <1>8, <1>11, <1>12, <1>13, <1>14 DEF IInv, Typed

\* A worker that has the row writes it, without making credits.
LEMMA RowGood ==
    ASSUME IInv, NEW w \in Workers, worker[w].pc \in {"SAVING", "CREDITED"},
           NEW id \in DOMAIN files, id = worker[w].id,
           NEW x \in Row, files' = [files EXCEPT ![id] = x], x.ref = files[id].ref,
           NEW k, k = Idle \/ (k \in Job /\ k.id = id /\ k.pc # "READ"),
           worker' = [worker EXCEPT ![w] = k],
           messages' \subseteq messages, UNCHANGED <<polling, credits, spent, accounts>>,
           ~Racing =>
               /\ k.pc \in {"SAVING", "CREDITED"} => x.status = "IN_PROGRESS"
               /\ Whole(id)' /\ Failure(id)' /\ Saving(w)'
    PROVE  IInv'
<1>1. id \in Nat \ {0}
  BY RowTyped DEF IInv
<1>2. /\ files' \in Seq(Row) /\ DOMAIN files' = DOMAIN files /\ files'[id] = x
      /\ \A jd \in DOMAIN files : jd # id => files'[jd] = files[jd]
  BY FileWritten DEF IInv, Typed
<1>3. WorkersTyped' /\ worker'[w] = k /\ \A v \in Workers : v # w => worker'[v] = worker[v]
  BY <1>2, WorkerGoesOn DEF IInv
<1>4. PollingTyped' /\ CreditsTyped'
  BY DEF IInv, Typed, PollingTyped, CreditsTyped, polling
<1>5. ASSUME ~Racing PROVE FilesInv'
  <2>1. Typed /\ FilesInv
    BY <1>5 DEF IInv
  <2>2. /\ worker'[w].pc # "READ"
        /\ worker'[w].pc \in {"SAVING", "CREDITED"} =>
             worker'[w].id = id /\ files'[id].status = "IN_PROGRESS"
    BY <1>2, <1>3, <1>5 DEF Idle
  <2>3. worker[w].pc # "IDLE" /\ worker[w].pc # "READ"
    OBVIOUS
  <2>4. Saving(w)' /\ Whole(id)' /\ Failure(id)'
    BY <1>5
  <2> QED
    BY <1>1, <1>2, <1>3, <2>1, <2>2, <2>3, <2>4, RowWritten
<1>6. ~Racing => Books'
  BY BooksUnchanged DEF IInv
<1> QED
  BY <1>2, <1>3, <1>4, <1>5, <1>6 DEF IInv, Typed

\* What a worker that saves or credits has in its hands.
LEMMA Held ==
    ASSUME IInv, NEW w \in Workers, worker[w].pc \in {"SAVING", "CREDITED"}
    PROVE  \E id \in DOMAIN files :
              /\ id = worker[w].id /\ id \in Nat \ {0}
              /\ files[id] \in Row /\ worker[w] \in Job
              /\ files[id].txns \in Tables /\ DOMAIN files[id].txns \subseteq Nat \ {0}
              /\ \A n \in DOMAIN files[id].txns : files[id].txns[n] \in Txn
              /\ worker[w].lines \in Seq(Line) /\ Len(worker[w].lines) \in Nat
              /\ DOMAIN worker[w].lines = 1..Len(worker[w].lines)
              /\ worker[w].next \in Nat \ {0}
              /\ ~Racing => /\ FilesInv /\ files[id].status = "IN_PROGRESS"
                            /\ Whole(id) /\ Saving(w)
<1>1. worker[w].pc # "IDLE" /\ worker[w].pc # "READ"
  OBVIOUS
<1>2. PICK id \in DOMAIN files : id = worker[w].id
  BY <1>1, WorkerTyped DEF IInv
<1>3. worker[w] \in Job /\ worker[w].lines \in Seq(Line) /\ worker[w].next \in Nat \ {0}
  BY <1>1, WorkerTyped DEF IInv
<1>4. Len(worker[w].lines) \in Nat /\ DOMAIN worker[w].lines = 1..Len(worker[w].lines)
  BY <1>3
<1>5. files[id] \in Row /\ files[id].txns \in Tables /\ id \in Nat \ {0}
  BY RowTyped DEF IInv
<1>6. ASSUME ~Racing
      PROVE  FilesInv /\ files[id].status = "IN_PROGRESS" /\ Whole(id) /\ Saving(w)
  BY <1>2, <1>6 DEF IInv, FilesInv, RowsAgree, Writing
<1>7. /\ DOMAIN files[id].txns \subseteq Nat \ {0}
      /\ \A n \in DOMAIN files[id].txns : files[id].txns[n] \in Txn
  BY <1>5, TableFields
<1> QED
  BY <1>2, <1>3, <1>4, <1>5, <1>6, <1>7

LEMMA RejectGood ==
    ASSUME IInv, NEW w \in Workers, Reject(w)
    PROVE  IInv'
<1>1. worker[w].pc = "SAVING" /\ ~worker[w].valid
  BY DEF Reject
<1>2. PICK id \in DOMAIN files :
              /\ id = worker[w].id /\ files[id] \in Row
              /\ files[id].txns \in Tables /\ DOMAIN files[id].txns \subseteq Nat \ {0}
              /\ ~Racing => Saving(w)
  BY <1>1, Held
<1> DEFINE x == [files[id] EXCEPT !.status = "FAILED"]
<1>3. files' = [files EXCEPT ![id] = x]
  BY <1>2 DEF Reject
<1>4. x \in Row /\ x.ref = files[id].ref /\ x.status = "FAILED" /\ x.txns = files[id].txns
  BY <1>2 DEF Row, Status
<1> HIDE DEF x
<1>5. files'[id] = x
  BY <1>3, <1>4, FileWritten DEF IInv, Typed
<1>6. worker' = [worker EXCEPT ![w] = Idle] /\ messages' \subseteq messages
  BY DEF Reject, Answer
<1>7. UNCHANGED <<polling, credits, spent, accounts>>
  BY DEF Reject
<1>8. ASSUME ~Racing PROVE Whole(id)' /\ Failure(id)' /\ Saving(w)'
  <2>1. worker'[w] = Idle
    BY <1>6 DEF IInv, Typed, WorkersTyped
  <2>2. Saving(w)'
    BY <2>1 DEF Saving, Idle
  <2>3. /\ \A kk \in DOMAIN credits : kk[1] # id
        /\ worker[w].next = 1
        /\ \A n \in DOMAIN files[id].txns : n >= 1 => files[id].txns[n].status = "FAILED"
    BY <1>1, <1>2, <1>8 DEF Saving, Lines
  <2>4. \A n \in DOMAIN files'[id].txns : files'[id].txns[n].status = "FAILED"
    BY <1>2, <1>4, <1>5, <2>3
  <2>5. \A kk \in DOMAIN credits' : kk[1] # id
    BY <1>7, <2>3
  <2>6. \A n : <<id, n>> \notin DOMAIN credits'
    BY <2>5
  <2> QED
    BY <2>2, <2>4, <2>5, <2>6 DEF Whole, Failure
<1>9. Idle.pc \notin {"SAVING", "CREDITED"}
  BY DEF Idle
<1> QED
  BY <1>1, <1>2, <1>3, <1>4, <1>6, <1>7, <1>8, <1>9, RowGood

LEMMA SaveTransactionGood ==
    ASSUME IInv, NEW w \in Workers, SaveTransaction(w)
    PROVE  IInv'
<1>1. worker[w].pc = "SAVING" /\ worker[w].valid /\ worker[w].next <= Len(worker[w].lines)
  BY DEF SaveTransaction, HasLine
<1>2. PICK id \in DOMAIN files :
              /\ id = worker[w].id /\ files[id] \in Row /\ worker[w] \in Job
              /\ files[id].txns \in Tables /\ DOMAIN files[id].txns \subseteq Nat \ {0}
              /\ \A n \in DOMAIN files[id].txns : files[id].txns[n] \in Txn
              /\ worker[w].lines \in Seq(Line) /\ Len(worker[w].lines) \in Nat
              /\ DOMAIN worker[w].lines = 1..Len(worker[w].lines)
              /\ worker[w].next \in Nat \ {0}
              /\ ~Racing => Saving(w) /\ files[id].status = "IN_PROGRESS"
  BY <1>1, Held
<1>3. PICK n \in Nat \ {0} : n = worker[w].next
  BY <1>2
<1>4. n \in DOMAIN worker[w].lines
  BY <1>1, <1>2, <1>3
<1> DEFINE l  == worker[w].lines[n]
           tx == [shortName |-> ShortNameOf(l, n), amount |-> l.amount,
                  status |-> IF l.ok THEN "IN_PROGRESS" ELSE "FAILED"]
           t  == Updated(files[id].txns, [j \in {n} |-> tx])
           x  == [files[id] EXCEPT !.txns = t]
           k  == [worker[w] EXCEPT !.next = n + 1]
<1>5. tx \in Txn /\ tx.amount = l.amount
      /\ tx.status = (IF l.ok THEN "IN_PROGRESS" ELSE "FAILED")
  BY <1>2, <1>4, LineTyped DEF Txn, Status
<1>6. files' = [files EXCEPT ![id] = x]
  BY <1>2, <1>3 DEF SaveTransaction, NextLine
<1>7. worker' = [worker EXCEPT ![w] = k]
  BY <1>2, <1>3 DEF SaveTransaction
<1> HIDE DEF tx
<1>8. /\ DOMAIN t = DOMAIN files[id].txns \cup {n} /\ t[n] = tx
      /\ \A j \in DOMAIN files[id].txns : j # n => t[j] = files[id].txns[j]
  BY DEF Updated
<1>9. t \in Tables
  <2>1. \A j \in DOMAIN t : t[j] \in Txn
    BY <1>2, <1>5, <1>8
  <2>2. t = [j \in DOMAIN t |-> t[j]]
    BY DEF Updated
  <2>3. t \in [DOMAIN t -> Txn]
    BY <2>1, <2>2
  <2>4. DOMAIN t \in SUBSET (Nat \ {0})
    BY <1>2, <1>8
  <2> HIDE DEF t
  <2> QED
    BY <2>3, <2>4, TableMade
<1> HIDE DEF t
<1>10. x \in Row /\ x.ref = files[id].ref /\ x.status = files[id].status /\ x.txns = t
  BY <1>2, <1>9 DEF Row
<1>11. /\ k \in Job /\ k.pc = "SAVING" /\ k.id = id /\ k.next = n + 1
       /\ k.lines = worker[w].lines /\ k.valid = worker[w].valid
  <2>1. n + 1 \in Nat \ {0} /\ worker[w] \in Job
    BY <1>2, <1>3
  <2> HIDE DEF x
  <2> QED
    BY <1>1, <1>2, <2>1 DEF Job
<1> HIDE DEF x, k
<1>12. files'[id] = x
  BY <1>6, <1>10, FileWritten DEF IInv, Typed
<1>13. worker'[w] = k
  BY <1>7 DEF IInv, Typed, WorkersTyped
<1>14. UNCHANGED <<polling, messages, credits, spent, accounts>>
  BY DEF SaveTransaction
<1>15. ASSUME ~Racing PROVE Whole(id)' /\ Failure(id)' /\ Saving(w)'
  <2>1. /\ \A kk \in DOMAIN credits : kk[1] # id
        /\ \A j \in 1..(n - 1) :
             /\ j \in DOMAIN files[id].txns
             /\ files[id].txns[j].amount = worker[w].lines[j].amount
             /\ files[id].txns[j].status =
                  IF worker[w].lines[j].ok THEN "IN_PROGRESS" ELSE "FAILED"
        /\ \A j \in DOMAIN files[id].txns : j >= n => files[id].txns[j].status = "FAILED"
    BY <1>1, <1>2, <1>3, <1>15 DEF Saving, Lines
  <2>2. \A kk \in DOMAIN credits' : kk[1] # id
    BY <1>14, <2>1
  <2>3. ASSUME NEW j \in 1..n
        PROVE  /\ j \in DOMAIN t /\ t[j].amount = worker[w].lines[j].amount
               /\ t[j].status = IF worker[w].lines[j].ok THEN "IN_PROGRESS" ELSE "FAILED"
    <3>1. CASE j = n
      BY <1>5, <1>8, <3>1
    <3>2. CASE j # n
      <4>1. j \in 1..(n - 1)
        BY <3>2
      <4> QED
        BY <1>8, <2>1, <3>2, <4>1
    <3> QED
      BY <3>1, <3>2
  <2>4. ASSUME NEW j \in DOMAIN t, j >= n + 1 PROVE t[j].status = "FAILED"
    <3>1. j \in DOMAIN files[id].txns /\ j # n /\ j >= n
      BY <1>2, <1>8, <2>4
    <3> QED
      BY <1>8, <2>1, <3>1
  <2>5. Lines(k, t)
    <3>1. n + 1 - 1 = n /\ n + 1 <= Len(k.lines) + 1 /\ k.valid
      BY <1>1, <1>2, <1>3, <1>11
    <3> QED
      BY <1>11, <2>3, <2>4, <3>1 DEF Lines
  <2>6. Saving(w)'
    BY <1>10, <1>11, <1>12, <1>13, <2>2, <2>5 DEF Saving, Lines
  <2>7. \A j \in DOMAIN t : t[j].status # "COMPLETED"
    <3> SUFFICES ASSUME NEW j \in DOMAIN t PROVE t[j].status # "COMPLETED"
      OBVIOUS
    <3>1. j \in Nat \ {0}
      BY <1>2, <1>8
    <3>2. j \in 1..n \/ j >= n + 1
      BY <3>1
    <3> QED
      BY <2>3, <2>4, <3>2
  <2>8. \A j : <<id, j>> \notin DOMAIN credits'
    BY <2>2
  <2> QED
    BY <1>2, <1>10, <1>12, <1>15, <2>6, <2>7, <2>8 DEF Whole, Failure
<1>16. k = Idle \/ (k \in Job /\ k.id = id /\ k.pc # "READ")
  BY <1>11
<1>17. messages' \subseteq messages /\ (~Racing => x.status = "IN_PROGRESS")
  BY <1>2, <1>10, <1>14
<1> QED
  BY <1>1, <1>2, <1>6, <1>7, <1>10, <1>14, <1>15, <1>16, <1>17, RowGood

LEMMA FailGood ==
    ASSUME IInv, NEW w \in Workers, Fail(w)
    PROVE  IInv'
<1>1. worker[w].pc = "SAVING"
  BY DEF Fail, Saved
<1>2. PICK id \in DOMAIN files :
              /\ id = worker[w].id /\ files[id] \in Row
              /\ files[id].txns \in Tables /\ DOMAIN files[id].txns \subseteq Nat \ {0}
              /\ \A n \in DOMAIN files[id].txns : files[id].txns[n] \in Txn
              /\ ~Racing => Saving(w)
  BY <1>1, Held
<1> DEFINE t == [n \in DOMAIN files[id].txns |->
                    [files[id].txns[n] EXCEPT !.status = "FAILED"]]
           x == [files[id] EXCEPT !.txns = t, !.status = "FAILED"]
<1>3. files' = [files EXCEPT ![id] = x]
  BY <1>2 DEF Fail, Failed, FailedTransactions, Row
<1>4. DOMAIN t = DOMAIN files[id].txns
      /\ \A n \in DOMAIN t : t[n] \in Txn /\ t[n].status = "FAILED"
  BY <1>2 DEF Txn, Status
<1>5. t \in Tables
  <2>1. t \in [DOMAIN t -> Txn] /\ DOMAIN t \in SUBSET (Nat \ {0})
    BY <1>2, <1>4
  <2> HIDE DEF t
  <2> QED
    BY <2>1, TableMade
<1> HIDE DEF t
<1>6. x \in Row /\ x.ref = files[id].ref /\ x.status = "FAILED" /\ x.txns = t
  BY <1>2, <1>5 DEF Row, Status
<1> HIDE DEF x
<1>7. files'[id] = x
  BY <1>3, <1>6, FileWritten DEF IInv, Typed
<1>8. worker' = [worker EXCEPT ![w] = Idle] /\ messages' \subseteq messages
  BY DEF Fail, Answer
<1>9. UNCHANGED <<polling, credits, spent, accounts>>
  BY DEF Fail, RolledBack
<1>10. ASSUME ~Racing PROVE Whole(id)' /\ Failure(id)' /\ Saving(w)'
  <2>1. worker'[w] = Idle
    BY <1>8 DEF IInv, Typed, WorkersTyped
  <2>2. Saving(w)'
    BY <2>1 DEF Saving, Idle
  <2>3. \A kk \in DOMAIN credits : kk[1] # id
    BY <1>1, <1>2, <1>10 DEF Saving
  <2>4. \A kk \in DOMAIN credits' : kk[1] # id
    BY <1>9, <2>3
  <2>5. \A n : <<id, n>> \notin DOMAIN credits'
    BY <2>4
  <2> QED
    BY <1>4, <1>6, <1>7, <2>2, <2>4, <2>5 DEF Whole, Failure
<1>11. Idle.pc \notin {"SAVING", "CREDITED"}
  BY DEF Idle
<1> QED
  BY <1>1, <1>2, <1>3, <1>6, <1>8, <1>9, <1>10, <1>11, RowGood

LEMMA FinalizeGood ==
    ASSUME IInv, NEW w \in Workers, Finalize(w)
    PROVE  IInv'
<1>1. worker[w].pc = "CREDITED"
  BY DEF Finalize
<1>2. PICK id \in DOMAIN files :
              /\ id = worker[w].id /\ files[id] \in Row /\ worker[w] \in Job
              /\ ~Racing => Whole(id)
  BY <1>1, Held
<1> DEFINE x == [files[id] EXCEPT !.status = "COMPLETED"]
           sns == {Collected(w, n) : n \in DOMAIN worker[w].lines}
           k == [worker[w] EXCEPT !.pc = "APPLYING", !.names = sns]
<1>3. files' = [files EXCEPT ![id] = x] /\ worker' = [worker EXCEPT ![w] = k]
  BY <1>2 DEF Finalize, Job
<1>4. x \in Row /\ x.ref = files[id].ref /\ x.status = "COMPLETED" /\ x.txns = files[id].txns
  BY <1>2 DEF Row, Status
<1>5. sns \subseteq ShortName
  BY <1>2, CollectedTyped
<1> HIDE DEF sns
<1>6. k \in Job /\ k.id = id /\ k.pc = "APPLYING"
  BY <1>2, <1>5 DEF Job
<1> HIDE DEF x, k
<1>7. UNCHANGED <<polling, messages, credits, spent, accounts>>
  BY DEF Finalize
<1>8. files'[id] = x
  BY <1>3, <1>4, FileWritten DEF IInv, Typed
<1>9. worker'[w] = k
  BY <1>3 DEF IInv, Typed, WorkersTyped
<1>10. ASSUME ~Racing PROVE Whole(id)' /\ Failure(id)' /\ Saving(w)'
  <2>1. Whole(id)
    BY <1>2, <1>10
  <2>2. Whole(id)'
    BY <1>4, <1>7, <1>8, <2>1 DEF Whole
  <2>3. Failure(id)'
    BY <1>4, <1>8 DEF Failure
  <2>4. Saving(w)'
    BY <1>6, <1>9 DEF Saving
  <2> QED
    BY <2>2, <2>3, <2>4
<1>11. messages' \subseteq messages
  BY <1>7
<1> QED
  BY <1>1, <1>2, <1>3, <1>4, <1>6, <1>7, <1>10, <1>11, RowGood

\* The credits that a worker makes are new.
LEMMA CreditsMade ==
    ASSUME IInv, NEW w \in Workers, worker[w].pc = "SAVING", worker[w] \in Job,
           worker[w].lines \in Seq(Line), worker[w].id \in Nat
    PROVE  LET new == NewCredits(w)
               id  == worker[w].id
           IN /\ DOMAIN new \subseteq {<<id, n>> : n \in DOMAIN worker[w].lines}
              /\ IsFiniteSet(DOMAIN new) /\ DOMAIN new \subseteq Nat \X Nat
              /\ \A n : <<id, n>> \in DOMAIN new <=>
                     n \in DOMAIN worker[w].lines /\ worker[w].lines[n].amount > 0
              /\ \A k \in DOMAIN new : /\ k[1] = id /\ new[k] \in Credit
                                       /\ new[k].remaining = new[k].amount
                                       /\ new[k].amount = worker[w].lines[k[2]].amount
<1> DEFINE new == NewCredits(w)
           id  == worker[w].id
           L   == DOMAIN worker[w].lines
           K   == {<<id, n>> : n \in {n \in L : worker[w].lines[n].amount > 0}}
           all == {<<id, n>> : n \in L}
<1>1. DOMAIN new = K
  BY DEF NewCredits
<1>2. L = 1..Len(worker[w].lines) /\ Len(worker[w].lines) \in Nat
  OBVIOUS
<1>3. IsFiniteSet(L) /\ L \subseteq Nat
  BY <1>2, FS_Interval
<1>4. IsFiniteSet(all)
  <2> DEFINE pair == [n \in L |-> <<id, n>>]
  <2>1. pair \in Surjection(L, all)
    BY DEF Surjection
  <2> HIDE DEF pair, all, L
  <2> QED
    BY <1>3, <2>1, FS_Surjection
<1>5. K \subseteq all /\ all \subseteq Nat \X Nat
  BY <1>3
<1>6. IsFiniteSet(K)
  BY <1>4, <1>5, FS_Subset
<1>7. \A n : <<id, n>> \in K <=> n \in L /\ worker[w].lines[n].amount > 0
  OBVIOUS
<1>8. ASSUME NEW k \in K
      PROVE  /\ k[1] = id /\ new[k] \in Credit /\ new[k].remaining = new[k].amount
             /\ new[k].amount = worker[w].lines[k[2]].amount
  <2>1. PICK n \in L : k = <<id, n>>
    OBVIOUS
  <2>2. k[1] = id /\ k[2] = n
    BY <2>1
  <2>3. new[k] = [shortName |-> Collected(w, k[2]), amount |-> worker[w].lines[k[2]].amount,
                  remaining |-> worker[w].lines[k[2]].amount]
    BY DEF NewCredits
  <2>4. Collected(w, n) \in ShortName
    BY CollectedTyped
  <2>5. worker[w].lines[n].amount \in Nat
    BY LineTyped
  <2> HIDE DEF new, K
  <2> QED
    BY <2>2, <2>3, <2>4, <2>5 DEF Credit
<1> HIDE DEF K, new, all
<1> QED
  BY <1>1, <1>5, <1>6, <1>7, <1>8 DEF new, all

LEMMA CompleteTransactionsGood ==
    ASSUME IInv, NEW w \in Workers, CompleteTransactions(w)
    PROVE  IInv'
<1>1. /\ worker[w].pc = "SAVING" /\ worker[w].valid /\ worker[w].next > Len(worker[w].lines)
      /\ \A n \in DOMAIN worker[w].lines : worker[w].lines[n].ok
  BY DEF CompleteTransactions, Saved, Parsed
<1>2. PICK id \in DOMAIN files :
              /\ id = worker[w].id /\ id \in Nat \ {0}
              /\ files[id] \in Row /\ worker[w] \in Job
              /\ files[id].txns \in Tables /\ DOMAIN files[id].txns \subseteq Nat \ {0}
              /\ \A n \in DOMAIN files[id].txns : files[id].txns[n] \in Txn
              /\ worker[w].lines \in Seq(Line) /\ Len(worker[w].lines) \in Nat
              /\ DOMAIN worker[w].lines = 1..Len(worker[w].lines)
              /\ worker[w].next \in Nat \ {0}
              /\ ~Racing => FilesInv /\ Saving(w) /\ files[id].status = "IN_PROGRESS"
  BY <1>1, Held
<1>3. PICK new :
        /\ new = NewCredits(w) /\ IsFiniteSet(DOMAIN new) /\ DOMAIN new \subseteq Nat \X Nat
        /\ \A n : <<id, n>> \in DOMAIN new <=>
               n \in DOMAIN worker[w].lines /\ worker[w].lines[n].amount > 0
        /\ \A k \in DOMAIN new : /\ k[1] = id /\ new[k] \in Credit
                                 /\ new[k].remaining = new[k].amount
                                 /\ new[k].amount = worker[w].lines[k[2]].amount
  BY <1>1, <1>2, CreditsMade
<1> DEFINE t == [n \in DOMAIN files[id].txns |->
                    IF files[id].txns[n].status = "IN_PROGRESS"
                    THEN [files[id].txns[n] EXCEPT !.status = "COMPLETED"]
                    ELSE files[id].txns[n]]
           x == [files[id] EXCEPT !.txns = t]
           k0 == [worker[w] EXCEPT !.pc = "CREDITED"]
<1>4. files' = [files EXCEPT ![id] = x]
  BY <1>2 DEF CompleteTransactions, CompletedTransactions
<1>5. /\ DOMAIN t = DOMAIN files[id].txns
      /\ \A n \in DOMAIN t :
           /\ t[n] \in Txn /\ t[n].amount = files[id].txns[n].amount
           /\ t[n].status = (IF files[id].txns[n].status = "IN_PROGRESS" THEN "COMPLETED"
                             ELSE files[id].txns[n].status)
  <2>1. DOMAIN t = DOMAIN files[id].txns
    OBVIOUS
  <2>2. ASSUME NEW n \in DOMAIN t
        PROVE  /\ t[n] \in Txn /\ t[n].amount = files[id].txns[n].amount
               /\ t[n].status = (IF files[id].txns[n].status = "IN_PROGRESS" THEN "COMPLETED"
                                 ELSE files[id].txns[n].status)
    <3>1. files[id].txns[n] \in Txn
      BY <1>2
    <3>2. CASE files[id].txns[n].status = "IN_PROGRESS"
      BY <3>1, <3>2 DEF Txn, Status
    <3>3. CASE files[id].txns[n].status # "IN_PROGRESS"
      BY <3>1, <3>3 DEF Txn, Status
    <3> QED
      BY <3>2, <3>3
  <2> QED
    BY <2>1, <2>2
<1>6. t \in Tables
  <2>1. t \in [DOMAIN t -> Txn] /\ DOMAIN t \in SUBSET (Nat \ {0})
    BY <1>2, <1>5
  <2> HIDE DEF t
  <2> QED
    BY <2>1, TableMade
<1> HIDE DEF t
<1>7. x \in Row /\ x.ref = files[id].ref /\ x.status = files[id].status /\ x.txns = t
  BY <1>2, <1>6 DEF Row
<1>8. /\ worker' = [worker EXCEPT ![w] = k0]
      /\ credits' = Updated(credits, new)
      /\ UNCHANGED <<polling, messages, spent, accounts>>
  BY <1>3 DEF CompleteTransactions, GoTo
<1>9. k0 \in Job /\ k0.pc = "CREDITED" /\ k0.id = id
  BY <1>2 DEF Job
<1> HIDE DEF x, k0
<1>10. /\ files' \in Seq(Row) /\ DOMAIN files' = DOMAIN files /\ files'[id] = x
       /\ \A jd \in DOMAIN files : jd # id => files'[jd] = files[jd]
  BY <1>4, <1>7, FileWritten DEF IInv, Typed
<1>11. WorkersTyped' /\ worker'[w] = k0 /\ \A v \in Workers : v # w => worker'[v] = worker[v]
  BY <1>8, <1>9, <1>10, WorkerGoesOn DEF IInv
<1>12. /\ DOMAIN credits' = DOMAIN credits \cup DOMAIN new
       /\ \A k \in DOMAIN new : credits'[k] = new[k]
       /\ \A k \in DOMAIN credits : k \notin DOMAIN new => credits'[k] = credits[k]
  <2>1. credits' = Updated(credits, new)
    BY <1>8
  <2> QED
    BY <2>1 DEF Updated
<1>13. CreditsTyped'
  <2>1. /\ DOMAIN credits' \subseteq Nat \X Nat /\ IsFiniteSet(DOMAIN credits')
    <3>1. DOMAIN credits \subseteq Nat \X Nat /\ IsFiniteSet(DOMAIN credits)
      BY DEF IInv, Typed, CreditsTyped
    <3>2. IsFiniteSet(DOMAIN credits \cup DOMAIN new)
      BY <1>3, <3>1, FS_Union
    <3> QED
      BY <1>3, <1>12, <3>1, <3>2
  <2>2. ASSUME NEW k \in DOMAIN credits'
        PROVE  credits'[k] \in Credit /\ credits'[k].remaining <= credits'[k].amount
    <3>1. CASE k \in DOMAIN new
      BY <1>3, <1>12, <3>1 DEF Credit
    <3>2. CASE k \notin DOMAIN new
      BY <1>12, <2>2, <3>2 DEF IInv, Typed, CreditsTyped
    <3> QED
      BY <3>1, <3>2
  <2> QED
    BY <1>8, <2>1, <2>2 DEF IInv, Typed, CreditsTyped
<1>14. PollingTyped'
  BY <1>8 DEF IInv, Typed, PollingTyped, polling
<1>15. ASSUME ~Racing PROVE \A k \in DOMAIN credits : k[1] # id /\ k \notin DOMAIN new
  BY <1>1, <1>2, <1>3, <1>15 DEF Saving
<1>16. ASSUME ~Racing PROVE FilesInv'
  <2>1. /\ \A n \in 1..Len(worker[w].lines) :
             /\ n \in DOMAIN files[id].txns
             /\ files[id].txns[n].amount = worker[w].lines[n].amount
             /\ files[id].txns[n].status = "IN_PROGRESS"
        /\ \A n \in DOMAIN files[id].txns :
             n \notin 1..Len(worker[w].lines) => files[id].txns[n].status = "FAILED"
    <3>1. Lines(worker[w], files[id].txns)
      BY <1>1, <1>2, <1>16 DEF Saving
    <3>2. worker[w].next = Len(worker[w].lines) + 1
      BY <1>1, <1>2, <3>1 DEF Lines
    <3>3. PICK m \in Nat : m = Len(worker[w].lines)
      BY <1>2
    <3>4. m + 1 - 1 = m
      OBVIOUS
    <3>5. \A n \in 1..m : /\ n \in DOMAIN files[id].txns
                          /\ files[id].txns[n].amount = worker[w].lines[n].amount
                          /\ files[id].txns[n].status = "IN_PROGRESS"
      BY <1>1, <1>2, <3>1, <3>2, <3>3, <3>4 DEF Lines
    <3>6. ASSUME NEW n \in DOMAIN files[id].txns, n \notin 1..m
          PROVE  files[id].txns[n].status = "FAILED"
      <4>1. n \in Nat \ {0}
        BY <1>2
      <4>2. n >= m + 1
        BY <3>6, <4>1
      <4> QED
        BY <3>1, <3>2, <3>3, <4>2 DEF Lines
    <3> QED
      BY <3>3, <3>5, <3>6
  <2>2. Whole(id)'
    <3> SUFFICES ASSUME NEW n \in DOMAIN t
                 PROVE  IF t[n].status = "COMPLETED" /\ t[n].amount > 0
                        THEN /\ <<id, n>> \in DOMAIN credits'
                             /\ credits'[<<id, n>>].amount = t[n].amount
                        ELSE <<id, n>> \notin DOMAIN credits'
      BY <1>7, <1>10 DEF Whole
    <3>1. <<id, n>> \notin DOMAIN credits
      BY <1>15, <1>16
    <3>2. CASE n \in 1..Len(worker[w].lines)
      <4>1. t[n].status = "COMPLETED" /\ t[n].amount = worker[w].lines[n].amount
        BY <1>5, <2>1, <3>2
      <4>2. <<id, n>> \in DOMAIN new => credits'[<<id, n>>].amount = worker[w].lines[n].amount
        <5>1. <<id, n>>[2] = n
          OBVIOUS
        <5> QED
          BY <1>3, <1>12, <5>1
      <4> QED
        BY <1>2, <1>3, <1>12, <3>1, <3>2, <4>1, <4>2
    <3>3. CASE n \notin 1..Len(worker[w].lines)
      <4>1. t[n].status = "FAILED"
        BY <1>5, <2>1, <3>3
      <4>2. <<id, n>> \notin DOMAIN credits'
        BY <1>2, <1>3, <1>12, <3>1, <3>3
      <4> QED
        BY <4>1, <4>2
    <3> QED
      BY <3>2, <3>3
  <2>3. x.status = "IN_PROGRESS"
    BY <1>2, <1>7, <1>16
  <2>4. Failure(id)'
    BY <1>10, <2>3 DEF Failure
  <2>5. Saving(w)'
    BY <1>9, <1>11 DEF Saving
  <2>6. /\ \A k : k[1] # id => (k \in DOMAIN credits' <=> k \in DOMAIN credits)
        /\ \A k \in DOMAIN credits : k[1] # id => credits'[k].amount = credits[k].amount
    BY <1>3, <1>12
  <2>7. /\ worker[w].pc # "IDLE" /\ worker[w].pc # "READ" /\ worker'[w].pc # "READ"
        /\ worker'[w].id = id /\ files'[id].status = "IN_PROGRESS"
        /\ files'[id].ref = files[id].ref /\ DOMAIN files' = DOMAIN files \cup {id}
    BY <1>1, <1>7, <1>9, <1>10, <1>11, <2>3
  <2>8. Typed /\ FilesInv /\ id \in Nat \ {0} /\ worker[w].id = id
    BY <1>2, <1>16 DEF IInv
  <2> QED
    BY <1>1, <1>10, <1>11, <2>2, <2>4, <2>5, <2>6, <2>7, <2>8, RowWritten
<1>17. ASSUME ~Racing PROVE Books'
  <2> SUFFICES ASSUME NEW s \in ShortName
               PROVE  Deposited(s)' = Balance(s)' + SpentBy(s)'
    BY DEF Books
  <2> DEFINE C == CreditsFor(s)
             N == {k \in DOMAIN new : new[k].shortName = s}
             U == C \cup N
  <2>1. /\ C \subseteq DOMAIN credits /\ IsFiniteSet(C) /\ C \cap N = {} /\ IsFiniteSet(N)
    <3>1. C \subseteq DOMAIN credits /\ IsFiniteSet(DOMAIN credits) /\ N \subseteq DOMAIN new
      BY DEF CreditsFor, IInv, Typed, CreditsTyped
    <3>2. IsFiniteSet(C) /\ IsFiniteSet(N)
      BY <1>3, <3>1, FS_Subset
    <3> QED
      BY <1>15, <1>17, <3>1, <3>2
  <2>2. CreditsFor(s)' = U
    <3>1. CreditsFor(s)' = {k \in DOMAIN credits' : credits'[k].shortName = s}
      BY DEF CreditsFor
    <3> QED
      BY <1>12, <1>15, <1>17, <3>1 DEF CreditsFor
  <2>3. SpentBy(s)' = SpentBy(s) /\ SpentBy(s) \in Nat
    BY <1>8 DEF SpentBy, IInv, Typed, CreditsTyped
  <2>4. \A k \in C : /\ credits[k].amount \in Int /\ credits[k].remaining \in Int
                     /\ credits'[k] = credits[k]
    BY <1>12, <1>15, <1>17, <2>1 DEF IInv, Typed, CreditsTyped, Credit
  <2>5. \A k \in N : credits'[k].amount \in Int /\ credits'[k].remaining = credits'[k].amount
    BY <1>3, <1>12 DEF Credit
  <2>6. PICK f : f = [k \in C |-> credits[k].amount]
    OBVIOUS
  <2>7. PICK g : g = [k \in C |-> credits[k].remaining]
    OBVIOUS
  <2>8. PICK f2 : f2 = [k \in U |-> credits'[k].amount]
    OBVIOUS
  <2>9. PICK g2 : g2 = [k \in U |-> credits'[k].remaining]
    OBVIOUS
  <2>10. Total(f, C) = Total(g, C) + SpentBy(s)
    BY <1>17, <2>6, <2>7 DEF IInv, Books, Deposited, Balance, Remaining, Total
  <2>11. Deposited(s)' = Total(f2, U) /\ Balance(s)' = Total(g2, U)
    BY <2>2, <2>8, <2>9 DEF Deposited, Balance, Remaining, Total
  <2> HIDE DEF C, N
  <2>12. /\ \A k \in C : f[k] \in Int /\ g[k] \in Int /\ f2[k] = f[k] /\ g2[k] = g[k]
         /\ \A k \in N : f2[k] \in Int /\ g2[k] = f2[k]
    BY <2>4, <2>5, <2>6, <2>7, <2>8, <2>9
  <2>13. Total(f2, C \cup N) = Total(g2, C \cup N) + SpentBy(s)
    BY <2>1, <2>3, <2>10, <2>12, BothGrow
  <2> QED
    BY <2>3, <2>11, <2>13
<1> QED
  BY <1>10, <1>11, <1>13, <1>14, <1>16, <1>17 DEF IInv, Typed

-----------------------------------------------------------------------------

LEMMA StutterGood ==
    ASSUME IInv, UNCHANGED vars
    PROVE  IInv'
<1>1. UNCHANGED <<sftp, bucket, poll, sent, messages, files, credits, spent, accounts, worker>>
  BY DEF vars, polling
<1>2. PollingTyped' /\ CreditsTyped' /\ WorkersTyped'
  BY <1>1 DEF IInv, Typed, PollingTyped, CreditsTyped, WorkersTyped
<1>3. ~Racing => FilesInv' /\ Books'
  BY <1>1, FilesKept, BooksUnchanged DEF IInv
<1> QED
  BY <1>1, <1>2, <1>3 DEF IInv, Typed

LEMMA NextGood == IInv /\ [Next]_vars => IInv'
<1> SUFFICES ASSUME IInv, [Next]_vars PROVE IInv'
  OBVIOUS
<1>1. CASE (\E f \in Refs, c \in Contents : Send(f, c)) \/ Poll \/ PollerDies
  BY <1>1, PollingGood
<1>2. ASSUME NEW w \in Workers,
             Work(w) \/ WorkerDies(w) \/ \E m \in messages : ReadFails(w, m)
      PROVE  IInv'
  <2>1. CASE \E m \in messages : Receive(w, m)
    BY <2>1, ReceiveGood
  <2>2. CASE Claim(w)
    BY <2>2, ClaimGood
  <2>3. CASE Reject(w)
    BY <2>3, RejectGood
  <2>4. CASE SaveTransaction(w)
    BY <2>4, SaveTransactionGood
  <2>5. CASE Fail(w)
    BY <2>5, FailGood
  <2>6. CASE CompleteTransactions(w)
    BY <2>6, CompleteTransactionsGood
  <2>7. CASE Finalize(w)
    BY <2>7, FinalizeGood
  <2>8. CASE AutoPay(w)
    BY <2>8, PaymentsGood
  <2>9. CASE PassOver(w) \/ SaveRaises(w) \/ ApplyRaises(w) \/ Finish(w) \/ WorkerDies(w)
    BY <2>9, WorkerEndsGood
  <2>10. CASE \E m \in messages : ReadFails(w, m)
    BY <2>10, ReadFailsGood
  <2> QED
    BY <1>2, <2>1, <2>2, <2>3, <2>4, <2>5, <2>6, <2>7, <2>8, <2>9, <2>10 DEF Work
<1>3. CASE \/ \E a \in Accounts, amount \in AmountsOwing : Bill(a, amount)
           \/ \E a \in Accounts : EftJob(a)
  BY <1>3, AccountsGood
<1>4. CASE \E a \in Accounts, sn \in ShortNames : StaffPays(sn, a)
  BY <1>4, PaymentsGood
<1>5. CASE UNCHANGED vars
  BY <1>5, StutterGood
<1> QED
  BY <1>1, <1>2, <1>3, <1>4, <1>5 DEF Next

LEMMA Invariance == Spec => []IInv
BY InitGood, NextGood, PTL DEF Spec

-----------------------------------------------------------------------------
(* What the invariant says.                                                *)

\* The tables and the workers hold what they are meant to, whatever races: transactions and
\* credits are of short names, no credit has more left than was deposited, and only an
\* account that owes has a pending payment.
THEOREM TypeCorrect == Spec => []TypeOK
<1>1. IInv => TypeOK
  <2> SUFFICES ASSUME IInv PROVE TypeOK
    OBVIOUS
  <2>1. /\ DOMAIN sftp \cup DOMAIN bucket \subseteq Refs /\ poll.list \subseteq Refs
        /\ \A m \in messages : m.ref \in Refs
    BY DEF IInv, Typed, PollingTyped
  <2>2. ASSUME NEW id \in DOMAIN files
        PROVE  /\ files[id].ref \in Refs
               /\ files[id].status \in {"IN_PROGRESS", "COMPLETED", "FAILED"}
               /\ \A n \in DOMAIN files[id].txns : files[id].txns[n].shortName \in ShortName
    <3>1. files[id].txns \in Tables
      BY RowTyped DEF IInv
    <3>2. \A n \in DOMAIN files[id].txns : files[id].txns[n] \in Txn
      BY <3>1, TableFields
    <3> QED
      BY <3>2, RowTyped DEF IInv, Status, Txn
  <2>3. \A k \in DOMAIN credits : /\ credits[k].shortName \in ShortName
                                  /\ credits[k].remaining \in 0..credits[k].amount
    BY DEF IInv, Typed, CreditsTyped, Credit
  <2>4. \A a \in Accounts : accounts[a].pending => accounts[a].owing > 0
    BY DEF IInv, Typed, CreditsTyped
  <2>5. \A w \in Workers : worker[w] = Idle \/ worker[w].message.ref \in Refs
    BY DEF IInv, Typed, WorkersTyped, Job
  <2> QED
    BY <2>1, <2>2, <2>3, <2>4, <2>5 DEF TypeOK
<1> QED
  BY <1>1, Invariance, PTL

\* Unless two deliveries of a file arrive at the very same time, a credit is made once: what
\* was deposited for a short name is what is left of its credits and what was paid from them,
\* whenever a worker or the poller died and however often a file was delivered.
THEOREM BooksAreKept ==
    ASSUME ~Racing
    PROVE  Spec => []BooksKept
<1>1. IInv => BooksKept
  <2> SUFFICES ASSUME IInv, NEW sn \in ShortNames
               PROVE  SumFunctionOnSet([k \in CreditsFor(sn) |-> credits[k].amount],
                                       CreditsFor(sn)) = Balance(sn) + SpentBy(sn)
    BY DEF BooksKept
  <2>1. sn \in ShortName
    BY DEF ShortNames, IInv, Typed, CreditsTyped, Credit
  <2> QED
    BY <2>1 DEF IInv, Books, Deposited, Total
<1> QED
  BY <1>1, Invariance, PTL

\* Unless two deliveries of a file arrive at the very same time, a transaction has a credit
\* of its amount if and only if it is COMPLETED, a file that is FAILED, and may be sent again,
\* has no credits, and a file is credited from one row.
THEOREM CreditedWhole ==
    ASSUME ~Racing
    PROVE  Spec => []CreditedAsWhole
<1>1. IInv => CreditedAsWhole
  <2> SUFFICES ASSUME IInv PROVE CreditedAsWhole
    OBVIOUS
  <2>1. RowsAgree
    BY DEF IInv, FilesInv
  <2>2. CreditsAreWhole
    BY <2>1 DEF RowsAgree, Whole, CreditsAreWhole
  <2>3. FailedIsUncredited
    BY <2>1 DEF RowsAgree, Failure, FailedIsUncredited
  <2>4. CreditedOnce
    <3> SUFFICES ASSUME NEW f \in Refs
                 PROVE  Cardinality({k[1] : k \in DOMAIN credits} \cap FilesOf(f)) <= 1
      BY DEF CreditedOnce
    <3> DEFINE S == {k[1] : k \in DOMAIN credits} \cap FilesOf(f)
    <3>1. \A id, jd \in S : id = jd
      BY <2>1 DEF RowsAgree, FilesOf
    <3> HIDE DEF S
    <3>2. S = {} \/ \E id : S = {id}
      BY <3>1
    <3>3. Cardinality(S) = 0 \/ Cardinality(S) = 1
      BY <3>2, FS_EmptySet, FS_Singleton
    <3>4. Cardinality(S) <= 1
      BY <3>3
    <3> QED
      BY <3>4 DEF S
  <2> QED
    BY <2>2, <2>3, <2>4 DEF CreditedAsWhole
<1> QED
  BY <1>1, Invariance, PTL

=============================================================================
