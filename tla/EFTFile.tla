------------------------------ MODULE EFTFile ------------------------------
(***************************************************************************)
(* The life of a TDI17 file, which lists deposits:                         *)
(*   ftp-poller/tasks/eft_poller_ftp.py           copies it to a bucket    *)
(*                                                and announces it,        *)
(*   pay_queue/resources/worker.py                receives the message,    *)
(*   pay_queue/services/eft/eft_reconciliation.py turns its lines into     *)
(*                                                transactions and credits *)
(*                                                of short names, and pays *)
(*                                                what their accounts owe. *)
(*                                                                         *)
(* Everything here may end between two commits; the message is delivered   *)
(* again until a worker has answered it, so that several workers may have  *)
(* the same file, and a file that failed is sent again with other content. *)
(***************************************************************************)
EXTENDS Integers, FiniteSets, Sequences, SequencesExt, FiniteSetsExt, Functions

CONSTANTS
    Refs,           \* names of files
    Names,          \* descriptions of transactions
    Contents,       \* what is in a file, see below
    Accounts,       \* accounts that pay by EFT
    LinkedTo,       \* the accounts linked to a short name
    AmountsOwing,   \* what an account may come to owe
    Workers,
    Racing,         \* two deliveries of a file may arrive at the very same time
    MaxSent,        \* bound on files sent
    MaxCrashes,     \* bound on pollers and workers that die and reads that fail
    MaxBills        \* bound on statements

Types == {"EFT", "WIRE"}

\* gen: the description matches no pattern, and a short name is generated for the line.
\* ok: it is parsed without an error.  sized: it has the length that is expected.
Line == [name : Names, type : Types, gen : BOOLEAN, amount : Nat, ok : BOOLEAN,
         sized : BOOLEAN]

\* decodes: it is a text at all.  valid: so are its header and trailer.
ASSUME EFTFileConstants ==
    /\ \A c \in Contents : /\ c.decodes \in BOOLEAN /\ c.valid \in BOOLEAN
                           /\ c.lines \in Seq(Line)
    /\ LinkedTo \in [Names \X Types -> SUBSET Accounts]
    /\ AmountsOwing \subseteq Nat \ {0}
    /\ Racing \in BOOLEAN
    /\ {MaxSent, MaxCrashes, MaxBills} \subseteq Nat

VARIABLES
    sftp,       \* files on the server of the bank
    bucket,     \* files in the bucket
    poll,       \* what the poller does next, with which files
    messages,   \* messages that are not answered
    files,      \* eft_files, each with its eft_transactions
    credits,    \* eft_credits, by file and line
    spent,      \* what was paid from each short name
    accounts,   \* what each account owes, and whether a payment of it is pending
    worker,     \* what each worker is doing
    sent, crashes, bills

polling == <<sftp, bucket, poll, sent>>
vars == <<polling, messages, files, credits, spent, accounts, worker, crashes, bills>>

-----------------------------------------------------------------------------

\* A generated short name is given to one line.
ShortName == [name : Names, type : Types, gen : BOOLEAN, line : Nat]
ShortNameOf(l, n) == [name |-> l.name, type |-> l.type, gen |-> l.gen,
                      line |-> IF l.gen THEN n ELSE 0]

Idle == [pc |-> "IDLE"]

\* The rows of old, and those of new instead of theirs.
Updated(old, new) ==
    [x \in DOMAIN old \cup DOMAIN new |-> IF x \in DOMAIN new THEN new[x] ELSE old[x]]

Init ==
    /\ sftp = <<>> /\ bucket = <<>>
    /\ poll = [pc |-> "IDLE", list |-> {}]
    /\ messages = {}
    /\ files = <<>>
    /\ credits = <<>>
    /\ spent = <<>>
    /\ accounts = [a \in Accounts |-> [owing |-> 0, pending |-> FALSE]]
    /\ worker = [w \in Workers |-> Idle]
    /\ sent = 0 /\ crashes = 0 /\ bills = 0

\* Mutant: a file that is not COMPLETED gets another row.
RowsCompleted(f) == {id \in DOMAIN files : files[id].ref = f /\ files[id].status = "COMPLETED"}
Rows(f) == {id \in DOMAIN files : files[id].ref = f}
CreditsFor(sn) == {k \in DOMAIN credits : credits[k].shortName = sn}
Remaining(S) == SumFunctionOnSet([k \in S |-> credits[k].remaining], S)
Balance(sn) == Remaining(CreditsFor(sn))
SpentBy(sn) == IF sn \in DOMAIN spent THEN spent[sn] ELSE 0

-----------------------------------------------------------------------------
(* The bank and the poller.                                                *)

\* A file is sent once more when it has failed.
Send(f, c) ==
    /\ sent < MaxSent /\ sent' = sent + 1
    /\ f \notin DOMAIN sftp
    /\ f \in DOMAIN bucket => Rows(f) # {} /\ \A id \in Rows(f) : files[id].status = "FAILED"
    /\ sftp' = Updated(sftp, [x \in {f} |-> c])
    /\ UNCHANGED <<bucket, poll, messages, files, credits, spent, accounts, worker, crashes,
                   bills>>

\* poll_ftp copies what it finds.
PollCopy ==
    /\ poll.pc = "IDLE" /\ sftp # <<>>
    /\ bucket' = Updated(bucket, sftp)
    /\ poll' = [pc |-> "COPIED", list |-> DOMAIN sftp]
    /\ UNCHANGED <<sftp, sent, messages, files, credits, spent, accounts, worker, crashes,
                   bills>>

\* _move_file_to_backup
PollMove ==
    /\ poll.pc = "COPIED"
    /\ sftp' = RestrictDomain(sftp, LAMBDA f : f \notin poll.list)
    /\ poll' = [poll EXCEPT !.pc = "MOVED"]
    /\ UNCHANGED <<bucket, sent, messages, files, credits, spent, accounts, worker, crashes,
                   bills>>

\* A message for each of the files; the number tells messages apart.
PollPublish ==
    /\ poll.pc = "MOVED"
    /\ messages' = messages \cup {[ref |-> f, number |-> sent] : f \in poll.list}
    /\ poll' = [pc |-> "IDLE", list |-> {}]
    /\ UNCHANGED <<sftp, bucket, sent, files, credits, spent, accounts, worker, crashes, bills>>

PollerDies ==
    /\ poll.pc # "IDLE" /\ crashes < MaxCrashes
    /\ poll' = [pc |-> "IDLE", list |-> {}]
    /\ crashes' = crashes + 1
    /\ UNCHANGED <<sftp, bucket, sent, messages, files, credits, spent, accounts, worker, bills>>

-----------------------------------------------------------------------------
(* The worker: reconcile_eft_payments.                                     *)

\* The message is answered, whatever has become of it.
Answer(w) ==
    /\ worker' = [worker EXCEPT ![w] = Idle]
    /\ messages' = messages \ {worker[w].message}

GoTo(w, pc) == worker' = [worker EXCEPT ![w].pc = pc] /\ UNCHANGED messages

\* A file that is being processed, or was, is not processed again.
\* Mutants: only one that was; only one that is being.
SkipsCompleted(f) == \E id \in Rows(f) : files[id].status = "COMPLETED"
SkipsInProgress(f) == \E id \in Rows(f) : files[id].status = "IN_PROGRESS"
Skips(f) == \E id \in Rows(f) : files[id].status \in {"IN_PROGRESS", "COMPLETED"}

\* The file and its row are read.  A file that does not decode and two rows for one file
\* raise in the handler.
Receive(w, m) ==
    LET ids == Rows(m.ref) IN
    /\ worker[w] = Idle
    /\ ~Racing => \A v \in Workers : worker[v].pc = "READ" => worker[v].message.ref # m.ref
    /\ \/ /\ bucket[m.ref].decodes /\ Cardinality(ids) <= 1 /\ ~Skips(m.ref)
          /\ worker' = [worker EXCEPT ![w] =
                [pc |-> "READ", message |-> m, lines |-> bucket[m.ref].lines,
                 valid |-> bucket[m.ref].valid, id |-> Max(ids \cup {0}), next |-> 1,
                 names |-> {}]]
          /\ UNCHANGED messages
       \/ /\ ~bucket[m.ref].decodes \/ Cardinality(ids) > 1 \/ Skips(m.ref)
          /\ messages' = messages \ {m}
          /\ UNCHANGED worker
    /\ UNCHANGED <<polling, files, credits, spent, accounts, crashes, bills>>

\* The bucket cannot be read, and the message is answered all the same.
ReadFails(w, m) ==
    /\ worker[w] = Idle /\ crashes < MaxCrashes
    /\ messages' = messages \ {m}
    /\ crashes' = crashes + 1
    /\ UNCHANGED <<polling, files, credits, spent, accounts, worker, bills>>

\* The row is IN_PROGRESS from now on.
Claim(w) ==
    LET id  == worker[w].id
        row == [ref |-> worker[w].message.ref, status |-> "IN_PROGRESS", txns |-> <<>>]
    IN
    /\ worker[w].pc = "READ"
    /\ files' = IF id = 0 THEN Append(files, row)
                ELSE [files EXCEPT ![id].status = "IN_PROGRESS"]
    /\ worker' = [worker EXCEPT ![w].pc = "SAVING",
                                ![w].id = IF id = 0 THEN Len(files) + 1 ELSE id]
    /\ UNCHANGED <<polling, messages, credits, spent, accounts, crashes, bills>>

\* An invalid header or trailer.
Reject(w) ==
    /\ worker[w].pc = "SAVING" /\ ~worker[w].valid
    /\ files' = [files EXCEPT ![worker[w].id].status = "FAILED"]
    /\ Answer(w)
    /\ UNCHANGED <<polling, credits, spent, accounts, crashes, bills>>

\* _save_eft_transaction: the row of the line, which an earlier content may have left, and
\* its short name are committed.
NextLine(w) == worker[w].lines[worker[w].next]
HasLine(w) == /\ worker[w].pc = "SAVING" /\ worker[w].valid
              /\ worker[w].next <= Len(worker[w].lines)

SaveTransaction(w) ==
    LET n  == worker[w].next
        l  == NextLine(w)
        tx == [shortName |-> ShortNameOf(l, n), amount |-> l.amount,
               status |-> IF l.ok THEN "IN_PROGRESS" ELSE "FAILED"]
    IN
    /\ HasLine(w) /\ l.sized
    /\ files' = [files EXCEPT ![worker[w].id].txns = Updated(@, [k \in {n} |-> tx])]
    /\ worker' = [worker EXCEPT ![w].next = @ + 1]
    /\ UNCHANGED <<polling, messages, credits, spent, accounts, crashes, bills>>

\* A line of another length has no dates, which raises in the handler: the file stays
\* IN_PROGRESS.
SaveRaises(w) ==
    /\ HasLine(w) /\ ~NextLine(w).sized
    /\ Answer(w)
    /\ UNCHANGED <<polling, files, credits, spent, accounts, crashes, bills>>

Saved(w) == /\ worker[w].pc = "SAVING" /\ worker[w].valid
            /\ worker[w].next > Len(worker[w].lines)
Parsed(w) == \A n \in DOMAIN worker[w].lines : worker[w].lines[n].ok

\* _update_transactions_to_fail
\* Mutant: only the transactions fail.
FailedTransactions(id) ==
    [files EXCEPT ![id].txns = [n \in DOMAIN @ |-> [@[n] EXCEPT !.status = "FAILED"]]]
Failed(id) == [FailedTransactions(id) EXCEPT ![id].status = "FAILED"]

\* _shortname_balance_as_dict collects lines by name, generated names being different: the
\* type is that of the last.
Collected(w, n) ==
    LET sn(k) == ShortNameOf(worker[w].lines[k], k)
        same  == {k \in DOMAIN worker[w].lines :
                    [sn(k) EXCEPT !.type = sn(n).type] = sn(n)}
    IN sn(Max(same))

\* _process_eft_credits: a credit for every line with a deposit; one that this file has
\* made already is overwritten.
NewCredits(w) ==
    [k \in {<<worker[w].id, n>> : n \in {n \in DOMAIN worker[w].lines :
                                            worker[w].lines[n].amount > 0}} |->
        [shortName |-> Collected(w, k[2]), amount |-> worker[w].lines[k[2]].amount,
         remaining |-> worker[w].lines[k[2]].amount]]

\* What an error with one of the credits leaves of them.
\* Mutant: the others.
OthersKept(new) == Updated(credits, RestrictDomain(new, LAMBDA k : k[2] > 1))
RolledBack(new) == credits

\* A line that cannot be parsed, or an error with a credit, fails the whole file.
Fail(w) ==
    /\ Saved(w)
    /\ credits' = IF Parsed(w) THEN RolledBack(NewCredits(w)) ELSE credits
    /\ files' = Failed(worker[w].id)
    /\ Answer(w)
    /\ UNCHANGED <<polling, spent, accounts, crashes, bills>>

\* _update_transactions_to_complete commits the credits too.
CompletedTransactions(id) ==
    [files EXCEPT ![id].txns =
        [n \in DOMAIN @ |-> IF @[n].status = "IN_PROGRESS"
                            THEN [@[n] EXCEPT !.status = "COMPLETED"] ELSE @[n]]]

CompleteTransactions(w) ==
    /\ Saved(w) /\ Parsed(w)
    /\ credits' = Updated(credits, NewCredits(w))
    /\ files' = CompletedTransactions(worker[w].id)
    /\ GoTo(w, "CREDITED")
    /\ UNCHANGED <<polling, spent, accounts, crashes, bills>>

\* _finalize_process_state
Finalize(w) ==
    /\ worker[w].pc = "CREDITED"
    /\ files' = [files EXCEPT ![worker[w].id].status = "COMPLETED"]
    /\ worker' = [worker EXCEPT ![w].pc = "APPLYING",
                                ![w].names = {Collected(w, n) : n \in DOMAIN worker[w].lines}]
    /\ UNCHANGED <<polling, messages, credits, spent, accounts, crashes, bills>>

\* apply_eft_credit takes from the oldest credits first what was not taken before.
\* Mutant: more than a credit has.
NotTaken(sn, k, amount) ==
    LET before == {j \in CreditsFor(sn) : j[1] < k[1] \/ (j[1] = k[1] /\ j[2] < k[2])}
    IN Max({0, amount - Remaining(before)})
TakenWhole(sn, amount) == [k \in CreditsFor(sn) |-> NotTaken(sn, k, amount)]
Taken(sn, amount) ==
    [k \in CreditsFor(sn) |-> Min({NotTaken(sn, k, amount), credits[k].remaining})]

Pay(sn, a) ==
    LET taken == Taken(sn, accounts[a].owing) IN
    /\ credits' = [k \in DOMAIN credits |->
                    IF k \in DOMAIN taken THEN [credits[k] EXCEPT !.remaining = @ - taken[k]]
                    ELSE credits[k]]
    /\ spent' = Updated(spent, [s \in {sn} |-> SpentBy(sn) + accounts[a].owing])
    /\ accounts' = [accounts EXCEPT ![a].pending = TRUE]

AccountsOf(sn) == LinkedTo[<<sn.name, sn.type>>]
Covers(sn, a) == 0 < accounts[a].owing /\ accounts[a].owing <= Balance(sn)

\* _apply_eft_pending_payments passes over generated short names, those with several
\* accounts or none, and those that have not enough.
PassesOver(sn) ==
    \/ sn.gen \/ Cardinality(AccountsOf(sn)) # 1
    \/ \E a \in AccountsOf(sn) : ~accounts[a].pending /\ ~Covers(sn, a)

ToApply(w) == IF worker[w].pc = "APPLYING" THEN worker[w].names ELSE {}
Done(w, sn) == worker' = [worker EXCEPT ![w].names = @ \ {sn}] /\ UNCHANGED messages

PassOver(w) ==
    \E sn \in ToApply(w) :
        /\ PassesOver(sn) /\ Done(w, sn)
        /\ UNCHANGED <<polling, files, credits, spent, accounts, crashes, bills>>

AutoPay(w) ==
    \E sn \in ToApply(w) : \E a \in AccountsOf(sn) :
        /\ ~PassesOver(sn) /\ ~accounts[a].pending
        /\ Pay(sn, a) /\ Done(w, sn)
        /\ UNCHANGED <<polling, files, crashes, bills>>

\* An account with a pending payment, or a payment that fails, raises in the handler: the
\* other short names are not looked at.
ApplyRaises(w) ==
    /\ \E sn \in ToApply(w) : ~PassesOver(sn)
    /\ Answer(w)
    /\ UNCHANGED <<polling, files, credits, spent, accounts, crashes, bills>>

Finish(w) ==
    /\ worker[w].pc = "APPLYING" /\ worker[w].names = {}
    /\ Answer(w)
    /\ UNCHANGED <<polling, files, credits, spent, accounts, crashes, bills>>

\* What is not committed is lost, and the message stays.
WorkerDies(w) ==
    /\ worker[w] # Idle /\ crashes < MaxCrashes
    /\ crashes' = crashes + 1
    /\ worker' = [worker EXCEPT ![w] = Idle]
    /\ UNCHANGED <<polling, messages, files, credits, spent, accounts, bills>>

-----------------------------------------------------------------------------
(* Statements, staff and the EFT job.                                      *)

Bill(a, amount) ==
    /\ accounts[a].owing = 0 /\ bills < MaxBills
    /\ bills' = bills + 1
    /\ accounts' = [accounts EXCEPT ![a].owing = amount]
    /\ UNCHANGED <<polling, messages, files, credits, spent, worker, crashes>>

StaffPays(sn, a) ==
    /\ a \in AccountsOf(sn) /\ ~accounts[a].pending /\ Covers(sn, a)
    /\ Pay(sn, a)
    /\ UNCHANGED <<polling, messages, files, worker, crashes, bills>>

\* The EFT job makes a receipt of a pending payment.
EftJob(a) ==
    /\ accounts[a].pending
    /\ accounts' = [accounts EXCEPT ![a] = [owing |-> 0, pending |-> FALSE]]
    /\ UNCHANGED <<polling, messages, files, credits, spent, worker, crashes, bills>>

-----------------------------------------------------------------------------

ShortNames == {credits[k].shortName : k \in DOMAIN credits}

Poll == PollCopy \/ PollMove \/ PollPublish

Work(w) ==
    \/ \E m \in messages : Receive(w, m)
    \/ Claim(w) \/ Reject(w) \/ SaveTransaction(w) \/ SaveRaises(w) \/ Fail(w)
    \/ CompleteTransactions(w) \/ Finalize(w) \/ PassOver(w) \/ AutoPay(w) \/ ApplyRaises(w)
    \/ Finish(w)

Next ==
    \/ \E f \in Refs, c \in Contents : Send(f, c)
    \/ Poll \/ PollerDies
    \/ \E w \in Workers : Work(w) \/ WorkerDies(w) \/ \E m \in messages : ReadFails(w, m)
    \/ \E a \in Accounts, amount \in AmountsOwing : Bill(a, amount)
    \/ \E a \in Accounts, sn \in ShortNames : StaffPays(sn, a)
    \/ \E a \in Accounts : EftJob(a)

Spec == Init /\ [][Next]_vars

\* The poller runs every day, and messages are pushed to some worker until answered.
FairSpec == Spec /\ WF_vars(Poll) /\ WF_vars(\E w \in Workers : Work(w))

-----------------------------------------------------------------------------
(* Properties.                                                             *)

TypeOK ==
    /\ DOMAIN sftp \cup DOMAIN bucket \subseteq Refs
    /\ poll.list \subseteq Refs
    /\ \A m \in messages : m.ref \in Refs
    /\ \A id \in DOMAIN files :
        /\ files[id].ref \in Refs /\ files[id].status \in {"IN_PROGRESS", "COMPLETED", "FAILED"}
        /\ \A n \in DOMAIN files[id].txns :
            files[id].txns[n].shortName \in ShortName
    /\ \A k \in DOMAIN credits : /\ credits[k].shortName \in ShortName
                                 /\ credits[k].remaining \in 0..credits[k].amount
    /\ \A a \in Accounts : accounts[a].pending => accounts[a].owing > 0
    /\ \A w \in Workers : worker[w] = Idle \/ worker[w].message.ref \in Refs

\* A credit is made once: no delivery of a file, whenever a worker died with it, gives back
\* what was paid from a credit.
BooksKept ==
    \A sn \in ShortNames :
        SumFunctionOnSet([k \in CreditsFor(sn) |-> credits[k].amount], CreditsFor(sn))
            = Balance(sn) + SpentBy(sn)

\* The file is credited as a whole: a transaction has a credit of its amount if and only
\* if it is COMPLETED, and never as part of a file that failed.
CreditsAreWhole ==
    \A id \in DOMAIN files : \A n \in DOMAIN files[id].txns :
        LET tx == files[id].txns[n] IN
        IF tx.status = "COMPLETED" /\ tx.amount > 0
        THEN <<id, n>> \in DOMAIN credits /\ credits[<<id, n>>].amount = tx.amount
        ELSE <<id, n>> \notin DOMAIN credits

\* A file that may be sent again has not credited anything.
FailedIsUncredited ==
    \A id \in DOMAIN files :
        files[id].status = "FAILED" => \A k \in DOMAIN credits : k[1] # id

FilesOf(f) == {id \in DOMAIN files : files[id].ref = f}

\* The deposits of a file are credited once, whoever receives it.
CreditedOnce ==
    \A f \in Refs : Cardinality({k[1] : k \in DOMAIN credits} \cap FilesOf(f)) <= 1

\* A file is credited completely and once or, when it failed, not at all.
CreditedAsWhole == CreditsAreWhole /\ FailedIsUncredited /\ CreditedOnce

\* The handler gets to the end of the file.
WellFormed(c) == c.decodes /\ \A n \in DOMAIN c.lines : c.lines[n].sized
Settled(f) == /\ f \notin DOMAIN sftp
              /\ \E id \in FilesOf(f) : files[id].status \in {"COMPLETED", "FAILED"}

\* Every file that arrives is COMPLETED or FAILED in the end, with lines in it that cannot
\* be parsed too, unless the poller or a worker has died or the bucket was not read, and
\* unless the content raises in the handler: one that does not decode, or with a line of
\* another length.
SentIsSettled ==
    \A f \in Refs :
        f \in DOMAIN sftp /\ WellFormed(sftp[f]) ~> crashes > 0 \/ Settled(f)

\* Not true: the messages of files that raise in the handler are answered (worker.py:63),
\* and a file that is IN_PROGRESS is not processed again.
WhateverIsSent == \A f \in Refs : f \in DOMAIN sftp ~> crashes > 0 \/ Settled(f)

\* Not true: a deposit is credited to the short name of its transaction.
CreditedToPayer ==
    \A k \in DOMAIN credits : credits[k].shortName = files[k[1]].txns[k[2]].shortName
=============================================================================
