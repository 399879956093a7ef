----------------------------- MODULE MCEFTFile -----------------------------
(* Instances of EFTFile for TLC. *)
EXTENDS EFTFile

CONSTANTS sn1, a1, w1, w2

Eft(amount) == [name |-> sn1, type |-> "EFT", gen |-> FALSE, amount |-> amount, ok |-> TRUE,
                sized |-> TRUE]
Wire(amount) == [Eft(amount) EXCEPT !.type = "WIRE"]
Other(amount) == [Eft(amount) EXCEPT !.gen = TRUE]
Unreadable == [Eft(1) EXCEPT !.ok = FALSE]
Cut == [Unreadable EXCEPT !.sized = FALSE]
File(lines) == [decodes |-> TRUE, valid |-> TRUE, lines |-> lines]
NoTrailer == [File(<<>>) EXCEPT !.valid = FALSE]

\* A file with two deposits of the payer and one that is not known, shorter files with
\* what else there may be, one that is not readable, one that is cut off, one without a
\* trailer and one that is no text.
SomeContents == {File(<<Eft(1), Eft(2)>>), File(<<Other(1), Wire(1), Eft(0)>>),
                 File(<<Eft(1), Unreadable>>), File(<<Cut>>),
                 NoTrailer, [NoTrailer EXCEPT !.decodes = FALSE]}

EftOnly == [p \in Names \X Types |-> IF p[2] = "EFT" THEN {a1} ELSE {}]
=============================================================================
