---------------------------- MODULE MCJobEngine ----------------------------
(***************************************************************************)
(* Instances of JobEngine for TLC.                                         *)
(***************************************************************************)
EXTENDS JobEngine, SequencesExt

\* A length, a read, an unlisted service and a flashing one are bytes alike.
SomeBytes == {0, 1, 34, 54}

\* Every form with at most four bytes behind the addresses, to the target and
\* to another ECU; frames cut short; and a long one whose length is a read's id.
SomeFrames ==
    {<<format, target, 241>> \o rest :
        format \in {128, 129, 130}, target \in {16, 18}, rest \in BoundedSeq(SomeBytes, 4)}
    \cup {<<>>, <<128>>, <<129, 18>>}
    \cup {<<128, 18, 241, 34>> \o [i \in 1 .. 34 |-> 54]}

\* Payloads on both sides of the limits of the forms.
SomeResponses == {[i \in 1 .. n |-> 98] : n \in {1, 63, 64, 255, 256}}
=============================================================================
