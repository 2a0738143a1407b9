---------------------------- MODULE MCWazuhStream ----------------------------
(***************************************************************************)
(* Instances of WazuhStream for TLC: two sources with lines of different   *)
(* lengths, so that an offset carried over a rotation can fall inside a    *)
(* line of the new file.                                                   *)
(***************************************************************************)
EXTENDS WazuhDelivery

CONSTANTS a, b

\* Generation 0: two lines of 2 and 1 bytes (a), a newline and a line of 1 byte (b).
\* Generation 1: a line of 1 byte, in b a newline, and one of 2 bytes.
\* One byte of a third line follows in a.
TwoEnds == [p \in Paths |-> [g \in Gens |->
             IF g > 0 THEN {1, 3} ELSE IF p = a THEN {2, 3} ELSE {1, 2}]]
TwoSize == [p \in Paths |-> [g \in Gens |->
             IF g > 0 THEN 3 ELSE IF p = a THEN 4 ELSE 2]]
TwoBlank == [p \in Paths |-> [g \in Gens |-> IF p = a THEN {} ELSE {1}]]

NoneBad == {}
LastBad == {<<b, 0, 2>>}
=============================================================================
