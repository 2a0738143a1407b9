---------------------------- MODULE MCSplunkStream ----------------------------
(***************************************************************************)
(* Instances of SplunkStream for TLC: one source, whose first file has two *)
(* lines and the start of a third; an offset carried into its replacement  *)
(* is at the start of the second line there, or inside it.                 *)
(***************************************************************************)
EXTENDS SplunkDelivery

CONSTANTS a

\* The first replacement holds two lines of 2 bytes, the second one of 1 byte
TwoEnds == [p \in Paths |-> [g \in Gens |->
             IF g = 0 THEN {2, 3} ELSE IF g = 1 THEN {2, 4} ELSE {1}]]
TwoSize == [p \in Paths |-> [g \in Gens |-> IF g < 2 THEN 4 ELSE 2]]
NoBlank == [p \in Paths |-> [g \in Gens |-> {}]]
NoneBad == {}
=============================================================================
