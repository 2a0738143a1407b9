---------------------------- MODULE SplunkDelivery ----------------------------
(***************************************************************************)
(* The daemon `splunk-stream` implements AtLeastOnce as long as nobody     *)
(* rotates the sources (MaxGen = 0).  A line is handed on when the last    *)
(* configured sink has it: what one sink got before an attempt failed, the *)
(* promise does not speak of.                                              *)
(***************************************************************************)
EXTENDS SplunkStream

InFile(l) == ToFile => Handled(l)
Indexed(l) == ToHec => hec[l] > 0

Delivery == INSTANCE AtLeastOnce WITH
  published <- {l \in Lines : Complete(l)},
  handled   <- {l \in Lines : InFile(l) /\ Indexed(l)},
  acked     <- {l \in Lines : Passed(l)},
  blocked   <- Poisoned

(* Every step of the daemon, of its sources, of the collector and of a kill *)
(* is a step of the promise, or changes nothing of it (splunk_stream_once:  *)
(* append, then post, then save).                                           *)
ImplementsDelivery == Delivery!Spec
=============================================================================
