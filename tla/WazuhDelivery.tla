---------------------------- MODULE WazuhDelivery ----------------------------
(***************************************************************************)
(* The daemon `wazuh-stream` implements AtLeastOnce as long as nobody      *)
(* rotates the sources (MaxGen = 0).                                       *)
(***************************************************************************)
EXTENDS WazuhStream

Delivery == INSTANCE AtLeastOnce WITH
  published <- {l \in Lines : Complete(l)},
  handled   <- {l \in Lines : Handled(l)},
  acked     <- {l \in Lines : Passed(l)},
  blocked   <- Poisoned

(* Every step of the daemon, of its sources and of a kill is a step of the  *)
(* promise, or changes nothing of it (stream_once: append, then save).      *)
ImplementsDelivery == Delivery!Spec

(* With a fair scheduler the daemon also keeps the promise that every line  *)
(* is handed on, unless some source holds a line that the parser rejects.   *)
ImplementsFairDelivery == Delivery!FairSpec
=============================================================================
