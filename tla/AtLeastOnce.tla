----------------------------- MODULE AtLeastOnce -----------------------------
(***************************************************************************)
(* What the tailing daemons promise, without files, offsets or processes:  *)
(* a line that was published is handed on at least once, and the progress  *)
(* that a restart resumes from never runs ahead of what was handed on.     *)
(* Progress may fall back at any time: the state file is rewritten in      *)
(* place and may be lost.  A source can turn out to hold a line that       *)
(* cannot be handed on, and blocks what would come with it or after it.    *)
(***************************************************************************)
CONSTANT Lines

VARIABLES
  published, \* complete lines that the sources hold
  handled,   \* lines handed on to the sink
  acked,     \* lines that a restart would not read again
  blocked    \* has a source published a line that cannot be handed on?

vars == <<published, handled, acked, blocked>>

Init == published = {} /\ handled = {} /\ acked = {} /\ blocked = FALSE

Publish ==
  /\ \E S \in SUBSET Lines : published' = published \union S
  /\ blocked' \in {blocked, TRUE}
  /\ UNCHANGED <<handled, acked>>

Hand ==
  /\ \E S \in SUBSET published : handled' = handled \union S
  /\ UNCHANGED <<published, acked, blocked>>

Progress ==
  /\ acked' \in SUBSET handled
  /\ UNCHANGED <<published, handled, blocked>>

Next == Publish \/ Hand \/ Progress

Spec == Init /\ [][Next]_vars

\* Nothing that is published waits for ever, unless a source is blocked
FairSpec ==
  Spec /\ \A l \in Lines : l \in published ~> (l \in handled \/ blocked)
=============================================================================
