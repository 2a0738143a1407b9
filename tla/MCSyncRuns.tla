----------------------------- MODULE MCSyncRuns -----------------------------
(***************************************************************************)
(* Instances of SyncRuns for TLC: two syncs that write the same report and *)
(* a run from a shell that writes another one.                             *)
(***************************************************************************)
EXTENDS SyncRuns, TLC

CONSTANTS s1, s2, hand, cowrie, tpot

OwnTarget == [c \in Runs |-> IF c \in Syncs THEN cowrie ELSE tpot]
SameTarget == [c \in Runs |-> cowrie]

Alike == Permutations(Threads) \union Permutations(Syncs)
=============================================================================
