----------------------------- MODULE MCWebServer -----------------------------
(* The web application with two syncs of one sensor and a run from a shell.  *)
EXTENDS WebServer, TLC

CONSTANTS s1, s2, hand, cowrie, tpot

OwnTarget == [c \in Runs |-> IF c \in Syncs THEN cowrie ELSE tpot]

Alike == Permutations(Threads) \union Permutations(Syncs) \union
         Permutations(Requests) \union Permutations(Downloads)
=============================================================================
