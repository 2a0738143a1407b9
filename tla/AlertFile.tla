------------------------------ MODULE AlertFile ------------------------------
(***************************************************************************)
(* The output file that both daemons of src/honeypot_ai/realtime.py open   *)
(* for appending and write a whole batch of alerts to.                     *)
(*                                                                         *)
(* What a source line contributes to the output is one alert here: the     *)
(* line itself with --input-format wazuh, its share of the batch's         *)
(* analysis otherwise.  The append is not atomic: a kill can leave any     *)
(* complete alerts and a ragged end on disk.  The next append starts right *)
(* behind a ragged end, so that its first alert is merged with it into a   *)
(* line that is not JSON.  A batch of blank lines writes nothing (wazuh)   *)
(* or an empty line; the tail of a line that is an event of its own adds   *)
(* an alert that is none of the lines'.                                    *)
(***************************************************************************)
EXTENDS TailedFiles

VARIABLES
  out,      \* [line -> intact copies of its alert in the output file]
  ragged,   \* does the output file end without a newline?
  merged,   \* lines whose alert was merged with a ragged end
  torn      \* was a ragged end ended without an alert of a line?

sink == <<out, ragged, merged, torn>>

SinkInit == out = [l \in Lines |-> 0] /\ ragged = FALSE /\ merged = {} /\ torn = FALSE

\* The alerts of the lines in W reach the disk, behind a ragged end that of f first
Written(W, f) ==
  LET intact == IF ragged THEN W \ {f} ELSE W
  IN  /\ out' = [l \in Lines |-> IF l \in intact THEN out[l] + 1 ELSE out[l]]
      /\ merged' = merged \union (W \ intact)
      /\ torn' = (torn \/ (ragged /\ f \notin W))

\* What comes first in the payload: the alert of a line, that of a tail, a newline
Firsts(W) ==
  W \union (IF batch = {} \/ "event" \in strays THEN {<<>>} ELSE {})

\* Faulty variant: the newline after the last alert is forgotten
AppendNoNewline ==
  /\ pc = "append"
  /\ \E f \in Firsts(batch) : Written(batch, f)
  /\ ragged' = TRUE

\* handle.write(payload) and close; from blank lines the payload may be empty
AppendBatch ==
  /\ pc = "append"
  /\ \/ (\E f \in Firsts(batch) : Written(batch, f)) /\ ragged' = FALSE
     \/ batch = {} /\ "event" \notin strays /\ UNCHANGED sink

\* Killed in the middle of handle.write: W is on disk and perhaps part of an alert
KilledInAppend ==
  /\ pc = "append" /\ crashes < MaxCrashes
  /\ crashes' = crashes + 1
  /\ \E W \in SUBSET batch, cut \in BOOLEAN :
       /\ cut => W # batch \/ "event" \in strays
       /\ \/ W = {} /\ ragged' = (ragged \/ cut) /\ UNCHANGED <<out, merged, torn>>
          \/ (\E f \in Firsts(W) : Written(W, f)) /\ ragged' = cut
  /\ Stop
  /\ UNCHANGED <<files, stateFile>>

SinkTypeOK ==
  /\ out \in [Lines -> Nat]
  /\ ragged \in BOOLEAN /\ torn \in BOOLEAN
  /\ merged \subseteq Lines

Handled(l) == out[l] > 0 \/ l \in merged

\* The line is in the file that its path names now, below the saved offset
Passed(l) == l[2] = gen[l[1]] /\ l[3] <= Saved[l[1]]

\* The line is on disk up to its newline
Complete(l) == here[l[1]] /\ gen[l[1]] = l[2] /\ l[3] <= len[l[1]]

\* Some source holds a line that the parser rejects
Poisoned == \E l \in Bad : Complete(l)

\* The line begins below the offset that a rotation carried into this file
Carried(l) == BeginsBelow(l, carried[l[1]])
=============================================================================
