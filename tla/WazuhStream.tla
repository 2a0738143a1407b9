----------------------------- MODULE WazuhStream -----------------------------
(***************************************************************************)
(* The daemon `wazuh-stream`: stream_once and stream_forever of            *)
(* src/honeypot_ai/realtime.py, run under a supervisor that restarts it.   *)
(* A poll reads a batch (TailedFiles), appends the alerts made from it to  *)
(* the output file (AlertFile), saves the offsets, and may then rebuild a  *)
(* preview page from the whole output file.                                *)
(***************************************************************************)
EXTENDS AlertFile

CONSTANT Preview   \* is --preview-output given?

ASSUME WazuhAssumption == Preview \in BOOLEAN

vars == <<tailVars, sink>>

Init == TailInit /\ SinkInit

-----------------------------------------------------------------------------

\* load_wazuh_events raises on a merged line; a part of an alert may still be JSON
PreviewFails   == Preview /\ merged # {}
PreviewMayFail == Preview /\ (ragged \/ torn)

\* No new line: preview first, then save
NothingNew ==
  /\ ScanFinished /\ ~GotLines
  /\ \/ (PreviewFails \/ PreviewMayFail) /\ Stop
     \/ ~PreviewFails /\ pc' = "save" /\ UNCHANGED reader
  /\ UNCHANGED <<files, stateFile, crashes, sink>>

\* The batch is parsed and analysed; the output file is opened for appending
Accept ==
  /\ ScanFinished /\ GotLines /\ Parses
  /\ pc' = "append"
  /\ UNCHANGED <<files, reader, stateFile, crashes, sink>>

Append ==
  /\ AppendBatch
  /\ pc' = "save"
  /\ UNCHANGED <<files, reader, stateFile, crashes>>

\* After a batch the preview comes last, when the offsets are already saved
Save ==
  \/ SaveTruncate /\ UNCHANGED sink
  \/ /\ \/ GotLines /\ (PreviewFails \/ PreviewMayFail) /\ SaveWrite("dead")
        \/ ~(GotLines /\ PreviewFails) /\ SaveWrite("idle")
     /\ UNCHANGED sink

Daemon ==
  \/ ScanStep /\ UNCHANGED sink
  \/ NothingNew
  \/ Accept
  \/ Append
  \/ Save
  \/ Restart /\ UNCHANGED sink

Next ==
  \/ FileStep /\ UNCHANGED sink
  \/ Daemon
  \/ Kill /\ UNCHANGED sink
  \/ KilledInAppend

Spec == Init /\ [][Next]_vars

\* The process is scheduled and its supervisor restarts it
FairSpec == Spec /\ WF_vars(Daemon)

-----------------------------------------------------------------------------

TypeOK == TailTypeOK /\ SinkTypeOK

(* A line that the saved offsets pass was handed to the output, unless the  *)
(* path was rotated and the line begins below the offset that was in use at *)
(* that moment (stream_once appends before it saves; a replacement that is  *)
(* already longer than the old offset is not recognised).  The line that a  *)
(* carried offset falls inside is among those that may be lost: a blank     *)
(* tail, a newline say, is skipped in silence.                              *)
NothingSkipped ==
  \A l \in Lines : Passed(l) => Handled(l) \/ Carried(l)

(* The saved offsets never split a line: they stand at the start of the     *)
(* file or just behind a newline, save where a rotation carried an offset   *)
(* into another file (the trimming of _read_new_complete_lines).            *)
OffsetsSplitNoLine ==
  \A p \in Paths :
    Saved[p] \in Ends[p][gen[p]] \union {0} \/ Saved[p] <= carried[p]

(* A kill costs at most one line, the first of the retry, and gives every   *)
(* line at most one more copy: rejected input, a failing preview and        *)
(* rotation never make the daemon deliver a line twice or garble one.       *)
CopiesBoundedByCrashes ==
  /\ \A l \in Lines : out[l] <= 1 + crashes
  /\ Cardinality(merged) <= crashes

(* A source with a line that the parser rejects stops being consumed there, *)
(* unless the line begins below an offset carried over a rotation: then its *)
(* tail may be blank, or parse.                                             *)
BadLineBlocks ==
  \A l \in Bad : Passed(l) => Carried(l)

-----------------------------------------------------------------------------
(* Two sentences of docs/wazuh-misp-integration.md that the code does not   *)
(* keep; TLC refutes both.                                                  *)

(* "converts newly appended raw events to Wazuh-format alert NDJSON, and    *)
(* appends those alerts" (lines 51-52): refuted by a source that is rotated *)
(* and outgrows the old offset between two polls.  (A file that is shorter  *)
(* than the saved offset is no loss yet: the next poll starts it over.)     *)
NewLinesConverted ==
  \A l \in Lines : Passed(l) /\ Saved[l[1]] <= len[l[1]] => Handled(l)

(* "validate and pass them through" (lines 53-54): refuted by a kill in the *)
(* middle of an append, which costs the first line of the retry.            *)
PassedThrough == \A l \in Lines : Passed(l) => out[l] > 0
=============================================================================
