----------------------------- MODULE SplunkStream -----------------------------
(***************************************************************************)
(* The daemon `splunk-stream`: splunk_stream_once and                      *)
(* splunk_stream_forever of src/honeypot_ai/realtime.py.  A poll reads a   *)
(* batch (TailedFiles), appends its events to the output file when there   *)
(* is one (AlertFile), posts them one by one to a Splunk HTTP event        *)
(* collector when there is one, and only then saves the offsets.  A failed *)
(* post ends the process.  Nothing in the repository starts it again: that *)
(* is up to whoever runs it, at any later time or never.                   *)
(*                                                                         *)
(* A post that fails may have been indexed all the same: the connection    *)
(* can break or time out after the collector took the event.               *)
(***************************************************************************)
EXTENDS AlertFile

CONSTANTS
  ToFile,      \* is an output path given?
  ToHec,       \* are the collector's url and token given?
  MaxFailures  \* bound: how many posts fail

\* splunk_stream_once raises when there is no sink at all
ASSUME SplunkAssumption ==
  /\ ToFile \in BOOLEAN /\ ToHec \in BOOLEAN /\ (ToFile \/ ToHec)
  /\ MaxFailures \in Nat

VARIABLES
  hec,      \* [line -> copies of its event that the collector indexed]
  unsent,   \* events of the batch that were not posted yet
  failures  \* history: how many posts failed

hecVars == <<hec, unsent, failures>>
vars == <<tailVars, sink, hecVars>>

Init ==
  /\ TailInit /\ SinkInit
  /\ hec = [l \in Lines |-> 0] /\ unsent = {} /\ failures = 0

-----------------------------------------------------------------------------

\* No new line: the offsets are saved all the same
NothingNew ==
  /\ ScanFinished /\ ~GotLines
  /\ pc' = "save"
  /\ UNCHANGED <<files, reader, stateFile, crashes, sink, hecVars>>

StartSending ==
  /\ pc' = (IF ToHec THEN "send" ELSE "save")
  /\ unsent' = (IF ToHec THEN batch ELSE {})

\* The batch is parsed and analysed
Accept ==
  /\ ScanFinished /\ GotLines /\ Parses
  /\ IF ToFile
     THEN pc' = "append" /\ UNCHANGED unsent
     ELSE StartSending
  /\ UNCHANGED <<files, reader, stateFile, crashes, sink, hec, failures>>

Append ==
  /\ AppendBatch
  /\ StartSending
  /\ UNCHANGED <<files, reader, stateFile, crashes, hec, failures>>

\* One iteration of the loop of send_to_splunk_hec
Post(l) ==
  /\ pc = "send" /\ l \in unsent
  /\ hec' = [hec EXCEPT ![l] = @ + 1]
  /\ unsent' = unsent \ {l}
  /\ UNCHANGED <<files, reader, stateFile, pc, crashes, sink, failures>>

Sent ==
  /\ pc = "send" /\ unsent = {}
  /\ pc' = "save"
  /\ UNCHANGED <<files, reader, stateFile, crashes, sink, hecVars>>

\* Faulty variant: a failed post ends the sending but not the poll
PostFailsAndGoOn(l) ==
  /\ pc = "send" /\ l \in unsent /\ failures < MaxFailures
  /\ failures' = failures + 1
  /\ pc' = "save" /\ unsent' = {}
  /\ UNCHANGED <<files, reader, stateFile, crashes, sink, hec>>

\* RuntimeError for an HTTP error status, an uncaught URLError for anything else
PostFails(l) ==
  /\ pc = "send" /\ l \in unsent /\ failures < MaxFailures
  /\ failures' = failures + 1
  /\ \/ UNCHANGED hec
     \/ hec' = [hec EXCEPT ![l] = @ + 1]
  /\ Stop /\ unsent' = {}
  /\ UNCHANGED <<files, stateFile, crashes, sink>>

Save == (SaveTruncate \/ SaveWrite("idle")) /\ UNCHANGED <<sink, hecVars>>

Running ==
  \/ ScanStep /\ UNCHANGED <<sink, hecVars>>
  \/ NothingNew
  \/ Accept
  \/ Append
  \/ \E l \in Lines : Post(l)
  \/ Sent
  \/ Save

Next ==
  \/ FileStep /\ UNCHANGED <<sink, hecVars>>
  \/ Running
  \/ Restart /\ UNCHANGED <<sink, hecVars>>
  \/ \E l \in Lines : PostFails(l)
  \/ Kill /\ unsent' = {} /\ UNCHANGED <<sink, hec, failures>>
  \/ KilledInAppend /\ UNCHANGED hecVars

Spec == Init /\ [][Next]_vars

\* A running process is scheduled, and the collector answers its posts; whether
\* anybody starts a process that ended is left open
FairSpec == Spec /\ WF_vars(Running)

-----------------------------------------------------------------------------

TypeOK ==
  /\ TailTypeOK /\ SinkTypeOK
  /\ hec \in [Lines -> Nat]
  /\ unsent \subseteq batch
  /\ failures \in Nat

(* A line that the saved offsets pass reached every configured sink: the    *)
(* offsets are saved after the last post (splunk_stream_once).  Only lines  *)
(* that begin below an offset carried over a rotation may be lost, and that *)
(* includes the one it falls inside, whatever the parser made of its tail.  *)
NothingSkipped ==
  \A l \in Lines : Passed(l) =>
    \/ (ToFile => Handled(l)) /\ (ToHec => hec[l] > 0)
    \/ Carried(l)

(* Each kill and each failed post costs at most one more copy of a line in  *)
(* the collector and one in the file: an outage costs the file a copy of    *)
(* the whole batch per attempt, but never more than one.                    *)
CopiesBounded ==
  \A l \in Lines : hec[l] <= 1 + crashes + failures /\ out[l] <= 1 + crashes + failures

(* When the collector fails only finitely often and every line parses, each *)
(* complete line reaches it while its file is in place, and so do the lines *)
(* of a replacement, unless an offset was carried into one (the file's      *)
(* first lines are lost then, or the tail of one ends the daemon at every   *)
(* start) or the process ended and nobody starts it again.                  *)
CompleteLinesIndexed ==
  \A l \in Lines :
    Complete(l) ~> \/ hec[l] > 0
                   \/ ~Complete(l)
                   \/ \E p \in Paths : carried[p] > 0
                   \/ [](pc = "dead")
=============================================================================
