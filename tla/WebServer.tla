------------------------------ MODULE WebServer ------------------------------
(***************************************************************************)
(* The web application of src_web/main.rs: syncs and imports (SyncRuns),   *)
(* the live summary and the export, which share the process that may be    *)
(* killed and the database that imports commit to.                         *)
(***************************************************************************)
EXTENDS SyncRuns, LiveSummary, ExportFile

CONSTANT MaxClicks   \* bound: what people start, in the browser or a shell

ASSUME WebAssumption == MaxClicks \in Nat

VARIABLE clicks

webVars == <<vars, liveVars, exportVars, clicks>>

WebInit == Init /\ LiveInit /\ ExportInit /\ clicks = 0

Click == clicks < MaxClicks /\ clicks' = clicks + 1

\* Somebody runs a script from a shell
RunByHand(c) ==
  /\ c \notin Syncs /\ script[c] = "off"
  /\ script' = [script EXCEPT ![c] = "rsync"]
  /\ UNCHANGED <<json, mtime, md, clock, importVars, syncVars>>

Reporting ==
  /\ \/ Click /\ \/ \E s \in Syncs : StartSync(s)
                 \/ \E c \in Runs : RunByHand(c)
     \/ Unattended /\ UNCHANGED clicks
  /\ UNCHANGED liveVars
  /\ IF rows' = rows THEN UNCHANGED exportVars
     ELSE CommitMeets /\ UNCHANGED <<download, handle, onDisk, tables, shown>>

Summarizing ==
  /\ \/ \E q \in Requests : Click /\ Generate(q)
     \/ \E q \in Requests : LiveStep(q) /\ UNCHANGED clicks
  /\ UNCHANGED <<vars, exportVars>>

Exporting ==
  /\ \/ \E d \in Downloads : Click /\ LookForFile(d)
     \/ \E d \in Downloads : ExportStep(d, rows) /\ UNCHANGED clicks
  /\ UNCHANGED <<vars, liveVars>>

Killed == Crash /\ LiveCrash /\ ExportCrash /\ UNCHANGED clicks

WebNext == Reporting \/ Summarizing \/ Exporting \/ Killed

WebSpec == WebInit /\ [][WebNext]_webVars

-----------------------------------------------------------------------------

(* A download that met no other download, no commit and no crash sends      *)
(* every table as the database has it, whatever earlier downloads, failures *)
(* and crashes left under the path.                                         *)
DownloadCurrent == \A d \in Downloads : alone[d] => Current(d, rows)
=============================================================================
