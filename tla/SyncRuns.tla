------------------------------- MODULE SyncRuns -------------------------------
(***************************************************************************)
(* The web application of src_web/main.rs as far as reports go: the sync   *)
(* button runs a collector script as a child process, records the run in   *)
(* `sync_runs` and imports the latest report itself, next to the imports   *)
(* that page views queue (ReportImport).  People also run the scripts from *)
(* a shell (CollectorScripts).  The web process may be killed and started  *)
(* again; a script it had started runs on.                                 *)
(***************************************************************************)
EXTENDS ReportImport

CONSTANT MaxCrashes   \* bound: how often the web process is killed

ASSUME SyncAssumption == MaxCrashes \in Nat

VARIABLES
  sync,      \* [web-started run -> where its task is]
  sync_lock, \* the run whose task holds the mutex, or NoRun
  status,    \* [web-started run -> status in its row of `sync_runs`]
  crashes    \* history: how often the web process was killed

syncVars == <<sync, sync_lock, status, crashes>>
vars == <<scriptVars, importVars, syncVars>>

Init ==
  /\ ScriptInit /\ ImportInit
  /\ sync = [s \in Syncs |-> "none"] /\ sync_lock = NoRun
  /\ status = [s \in Syncs |-> "none"] /\ crashes = 0

-----------------------------------------------------------------------------

\* start_sync: try_lock succeeds, its guard is dropped at once, a task is spawned
StartSync(s) ==
  /\ sync[s] = "none" /\ sync_lock = NoRun
  /\ sync' = [sync EXCEPT ![s] = "queued"]
  /\ UNCHANGED <<scriptVars, importVars, sync_lock, status, crashes>>

\* Faulty variant: the task relies on the check that start_sync made
CreateUnlocked(s) ==
  /\ sync[s] = "queued"
  /\ sync' = [sync EXCEPT ![s] = "spawn"]
  /\ status' = [status EXCEPT ![s] = "running"]
  /\ UNCHANGED <<scriptVars, importVars, sync_lock, crashes>>

\* The task takes the mutex; create_sync_run
CreateSyncRun(s) ==
  /\ sync[s] = "queued" /\ sync_lock = NoRun
  /\ sync_lock' = s
  /\ sync' = [sync EXCEPT ![s] = "spawn"]
  /\ status' = [status EXCEPT ![s] = "running"]
  /\ UNCHANGED <<scriptVars, importVars, crashes>>

\* The task is over, one way or another, and releases the mutex
TaskEnds(s) ==
  /\ sync' = [sync EXCEPT ![s] = "over"]
  /\ sync_lock' = NoRun

\* Command::new(script).output()
Spawn(s) ==
  /\ sync[s] = "spawn"
  /\ sync' = [sync EXCEPT ![s] = "wait"]
  /\ script' = [script EXCEPT ![s] = "rsync"]
  /\ UNCHANGED <<json, mtime, md, clock, importVars, sync_lock, status, crashes>>

\* The script cannot be started, and `?` returns before finish_sync_run
SpawnFails(s) ==
  /\ sync[s] = "spawn"
  /\ TaskEnds(s)
  /\ UNCHANGED <<scriptVars, importVars, status, crashes>>

\* truncate panics when byte 8000 of the output is inside a character
TruncatePanics(s) ==
  /\ sync[s] = "wait" /\ Ended(s)
  /\ TaskEnds(s)
  /\ UNCHANGED <<scriptVars, importVars, status, crashes>>

StatusOf(s) == IF script[s] = "ok" THEN "success" ELSE "failed"

\* Faulty variant: an import that a page view made is thought to be enough
ImportsUnlessRecorded(s, r) ==
  script[s] = "ok" /\ r \in Latest /\ Recorded(r) # mtime[r]

\* A successful run imports the latest report
Imports(s, r) == script[s] = "ok" /\ r \in Latest

\* finish_sync_run; the import takes neither the import mutex nor the flag
Finish(s) ==
  /\ sync[s] = "wait" /\ Ended(s)
  /\ status' = [status EXCEPT ![s] = StatusOf(s)]
  /\ \/ /\ \E r \in Reports : Imports(s, r) /\ StartJob(s, r, "read")
        /\ sync' = [sync EXCEPT ![s] = "import"] /\ UNCHANGED sync_lock
     \/ /\ \A r \in Reports : ~Imports(s, r)
        /\ TaskEnds(s)
        /\ UNCHANGED <<job, overlap>>
  /\ UNCHANGED <<scriptVars, import_running, import_lock, rows, viewing, manual, crashes>>

\* The result of the import is dropped
SyncEnds(s) ==
  /\ sync[s] = "import" /\ job[s].pc \in {"done", "error"}
  /\ job' = [job EXCEPT ![s] = Idle]
  /\ TaskEnds(s)
  /\ UNCHANGED <<scriptVars, import_running, import_lock, rows, viewing, overlap,
                 manual, status, crashes>>

Task(s) ==
  \/ CreateSyncRun(s) \/ Spawn(s) \/ SpawnFails(s)
  \/ TruncatePanics(s) \/ Finish(s) \/ SyncEnds(s)

\* The web process is killed and started again: nothing in memory survives
Crash ==
  /\ crashes < MaxCrashes
  /\ crashes' = crashes + 1
  /\ import_running' = FALSE /\ import_lock' = NoRun
  /\ job' = [i \in Importers |-> Idle]
  /\ viewing' = [v \in Viewers |-> {}]
  /\ sync' = [s \in Syncs |-> IF sync[s] = "none" THEN "none" ELSE "over"]
  /\ sync_lock' = NoRun
  /\ UNCHANGED <<scriptVars, rows, overlap, manual, status>>

PageView(v) == (Look(v) \/ Compare(v)) /\ UNCHANGED <<scriptVars, syncVars>>

ThreadStep(t) ==
  (Lock(t) \/ ImportStep(t) \/ ThreadEnds(t)) /\ UNCHANGED <<scriptVars, syncVars>>

SyncStep(s) ==
  \/ Task(s)
  \/ ImportStep(s) /\ UNCHANGED <<scriptVars, syncVars>>

ScriptRuns(c) == ScriptStep(c) /\ UNCHANGED <<importVars, syncVars>>

\* All but what people start and the crash
Unattended ==
  \/ \E s \in Syncs : SyncStep(s)
  \/ \E v \in Viewers : PageView(v)
  \/ \E r \in Reports : ImportByHand(r) /\ UNCHANGED <<scriptVars, syncVars>>
  \/ \E t \in Threads : ThreadStep(t)
  \/ \E c \in Runs : ScriptRuns(c)

\* Scripts that somebody runs from a shell are left to the composition (WebServer)
Next ==
  \/ \E s \in Syncs : StartSync(s)
  \/ Unattended \/ Crash

Spec == Init /\ [][Next]_vars

\* Threads, tasks and scripts are scheduled, and a dashboard polls every 5 s
FairSpec ==
  /\ Spec
  /\ \A s \in Syncs : WF_vars(SyncStep(s))
  /\ \A v \in Viewers : WF_vars(PageView(v))
  /\ \A t \in Threads : WF_vars(ThreadStep(t))
  /\ \A c \in Runs : WF_vars(ScriptRuns(c))

-----------------------------------------------------------------------------

(* The flag is up exactly while one import thread is at work, whatever the  *)
(* import comes to: it neither admits two nor stays up for ever.            *)
FlagGuardsOneThread ==
  /\ Cardinality({t \in Threads : Busy(t)}) <= 1
  /\ import_running <=> \E t \in Threads : Busy(t)

(* The web application never has two collector scripts running, except that *)
(* a script which outlived a killed web process may still be there          *)
(* (start_sync checks the mutex, and the task takes it again).              *)
SyncsTakeTurns ==
  Cardinality({s \in Syncs : script[s] # "off" /\ ~Ended(s)}) <= 1 + crashes

(* A report has one row, unless a sync's import, which takes neither flag   *)
(* nor mutex, overlapped with another import of that report.                *)
OneRowPerReport ==
  \A r \in Reports : Len(rows[r]) > 1 => overlap

Quiet ==
  /\ \A c \in Runs : script[c] = "off" \/ Ended(c)
  /\ \A i \in Importers : ~Busy(i)
  /\ \A s \in Syncs : sync[s] \in {"none", "over"}

Newest(r) == rows[r][Len(rows[r])]

(* After a sync the database shows its report as it is on disk, although a  *)
(* page view may have imported a first part of it, and may have imported    *)
(* the JSON file before the Markdown file with the event count was there:   *)
(* the sync imports it once more, whatever its modification time.           *)
SyncedReportIsCurrent ==
  \A s \in Syncs :
    LET r == Target[s]
    IN  /\ Quiet /\ ~overlap /\ crashes = 0
        /\ status[s] = "success" /\ json[r] = [by |-> s, kind |-> "full"] /\ md[r] = s
        /\ r \in Latest
        => Newest(r).content = json[r] /\ Newest(r).events = s

(* Once the scripts are through, the dashboard's polling brings the latest  *)
(* report into the database, also after failed imports, unless what the     *)
(* file holds is damaged or the import raced with the script.               *)
LatestShownInTheEnd ==
  <>[](\A r \in Latest :
         \/ json[r].kind = "part"
         \/ /\ rows[r] # <<>> /\ Newest(r).mtime = mtime[r]
            /\ Newest(r).content = json[r] \/ Newest(r).raced)

(* "Sync started. Status will update automatically." (main.rs, line 628):   *)
(* refuted by a script that cannot be started, or whose output truncate     *)
(* cuts inside a character; the status stays "running" for ever.            *)
StatusUpdates ==
  \A s \in Syncs : sync[s] = "queued" ~> status[s] \in {"success", "failed"}
=============================================================================
