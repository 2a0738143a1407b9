--------------------------- MODULE CollectorScripts ---------------------------
(***************************************************************************)
(* scripts/collect-remote-cowrie.sh and collect-remote-tpot.sh with        *)
(* ANALYZE_FORMAT=both: fetch the logs, write the JSON report of a sensor, *)
(* then its Markdown report.  Both files are redirections, so a run        *)
(* empties the file first and fills it later, and `set -e` ends the run    *)
(* wherever a command fails.                                               *)
(*                                                                         *)
(* A run is used once; what it writes is named by the run.  A sensor's     *)
(* pair of files <sensor>-latest.json and .md is called a report.          *)
(***************************************************************************)
EXTENDS Integers

CONSTANTS
  Runs,     \* executions of a script
  Reports,  \* the reports that the report directory may hold
  Target,   \* [run -> the report it writes]
  NoRun

ASSUME ScriptAssumption ==
  /\ Target \in [Runs -> Reports]
  /\ NoRun \notin Runs

VARIABLES
  script,  \* where each run is
  json,    \* [report -> what the JSON file holds]
  mtime,   \* [report -> modification time of the JSON file]
  md,      \* [report -> run whose "Events parsed" line the .md file shows]
  clock    \* the last modification time given to a file

scriptVars == <<script, json, mtime, md, clock>>

Content == [by : Runs \union {NoRun}, kind : {"none", "empty", "part", "full"}]

ScriptInit ==
  /\ script = [c \in Runs |-> "off"]
  /\ json = [r \in Reports |-> [by |-> NoRun, kind |-> "none"]]
  /\ mtime = [r \in Reports |-> 0]
  /\ md = [r \in Reports |-> NoRun]
  /\ clock = 0

Exists(r) == json[r].kind # "none"

Ended(c) == script[c] \in {"ok", "failed"}

\* Run c leaves content of this kind in the JSON file and goes on at step pc
PutJson(c, kind, pc) ==
  /\ json' = [json EXCEPT ![Target[c]] = [by |-> c, kind |-> kind]]
  /\ clock' = clock + 1
  /\ mtime' = [mtime EXCEPT ![Target[c]] = clock']
  /\ script' = [script EXCEPT ![c] = pc]
  /\ UNCHANGED md

\* rsync has finished; the shell opens the JSON file with O_TRUNC
TruncateJson(c) == script[c] = "rsync" /\ PutJson(c, "empty", "json")

\* A first part of the report reaches the file
WriteSome(c) == script[c] = "json" /\ PutJson(c, "part", "more")

\* The rest reaches it.  If another run truncated the file meanwhile, the rest
\* lands behind a hole or behind the other run's text: damaged, like a part.
WriteRest(c) ==
  /\ script[c] \in {"json", "more"}
  /\ PutJson(c, IF json[Target[c]].by = c THEN "full" ELSE "part", "markdown")

TruncateMarkdown(c) ==
  /\ script[c] = "markdown"
  /\ md' = [md EXCEPT ![Target[c]] = NoRun]
  /\ script' = [script EXCEPT ![c] = "count"]
  /\ UNCHANGED <<json, mtime, clock>>

WriteMarkdown(c) ==
  /\ script[c] = "count"
  /\ md' = [md EXCEPT ![Target[c]] = c]
  /\ script' = [script EXCEPT ![c] = "ok"]
  /\ UNCHANGED <<json, mtime, clock>>

\* rsync or an analysis fails and `set -e` ends the script
ScriptFails(c) ==
  /\ script[c] \in {"rsync", "json", "more", "count"}
  /\ script' = [script EXCEPT ![c] = "failed"]
  /\ UNCHANGED <<json, mtime, md, clock>>

ScriptStep(c) ==
  \/ TruncateJson(c) \/ WriteSome(c) \/ WriteRest(c)
  \/ TruncateMarkdown(c) \/ WriteMarkdown(c)
  \/ ScriptFails(c)
=============================================================================
