# TLA+ models of the honeypot analysis pipeline

This directory keeps formal models of the repository's stateful parts, the TLC
configurations that check them on small instances, and proofs that TLAPS checks
for every value of the constants. Paths below are relative to the repository.

    tlc -config WazuhStream_crash.cfg MCWazuhStream.tla   # one of the runs
    tlapm WazuhStream_proofs.tla                          # one of the modules of proofs

`PROJECT.json` lists the runs, the lines each definition models, the hazards
each property is about, and for each property a mutated definition that breaks it.

## The system

Logs of honeypots (Cowrie, T-Pot, an eBPF sensor) are analysed in Python
(`src/honeypot_ai`), forwarded to Wazuh and Splunk by two tailing daemons,
written as reports by collector scripts, and shown by a Rust web application
(`src_web/main.rs`) over a DuckDB file. A container demo scores endpoint
windows with a learned model and renders a page.

| Component | State it keeps | Operations | What makes it correct |
|---|---|---|---|
| `wazuh-stream` (`realtime.py` 39-119) | state file of byte offsets, output file | a poll: load offsets, read each path, parse, append alerts, save offsets, preview page | nothing below the saved offsets is missing from the output; repetition only after a kill; offsets never split a line |
| `splunk-stream` (`realtime.py` 122-237, `splunk.py`) | the same, and the collector's index | a poll: read, append, post one by one, save | every configured sink has what the offsets pass; repetition only after a kill or a failed post |
| log writers and rotation (external; `emit_attack_events.py`) | log files | append, rotate, recreate | environment of the daemons |
| collector scripts (`scripts/collect-remote-*.sh`) | `.json` and `.md` of a report | rsync, write JSON, write Markdown | environment of the web application |
| report import (`main.rs` 702-889) | `import_running`, `import_lock`, table rows | page view, import thread, import by hand, transaction | one import thread; one row per report; the latest one is shown in the end |
| sync runs (`main.rs` 610-700) | `sync_lock`, `sync_runs.status` | start, run script, finish, import | one script at a time; the synced report is shown as written |
| live LLM summary (`main.rs` 1859-1993) | flag, summary text | generate, query, ask in a child process, show | the flag comes down on every path; no stale text under a lowered flag |
| export (`main.rs` 575-586, 1022-1048) | export file | remove, create, copy tables, read | a download has the tables as the database has them |
| eBPF sensor (`crates/`) | ring buffer, stream file, database, output file | probe, drain, enrich, write, store; replay | what is drained is in each sink once; a replay restores what a kill took; a capture ends |
| ML loop (`container-demo/bin/ml-loop.sh`) | signature, dataset, model, alerts | dataset, train, score, rename | alerts are always a whole file and follow the log |
| dashboard renderer, preview (`wazuh_preview.py`) | HTML page, summary cache and flag | read alerts, render, summarise in a thread | the page follows the alerts; the flag comes down |
| parsers (`parsers.py`) | none | choose a parser per record, read a file or a batch | no line vanishes unnoticed; a record keeps its address whichever parser gets it |
| session analysis (`features.py`, `detectors.py`, `correlation.py`) | none between batches | group, score, correlate | a split session is never rated above the whole; evidence has an actor |
| endpoint windows (`endpoint.py`) | dataset file | count events and packets, label, write, read | each event in one window, its bytes once; the label follows evidence |
| training, calibration, scoring (`ml.py`) | model artifact | split, choose threshold, severity | parts in order and not empty; budgets kept at every boundary |
| ML store (`ml_store.py`) | `ml_alerts` | replace by key | the table shows the last scoring |
| MISP client and CDB lists (`ioc.py`, `exports.py`, `misp.py`) | what MISP holds, four lists | push, pull, write lists | inner addresses stay out, but for the list of domains; keys are unique |
| LLM client (`llm.py`) | detected API, model | detect, list models, post | a body fits its URL |
| web sessions and tables, JSON array scanner, reverse proxy, packets, reports, deployment | | | see "Not modelled" |

They interact through files (logs, state, alerts, reports, datasets, models,
pages), the DuckDB database, and HTTP. The hard behaviours are kills between two
steps of a poll, rotation between `stat` and `open`, an append cut short, retries
of posts whose fate is unknown; in the web application, imports by threads and
tasks at the same time as a script rewrites the files they read; in the sensor,
a ring buffer that fills while it is drained; and in the commands, ties, empty
parts and boundaries, inputs in any order, and ids that two things share.

## Modules

The tailing daemons:

- `TailedFiles`: the reading half of both daemons. `Grow`, `RotateAway` and
  `Recreate` are the log writers. `LoadOffsets`, `Stat` and `Read` are
  `_load_offsets` and `_read_new_complete_lines`, with `exists`/`stat` and
  `open`/`read` as two steps, and `NewLines` and `Others` what lies between two
  offsets: whole lines, blank ones, the tail of a line; `SaveTruncate` and `SaveWrite` are the two halves
  of `write_text` in `_save_offsets`. `Reject` is the exception for a line that
  does not parse, `ReadMissing` the one for a file that is gone, `Kill` a kill at
  any step, `Restart` a new start of the process.
- `AlertFile`: the output file, appended to by `AppendBatch`, or by
  `KilledInAppend` with any complete alerts and a ragged end. `Firsts` says what
  can be merged with a ragged end, an alert or the newline of an empty payload.
- `WazuhStream`: `stream_once` and `stream_forever` composed from these.
- `SplunkStream`: `splunk_stream_once` and `splunk_stream_forever`, with the loop
  of `send_to_splunk_hec`, one post per step.
- `AtLeastOnce`: what a tailing daemon promises, without files or offsets.
  `WazuhDelivery` and `SplunkDelivery` map the two daemons to it.

The web application, one process:

- `CollectorScripts`: the files a script run truncates and fills.
- `ReportImport`: page views (`Look`: `refresh_latest_report` up to the flag;
  `Compare`: the rest of it), `Queue` (`queue_report_import`), and the import in
  its steps: the JSON file, the Markdown file, the modification time, the
  transaction's first statement, its commit.
- `SyncRuns`: `start_sync` and `run_sync`, a killed web process, the next-state
  relation of syncs and imports.
- `LiveSummary`: a click, the query, the child process, the stored text, the flag.
- `ExportFile`: a download from `remove_file` to `fs::read`. Files have numbers, as
  a connection keeps the file that another download has removed from the path.
- `WebServer`: the three together. They are killed together, and the export copies
  the tables that imports commit to. A script run from a shell (`RunByHand`) is
  here, which the web application does not know of.

The eBPF sensor:

- `EbpfSensor`: the probes (`Call`), the ring buffer, and `capture_live` in its
  steps: the outer loop with the deadline (`Outer`), the inner one (`Take`), the
  stream (`WriteStream`), the database (`InsertRow`), then `write_events`; `import`
  and `run` as `StartReplay`, `WriteOutput` and `LoadRows`. `Fail` and `GiveUp` are
  an error at any of these steps, `Kill` a kill.

The commands of `cli.py`, composed in `CommandLine`, each on its own files:

- `ParsedEvents`: events as the analyses see them, with marks for what the token
  lists and regular expressions find.
- `LogParsing`: `parse_paths` and `parse_ndjson`: which parser gets a record, what
  it finds of address and session, what becomes of every line, and what ends the
  command: a number out of range (`LineFails`), a missing or truncated file
  (`FileFails`).
- `SessionAnalysis`: `aggregate_sessions`, `_heuristic_score`, findings, actors.
- `EndpointWindows`: `build_endpoint_windows` over events and over packets,
  `weak_label`, the dataset file.
- `ThresholdChoice`: candidates, budgets and the choice among them, operators only.
- `ModelTraining`: `train`, `evaluate` and `tune`, with their splits.
- `AlertStore`: `score` with trainings in between, and `ml_alerts`.
- `IndicatorExchange`: `misp-push` of addresses, URLs with their hosts, domains and
  hashes, `misp-pull`, other publishers, the four CDB lists.
- `LlmClient`: `summarize_events` with a server that is exchanged meanwhile.

The container demo:

- `MlLoop`: `ml-loop.sh`, one action per command of a pass, `set -e` and the
  container's restart included. A dataset is named by the size of the log it was
  made of, a model by its dataset, alerts by both.
- `DashboardRenderer`: composed with it, the rounds of `dashboard_renderer.py` and
  the summary thread of `wazuh_preview.py` behind `_LLM_THREAD_ACTIVE`.

`MCWazuhStream`, `MCSplunkStream`, `MCSyncRuns`, `MCWebServer`, `MCEbpfSensor`,
`MCCommandLine` and `MCDashboard` are the instances for TLC, `*_proofs` hold the
theorems. Operators whose comment begins with "Faulty variant" are no part of a
specification: they are what a plausible mistake would make of the definition
below them, and `PROJECT.json` says which property notices.

### Abstractions

- *Offsets are bytes; lines are positions.* `Ends` says where the lines of each
  generation of a file end. A line is a position, `Bad` says which do not parse,
  `Blank` which are blank or, in raw mode, comments. The tail of a line, which a
  carried offset can produce, is blank, does not parse, or parses to an event of
  its own: its text decides, so `Others` allows each.
- *Tails are read in any order of the paths*, the code's order included.
- *One line, one alert.* With `--input-format wazuh` this is what the code does;
  otherwise the alerts of a batch stand for its lines together.
- *An interrupted append* leaves a set of alerts, not necessarily the first
  ones. That is more than the code can do.
- *A post that fails* may have been indexed or not.
- *Reports.* The content of a JSON file is the run that wrote it and whether it
  is empty, a part, or full. A part parses or does not, as the scanner happens to
  cut it. Two scripts that write the same file leave a damaged one.
- *Modification times* differ for every write.
- *The database* (external) gives each transaction the rows committed before its
  first statement, and fails a transaction that deletes a row another one has
  deleted. Connections and other statements succeed. `imported_at` is the commit.
- *The export's nine tables* are two: those that a copy takes first and last.
- *The ML loop's signature* is the size of the log: the log only grows, so that
  the modification time adds nothing. The dataset holds what the log held when it
  was read; `HasWindows` says for which sizes that makes an endpoint window.
- *The renderer knows the SIEM loop's file* by whether it holds a line that does
  not parse, which stays so. That a thread cannot be started is not modelled.
- `stat`, the query for the recorded time and `swap` of one page view are one step;
  an import in between would lead to one more import, which `ImportByHand` covers.
- *The sensor's calls* say what the probes can see of them. What `/proc` says is the
  program a process runs when the event is decoded. Two commands do not overlap, as
  DuckDB admits one process to a database.
- *Scores* are even integers in hundredths, so that one more than a score is a
  threshold just above it, as `nextafter` is. Rates are fractions, compared exactly.
  The learners are external: any score for any window.
- *An event may stand for several alike* (`times`), so that the caps and thresholds
  of the heuristics, in quarters of a point, are reached with few events.
- *A record* is the layout of the sensor that wrote it and its field `type`; a layout
  without marks differs only in the name of its source address, one that every
  unspecific parser reads (`flat`) or one of T-Pot's own (`ecs`). A line with a number
  that cannot be converted is `Far`, whatever else is in it, as its parser raises.
- *A sighting* is what the fields and the text of an event give as indicators. A URL
  is its form and its host: `//host/x` is stored in a CDB list, `http://host/x` never
  is (its colon), and of `host/x` `urlparse` knows no host.

- *What the properties leave open:* the summaries of `SummaryFollows` are those of an
  enabled LLM (`is_enabled`); windows with the same start, which `ml.py` leaves in any
  order, are in some order; `StoreShowsLastScoring` says nothing of rows that earlier
  scores of the same model left beside the new ones; `EventsAccounted` is about a
  running capture, and what is in the ring at its deadline is never read.

## Runs

| Run | Instance | What it shows |
|---|---|---|
| `wazuh_crash` | 2 sources, 3 lines, one that does not parse, preview, 2 kills | types; one extra copy and one merged line per kill at most; the daemon stands still before a line that does not parse; `WazuhStream` implements `AtLeastOnce`, its liveness included |
| `wazuh_rotate` | 2 sources rotated once each, 1 kill | nothing is skipped and no line is split, except where a rotation carried an offset into another file, whatever the tails there are |
| `splunk_faults` | 1 source rotated twice, file and collector, 1 kill, 1 failed post | nothing is skipped in either sink but below a carried offset; copies are bounded by the faults; as long as the daemon lives, complete lines are indexed in the end |
| `sync_imports` | 2 syncs of one sensor, 1 dashboard, 1 import by hand | the import flag is up exactly while one thread is at work; one row per report unless imports overlapped; the synced report is shown as written |
| `sync_live` | 1 sync, 1 dashboard, 1 crash | the latest report is shown in the end, after failed scripts and imports too |
| `web_server` | 2 syncs, a shell run, 2 summaries, 2 downloads, 3 of these started, 1 crash | one script at a time, and one more per crash; the summary's flag and text keep together; a download that met nothing else is the database as it is |
| `ebpf_sensor` | 2 commands, 3 calls, a ring of 2 records, failures and kills | in a capture with a stream every record is accounted for; the database lags the stream by at most one event per cut; one row per event however often it is imported; imports restore; the output file is the stream; an exec keeps its program; a capture ends |
| `command_line` | all small inputs of each command (`MCCommandLine`) | thirteen properties, below |
| `dashboard` | a log of three sizes, a kill of each process, 1 failed command, 1 failed request | the alerts are whole and of their own model; the page shows the alerts for the whole log in the end, with a summary of them |

The properties of `command_line`: `LinesAccounted` and `AddressKept` (parsers),
`SplitNeverScoresHigher` and `EvidenceHasActor` (sessions), `TrafficConserved` and
`LabelFollowsEvidence` (windows), `PartsInOrder` and `BudgetKept` (training,
where the budget is counted again from the chosen threshold and compared with
every other threshold), `StoreShowsLastScoring` and `SeverityFollowsThreshold`
(the store), `OwnNetworkNotListed` and `KeysUnique` (MISP), `BodyFitsUrl` (LLM).

Three runs refute what the repository says of the program.

- `doc_rotate`: docs/wazuh-misp-integration.md, lines 50-51, says that newly
  appended events are converted. A log that is rotated and outgrows the saved
  offset within one poll interval is taken for the old one (`realtime.py` 244
  compares only sizes), and its first lines are never read.
- `doc_kill`: lines 52-54 say that Wazuh-format alerts are passed through. After
  a kill in the middle of an append, the retry starts right behind the ragged
  end, and its first alert exists only as part of a line that is not JSON.
- `doc_status`: the sync page says "Status will update automatically"
  (`main.rs` 628). When the script cannot be started, `?` in line 650 returns
  before `finish_sync_run`; the row says `running` for ever. So it does when
  `truncate` (line 1855) cuts the output inside a character and panics.

What else the models make visible is kept as a condition of a property:

- A report that a script rewrites between `import_report_file`'s reading of the
  content and of the modification time (lines 752, 755) is taken for current until
  the file changes again (`raced`). A sync's import takes neither `import_running`
  nor `import_lock`, so that a report can get two rows until its next import
  (`overlap`). An analysis that fails leaves an empty JSON file, which page views
  import as a report without findings.
- Two downloads, or a download and an import, can meet in the export file, and a
  download may then send another one's, a part or nothing (`alone`).
- A line that a killed append cut off stays in `wazuh-alerts.ndjson`, and
  `load_wazuh_events` raises on it in every later round: the page is never rendered
  again (`ragged`). A pass that ended because its dataset, or its first training,
  failed is not tried again before the log grows, as `last_signature` is set all
  the same (`gaveUp`).
- A line that a killed capture cut off makes every later import fail as a whole, as
  `read_events` collects a `Result` (`ImportRestores` is about imports that succeed).
- An override of the threshold above the stored high threshold gives alerts below
  the one high severity (`forced`).
- A folder or hint that contradicts a record's layout, and an eBPF record under the
  hint `tpot`, can cost the record its address (`Undisputed`); so can a missing type
  where the address has a name that only `_parse_tpot_generic` reads (`srcip`, `sip`,
  `source.ip`, `REMOTE_ADDR`), not `_parse_generic` (`parsers.py` 587).
- A time out of range (`parsers.py` 691, 704) or a truncated compressed log ends the
  whole command, and the events of every file are lost (`LinesAccounted` says when).
- A saved offset that a rotation carried to just before a newline passes that line
  without a sign: the blank tail is skipped (`realtime.py` 271, `parsers.py` 141).
- A Host header becomes a domain indicator whatever is in it (`ioc.py` 37-38), and
  `_to_ids` looks at domains only for reserved names (`exports.py` 68-69): an inner
  address in it is exported for detection, and the next pull writes it into
  `misp-domain`, though docs/wazuh-misp-integration.md, lines 129-130, says that
  private indicators are kept as `to_ids: false`. `OwnNetworkNotListed` is therefore
  about the other three lists.
- A kill between two CDB lists leaves lists of two pulls next to each other; each
  of them has unique keys.

### Bounds

`MaxGen`, `MaxCrashes`, `MaxFailures`, `MaxManual`, `MaxClicks` bound rotations,
kills, failed posts, imports by hand and what people start; the size of files is
bounded by `Size`, runs of scripts by `Runs`. Two lines in one source distinguish
a first line from a later one (which the merge needs); the lines have different
lengths, so that a carried offset can fall on a line's end, inside it, or beyond
the file, and with one blank line in the first file of `wazuh_rotate` an offset can
move over nothing but that. Two kills are enough for a retry of a retry. A second rotation
(`splunk_faults`) lets the carried offset come from a file that was itself read
from the middle. Two syncs of one sensor rewrite a report that was imported; with
a third nothing new can overlap, as at most one sync and one thread import at a
time. Two downloads and one commit are all that can meet in one export file, and
`ExportFile!Numbers` is as many files as two downloads tell apart. `sync_imports`
and `web_server` treat threads, syncs, requests and downloads as symmetric: no
definition tells them apart.

In `dashboard` the log passes a size that has windows only because a line is cut
short, one without windows, which empties the alerts, and one with them. In
`ebpf_sensor` three calls overfill a ring of two records, and the second command
is a capture into the files of the first, or an import of its stream (`MaxCalls`,
`MaxJobs`).

In `command_line` four windows (`MaxWindows`) have the two cuts of a split in every
order relation, with one window per part and with parts that would be empty; three
`Scores` have ties and a threshold above all. `MaxCommands` trainings, scorings
and stores let a row be replaced by a row of the same key. The seven events of
`MCCommandLine` lie on both sides of a window's end and of every threshold of the
heuristics they can reach, with and without an address and an inner or outer
destination. Two lines in each of two files (`MaxLines`, `MaxFiles`) let a bad line
come before and after a good one. `MaxExchanges` and `MaxExchanged` allow a push
and a pull around a change in MISP; the four sightings of `MCCommandLine` have an
inner address as source, destination, domain, and host of a URL in each form, next to
public ones, public and reserved names; and a change of server before each detection.

`CHECK_DEADLOCK FALSE` is set where the system may stop: the web application has
nothing to do without clicks, the renderer's rounds change nothing once a cut-off
line makes them fail, and commands end.

### Fairness

- `wazuh-stream`: weak fairness of the steps of the process, its restart included, as
  `Restart=always` (systemd) and `restart: unless-stopped` (compose) provide. No
  fairness for writers, rotation, kills or failing posts.
- `splunk-stream`: weak fairness of the steps of the running process (`Running`) only.
  Nothing in the repository supervises it, so that after a kill, a failed post or a
  line that does not parse it may stay down for ever; `CompleteLinesIndexed` has that
  as one of its outcomes. `Restart` may happen, as somebody may start it again.
- Web application: weak fairness of each import thread, each sync task and each
  running script, and of page views: an open dashboard asks every 5 s
  (`hx-trigger="every 5s"`). That scripts end is an assumption, as the code sets
  no timeout. Nobody has to click or to run a script.
- eBPF sensor: `WF_vars(Step)`, the steps of a running command, for `CaptureEnds`.
  The inner loop of `capture_live` never looks at the clock, so that a capture ends
  only when calls cease for long enough, which they do here as `MaxCalls` bounds them.
- Container demo: weak fairness of the script and of the renderer, with their
  restarts (`restart: unless-stopped`), of the summary thread, whose request has a
  timeout, and of the 30 seconds that a summary is fresh. None for events, kills
  or failing commands.

## Proofs

Every theorem holds for all values of the constants that satisfy the `ASSUME`s of
its modules (bounds are natural numbers, lines end at positive positions, special
values such as `Torn` or `None` are not among the ordinary ones, a few sets are
finite or disjoint); TLC evaluates them in every run.

**The daemons.** `AlertFile_proofs` has the lemmas that both need: types of each
step of the tail, and the promise below.

- `WazuhStream_proofs`: `TypeCorrect`, `NoLineSkipped` (`NothingSkipped`),
  `BadLinesBlock` (`BadLineBlocks`), `OffsetsAtLineEnds` (`OffsetsSplitNoLine`),
  `DuplicationNeedsAKill` (`CopiesBoundedByCrashes`), and `DeliversAtLeastOnce`: the
  daemon implements the safety part of `AtLeastOnce` where nobody rotates its files
  (`MaxGen = 0`; `doc_rotate` shows why that is needed).
- `SplunkStream_proofs`: `TypeCorrect`, `NoLineSkipped` (`NothingSkipped`),
  `DuplicationNeedsAFailure` (`CopiesBounded`), and `DeliversAtLeastOnce`, the same
  refinement with the file, the collector or both as sinks.

`NothingSkipped` alone is not inductive: a state in which the offsets in memory
have run ahead of a line that is not in the batch satisfies it, and `SaveWrite`
would break it. The invariant says of every line below the saved offsets, and of
every line below the offsets in memory, that it is delivered, below a carried
offset, or (for the latter, until it is delivered) in the batch. What counts as
delivered is a parameter set, the lines in the file for one daemon, in the file
and the collector for the other: the lemmas `TailStepKeepsPromise` and those
before it hold for any set that a step of the tail leaves alone. `Recreate` keeps
the promise because `carried` takes the larger of the offset in memory and the
saved one. A line is below a carried offset when it begins there: what is left of it
is a tail, of which nothing is promised. That a step of the tail passes whole lines
only, unless an offset was carried, needs `EndsInv`: the offsets stand at the ends of
lines (`EndsAlways`, also behind `OffsetsAtLineEnds`).

For the copies the invariant (`CopiesWithin`, in `AlertFile_proofs`) says that a line
has at most one copy per fault already paid for while it is still to be read, and
one more once the offsets passed it or it was appended. Its parameters are the
copies in a sink and the number of faults, so that one set of lemmas serves the
file of one daemon and the collector and the file of the other, where a failed post
is a fault too. For merged lines of `WazuhStream` it adds that a ragged end means
that the last kill has not been paid for yet.

The refinements are proved step by step under the mappings of `WazuhDelivery` and
`SplunkDelivery`: of a line the abstract state says whether it is published, handled
and acked, and of the sources whether one of them holds a line that cannot be handed
on. `UnrotatedInv` (no file is away, no offset carried, a batch has complete lines
only) and the invariant of `NoLineSkipped` make every step of a daemon a step of the
promise or a stutter (`StepOfPromise`): a longer file publishes (`FilesPublish`), what
the sinks gain was in the batch and so published (`HandedOn`), and a saved offset
passes only lines that were handed on (`PassedLinesPromised`). For `splunk-stream` a
line is handed on when the last configured sink has it. The run `wazuh_crash` checks
the first mapping with its liveness; the second is only proved.

**The web application.** `WebServer_proofs`: `SummaryFlag` (`FlagMeansAtWork`),
`ImportFlag` (`FlagGuardsOneThread`, of `SyncRuns`), `SyncTurns` (`SyncsTakeTurns`),
`OwnDownloadIsCurrent` (`DownloadCurrent`), `OneRow` (`OneRowPerReport`),
`SyncedIsShown` (`SyncedReportIsCurrent`).
The first two follow each flag: whoever is at work is the one for whom the flag was
raised. For the third the invariant splits the running scripts into that of the
task that holds the mutex, at most one, and orphans, of which each crash makes at
most one (`FewerOrphans`, `UnderwayBound`). For the downloads, `ExportInv` says that
one that met no other has the file under the path to itself from the removal to the
read, filled as far as it has come (`Own`).

`OneRowPerReport` alone is not inductive: a transaction that has yet to commit may
know of other rows than those there are. `RowsInv` adds that without an overlap at
most one job works on a report, and that a job about to commit deletes exactly the
rows of its report; `JobsInv` has the types. For `SyncedIsShown`, `FilesInv` says that
modification times differ and that a sync is recorded as a success only after its
script was, and `SyncedInv` that from then on, while its files stay as they are,
every job of that report has read what the sync wrote, and that the sync's own
import is under way or the row is there.

**The commands.** `CommandLine_proofs`: `RequestsFit` (`BodyFitsUrl`),
`InnerAddressesStayOut` (`OwnNetworkNotListed`), `OneRowPerKey` (`KeysUnique`),
`LowMeansBelow` (`SeverityFollowsThreshold`), `LastScoringShows`
(`StoreShowsLastScoring`), `PartsScoreLower` (`SplitNeverScoresHigher`),
`SplitsAreTemporal` (`PartsInOrder`), `ChosenWithinBudget` (`BudgetKept`). A command
touches one component (`OneComponent`). For the lists, `ExchangeInv` says that what is
exported of the own network is not for detection, but for domains (`ExportedFacts`),
and that a pull trusts what it takes of it all the same. `PartsScoreLower` rests on `HeuristicIsMonotone`:
a set of events scores at most as high as a larger one, counter by counter, bonus
by bonus and under the cap; and on the sessions of a poll being parts of the whole
ones. For the store both properties are inductive together with the types and with
a stored high threshold that lies above the model's own one. For the splits, the
windows used are an interval, the parts are that interval cut twice (`Three`), and
what the code's clamps (`max(1, min(n - 1, ...))`) give is that the two cuts leave
room on every side that the command needs (`CutBetween`, `SplitCuts`).

`BudgetInv` follows the candidate loop: the candidates are those of the windows whose
scores are higher than all that is left (`CountInv`, `GroupReaches`), each is what its
own threshold counts, and the one above all scores is within every budget. That
`max` finds a best one rests on the order of the keys: rates compare like the
fractions they are (`RatesOrdered`), tuples of rates from the left (`KeysOrdered`),
and a finite set has a best element in a strict order (`BestElement`). The first
place of both keys is the recall, so that no other candidate finds more.

`EventAnalysis_proofs` (which extends `CommandLine_proofs`): `NothingLostInWindows`
(`TrafficConserved`), `LabelsFollowEvents` (`LabelFollowsEvidence`),
`EvidenceIsBlamed` (`EvidenceHasActor`), `NoLineDisappears` (`LinesAccounted`),
`NoAddressDisappears` (`AddressKept`). A sum over a set of events is the number of
their units (`Total` in `ParsedEvents`), so that an event more adds its own value by
facts about cardinality (`TotalOfOneMore`), without induction.

- `WindowsInv`: each state has counted exactly the events that went under its key
  (`Tally`): their number, their bytes, and which counters are above zero; rows and
  what is read back have the label of their state. `AlignedWindow` says that windows
  are half-open and aligned, so that the key of an event is the window it lies in.
- `EvidenceInv`: a session has the source of one of its events, or none of them has
  one, and a finding repeats the session's; the score of an address
  is a sum of which the finding's own score is a part (`TotalIsLarge`; `BlameFalls` is the
  step in which a finding is blamed). `SessionInv` of `PartsScoreLower` is below it.
- `ParsingInv`: while a file is read there are as many events as lines passed that are
  neither blank nor comments (`Written`, `OneLineMore`), none of these lines raises,
  and each event has kept its address (`RecordKeepsAddress`).

**The container demo.** `DashboardRenderer_proofs`: `AlertsAlwaysWhole`
(`AlertsWhole`), `AlertsOfOwnModel` (`ScoredByOwnModel`), `TypeCorrect`.
Both hold because of what was true before the rename: `MlInv` adds to the types
that the model is of the present dataset once training is over (`ModelTrained`),
that it is whole while it scores (`ModelLoaded`), and that the draft is whole and
of its own model when it is moved (`DraftScored`). `MlStep` has one case per
action; `ExitKeeps` serves the kill and every failure that ends the script. The
renderer changes none of these variables (`NextIsMlStep`).

**The eBPF sensor.** `EbpfSensor_proofs`: `TypeCorrect`, `OneRowPerEvent`
(`EventHasOneRow`), `LateEventsReportCalls` (`EventReportsCall`), `NoRecordVanishes`
(`EventsAccounted`), `DatabaseFollows` (`StreamAheadByOne`), `OutputCopiesStream`
(`OutputIsStream`), `ImportReachesDatabase` (`ImportRestores`). `TypeInv` adds to the
types that only a capture has records in the ring or an event in hand, and that each
row has the id of its event. On it rest

- `IdentityInv`: records are numbered and the ring hands them on in that order, so
  an event that is taken has another number than every event in the stream, in the
  database, among those kept, or in hand; equal numbers mean equal events.
- `AccountInv`: a record leaves the ring only for the hand, and the hand is emptied
  only when the stream has the event.
- `AheadInv`: what the stream has and the database has not was left there by
  captures that were cut, but for the last piece while it is in hand. The third
  conjunct covers captures that write only one of the two.
- `CopyInv`: what a command keeps is the stream from where its capture began, or the
  whole file; the output is a prefix of it while it is written, and the rows have a
  prefix of it while it is loaded.

**Only model-checked:** liveness (`PageShowsLog`, `SummaryFollows`,
`CompleteLinesIndexed`, `LatestShownInTheEnd`, `CaptureEnds`, and the fairness in
`ImplementsFairDelivery`, whose safety part is `DeliversAtLeastOnce`), for which the
provers have no support. Every safety invariant of the passing runs is proved.

## Plan

1. The promise of `AtLeastOnce` with rotation: lines published once and gone since,
   and offsets carried over, would be part of its state.
2. The JSON array scanner over texts of a few tokens, if its report format changes.

## Not modelled

- Web sessions, login, HTML and table queries: each is one statement against the
  database and formatting.
- The inside of the JSON array scanner (`main.rs` 891-1020): a walk over the
  characters of one text; its outcomes are in `ReportImport`.
- `reverse_proxy.py`: it copies bytes between two sockets in one thread. What can go
  wrong there (`sendall` waits for a peer that itself waits) is settled by buffers
  in the kernel that no source here determines.
- `packets.py`, `report.py`, the formats of `wazuh.py` and `splunk.py`: stateless
  decoding and formatting. `EndpointWindows` takes packets as decoded.
- The numerical models, prompts, regular expressions, metrics reports.
- Of the sensor: its configuration file, `check`, redaction, container ids, and the
  wire format of the probes.
- Deployment files and tuning scripts, other than the restart policies, which the
  fairness of `Restart` stands for.
- `str.splitlines` in `realtime.py` 265 splits at more characters than the newline;
  a line with such a character counts as one that does not parse.
