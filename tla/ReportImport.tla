----------------------------- MODULE ReportImport -----------------------------
(***************************************************************************)
(* The report importer of src_web/main.rs: page views that notice a report *)
(* which changed, the import threads they queue, and the import itself,    *)
(* which reads the JSON file, then the Markdown file, then the JSON file's *)
(* modification time, and replaces the report's rows in one transaction.   *)
(*                                                                         *)
(* The database (DuckDB, external) runs transactions on snapshots: a       *)
(* transaction sees the rows committed before its first statement, and it  *)
(* fails when a row it deletes was deleted by another one meanwhile.       *)
(***************************************************************************)
EXTENDS CollectorScripts, Sequences, FiniteSets

CONSTANTS
  Threads,   \* identities for import threads
  Syncs,     \* the runs that the web application starts
  Viewers,   \* open dashboard pages
  MaxManual  \* bound: how often an import is requested by hand

ASSUME ImportAssumption ==
  /\ Syncs \subseteq Runs /\ Threads \intersect Syncs = {}
  /\ NoRun \notin Threads
  /\ MaxManual \in Nat

Importers == Threads \union Syncs

VARIABLES
  import_running, \* the flag that admits one queued import
  import_lock,    \* the thread that holds the mutex, or NoRun
  job,            \* [importer -> the import it is working on]
  rows,           \* [report -> its rows in `reports`, oldest import first]
  viewing,        \* [viewer -> reports it found to be the latest, none or one]
  overlap,        \* history: did imports of one report ever overlap
  manual          \* history: imports requested by hand

importVars == <<import_running, import_lock, job, rows, viewing, overlap, manual>>

NoContent == [by |-> NoRun, kind |-> "none"]
NoJob(r) == [pc |-> "idle", report |-> r, content |-> NoContent,
             events |-> NoRun, mtime |-> 0, raced |-> FALSE, old |-> {}]
Idle == NoJob(CHOOSE r \in Reports : TRUE)

ImportInit ==
  /\ import_running = FALSE /\ import_lock = NoRun
  /\ job = [i \in Importers |-> Idle]
  /\ rows = [r \in Reports |-> <<>>]
  /\ viewing = [v \in Viewers |-> {}]
  /\ overlap = FALSE /\ manual = 0

\* latest_json_report: the file with the largest modification time
Latest == {r \in Reports : Exists(r) /\ \A q \in Reports : mtime[q] <= mtime[r]}

Busy(i) == job[i].pc # "idle"
Working(i) == job[i].pc \notin {"idle", "done", "error"}

\* Importer i takes on report r
StartJob(i, r, pc) ==
  /\ job' = [job EXCEPT ![i] = [NoJob(r) EXCEPT !.pc = pc]]
  /\ overlap' = (overlap \/ \E j \in Importers : Working(j) /\ job[j].report = r)

-----------------------------------------------------------------------------
(* Queued imports *)

\* Faulty variant: the flag is read and then set in two steps
QueueUnguarded(r) ==
  /\ import_running' = TRUE
  /\ \E t \in Threads : ~Busy(t) /\ StartJob(t, r, "lock")

\* queue_report_import: nothing happens when an import is queued already
Queue(r) ==
  \/ /\ import_running
     /\ UNCHANGED <<import_running, job, overlap>>
  \/ /\ ~import_running
     /\ import_running' = TRUE
     /\ \E t \in Threads : ~Busy(t) /\ StartJob(t, r, "lock")

\* A page view: find the latest report while no import is under way ...
Look(v) ==
  /\ viewing[v] = {} /\ ~import_running
  /\ \E r \in Latest : viewing' = [viewing EXCEPT ![v] = {r}]
  /\ UNCHANGED <<import_running, import_lock, job, rows, overlap, manual>>

\* The modification time recorded by the latest import of r
Recorded(r) == IF rows[r] = <<>> THEN 0 ELSE rows[r][Len(rows[r])].mtime

\* ... and queue it unless its modification time is the recorded one
Compare(v) ==
  /\ \E r \in viewing[v] :
       IF Recorded(r) = mtime[r]
       THEN UNCHANGED <<import_running, job, overlap>>
       ELSE Queue(r)
  /\ viewing' = [viewing EXCEPT ![v] = {}]
  /\ UNCHANGED <<import_lock, rows, manual>>

\* import_report and import_named_report
ImportByHand(r) ==
  /\ Exists(r) /\ manual < MaxManual
  /\ manual' = manual + 1
  /\ Queue(r)
  /\ UNCHANGED <<import_lock, rows, viewing>>

\* import_report_file_locked
Lock(t) ==
  /\ job[t].pc = "lock" /\ import_lock = NoRun
  /\ import_lock' = t
  /\ job' = [job EXCEPT ![t].pc = "read"]
  /\ UNCHANGED <<import_running, rows, viewing, overlap, manual>>

\* Faulty variant: the flag stays up when the import failed
ThreadEndsOnSuccess(t) ==
  /\ job[t].pc \in {"done", "error"}
  /\ import_lock' = NoRun
  /\ import_running' = (job[t].pc = "error")
  /\ job' = [job EXCEPT ![t] = Idle]
  /\ UNCHANGED <<rows, viewing, overlap, manual>>

\* The mutex is released, an error is logged, and the flag comes down
ThreadEnds(t) ==
  /\ job[t].pc \in {"done", "error"}
  /\ import_lock' = NoRun
  /\ import_running' = FALSE
  /\ job' = [job EXCEPT ![t] = Idle]
  /\ UNCHANGED <<rows, viewing, overlap, manual>>

-----------------------------------------------------------------------------
(* import_report_file *)

\* read_to_string and parse_top_level_array: an empty file has no arrays, which
\* is no error; a part may lack arrays or end inside one, which is
ReadJson(i) ==
  /\ job[i].pc = "read"
  /\ LET c == json[job[i].report]
     IN  \/ job' = [job EXCEPT ![i].pc = "markdown", ![i].content = c]
         \/ c.kind = "part" /\ job' = [job EXCEPT ![i].pc = "error"]

\* markdown_report_count
ReadMarkdown(i) ==
  /\ job[i].pc = "markdown"
  /\ job' = [job EXCEPT ![i].pc = "stat", ![i].events = md[job[i].report]]

\* report_modified_at, after the content was read
ReadModified(i) ==
  /\ job[i].pc = "stat"
  /\ LET r == job[i].report
     IN  job' = [job EXCEPT ![i].pc = "begin", ![i].mtime = mtime[r],
                            ![i].raced = (json[r] # job[i].content)]

RowIds(r) == {rows[r][k].id : k \in 1..Len(rows[r])}

\* The transaction's first statement: SELECT id FROM reports WHERE report_path
BeginImport(i) ==
  /\ job[i].pc = "begin"
  /\ job' = [job EXCEPT ![i].pc = "commit", ![i].old = RowIds(job[i].report)]

\* nextval('reports_id_seq'): some id that nobody knows; ids are reused here
UsedIds == UNION ({RowIds(r) : r \in Reports} \union {job[i].old : i \in Importers})
NewId == CHOOSE n \in 0..Cardinality(UsedIds) : n \notin UsedIds

Row(i) == [id |-> NewId, content |-> job[i].content, events |-> job[i].events,
           mtime |-> job[i].mtime, raced |-> job[i].raced]

\* Importer i is through, with or without a row
Finished(i, pc) == job' = [job EXCEPT ![i] = [NoJob(job[i].report) EXCEPT !.pc = pc]]

\* Faulty variant: the rows of earlier imports are left in place
CommitInsertOnly(i) ==
  /\ job[i].pc = "commit"
  /\ rows' = [rows EXCEPT ![job[i].report] = Append(@, Row(i))]
  /\ Finished(i, "done")

\* What is left of the rows of s, in their order, without those that are gone
Left(s, gone) ==
  LET K == {k \in 1..Len(s) : s[k].id \notin gone}
      nth(n) == CHOOSE k \in K : Cardinality({j \in K : j <= k}) = n
  IN  [n \in 1..Cardinality(K) |-> s[nth(n)]]

\* The old rows go and the new one comes, or the transaction is in conflict
Commit(i) ==
  /\ job[i].pc = "commit"
  /\ LET r == job[i].report
     IN  IF job[i].old \subseteq RowIds(r)
         THEN /\ rows' = [rows EXCEPT ![r] = Append(Left(rows[r], job[i].old), Row(i))]
              /\ Finished(i, "done")
         ELSE /\ Finished(i, "error")
              /\ UNCHANGED rows

ImportStep(i) ==
  /\ \/ (ReadJson(i) \/ ReadMarkdown(i) \/ ReadModified(i) \/ BeginImport(i)) /\ UNCHANGED rows
     \/ Commit(i)
  /\ UNCHANGED <<import_running, import_lock, viewing, overlap, manual>>
=============================================================================
