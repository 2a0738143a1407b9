--------------------------- MODULE WebServer_proofs ---------------------------
(***************************************************************************)
(* Proofs about the web application for any reports, runs, threads, page   *)
(* views, requests, downloads, clicks and kills.                           *)
(***************************************************************************)
EXTENDS WebServer, FiniteSetTheorems, TLAPS

(* A set all of whose elements are one has at most one.                     *)
LEMMA AtMostOne ==
  ASSUME NEW S, \A x, y \in S : x = y
  PROVE  IsFiniteSet(S) /\ Cardinality(S) <= 1
<1>1. CASE S = {}
  BY <1>1, FS_EmptySet
<1>2. ASSUME NEW x \in S
      PROVE  IsFiniteSet(S) /\ Cardinality(S) <= 1
  <2>1. S = {x}
    BY <1>2
  <2>2. IsFiniteSet(S) /\ Cardinality(S) = 1
    BY <2>1, FS_Singleton
  <2> QED
    BY <2>2
<1> QED
  BY <1>1, <1>2

-----------------------------------------------------------------------------
(* The live summary.  Its flag is the only thing that keeps two requests    *)
(* apart, and the summary that is shown is behind the last answer only      *)
(* while the task is on its way from the one to the other.                  *)

RequestType == request \in [Requests -> {"none", "query", "child", "store", "lower", "over"}]

LiveInv ==
  /\ RequestType
  /\ live_llm_running \in BOOLEAN
  /\ \A q, r \in Requests : AtWork(q) /\ AtWork(r) => q = r
  /\ live_llm_running <=> \E q \in Requests : AtWork(q)
  /\ (\A q \in Requests : request[q] \notin {"child", "store"}) => live_llm_summary = answered

(* Every step of a request, a click and a kill of the process keep it.      *)
LEMMA LiveStepKeepsFlag ==
  ASSUME LiveInv, (\E q \in Requests : Generate(q) \/ LiveStep(q)) \/ LiveCrash \/ UNCHANGED liveVars
  PROVE  LiveInv'
<1> USE DEF LiveInv, RequestType, AtWork
<1>1. ASSUME NEW q \in Requests, Generate(q)
      PROVE  LiveInv'
  BY <1>1 DEF Generate, Goes, Raised
<1>2. ASSUME NEW q \in Requests, Query(q)
      PROVE  LiveInv'
  BY <1>2 DEF Query, Goes, Lowered
<1>3. ASSUME NEW q \in Requests, ChildEnds(q)
      PROVE  LiveInv'
  BY <1>3 DEF ChildEnds, Goes
<1>4. ASSUME NEW q \in Requests, Store(q)
      PROVE  LiveInv'
  BY <1>4 DEF Store, Goes
<1>5. ASSUME NEW q \in Requests, Lower(q)
      PROVE  LiveInv'
  BY <1>5 DEF Lower, Goes
<1>6. CASE LiveCrash
  BY <1>6 DEF LiveCrash
<1>7. CASE UNCHANGED liveVars
  BY <1>7 DEF liveVars
<1> QED
  BY <1>1, <1>2, <1>3, <1>4, <1>5, <1>6, <1>7 DEF LiveStep

(* No click is refused for ever: the flag is up exactly while one request   *)
(* is at work, and when it is down the page shows what the last child came  *)
(* to (generate_live_summary and its task, beside syncs, exports, kills).   *)
THEOREM SummaryFlag == WebSpec => []FlagMeansAtWork
<1>1. WebInit => LiveInv
  BY DEF WebInit, LiveInit, LiveInv, RequestType, AtWork
<1>2. LiveInv /\ [WebNext]_webVars => LiveInv'
  BY LiveStepKeepsFlag
  DEF WebNext, webVars, Reporting, Summarizing, Exporting, Killed
<1>3. LiveInv => FlagMeansAtWork
  <2> SUFFICES ASSUME LiveInv
               PROVE  FlagMeansAtWork
    OBVIOUS
  <2>1. Cardinality({q \in Requests : AtWork(q)}) <= 1
    BY AtMostOne DEF LiveInv
  <2> QED
    BY <2>1 DEF LiveInv, FlagMeansAtWork, AtWork
<1> QED
  BY <1>1, <1>2, <1>3, PTL DEF WebSpec

-----------------------------------------------------------------------------
(* Queued imports.  Threads are told apart from syncs, whose imports never  *)
(* touch the flag.                                                          *)

\* The record of importer i, whatever its other fields hold
Shaped(x) == "pc" \in DOMAIN x /\ x = [k \in DOMAIN x |-> x[k]]

JobType == DOMAIN job = Importers /\ job = [i \in Importers |-> job[i]] /\ \A i \in Importers : Shaped(job[i])

ImportInv ==
  /\ JobType
  /\ import_running \in BOOLEAN
  /\ \A t, u \in Threads : Busy(t) /\ Busy(u) => t = u
  /\ import_running <=> \E t \in Threads : Busy(t)

(* What a job starts as.                                                    *)
LEMMA NewJob ==
  ASSUME NEW r, NEW pc
  PROVE  /\ Shaped([NoJob(r) EXCEPT !.pc = pc]) /\ [NoJob(r) EXCEPT !.pc = pc].pc = pc
         /\ Shaped(NoJob(r)) /\ NoJob(r).pc = "idle"
<1>1. PICK x : x = NoJob(r)
  OBVIOUS
<1>2. x.pc = "idle" /\ Shaped(x)
  <2>1. PICK a, b, c, d : x = [pc |-> "idle", report |-> r, content |-> a, events |-> b,
                              mtime |-> 0, raced |-> c, old |-> d]
    BY <1>1 DEF NoJob
  <2> QED
    BY <2>1 DEF Shaped
<1>3. Shaped([x EXCEPT !.pc = pc]) /\ [x EXCEPT !.pc = pc].pc = pc
  BY <1>2 DEF Shaped
<1> QED
  BY <1>1, <1>2, <1>3

(* An importer without a job.                                               *)
LEMMA IdleJob == Shaped(Idle) /\ Idle.pc = "idle"
BY NewJob DEF Idle

(* A step of an import leaves its importer busy, and the others alone.      *)
LEMMA ImportStepIsBusy ==
  ASSUME JobType, NEW i \in Importers, ImportStep(i)
  PROVE  JobType' /\ UNCHANGED import_running /\ \A j \in Importers : Busy(j)' <=> Busy(j)
<1>1. CASE ReadJson(i) \/ ReadMarkdown(i) \/ ReadModified(i) \/ BeginImport(i)
  BY <1>1 DEF ImportStep, ReadJson, ReadMarkdown, ReadModified, BeginImport, JobType, Shaped, Busy
<1>2. CASE Commit(i)
  <2>1. /\ job[i].pc = "commit"
        /\ \E pc \in {"done", "error"} : Finished(i, pc)
    BY <1>2 DEF Commit
  <2> QED
    BY <2>1, NewJob DEF ImportStep, Finished, JobType, Busy
<1> QED
  BY <1>1, <1>2 DEF ImportStep

(* What is queued starts one thread while the flag is down, and raises it.  *)
LEMMA QueueKeepsFlag ==
  ASSUME ImportInv, NEW r, Queue(r)
  PROVE  ImportInv'
<1>1. CASE UNCHANGED <<import_running, job>>
  BY <1>1 DEF ImportInv, JobType, Busy
<1>2. CASE ~import_running /\ import_running' = TRUE
           /\ \E t \in Threads : ~Busy(t) /\ StartJob(t, r, "lock")
  <2>1. PICK t \in Threads : job' = [job EXCEPT ![t] = [NoJob(r) EXCEPT !.pc = "lock"]]
    BY <1>2 DEF StartJob
  <2>2. PICK x : job' = [job EXCEPT ![t] = x] /\ Shaped(x) /\ x.pc = "lock"
    BY <2>1, NewJob
  <2> QED
    BY <1>2, <2>2 DEF ImportInv, JobType, Busy, Importers
<1> QED
  BY <1>1, <1>2 DEF Queue

(* Page views, imports, syncs, scripts and kills keep the flag in step with *)
(* the threads.                                                             *)
LEMMA FlagStep ==
  ASSUME ImportInv, [Next]_vars \/ (\E c \in Runs : RunByHand(c))
  PROVE  ImportInv'
<1> USE DEF ImportInv
<1>1. CASE UNCHANGED <<import_running, job>>
  BY <1>1 DEF JobType, Busy
<1>2. ASSUME NEW s \in Syncs, SyncStep(s)
      PROVE  ImportInv'
  <2>0. s \in Importers /\ s \notin Threads
    BY ImportAssumption DEF Importers
  <2>1. CASE Finish(s)
    <3>1. CASE \E r \in Reports : StartJob(s, r, "read")
      <4>1. PICK r \in Reports : job' = [job EXCEPT ![s] = [NoJob(r) EXCEPT !.pc = "read"]]
        BY <3>1 DEF StartJob
      <4> QED
        BY <2>0, <2>1, <4>1, NewJob DEF Finish, JobType, Busy, Importers
    <3> QED
      BY <1>1, <2>1, <3>1 DEF Finish
  <2>2. CASE SyncEnds(s)
    BY <2>0, <2>2, IdleJob DEF SyncEnds, JobType, Busy, Importers
  <2>3. CASE ImportStep(s)
    BY <2>0, <2>3, ImportStepIsBusy DEF Importers
  <2> QED
    BY <1>1, <1>2, <2>1, <2>2, <2>3
    DEF SyncStep, Task, CreateSyncRun, Spawn, SpawnFails, TruncatePanics, importVars
<1>3. ASSUME NEW v \in Viewers, PageView(v)
      PROVE  ImportInv'
  <2>1. (\E r : Queue(r)) \/ UNCHANGED <<import_running, job>>
    BY <1>3 DEF PageView, Look, Compare
  <2> QED
    BY <1>1, <2>1, QueueKeepsFlag
<1>4. ASSUME NEW r \in Reports, ImportByHand(r)
      PROVE  ImportInv'
  BY <1>4, QueueKeepsFlag DEF ImportByHand
<1>5. ASSUME NEW t \in Threads, ThreadStep(t)
      PROVE  ImportInv'
  <2>0. t \in Importers
    BY DEF Importers
  <2>1. CASE Lock(t)
    BY <2>0, <2>1 DEF Lock, JobType, Shaped, Busy, Importers
  <2>2. CASE ThreadEnds(t)
    BY <2>0, <2>2, IdleJob DEF ThreadEnds, JobType, Busy, Importers
  <2>3. CASE ImportStep(t)
    BY <2>0, <2>3, ImportStepIsBusy DEF Importers
  <2> QED
    BY <1>5, <2>1, <2>2, <2>3 DEF ThreadStep
<1>6. CASE Crash
  BY <1>6, IdleJob DEF Crash, JobType, Busy, Importers
<1> QED
  BY <1>1, <1>2, <1>3, <1>4, <1>5, <1>6
  DEF Next, Unattended, StartSync, ScriptRuns, RunByHand, vars, importVars

(* One import thread at a time, and none refused for ever: the flag is up   *)
(* exactly while a thread is at work (queue_report_import and the thread it *)
(* starts), however page views, syncs, scripts and kills interleave.        *)
THEOREM ImportFlag == Spec => []FlagGuardsOneThread
<1>1. Init => ImportInv
  BY IdleJob DEF Init, ImportInit, ImportInv, JobType, Busy, Importers
<1>2. ImportInv /\ [Next]_vars => ImportInv'
  BY FlagStep
<1>3. ImportInv => FlagGuardsOneThread
  <2> SUFFICES ASSUME ImportInv
               PROVE  FlagGuardsOneThread
    OBVIOUS
  <2>1. Cardinality({t \in Threads : Busy(t)}) <= 1
    BY AtMostOne DEF ImportInv
  <2> QED
    BY <2>1 DEF ImportInv, FlagGuardsOneThread
<1> QED
  BY <1>1, <1>2, <1>3, PTL DEF Spec

-----------------------------------------------------------------------------
(* Rows of reports.  While imports of one report do not overlap, a report   *)
(* has at most one row, and a transaction that is about to commit knows the *)
(* one that is there.                                                       *)

JobFields == {"pc", "report", "content", "events", "mtime", "raced", "old"}

IsJob(x) == DOMAIN x = JobFields /\ x = [k \in JobFields |-> x[k]]

JobsInv ==
  /\ DOMAIN job = Importers /\ job = [i \in Importers |-> job[i]]
  /\ \A i \in Importers : IsJob(job[i]) /\ (Working(i) => job[i].report \in Reports)
  /\ DOMAIN rows = Reports /\ rows = [r \in Reports |-> rows[r]]
  /\ \A v \in Viewers : viewing[v] \subseteq Reports
  /\ DOMAIN viewing = Viewers /\ overlap \in BOOLEAN

RowsInv ==
  ~overlap =>
    /\ \A r \in Reports : rows[r] = <<>> \/ \E x : rows[r] = <<x>>
    /\ \A i, j \in Importers :
         Working(i) /\ Working(j) /\ job[i].report = job[j].report => i = j
    /\ \A i \in Importers : job[i].pc = "commit" => job[i].old = RowIds(job[i].report)

(* A job that begins, and none.                                             *)
LEMMA JobThatBegins ==
  ASSUME NEW r, NEW pc
  PROVE  /\ IsJob([NoJob(r) EXCEPT !.pc = pc]) /\ [NoJob(r) EXCEPT !.pc = pc].pc = pc
         /\ [NoJob(r) EXCEPT !.pc = pc].report = r
         /\ IsJob(NoJob(r)) /\ NoJob(r).pc = "idle"
<1>1. PICK y : y = NoJob(r)
  OBVIOUS
<1>2. IsJob(y) /\ y.report = r /\ y.pc = "idle"
  BY <1>1 DEF NoJob, IsJob, JobFields
<1>3. PICK x : x = [y EXCEPT !.pc = pc]
  OBVIOUS
<1>4. IsJob(x) /\ x.pc = pc /\ x.report = r
  BY <1>2, <1>3 DEF IsJob, JobFields
<1>5. x = [NoJob(r) EXCEPT !.pc = pc]
  BY <1>1, <1>3
<1>6. IsJob([NoJob(r) EXCEPT !.pc = pc])
  BY <1>4, <1>5
<1>7. [NoJob(r) EXCEPT !.pc = pc].pc = pc
  BY <1>4, <1>5
<1>8. [NoJob(r) EXCEPT !.pc = pc].report = r
  BY <1>4, <1>5
<1>9. IsJob(NoJob(r)) /\ NoJob(r).pc = "idle"
  BY <1>1, <1>2
<1> QED
  BY <1>6, <1>7, <1>8, <1>9

LEMMA IdleIsJob == IsJob(Idle) /\ Idle.pc = "idle"
BY JobThatBegins DEF Idle

\* What a step of import i makes of its job (x) and the rows
ImportMoves(i, x) ==
  LET j == job[i]
      same == x.content = j.content /\ x.events = j.events
  IN  \/ j.pc = "read" /\ x.pc = "markdown" /\ x.content = json[j.report] /\ UNCHANGED rows
      \/ j.pc = "read" /\ x.pc = "error" /\ json[j.report].kind = "part" /\ UNCHANGED rows
      \/ j.pc = "markdown" /\ x.pc = "stat" /\ x.content = j.content /\ x.events = md[j.report] /\ UNCHANGED rows
      \/ j.pc = "stat" /\ x.pc = "begin" /\ same /\ UNCHANGED rows
      \/ j.pc = "begin" /\ x.pc = "commit" /\ same /\ x.old = RowIds(j.report) /\ UNCHANGED rows
      \/ /\ j.pc = "commit" /\ x.pc = "done" /\ j.old \subseteq RowIds(j.report)
         /\ rows' = [rows EXCEPT ![j.report] = Append(Left(rows[j.report], j.old), Row(i))]
      \/ j.pc = "commit" /\ x.pc = "error" /\ ~(j.old \subseteq RowIds(j.report)) /\ UNCHANGED rows

(* Each step of an import is one of these.                                  *)
LEMMA ImportStepMoves ==
  ASSUME JobsInv, NEW i \in Importers, ImportStep(i)
  PROVE  \E x : /\ job' = [job EXCEPT ![i] = x] /\ IsJob(x) /\ x.report = job[i].report
               /\ ImportMoves(i, x)
<1>0. PICK j : j = job[i] /\ IsJob(j)
  BY DEF JobsInv
<1>1. CASE ReadJson(i)
  <2>1. CASE job' = [job EXCEPT ![i].pc = "markdown", ![i].content = json[job[i].report]]
    <3>1. PICK x : x = [[j EXCEPT !.pc = "markdown"] EXCEPT !.content = json[j.report]]
      OBVIOUS
    <3>2. IsJob(x) /\ x.report = j.report /\ x.pc = "markdown" /\ x.content = json[j.report]
      BY <1>0, <3>1 DEF IsJob, JobFields
    <3>3. job' = [job EXCEPT ![i] = x]
      BY <1>0, <2>1, <3>1 DEF JobsInv
    <3> QED
      BY <1>0, <1>1, <3>2, <3>3 DEF ReadJson, ImportStep, Commit, ImportMoves
  <2>2. CASE job' = [job EXCEPT ![i].pc = "error"] /\ json[job[i].report].kind = "part"
    <3>1. PICK x : x = [j EXCEPT !.pc = "error"]
      OBVIOUS
    <3>2. IsJob(x) /\ x.report = j.report /\ x.pc = "error"
      BY <1>0, <3>1 DEF IsJob, JobFields
    <3>3. job' = [job EXCEPT ![i] = x]
      BY <1>0, <2>2, <3>1 DEF JobsInv
    <3> QED
      BY <1>0, <1>1, <2>2, <3>2, <3>3 DEF ReadJson, ImportStep, Commit, ImportMoves
  <2> QED
    BY <1>1, <2>1, <2>2 DEF ReadJson
<1>2. CASE ReadMarkdown(i)
  <2>1. PICK x : x = [[j EXCEPT !.pc = "stat"] EXCEPT !.events = md[j.report]]
    OBVIOUS
  <2>2. IsJob(x) /\ x.report = j.report /\ x.pc = "stat" /\ x.content = j.content /\ x.events = md[j.report]
    BY <1>0, <2>1 DEF IsJob, JobFields
  <2>3. job' = [job EXCEPT ![i] = x]
    BY <1>0, <1>2, <2>1 DEF ReadMarkdown, JobsInv
  <2> QED
    BY <1>0, <1>2, <2>2, <2>3 DEF ReadMarkdown, ImportStep, Commit, ImportMoves
<1>3. CASE ReadModified(i)
  <2>1. PICK m, b : job' = [job EXCEPT ![i].pc = "begin", ![i].mtime = m, ![i].raced = b]
    BY <1>3 DEF ReadModified
  <2>2. PICK x : x = [[[j EXCEPT !.pc = "begin"] EXCEPT !.mtime = m] EXCEPT !.raced = b]
    OBVIOUS
  <2>3. IsJob(x) /\ x.report = j.report /\ x.pc = "begin" /\ x.content = j.content /\ x.events = j.events
    BY <1>0, <2>2 DEF IsJob, JobFields
  <2>4. job' = [job EXCEPT ![i] = x]
    BY <1>0, <2>1, <2>2 DEF JobsInv
  <2> QED
    BY <1>0, <1>3, <2>3, <2>4 DEF ReadModified, ImportStep, Commit, ImportMoves
<1>4. CASE BeginImport(i)
  <2>1. PICK x : x = [[j EXCEPT !.pc = "commit"] EXCEPT !.old = RowIds(j.report)]
    OBVIOUS
  <2>2. /\ IsJob(x) /\ x.report = j.report /\ x.pc = "commit" /\ x.content = j.content
        /\ x.events = j.events /\ x.old = RowIds(j.report)
    BY <1>0, <2>1 DEF IsJob, JobFields
  <2>3. job' = [job EXCEPT ![i] = x]
    BY <1>0, <1>4, <2>1 DEF BeginImport, JobsInv
  <2> QED
    BY <1>0, <1>4, <2>2, <2>3 DEF BeginImport, ImportStep, Commit, ImportMoves
<1>5. CASE Commit(i)
  <2>1. PICK pc \in {"done", "error"} :
          /\ job' = [job EXCEPT ![i] = [NoJob(j.report) EXCEPT !.pc = pc]]
          /\ pc = "done" => /\ j.old \subseteq RowIds(j.report)
                            /\ rows' = [rows EXCEPT ![j.report] = Append(Left(rows[j.report], j.old), Row(i))]
          /\ pc = "error" => ~(j.old \subseteq RowIds(j.report)) /\ UNCHANGED rows
    BY <1>0, <1>5 DEF Commit, Finished
  <2>2. PICK x : x = [NoJob(j.report) EXCEPT !.pc = pc]
    OBVIOUS
  <2>3. IsJob(x) /\ x.pc = pc /\ x.report = j.report
    BY <2>2, JobThatBegins
  <2>4. job' = [job EXCEPT ![i] = x]
    BY <2>1, <2>2
  <2> QED
    BY <1>0, <1>5, <2>1, <2>3, <2>4 DEF Commit, ImportMoves
<1> QED
  BY <1>1, <1>2, <1>3, <1>4, <1>5 DEF ImportStep

\* What a step does to the jobs: it leaves them alone, or it gives importer i job x
JobStays == UNCHANGED <<job, rows, overlap>>

JobBegins(i, x) ==
  /\ i \in Threads \/ Finish(i)
  /\ x.pc \in {"lock", "read"} /\ x.report \in Reports /\ UNCHANGED rows
  /\ overlap' = (overlap \/ \E j \in Importers : Working(j) /\ job[j].report = x.report)

JobMoves(i, x) == UNCHANGED overlap /\ Working(i) /\ x.report = job[i].report /\ ImportMoves(i, x)

JobLocked(i, x) ==
  /\ job[i].pc = "lock" /\ x.pc = "read" /\ x.report = job[i].report
  /\ UNCHANGED <<rows, overlap>>

JobEnds(i, x) == ~Working(i) /\ x.pc = "idle" /\ UNCHANGED <<rows, overlap>>

JobStep(i) ==
  \E x : /\ job' = [job EXCEPT ![i] = x] /\ IsJob(x)
         /\ JobBegins(i, x) \/ JobMoves(i, x) \/ JobLocked(i, x) \/ JobEnds(i, x)

(* StartJob, and with it Queue, begins a job or leaves the jobs alone.      *)
LEMMA StartBegins ==
  ASSUME NEW i \in Importers, NEW r \in Reports, NEW pc \in {"lock", "read"},
         StartJob(i, r, pc), UNCHANGED rows, i \in Threads \/ Finish(i)
  PROVE  JobStep(i)
<1>1. PICK x : x = [NoJob(r) EXCEPT !.pc = pc]
  OBVIOUS
<1>2. IsJob(x) /\ x.pc = pc /\ x.report = r
  BY <1>1, JobThatBegins
<1>3. /\ job' = [job EXCEPT ![i] = x]
      /\ overlap' = (overlap \/ \E j \in Importers : Working(j) /\ job[j].report = r)
  BY <1>1 DEF StartJob
<1> QED
  BY <1>2, <1>3 DEF JobStep, JobBegins

LEMMA QueueBegins ==
  ASSUME NEW r \in Reports, Queue(r), UNCHANGED rows
  PROVE  JobStays \/ \E t \in Threads : JobStep(t)
BY StartBegins DEF Queue, JobStays, Importers

(* A thread that takes the mutex.                                           *)
LEMMA LockStep ==
  ASSUME JobsInv, NEW t \in Threads, Lock(t)
  PROVE  JobStep(t)
<1>0. PICK j : j = job[t] /\ IsJob(j)
  BY DEF JobsInv, Importers
<1>1. PICK x : x = [j EXCEPT !.pc = "read"]
  OBVIOUS
<1>2. IsJob(x) /\ x.report = j.report /\ x.pc = "read"
  BY <1>0, <1>1 DEF IsJob, JobFields
<1>3. job' = [job EXCEPT ![t] = x]
  BY <1>0, <1>1 DEF Lock, JobsInv, Importers
<1> QED
  BY <1>0, <1>2, <1>3 DEF Lock, JobStep, JobLocked

(* An importer that is through.                                             *)
LEMMA EndStep ==
  ASSUME NEW i \in Importers, job[i].pc \in {"done", "error"}, job' = [job EXCEPT ![i] = Idle],
         UNCHANGED <<rows, overlap>>
  PROVE  JobStep(i)
<1>1. PICK x : x = Idle /\ IsJob(x) /\ x.pc = "idle"
  BY IdleIsJob
<1> QED
  BY <1>1 DEF JobStep, JobEnds, Working

LEMMA MoveStep ==
  ASSUME JobsInv, NEW i \in Importers, ImportStep(i)
  PROVE  JobStep(i)
<1>1. PICK x : /\ job' = [job EXCEPT ![i] = x] /\ IsJob(x) /\ x.report = job[i].report
               /\ ImportMoves(i, x)
  BY ImportStepMoves
<1>2. Working(i) /\ UNCHANGED overlap
  BY DEF ImportStep, ReadJson, ReadMarkdown, ReadModified, BeginImport, Commit, Working
<1> QED
  BY <1>1, <1>2 DEF JobStep, JobMoves

(* Every step of the application leaves the jobs alone, gives one importer  *)
(* a job, or is a kill; so says queue_report_import's place in each caller. *)
LEMMA StepKinds ==
  ASSUME JobsInv, [Next]_vars \/ (\E c \in Runs : RunByHand(c))
  PROVE  \/ UNCHANGED crashes /\ (JobStays \/ \E i \in Importers : JobStep(i))
         \/ Crash
<1>0. UNCHANGED crashes \/ Crash
  BY DEF Next, Unattended, SyncStep, Task, CreateSyncRun, Spawn, SpawnFails, TruncatePanics, Finish,
        SyncEnds, PageView, ThreadStep, ScriptRuns, RunByHand, StartSync, syncVars, vars
<1>1. ASSUME UNCHANGED vars \/ (\E s \in Syncs : StartSync(s))
             \/ (\E c \in Runs : ScriptRuns(c) \/ RunByHand(c))
      PROVE  JobStays
  BY <1>1 DEF vars, importVars, StartSync, ScriptRuns, RunByHand, JobStays
<1>2. ASSUME NEW s \in Syncs, SyncStep(s)
      PROVE  JobStays \/ JobStep(s)
  <2>0. s \in Importers
    BY DEF Importers
  <2>1. CASE Finish(s)
    BY <2>0, <2>1, StartBegins DEF Finish, JobStays
  <2>2. CASE SyncEnds(s)
    BY <2>0, <2>2, EndStep DEF SyncEnds
  <2>3. CASE ImportStep(s)
    BY <2>0, <2>3, MoveStep
  <2> QED
    BY <1>2, <2>1, <2>2, <2>3
    DEF SyncStep, Task, CreateSyncRun, Spawn, SpawnFails, TruncatePanics, importVars, JobStays
<1>3. ASSUME NEW v \in Viewers, PageView(v)
      PROVE  JobStays \/ \E i \in Importers : JobStep(i)
  <2>1. CASE Look(v)
    BY <2>1 DEF Look, JobStays
  <2>2. CASE Compare(v)
    <3>1. PICK r \in Reports : UNCHANGED <<job, overlap>> \/ Queue(r)
      BY <2>2 DEF Compare, JobsInv
    <3> QED
      BY <2>2, <3>1, QueueBegins DEF Compare, JobStays, Importers
  <2> QED
    BY <1>3, <2>1, <2>2 DEF PageView
<1>4. ASSUME NEW r \in Reports, ImportByHand(r)
      PROVE  JobStays \/ \E i \in Importers : JobStep(i)
  BY <1>4, QueueBegins DEF ImportByHand, Importers
<1>5. ASSUME NEW t \in Threads, ThreadStep(t)
      PROVE  t \in Importers /\ JobStep(t)
  <2>0. t \in Importers
    BY DEF Importers
  <2>1. CASE ThreadEnds(t)
    BY <2>0, <2>1, EndStep DEF ThreadEnds
  <2> QED
    BY <1>5, <2>0, <2>1, LockStep, MoveStep DEF ThreadStep
<1> QED
  BY <1>0, <1>1, <1>2, <1>3, <1>4, <1>5 DEF Next, Unattended, Importers

(* Jobs keep their shape, and page views their reports.                     *)
LEMMA JobsStep ==
  ASSUME JobsInv, [Next]_vars \/ (\E c \in Runs : RunByHand(c))
  PROVE  JobsInv'
<1>1. DOMAIN viewing' = Viewers /\ \A v \in Viewers : viewing'[v] \subseteq Reports
  <2>1. CASE UNCHANGED viewing
    BY <2>1 DEF JobsInv
  <2>2. ASSUME NEW v \in Viewers, Look(v) \/ Compare(v)
        PROVE  \E R : R \subseteq Reports /\ viewing' = [viewing EXCEPT ![v] = R]
    BY <2>2 DEF Look, Compare, Latest
  <2>3. CASE Crash
    BY <2>3 DEF Crash
  <2> QED
    BY <2>1, <2>2, <2>3
    DEF Next, Unattended, SyncStep, Task, CreateSyncRun, Spawn, SpawnFails, TruncatePanics, Finish,
        SyncEnds, PageView, ImportByHand, ThreadStep, Lock, ThreadEnds, ImportStep, ScriptRuns,
        RunByHand, StartSync, importVars, vars, JobsInv
<1>2. CASE JobStays
  BY <1>1, <1>2 DEF JobStays, JobsInv, Working
<1>3. ASSUME NEW i \in Importers, JobStep(i)
      PROVE  JobsInv'
  <2>1. PICK x : /\ job' = [job EXCEPT ![i] = x] /\ IsJob(x)
                 /\ JobBegins(i, x) \/ JobMoves(i, x) \/ JobLocked(i, x) \/ JobEnds(i, x)
    BY <1>3 DEF JobStep
  <2>2. overlap' \in BOOLEAN
    BY <2>1 DEF JobBegins, JobMoves, JobLocked, JobEnds, JobsInv
  <2>3. x.pc \notin {"idle", "done", "error"} => x.report \in Reports
    BY <2>1 DEF JobBegins, JobMoves, JobLocked, JobEnds, JobsInv, Working
  <2>4. DOMAIN rows' = Reports /\ rows' = [r \in Reports |-> rows'[r]]
    BY <2>1 DEF JobBegins, JobMoves, ImportMoves, JobLocked, JobEnds, JobsInv
  <2>5. \A k \in Importers : IsJob(job'[k]) /\ (Working(k)' => job'[k].report \in Reports)
    BY <2>1, <2>3 DEF JobsInv, Working
  <2> QED
    BY <1>1, <2>1, <2>2, <2>4, <2>5 DEF JobsInv
<1>4. CASE Crash
  BY <1>1, <1>4, IdleIsJob DEF Crash, JobsInv, Working
<1> QED
  BY <1>2, <1>3, <1>4, StepKinds

(* A transaction that removes all the rows it finds leaves one.             *)
LEMMA AllRowsGo ==
  ASSUME NEW s, NEW gone, NEW y, gone = {s[k].id : k \in 1..Len(s)}
  PROVE  Append(Left(s, gone), y) = <<y>>
<1>1. PICK K : K = {k \in 1..Len(s) : s[k].id \notin gone}
  OBVIOUS
<1>2. K = {}
  BY <1>1
<1>3. Cardinality(K) = 0
  BY <1>2, FS_EmptySet
<1>4. Left(s, gone)
        = [n \in 1..Cardinality(K) |-> s[CHOOSE k \in K : Cardinality({j \in K : j <= k}) = n]]
  BY <1>1 DEF Left
<1>5. PICK L : L = Left(s, gone)
  OBVIOUS
<1>6. L = <<>>
  BY <1>3, <1>4, <1>5
<1>7. Append(L, y) = <<y>>
  BY <1>6
<1> QED
  BY <1>5, <1>7

(* A commit with nothing that overlapped.                                   *)
LEMMA CommitLeavesOne ==
  ASSUME JobsInv, RowsInv, ~overlap, NEW i \in Importers, job[i].pc = "commit",
         rows' = [rows EXCEPT ![job[i].report] = Append(Left(rows[job[i].report], job[i].old), Row(i))]
  PROVE  \E y : rows'[job[i].report] = <<y>> /\ y.content = job[i].content /\ y.events = job[i].events
<1>1. job[i].report \in Reports /\ job[i].old = RowIds(job[i].report)
  BY DEF RowsInv, JobsInv, Working
<1>2. PICK s : s = rows[job[i].report]
  OBVIOUS
<1>3. job[i].old = {s[k].id : k \in 1..Len(s)}
  BY <1>1, <1>2 DEF RowIds
<1>4. Append(Left(s, job[i].old), Row(i)) = <<Row(i)>>
  BY <1>3, AllRowsGo
<1>5. rows'[job[i].report] = <<Row(i)>>
  BY <1>1, <1>2, <1>4 DEF JobsInv
<1>6. Row(i).content = job[i].content /\ Row(i).events = job[i].events
  BY DEF Row
<1> QED
  BY <1>5, <1>6

(* While imports of one report do not overlap, the rows that an import      *)
(* finds are the ones that it replaces.                                     *)
LEMMA RowsStep ==
  ASSUME JobsInv, RowsInv, [Next]_vars \/ (\E c \in Runs : RunByHand(c))
  PROVE  RowsInv'
<1>1. CASE JobStays
  BY <1>1 DEF JobStays, RowsInv, Working, RowIds
<1>2. ASSUME NEW i \in Importers, JobStep(i), ~overlap'
      PROVE  RowsInv'
  <2>1. PICK x : /\ job' = [job EXCEPT ![i] = x] /\ IsJob(x)
                 /\ JobBegins(i, x) \/ JobMoves(i, x) \/ JobLocked(i, x) \/ JobEnds(i, x)
    BY <1>2 DEF JobStep
  <2>2. ~overlap
    BY <1>2, <2>1 DEF JobBegins, JobMoves, JobLocked, JobEnds, JobsInv
  <2>3. x.pc \notin {"idle", "done", "error"} =>
          \A j \in Importers : Working(j) /\ job[j].report = x.report => j = i
    BY <1>2, <2>1, <2>2 DEF JobBegins, JobMoves, JobLocked, JobEnds, RowsInv, Working
  <2>4. ASSUME NEW j \in Importers, NEW k \in Importers, Working(j)', Working(k)',
               job'[j].report = job'[k].report
        PROVE  j = k
    BY <2>1, <2>2, <2>3, <2>4 DEF RowsInv, Working, JobsInv
  <2>5. /\ \A r \in Reports : r = job[i].report \/ rows'[r] = rows[r]
        /\ rows' = rows \/ (Working(i) /\ x.pc = "done" /\ \E y : rows'[job[i].report] = <<y>>)
    <3>1. CASE UNCHANGED rows
      BY <3>1
    <3>2. CASE JobMoves(i, x) /\ job[i].pc = "commit" /\ x.pc = "done"
               /\ rows' = [rows EXCEPT ![job[i].report] = Append(Left(rows[job[i].report], job[i].old), Row(i))]
      <4>1. \E y : rows'[job[i].report] = <<y>>
        BY <2>2, <3>2, CommitLeavesOne
      <4> QED
        BY <3>2, <4>1 DEF JobsInv, Working
    <3> QED
      BY <2>1, <3>1, <3>2 DEF JobBegins, JobMoves, ImportMoves, JobLocked, JobEnds
  <2>6. \A r \in Reports : rows'[r] = <<>> \/ \E y : rows'[r] = <<y>>
    BY <2>2, <2>5 DEF RowsInv
  <2>7. ASSUME NEW j \in Importers, job'[j].pc = "commit"
        PROVE  (job[j].old = RowIds(job[j].report))'
    <3>1. CASE j = i
      <4>1. x = job'[i] /\ x.pc = "commit"
        BY <2>1, <2>7, <3>1 DEF JobsInv
      <4>2. x.report = job[i].report /\ x.old = RowIds(job[i].report) /\ UNCHANGED rows
        BY <2>1, <4>1 DEF JobBegins, JobMoves, ImportMoves, JobLocked, JobEnds
      <4>3. RowIds(job[i].report)' = RowIds(job[i].report)
        BY <4>1, <4>2 DEF RowIds
      <4> QED
        BY <3>1, <4>1, <4>2, <4>3
    <3>2. CASE j # i
      <4>1. job'[j] = job[j] /\ Working(j)
        BY <2>1, <2>7, <3>2 DEF JobsInv, Working
      <4>2. Working(i) => job[i].report # job[j].report
        BY <2>2, <3>2, <4>1 DEF RowsInv
      <4>3. rows'[job[j].report] = rows[job[j].report]
        BY <2>5, <4>1, <4>2 DEF JobsInv
      <4>4. RowIds(job[j].report)' = RowIds(job[j].report)
        BY <4>1, <4>3 DEF RowIds
      <4> QED
        BY <2>2, <2>7, <4>1, <4>4 DEF RowsInv
    <3> QED
      BY <3>1, <3>2
  <2> QED
    BY <2>4, <2>6, <2>7 DEF RowsInv
<1>3. CASE Crash
  BY <1>3, IdleIsJob DEF Crash, RowsInv, Working
<1> QED
  BY <1>1, <1>2, <1>3, StepKinds DEF RowsInv

(* One row per report, however page views, requests and syncs of several    *)
(* reports interleave and whatever kills the process (import_report_file's  *)
(* transaction), unless imports of that kind overlapped.                    *)
THEOREM OneRow == WebSpec => []OneRowPerReport
<1>1. WebInit => JobsInv /\ RowsInv
  BY IdleIsJob DEF WebInit, Init, ImportInit, JobsInv, RowsInv, Working
<1>2. JobsInv /\ RowsInv /\ [WebNext]_webVars => JobsInv' /\ RowsInv'
  <2> SUFFICES ASSUME JobsInv, RowsInv, [WebNext]_webVars
               PROVE  JobsInv' /\ RowsInv'
    OBVIOUS
  <2>1. [Next]_vars \/ \E c \in Runs : RunByHand(c)
    BY DEF WebNext, webVars, Reporting, Summarizing, Exporting, Killed, Next
  <2> QED
    BY <2>1, JobsStep, RowsStep
<1>3. JobsInv /\ RowsInv => OneRowPerReport
  <2> SUFFICES ASSUME JobsInv, RowsInv, NEW r \in Reports, ~overlap
               PROVE  ~(Len(rows[r]) > 1)
    BY DEF OneRowPerReport, JobsInv
  <2>1. rows[r] = <<>> => Len(rows[r]) = 0
    OBVIOUS
  <2>2. ASSUME NEW x, rows[r] = <<x>>
        PROVE  Len(rows[r]) = 1
    BY <2>2
  <2>3. PICK n : n = Len(rows[r])
    OBVIOUS
  <2>4. n = 0 \/ n = 1
    BY <2>1, <2>2, <2>3 DEF RowsInv
  <2>5. ~(n > 1)
    BY <2>4
  <2> QED
    BY <2>3, <2>5
<1> QED
  BY <1>1, <1>2, <1>3, PTL DEF WebSpec

-----------------------------------------------------------------------------
(* Scripts that the application started.  While the process lives, only the *)
(* task that holds the mutex has a script under way; a kill leaves at most  *)
(* that one behind, without a task.                                         *)

Underway(s) == script[s] # "off" /\ ~Ended(s)

Orphans == {s \in Syncs : Underway(s) /\ sync[s] = "over"}

TurnsInv ==
  /\ script \in [Runs -> {"off", "rsync", "json", "more", "markdown", "count", "ok", "failed"}]
  /\ sync \in [Syncs -> {"none", "queued", "spawn", "wait", "import", "over"}]
  /\ crashes \in Nat
  /\ \A s \in Syncs : /\ sync[s] \in {"spawn", "wait", "import"} => sync_lock = s
                      /\ sync[s] \in {"none", "queued", "spawn"} => script[s] = "off"
                      /\ sync[s] = "import" => Ended(s)
  /\ IsFiniteSet(Orphans) /\ Cardinality(Orphans) <= crashes

(* Fewer orphans are no more than there were.                               *)
LEMMA FewerOrphans ==
  ASSUME TurnsInv, UNCHANGED crashes, Orphans' \subseteq Orphans
  PROVE  IsFiniteSet(Orphans') /\ Cardinality(Orphans') <= crashes'
<1>1. /\ IsFiniteSet(Orphans) /\ Cardinality(Orphans) \in Nat /\ crashes \in Nat
      /\ Cardinality(Orphans) <= crashes
  BY FS_CardinalityType DEF TurnsInv
<1>2. IsFiniteSet(Orphans') /\ Cardinality(Orphans') <= Cardinality(Orphans)
  BY <1>1, FS_Subset
<1>3. Cardinality(Orphans') \in Nat
  BY <1>2, FS_CardinalityType
<1> QED
  BY <1>1, <1>2, <1>3

(* All scripts under way are orphans, but for the one of the mutex.         *)
LEMMA UnderwayBound ==
  ASSUME TurnsInv, NEW S, S \subseteq {s \in Syncs : Underway(s)}
  PROVE  IsFiniteSet(S) /\ Cardinality(S) <= 1 + crashes
<1>0. IsFiniteSet(Orphans) /\ Cardinality(Orphans) \in Nat /\ crashes \in Nat
      /\ Cardinality(Orphans) <= crashes
  BY FS_CardinalityType DEF TurnsInv
<1>1. S \subseteq Orphans \union {sync_lock}
  BY DEF TurnsInv, Orphans, Underway
<1>2. PICK U : U = Orphans \union {sync_lock}
  OBVIOUS
<1>3. IsFiniteSet(U) /\ Cardinality(U) \in {Cardinality(Orphans), Cardinality(Orphans) + 1}
  BY <1>0, <1>2, FS_AddElement
<1>4. IsFiniteSet(S) /\ Cardinality(S) <= Cardinality(U)
  BY <1>1, <1>2, <1>3, FS_Subset
<1>5. Cardinality(S) \in Nat
  BY <1>4, FS_CardinalityType
<1> QED
  BY <1>0, <1>3, <1>4, <1>5

(* A task keeps the mutex until its script has ended.                       *)
LEMMA TurnsStep ==
  ASSUME TurnsInv, [Next]_vars \/ (\E c \in Runs : RunByHand(c))
  PROVE  TurnsInv'
<1>0. Syncs \subseteq Runs /\ NoRun \notin Syncs
  BY ScriptAssumption, ImportAssumption
<1>1. CASE UNCHANGED <<script, sync, sync_lock, crashes>>
  <2>1. Orphans' = Orphans
    BY <1>1 DEF Orphans, Underway, Ended
  <2> QED
    BY <1>1, <2>1 DEF TurnsInv, Ended
<1>2. ASSUME NEW s \in Syncs, StartSync(s) \/ Task(s)
      PROVE  TurnsInv'
  <2>1. Orphans' \subseteq Orphans /\ UNCHANGED crashes
    BY <1>0, <1>2
    DEF TurnsInv, StartSync, Task, CreateSyncRun, Spawn, SpawnFails, TruncatePanics, Finish,
        SyncEnds, TaskEnds, scriptVars, Orphans, Underway, Ended
  <2>2. /\ script' \in [Runs -> {"off", "rsync", "json", "more", "markdown", "count", "ok", "failed"}]
        /\ sync' \in [Syncs -> {"none", "queued", "spawn", "wait", "import", "over"}]
    BY <1>2
    DEF TurnsInv, StartSync, Task, CreateSyncRun, Spawn, SpawnFails, TruncatePanics, Finish,
        SyncEnds, TaskEnds, scriptVars
  <2>3. ASSUME NEW q \in Syncs
        PROVE  /\ sync'[q] \in {"spawn", "wait", "import"} => sync_lock' = q
               /\ sync'[q] \in {"none", "queued", "spawn"} => script'[q] = "off"
               /\ sync'[q] = "import" => Ended(q)'
    <3>1. CASE StartSync(s)
      BY <1>0, <3>1 DEF TurnsInv, StartSync, scriptVars, Ended
    <3>2. CASE CreateSyncRun(s)
      BY <1>0, <3>2 DEF TurnsInv, CreateSyncRun, scriptVars, Ended
    <3>3. CASE Spawn(s)
      BY <1>0, <3>3 DEF TurnsInv, Spawn, Ended
    <3>4. CASE SpawnFails(s) \/ TruncatePanics(s)
      BY <1>0, <3>4 DEF TurnsInv, SpawnFails, TruncatePanics, TaskEnds, scriptVars, Ended
    <3>5. CASE Finish(s)
      BY <1>0, <3>5 DEF TurnsInv, Finish, TaskEnds, scriptVars, Ended
    <3>6. CASE SyncEnds(s)
      BY <1>0, <3>6 DEF TurnsInv, SyncEnds, TaskEnds, scriptVars, Ended
    <3> QED
      BY <1>2, <3>1, <3>2, <3>3, <3>4, <3>5, <3>6 DEF Task
  <2> QED
    BY <2>1, <2>2, <2>3, FewerOrphans DEF TurnsInv
<1>3. ASSUME NEW c \in Runs, ScriptRuns(c) \/ RunByHand(c)
      PROVE  TurnsInv'
  <2>1. UNCHANGED <<sync, sync_lock, crashes>>
    BY <1>3 DEF ScriptRuns, RunByHand, syncVars
  <2>2. \E pc \in {"rsync", "json", "more", "markdown", "count", "ok", "failed"} :
          script' = [script EXCEPT ![c] = pc]
    BY <1>3 DEF ScriptRuns, RunByHand, ScriptStep, TruncateJson, WriteSome, WriteRest, PutJson,
                TruncateMarkdown, WriteMarkdown, ScriptFails
  <2>3. (c \in Syncs => script[c] # "off") /\ ~Ended(c)
    BY <1>3 DEF ScriptRuns, RunByHand, ScriptStep, TruncateJson, WriteSome, WriteRest,
                TruncateMarkdown, WriteMarkdown, ScriptFails, Ended
  <2>4. Orphans' \subseteq Orphans
    BY <2>1, <2>2, <2>3 DEF TurnsInv, Orphans, Underway, Ended
  <2>5. IsFiniteSet(Orphans') /\ Cardinality(Orphans') <= crashes'
    BY <2>1, <2>4, FewerOrphans
  <2> QED
    BY <2>1, <2>2, <2>3, <2>5 DEF TurnsInv, Ended
<1>4. CASE Crash
  <2>1. UNCHANGED script /\ crashes' = crashes + 1 /\ crashes' \in Nat
        /\ sync' = [s \in Syncs |-> IF sync[s] = "none" THEN "none" ELSE "over"]
    BY <1>4 DEF Crash, scriptVars, TurnsInv
  <2>2. Orphans' \subseteq {s \in Syncs : Underway(s)}
    BY <2>1 DEF Orphans, Underway, Ended
  <2>3. IsFiniteSet(Orphans') /\ Cardinality(Orphans') <= 1 + crashes
    BY <2>2, UnderwayBound
  <2>4. IsFiniteSet(Orphans') /\ Cardinality(Orphans') <= crashes'
    BY <2>1, <2>3 DEF TurnsInv
  <2> QED
    BY <2>1, <2>4 DEF TurnsInv, Ended
<1> QED
  BY <1>1, <1>2, <1>3, <1>4
  DEF Next, Unattended, SyncStep, PageView, ImportByHand, ThreadStep, scriptVars, syncVars, vars

(* The button never has two scripts at work, but for those that outlived a  *)
(* kill of the web process, one per kill (start_sync and its task), also    *)
(* beside runs from a shell, summaries and exports.                         *)
THEOREM SyncTurns == WebSpec => []SyncsTakeTurns
<1>1. WebInit => TurnsInv
  <2> SUFFICES ASSUME WebInit
               PROVE  TurnsInv
    OBVIOUS
  <2>1. Orphans = {} /\ crashes = 0
    BY DEF WebInit, Init, Orphans
  <2> QED
    BY <2>1, FS_EmptySet, SyncAssumption, ImportAssumption
    DEF TurnsInv, WebInit, Init, ScriptInit, ImportInit
<1>2. TurnsInv /\ [WebNext]_webVars => TurnsInv'
  <2> SUFFICES ASSUME TurnsInv, [WebNext]_webVars
               PROVE  TurnsInv'
    OBVIOUS
  <2>1. [Next]_vars \/ \E c \in Runs : RunByHand(c)
    BY DEF WebNext, webVars, Reporting, Summarizing, Exporting, Killed, Next
  <2> QED
    BY <2>1, TurnsStep
<1>3. TurnsInv => SyncsTakeTurns
  BY UnderwayBound DEF SyncsTakeTurns, Underway
<1> QED
  BY <1>1, <1>2, <1>3, PTL DEF WebSpec

-----------------------------------------------------------------------------
(* What a sync leaves in the database.  From the moment a sync records its  *)
(* success, and for as long as its files stay the latest and untouched,     *)
(* every import of its report reads what it wrote, and its own import is    *)
(* under way or the row it was for is there.                                *)

FilesInv ==
  /\ clock \in Nat /\ mtime \in [Reports -> Nat] /\ DOMAIN script = Runs
  /\ DOMAIN json = Reports /\ DOMAIN md = Reports
  /\ \A r \in Reports : mtime[r] <= clock
  /\ \A r, q \in Reports : Exists(r) /\ Exists(q) /\ mtime[r] = mtime[q] => r = q
  /\ DOMAIN status = Syncs
  /\ \A s \in Syncs : status[s] = "success" => script[s] = "ok"

\* The report of s is what s wrote, and nothing newer is there
OnDisk(s) ==
  /\ json[Target[s]] = [by |-> s, kind |-> "full"] /\ md[Target[s]] = s
  /\ Target[s] \in Latest

Synced(s) == status[s] = "success" /\ OnDisk(s) /\ crashes = 0 /\ ~overlap

\* Job j of report r has read what is there
ReadsCurrent(j, r) ==
  /\ j.pc \in {"markdown", "stat", "begin", "commit"} => j.content = json[r]
  /\ j.pc \in {"stat", "begin", "commit"} => j.events = md[r]

Shows(r) == \E x : rows[r] = <<x>> /\ x.content = json[r] /\ x.events = md[r]

SyncedInv ==
  \A s \in Syncs : Synced(s) =>
    /\ \A i \in Importers : Working(i) /\ job[i].report = Target[s] => ReadsCurrent(job[i], Target[s])
    /\ (Working(s) /\ job[s].report = Target[s]) \/ Shows(Target[s])

\* What scripts do to the files
FilesStay == UNCHANGED <<json, mtime, md, clock>>

MarkdownWritten(c) ==
  /\ UNCHANGED <<json, mtime, clock>>
  /\ \E m \in {NoRun, c} : md' = [md EXCEPT ![Target[c]] = m]

JsonWritten(c) ==
  /\ clock' = clock + 1 /\ mtime' = [mtime EXCEPT ![Target[c]] = clock + 1] /\ UNCHANGED md
  /\ \E kind \in {"empty", "part", "full"} :
       json' = [json EXCEPT ![Target[c]] = [by |-> c, kind |-> kind]]

(* A script writes its own report, with a time that no file has yet.        *)
LEMMA ScriptWrites ==
  ASSUME FilesInv, NEW c \in Runs, ScriptStep(c)
  PROVE  /\ ~Ended(c)
         /\ FilesStay \/ MarkdownWritten(c) \/ JsonWritten(c)
         /\ DOMAIN script' = Runs /\ \A d \in Runs : d # c => script'[d] = script[d]
<1>1. CASE TruncateMarkdown(c) \/ WriteMarkdown(c) \/ ScriptFails(c)
  BY <1>1 DEF TruncateMarkdown, WriteMarkdown, ScriptFails, Ended, FilesInv, FilesStay, MarkdownWritten
<1>2. ASSUME NEW kind \in {"empty", "part", "full"}, NEW pc, PutJson(c, kind, pc)
      PROVE  /\ JsonWritten(c)
             /\ DOMAIN script' = Runs /\ \A d \in Runs : d # c => script'[d] = script[d]
  BY <1>2 DEF PutJson, FilesInv, JsonWritten
<1>3. CASE TruncateJson(c) \/ WriteSome(c) \/ WriteRest(c)
  <2>1. ~Ended(c)
    BY <1>3 DEF TruncateJson, WriteSome, WriteRest, Ended
  <2>2. \E kind \in {"empty", "part", "full"}, pc \in {"json", "more", "markdown"} : PutJson(c, kind, pc)
    BY <1>3 DEF TruncateJson, WriteSome, WriteRest
  <2> QED
    BY <1>2, <2>1, <2>2
<1> QED
  BY <1>1, <1>3 DEF ScriptStep

(* A step is one of a script, or leaves the files alone; then it is the one *)
(* in which a sync records how its script ended, or records no success.     *)
LEMMA FileKinds ==
  ASSUME FilesInv, [Next]_vars \/ (\E c \in Runs : RunByHand(c))
  PROVE  \/ \E c \in Runs : ScriptRuns(c)
         \/ /\ FilesStay /\ DOMAIN script' = Runs
            /\ \A s \in Syncs : script[s] = "ok" => script'[s] = "ok" \/ Spawn(s)
            /\ \/ \E s \in Syncs : Finish(s)
               \/ /\ DOMAIN status' = Syncs
                  /\ \A s \in Syncs : status'[s] = status[s] \/ status'[s] = "running"
<1>1. CASE UNCHANGED vars \/ Crash
  BY <1>1 DEF vars, scriptVars, syncVars, Crash, FilesStay, FilesInv
<1>2. ASSUME NEW s \in Syncs, StartSync(s) \/ (SyncStep(s) /\ ~Finish(s))
      PROVE  /\ FilesStay /\ DOMAIN script' = Runs
             /\ \A q \in Syncs : script[q] = "ok" => script'[q] = "ok" \/ Spawn(q)
             /\ DOMAIN status' = Syncs
             /\ \A q \in Syncs : status'[q] = status[q] \/ status'[q] = "running"
  <2>0. Syncs \subseteq Runs
    BY ImportAssumption
  <2>1. CASE Spawn(s)
    BY <2>0, <2>1 DEF Spawn, FilesStay, FilesInv
  <2>2. CASE CreateSyncRun(s)
    BY <2>2 DEF CreateSyncRun, scriptVars, FilesStay, FilesInv
  <2>3. CASE StartSync(s) \/ SpawnFails(s) \/ TruncatePanics(s) \/ SyncEnds(s) \/ UNCHANGED <<scriptVars, syncVars>>
    BY <2>3 DEF StartSync, SpawnFails, TruncatePanics, SyncEnds, scriptVars, syncVars, FilesStay, FilesInv
  <2> QED
    BY <1>2, <2>1, <2>2, <2>3 DEF SyncStep, Task
<1>3. ASSUME NEW s \in Syncs, Finish(s)
      PROVE  FilesStay /\ UNCHANGED script
  BY <1>3 DEF Finish, scriptVars, FilesStay
<1>4. ASSUME NEW c \in Runs, RunByHand(c)
      PROVE  /\ FilesStay /\ DOMAIN script' = Runs /\ UNCHANGED status
             /\ \A s \in Syncs : script[s] = "ok" => script'[s] = "ok"
  BY <1>4, ImportAssumption DEF RunByHand, syncVars, FilesStay, FilesInv
<1>5. CASE UNCHANGED <<scriptVars, syncVars>>
  BY <1>5 DEF scriptVars, syncVars, FilesStay, FilesInv
<1>6. UNCHANGED status => DOMAIN status' = Syncs
  BY DEF FilesInv
<1>7. UNCHANGED script => DOMAIN script' = Runs
  BY DEF FilesInv
<1> QED
  BY <1>1, <1>2, <1>3, <1>4, <1>5, <1>6, <1>7 DEF Next, Unattended, PageView, ThreadStep

LEMMA FilesStep ==
  ASSUME FilesInv, TurnsInv, [Next]_vars \/ (\E c \in Runs : RunByHand(c))
  PROVE  FilesInv'
<1>0. Syncs \subseteq Runs /\ Target \in [Runs -> Reports]
  BY ScriptAssumption, ImportAssumption
<1>1. ASSUME NEW c \in Runs, ScriptRuns(c)
      PROVE  FilesInv'
  <2>1. /\ ~Ended(c) /\ UNCHANGED status
        /\ FilesStay \/ MarkdownWritten(c) \/ JsonWritten(c)
        /\ DOMAIN script' = Runs /\ \A d \in Runs : d # c => script'[d] = script[d]
    BY <1>1, ScriptWrites DEF ScriptRuns, syncVars
  <2>2. DOMAIN status' = Syncs /\ \A s \in Syncs : status'[s] = "success" => script'[s] = "ok"
    BY <1>0, <2>1 DEF FilesInv, Ended
  <2>3. /\ clock' \in Nat /\ mtime' \in [Reports -> Nat] /\ DOMAIN json' = Reports /\ DOMAIN md' = Reports
        /\ \A r \in Reports : mtime'[r] <= clock'
    BY <1>0, <2>1 DEF FilesStay, MarkdownWritten, JsonWritten, FilesInv
  <2>4. ASSUME NEW r \in Reports, NEW q \in Reports, Exists(r)', Exists(q)', mtime'[r] = mtime'[q]
        PROVE  r = q
    <3>1. CASE JsonWritten(c)
      <4>1. PICK k \in Reports : k = Target[c]
        BY <1>0
      <4>2. /\ mtime' = [mtime EXCEPT ![k] = clock + 1]
            /\ \E x : json' = [json EXCEPT ![k] = x]
        BY <3>1, <4>1 DEF JsonWritten
      <4>3. CASE r # k /\ q # k
        BY <2>4, <4>2, <4>3 DEF FilesInv, Exists
      <4>4. CASE r = k \/ q = k
        BY <2>4, <4>2, <4>4 DEF FilesInv
      <4> QED
        BY <4>3, <4>4
    <3>2. CASE UNCHANGED <<json, mtime>>
      BY <2>4, <3>2 DEF FilesInv, Exists
    <3> QED
      BY <2>1, <3>1, <3>2 DEF FilesStay, MarkdownWritten
  <2> QED
    BY <2>1, <2>2, <2>3, <2>4 DEF FilesInv
<1>2. CASE /\ FilesStay /\ DOMAIN script' = Runs
           /\ \A s \in Syncs : script[s] = "ok" => script'[s] = "ok" \/ Spawn(s)
           /\ \/ \E s \in Syncs : Finish(s)
              \/ /\ DOMAIN status' = Syncs
                 /\ \A s \in Syncs : status'[s] = status[s] \/ status'[s] = "running"
  <2>1. \A s \in Syncs : script[s] = "ok" => script'[s] = "ok"
    BY <1>2 DEF Spawn, TurnsInv
  <2>2. DOMAIN status' = Syncs /\ \A s \in Syncs : status'[s] = "success" => script[s] = "ok"
    BY <1>2 DEF Finish, StatusOf, FilesInv
  <2>3. \A r \in Reports : Exists(r)' <=> Exists(r)
    BY <1>2 DEF FilesStay, Exists
  <2> QED
    BY <1>2, <2>1, <2>2, <2>3 DEF FilesStay, FilesInv
<1> QED
  BY <1>1, <1>2, FileKinds

(* No script touches the report of a sync that is still what the sync left. *)
LEMMA ScriptKeepsSynced ==
  ASSUME FilesInv, NEW c \in Runs, ScriptRuns(c), NEW s \in Syncs, Synced(s)'
  PROVE  Synced(s) /\ json'[Target[s]] = json[Target[s]] /\ md'[Target[s]] = md[Target[s]]
<1>0. s \in Runs /\ Target \in [Runs -> Reports] /\ NoRun \notin Runs
  BY ScriptAssumption, ImportAssumption
<1>1. status[s] = "success" /\ crashes = 0 /\ ~overlap /\ UNCHANGED <<importVars, syncVars>>
  BY DEF Synced, ScriptRuns, importVars, syncVars
<1>2. FilesStay \/ MarkdownWritten(c) \/ JsonWritten(c)
  BY ScriptWrites DEF ScriptRuns
<1>3. c # s
  BY <1>1, ScriptWrites DEF ScriptRuns, FilesInv, Ended
<1>4. PICK r \in Reports, k \in Reports : r = Target[s] /\ k = Target[c]
  BY <1>0
<1>5. /\ json'[r] = [by |-> s, kind |-> "full"] /\ md'[r] = s
      /\ \A q \in Reports : mtime'[q] <= mtime'[r]
  BY <1>4 DEF Synced, OnDisk, Latest
<1>6. ~JsonWritten(c)
  <2> SUFFICES ASSUME JsonWritten(c)
               PROVE  FALSE
    OBVIOUS
  <2>1. /\ mtime' = [mtime EXCEPT ![k] = clock + 1]
        /\ \E kind \in {"empty", "part", "full"} : json' = [json EXCEPT ![k] = [by |-> c, kind |-> kind]]
    BY <1>4 DEF JsonWritten
  <2>2. k # r
    BY <1>3, <1>5, <2>1 DEF FilesInv
  <2>3. mtime'[k] = clock + 1 /\ mtime'[r] = mtime[r] /\ mtime[r] <= clock /\ clock \in Nat /\ mtime[r] \in Nat
    BY <2>1, <2>2 DEF FilesInv
  <2> QED
    BY <1>5, <2>3
<1>7. UNCHANGED <<json, mtime>> /\ md'[r] = md[r]
  <2>1. CASE FilesStay
    BY <2>1 DEF FilesStay
  <2>2. CASE MarkdownWritten(c)
    BY <1>0, <1>3, <1>4, <1>5, <2>2 DEF MarkdownWritten, FilesInv
  <2> QED
    BY <1>2, <1>6, <2>1, <2>2
<1>8. r \in Latest
  BY <1>4, <1>7 DEF Synced, OnDisk, Latest, Exists
<1> QED
  BY <1>1, <1>4, <1>5, <1>7, <1>8 DEF Synced, OnDisk

(* The sync's record of success starts the import of the report it wrote.   *)
LEMMA FinishSynced ==
  ASSUME FilesInv, JobsInv, NEW s \in Syncs, Finish(s), Synced(s)'
  PROVE  /\ \A i \in Importers : Working(i)' /\ job'[i].report = Target[s] => job'[i].pc = "read"
         /\ Working(s)' /\ job'[s].report = Target[s]
<1>0. s \in Importers /\ s \in Runs /\ Target[s] \in Reports
  BY ScriptAssumption, ImportAssumption DEF Importers
<1>1. script[s] = "ok"
  BY DEF Synced, Finish, StatusOf, FilesInv
<1>2. UNCHANGED <<json, mtime, md>>
  BY DEF Finish, scriptVars
<1>3. Target[s] \in Latest
  BY <1>2 DEF Synced, OnDisk, Latest, Exists
<1>4. PICK r \in Reports : Imports(s, r) /\ StartJob(s, r, "read")
  BY <1>0, <1>1, <1>3 DEF Finish, Imports
<1>5. r = Target[s]
  <2>1. mtime[r] <= mtime[Target[s]] /\ mtime[Target[s]] <= mtime[r] /\ Exists(r) /\ Exists(Target[s])
    BY <1>0, <1>3, <1>4 DEF Imports, Latest
  <2>2. mtime[r] = mtime[Target[s]]
    BY <1>0, <2>1 DEF FilesInv
  <2> QED
    BY <1>0, <2>1, <2>2 DEF FilesInv
<1>6. PICK x : x = [NoJob(r) EXCEPT !.pc = "read"]
  OBVIOUS
<1>7. x.pc = "read" /\ x.report = r
  BY <1>6, JobThatBegins
<1>8. job' = [job EXCEPT ![s] = x] /\ \A i \in Importers : ~(Working(i) /\ job[i].report = r)
  BY <1>4, <1>6 DEF StartJob, Synced
<1> QED
  BY <1>0, <1>5, <1>7, <1>8 DEF JobsInv, Working

(* What is on its way into the database, or there, stays current.           *)
LEMMA JobKeepsSynced ==
  ASSUME JobsInv, RowsInv, FilesStay, SyncedInv, NEW s \in Syncs, Synced(s), ~overlap',
         NEW i \in Importers, JobStep(i), ~Finish(s)
  PROVE  /\ \A k \in Importers : Working(k)' /\ job'[k].report = Target[s] => ReadsCurrent(job[k], Target[s])'
         /\ (Working(s)' /\ job'[s].report = Target[s]) \/ Shows(Target[s])'
<1>0. s \in Importers /\ s \notin Threads /\ s \in Runs /\ Target[s] \in Reports
  BY ScriptAssumption, ImportAssumption DEF Importers
<1>1. PICK x : /\ job' = [job EXCEPT ![i] = x] /\ IsJob(x)
               /\ JobBegins(i, x) \/ JobMoves(i, x) \/ JobLocked(i, x) \/ JobEnds(i, x)
  BY DEF JobStep
<1>2. PICK r \in Reports : r = Target[s]
  BY <1>0
<1>3. /\ \A k \in Importers : Working(k) /\ job[k].report = r => ReadsCurrent(job[k], r)
      /\ (Working(s) /\ job[s].report = r) \/ Shows(r)
      /\ ~overlap /\ json[r].kind = "full"
  BY <1>2 DEF SyncedInv, Synced, OnDisk
<1>4. \A k \in Importers : k # i => job'[k] = job[k]
  BY <1>1 DEF JobsInv
<1>5. job'[i] = x
  BY <1>1 DEF JobsInv
<1>6. json' = json /\ md' = md
  BY DEF FilesStay
<1>7. x.pc \notin {"idle", "done", "error"} /\ x.report = r => ReadsCurrent(x, r)
  <2>1. CASE JobBegins(i, x) \/ JobLocked(i, x) \/ JobEnds(i, x)
    BY <2>1 DEF JobBegins, JobLocked, JobEnds, ReadsCurrent
  <2>2. CASE JobMoves(i, x)
    BY <1>3, <2>2 DEF JobMoves, ImportMoves, ReadsCurrent
  <2> QED
    BY <1>1, <2>1, <2>2
<1>8. ASSUME NEW k \in Importers, Working(k)', job'[k].report = r
      PROVE  ReadsCurrent(job[k], r)'
  <2>1. CASE k = i
    BY <1>5, <1>6, <1>7, <1>8, <2>1 DEF ReadsCurrent, Working
  <2>2. CASE k # i
    BY <1>3, <1>4, <1>6, <1>8, <2>2 DEF ReadsCurrent, Working
  <2> QED
    BY <2>1, <2>2
<1>9. (Working(s)' /\ job'[s].report = r) \/ Shows(r)'
  <2>1. CASE ~(/\ JobMoves(i, x) /\ job[i].pc = "commit"
               /\ rows' = [rows EXCEPT ![job[i].report] = Append(Left(rows[job[i].report], job[i].old), Row(i))])
    <3>0. UNCHANGED rows
      BY <1>1, <2>1 DEF JobBegins, JobMoves, ImportMoves, JobLocked, JobEnds
    <3>1. Shows(r) => Shows(r)'
      BY <1>6, <3>0 DEF Shows
    <3>2. CASE Working(s) /\ job[s].report = r /\ i = s
      <4>1. job[i].pc = "commit" => job[i].old \subseteq RowIds(job[i].report)
        BY <1>3 DEF RowsInv
      <4>2. x.pc \notin {"idle", "done", "error"} /\ x.report = r
        <5>1. CASE JobMoves(i, x)
          BY <1>3, <2>1, <3>2, <4>1, <5>1 DEF JobMoves, ImportMoves
        <5> QED
          BY <1>0, <1>1, <3>2, <5>1 DEF JobBegins, JobLocked, JobEnds
      <4> QED
        BY <1>5, <3>2, <4>2 DEF Working
    <3> QED
      BY <1>0, <1>3, <1>4, <3>1, <3>2 DEF Working
  <2>2. CASE /\ JobMoves(i, x) /\ job[i].pc = "commit"
             /\ rows' = [rows EXCEPT ![job[i].report] = Append(Left(rows[job[i].report], job[i].old), Row(i))]
    <3>1. CASE job[i].report = r
      <4>1. PICK y : rows'[r] = <<y>> /\ y.content = job[i].content /\ y.events = job[i].events
        BY <1>3, <2>2, <3>1, CommitLeavesOne
      <4>2. y.content = json[r] /\ y.events = md[r]
        BY <1>3, <2>2, <3>1, <4>1 DEF ReadsCurrent, JobMoves
      <4> QED
        BY <1>6, <4>1, <4>2 DEF Shows
    <3>2. CASE job[i].report # r
      <4>1. rows'[r] = rows[r]
        BY <2>2, <3>2 DEF JobsInv
      <4> QED
        BY <1>0, <1>3, <1>4, <1>6, <3>2, <4>1 DEF Shows, Working
    <3> QED
      BY <3>1, <3>2
  <2> QED
    BY <2>1, <2>2
<1> QED
  BY <1>2, <1>8, <1>9

LEMMA SyncedStep ==
  ASSUME FilesInv, TurnsInv, JobsInv, RowsInv, SyncedInv,
         [Next]_vars \/ (\E c \in Runs : RunByHand(c))
  PROVE  SyncedInv'
<1> SUFFICES ASSUME NEW s \in Syncs, Synced(s)'
             PROVE  /\ \A i \in Importers :
                         Working(i)' /\ job'[i].report = Target[s] => ReadsCurrent(job[i], Target[s])'
                    /\ (Working(s)' /\ job'[s].report = Target[s]) \/ Shows(Target[s])'
  BY DEF SyncedInv
<1>0. ~Crash
  BY DEF Crash, Synced, TurnsInv
<1>1. ASSUME NEW c \in Runs, ScriptRuns(c)
      PROVE  /\ \A i \in Importers :
                  Working(i)' /\ job'[i].report = Target[s] => ReadsCurrent(job[i], Target[s])'
             /\ (Working(s)' /\ job'[s].report = Target[s]) \/ Shows(Target[s])'
  <2>1. Synced(s) /\ json'[Target[s]] = json[Target[s]] /\ md'[Target[s]] = md[Target[s]]
    BY <1>1, ScriptKeepsSynced
  <2>2. UNCHANGED <<job, rows>>
    BY <1>1 DEF ScriptRuns, importVars
  <2> QED
    BY <2>1, <2>2 DEF SyncedInv, ReadsCurrent, Shows, Working
<1>2. CASE Finish(s)
  BY <1>2, FinishSynced DEF ReadsCurrent
<1>3. CASE FilesStay /\ ~Finish(s) /\ status'[s] = status[s]
  <2>1. UNCHANGED crashes /\ (JobStays \/ \E i \in Importers : JobStep(i))
    BY <1>0, StepKinds
  <2>2. overlap => overlap'
    BY <2>1 DEF JobStays, JobStep, JobBegins, JobMoves, JobLocked, JobEnds
  <2>3. Synced(s)
    BY <1>3, <2>1, <2>2 DEF FilesStay, Synced, OnDisk, Latest, Exists
  <2>4. CASE JobStays
    BY <1>3, <2>3, <2>4 DEF JobStays, FilesStay, SyncedInv, ReadsCurrent, Shows, Working
  <2>5. ASSUME NEW i \in Importers, JobStep(i)
        PROVE  /\ \A k \in Importers :
                    Working(k)' /\ job'[k].report = Target[s] => ReadsCurrent(job[k], Target[s])'
               /\ (Working(s)' /\ job'[s].report = Target[s]) \/ Shows(Target[s])'
    BY <1>3, <2>3, <2>5, JobKeepsSynced DEF Synced
  <2> QED
    BY <2>1, <2>4, <2>5
<1>4. \/ \E c \in Runs : ScriptRuns(c)
      \/ FilesStay /\ (Finish(s) \/ status'[s] = status[s])
  <2>1. ASSUME NEW q \in Syncs, Finish(q), q # s
        PROVE  status'[s] = status[s]
    BY <2>1 DEF Finish, FilesInv
  <2>2. status'[s] = "success"
    BY DEF Synced
  <2> QED
    BY <2>1, <2>2, FileKinds
<1> QED
  BY <1>1, <1>2, <1>3, <1>4

(* What a sync fetched is what the dashboard shows once things are quiet:   *)
(* its own import comes after its files, and imports that page views and    *)
(* requests queued meanwhile cannot put older content over it               *)
(* (finish_sync_run and import_report_file), unless imports overlapped.     *)
THEOREM SyncedIsShown == WebSpec => []SyncedReportIsCurrent
<1> DEFINE Inv == FilesInv /\ TurnsInv /\ JobsInv /\ RowsInv /\ SyncedInv
<1>1. WebInit => Inv
  <2> SUFFICES ASSUME WebInit
               PROVE  Inv
    OBVIOUS
  <2>1. TurnsInv
    <3>1. Orphans = {} /\ crashes = 0
      BY DEF WebInit, Init, Orphans
    <3> QED
      BY <3>1, FS_EmptySet, SyncAssumption, ImportAssumption
      DEF TurnsInv, WebInit, Init, ScriptInit, ImportInit
  <2>2. FilesInv
    BY DEF WebInit, Init, ScriptInit, FilesInv, Exists
  <2>3. JobsInv /\ RowsInv
    BY IdleIsJob DEF WebInit, Init, ImportInit, JobsInv, RowsInv, Working
  <2>4. SyncedInv
    BY DEF WebInit, Init, SyncedInv, Synced
  <2> QED
    BY <2>1, <2>2, <2>3, <2>4
<1>2. Inv /\ [WebNext]_webVars => Inv'
  <2> SUFFICES ASSUME Inv, [WebNext]_webVars
               PROVE  Inv'
    OBVIOUS
  <2>1. [Next]_vars \/ \E c \in Runs : RunByHand(c)
    BY DEF WebNext, webVars, Reporting, Summarizing, Exporting, Killed, Next
  <2> QED
    BY <2>1, TurnsStep, FilesStep, JobsStep, RowsStep, SyncedStep
<1>3. Inv => SyncedReportIsCurrent
  <2> SUFFICES ASSUME Inv, NEW s \in Syncs, Quiet, Synced(s)
               PROVE  Newest(Target[s]).content = json[Target[s]] /\ Newest(Target[s]).events = s
    BY DEF SyncedReportIsCurrent, Synced, OnDisk
  <2>1. ~Working(s)
    BY DEF Quiet, Busy, Working, Importers
  <2>2. PICK x : rows[Target[s]] = <<x>> /\ x.content = json[Target[s]] /\ x.events = md[Target[s]]
    BY <2>1 DEF SyncedInv, Shows
  <2>3. Newest(Target[s]) = x
    BY <2>2 DEF Newest
  <2> QED
    BY <2>2, <2>3 DEF Synced, OnDisk
<1> QED
  BY <1>1, <1>2, <1>3, PTL DEF WebSpec

-----------------------------------------------------------------------------
(* The export.  A download that has met no other has the file to itself:    *)
(* what lay under the path is gone before it copies, and between its        *)
(* statements no commit can have come.                                      *)

Filled(r, f) == onDisk \in Numbers /\ tables[onDisk] = [reports |-> r, findings |-> f]

Own(d) ==
  /\ download[d] = "open" => onDisk = 0
  /\ download[d] = "reports" => handle[d] = onDisk /\ Filled(NoTable, NoTable)
  /\ download[d] = "findings" => handle[d] = onDisk /\ Filled(rows, NoTable)
  /\ download[d] = "read" => Filled(rows, rows)

ExportInv ==
  /\ DOMAIN download = Downloads /\ download = [d \in Downloads |-> download[d]]
  /\ DOMAIN handle = Downloads /\ handle = [d \in Downloads |-> handle[d]]
  /\ DOMAIN shown = Downloads /\ shown = [d \in Downloads |-> shown[d]]
  /\ DOMAIN tables = Numbers /\ tables = [f \in Numbers |-> tables[f]]
  /\ \A d \in Downloads :
       /\ download[d] \notin {"reports", "findings"} => handle[d] = 0
       /\ download[d] # "over" => shown[d] = NoTable
       /\ alone[d] /\ Running(d) => Own(d) /\ \A e \in Downloads : Running(e) => e = d
       /\ alone[d] => Current(d, rows)

(* The file that Connection::open creates, when no other download runs.     *)
LEMMA FreshFile ==
  ASSUME onDisk = 0, \A e \in Downloads : handle[e] = 0
  PROVE  Fresh \in Numbers
<1>1. 1 \in Numbers /\ 1 # onDisk /\ \A e \in Downloads : handle[e] # 1
  BY DEF Numbers
<1>2. \E f \in Numbers : f # onDisk /\ \A e \in Downloads : handle[e] # f
  BY <1>1
<1> QED
  BY <1>2 DEF Fresh

(* Nothing of the export moves while the database stays as it is, and a     *)
(* commit or a kill ends every claim of the downloads under way.            *)
LEMMA CommitKeeps ==
  ASSUME ExportInv,
         \/ UNCHANGED <<exportVars, rows>>
         \/ CommitMeets /\ UNCHANGED <<download, handle, onDisk, tables, shown>>
         \/ ExportCrash
  PROVE  ExportInv'
<1>1. CASE UNCHANGED <<exportVars, rows>>
  BY <1>1 DEF exportVars, ExportInv, Own, Filled, Running, Current
<1>2. CASE CommitMeets /\ UNCHANGED <<download, handle, onDisk, tables, shown>>
  BY <1>2 DEF CommitMeets, ExportInv, Running, Current
<1>3. CASE ExportCrash
  BY <1>3 DEF ExportCrash, CommitMeets, ExportInv, Running, Current
<1> QED
  BY <1>1, <1>2, <1>3

(* A step of one download: what it must leave to the others.                *)
LEMMA ExportStepKeeps ==
  ASSUME ExportInv, NEW d \in Downloads, LookForFile(d) \/ ExportStep(d, rows), UNCHANGED rows
  PROVE  ExportInv'
<1> USE DEF ExportInv
<1>1. CASE LookForFile(d)
  <2>1. download' = [download EXCEPT ![d] = AfterLook] /\ AfterLook \in {"open", "remove"}
    BY <1>1 DEF LookForFile, AfterLook
  <2>2. UNCHANGED <<handle, onDisk, tables, shown>> /\ download[d] = "none"
    BY <1>1 DEF LookForFile
  <2>3. ASSUME NEW e \in Downloads, alone'[e]
        PROVE  IF e = d THEN \A b \in Downloads : ~Running(b) ELSE alone[e] /\ ~Running(e)
    BY <1>1, <2>3 DEF LookForFile
  <2>4. AfterLook = "open" => onDisk = 0
    BY DEF AfterLook
  <2> QED
    BY <2>1, <2>2, <2>3, <2>4 DEF Own, Running, Current
<1>2. CASE Remove(d)
  <2>1. /\ download[d] = "remove" /\ onDisk' = 0 /\ UNCHANGED <<handle, tables, shown, alone>>
        /\ \E to \in {"over", "open"} : download' = [download EXCEPT ![d] = to]
    BY <1>2 DEF Remove, At
  <2> QED
    BY <2>1 DEF Own, Running, Current
<1>3. CASE Open(d)
  <2>1. /\ download[d] = "open" /\ download' = [download EXCEPT ![d] = "reports"]
        /\ UNCHANGED <<shown, alone>>
    BY <1>3 DEF Open, At
  <2>2. ASSUME NEW e \in Downloads, alone[e], Running(e)'
        PROVE  e = d /\ Own(d)' /\ \A b \in Downloads : Running(b)' => b = d
    <3>1. Running(d) /\ (\A b \in Downloads : Running(b)' => Running(b))
      BY <2>1 DEF Running
    <3>2. e = d /\ (\A b \in Downloads : Running(b) => b = d) /\ onDisk = 0
      BY <2>1, <2>2, <3>1 DEF Own
    <3>3. \A b \in Downloads : handle[b] = 0
      BY <2>1, <3>2 DEF Running
    <3>4. Fresh \in Numbers
      BY <3>2, <3>3, FreshFile
    <3>5. /\ onDisk' = Fresh /\ tables' = [tables EXCEPT ![Fresh] = Empty]
          /\ handle' = [handle EXCEPT ![d] = Fresh]
      BY <1>3, <3>2 DEF Open
    <3>6. handle'[d] = onDisk' /\ onDisk' \in Numbers /\ tables'[onDisk'] = Empty
      BY <3>4, <3>5
    <3> QED
      BY <2>1, <3>1, <3>2, <3>6 DEF Own, Filled, Empty
  <2>3. /\ DOMAIN handle' = Downloads /\ handle' = [b \in Downloads |-> handle'[b]]
        /\ DOMAIN tables' = Numbers /\ tables' = [f \in Numbers |-> tables'[f]]
        /\ \A b \in Downloads \ {d} : handle'[b] = handle[b]
    BY <1>3 DEF Open
  <2> QED
    BY <2>1, <2>2, <2>3 DEF Running, Current
<1>4. CASE CopyReports(d, rows)
  <2>1. /\ download[d] = "reports" /\ UNCHANGED <<onDisk, shown, alone>>
        /\ \/ /\ tables[handle[d]].reports = NoTable /\ UNCHANGED handle
              /\ download' = [download EXCEPT ![d] = "findings"]
              /\ tables' = [tables EXCEPT ![handle[d]].reports = rows]
           \/ /\ tables[handle[d]].reports # NoTable /\ UNCHANGED tables
              /\ download' = [download EXCEPT ![d] = "over"] /\ handle' = [handle EXCEPT ![d] = 0]
    BY <1>4 DEF CopyReports, At
  <2>2. ASSUME alone[d], download'[d] = "findings"
        PROVE  Own(d)'
    <3>1. handle[d] = onDisk /\ Filled(NoTable, NoTable)
      BY <2>1, <2>2 DEF Own, Running
    <3>2. UNCHANGED handle /\ tables' = [tables EXCEPT ![onDisk].reports = rows]
      BY <2>1, <2>2, <3>1
    <3>3. tables'[onDisk] = [reports |-> rows, findings |-> NoTable]
      BY <3>1, <3>2 DEF Filled
    <3> QED
      BY <2>1, <2>2, <3>1, <3>2, <3>3 DEF Own, Filled
  <2> QED
    BY <2>1, <2>2 DEF Running, Current
<1>5. CASE CopyOthers(d, rows)
  <2>1. /\ download[d] = "findings" /\ UNCHANGED <<onDisk, shown, alone>>
        /\ handle' = [handle EXCEPT ![d] = 0]
        /\ \/ /\ download' = [download EXCEPT ![d] = "read"]
              /\ tables' = [tables EXCEPT ![handle[d]].findings = rows]
           \/ download' = [download EXCEPT ![d] = "over"] /\ UNCHANGED tables
    BY <1>5 DEF CopyOthers, At
  <2>2. ASSUME alone[d], download'[d] = "read"
        PROVE  Own(d)'
    <3>1. handle[d] = onDisk /\ Filled(rows, NoTable)
      BY <2>1, <2>2 DEF Own, Running
    <3>2. tables' = [tables EXCEPT ![onDisk].findings = rows]
      BY <2>1, <2>2, <3>1
    <3>3. tables'[onDisk] = [reports |-> rows, findings |-> rows]
      BY <3>1, <3>2 DEF Filled
    <3> QED
      BY <2>1, <2>2, <3>1, <3>2, <3>3 DEF Own, Filled
  <2> QED
    BY <2>1, <2>2 DEF Running, Current
<1>6. CASE CopyFails(d)
  BY <1>6 DEF CopyFails, Running, Current
<1>7. CASE ReadFile(d)
  <2>1. /\ download[d] = "read" /\ download' = [download EXCEPT ![d] = "over"]
        /\ UNCHANGED <<handle, onDisk, tables, alone>>
        /\ shown' = [shown EXCEPT ![d] = IF onDisk = 0 THEN NoTable ELSE tables[onDisk]]
    BY <1>7 DEF ReadFile, At
  <2>2. alone[d] => Current(d, rows)'
    BY <2>1 DEF Own, Filled, Running, Current
  <2> QED
    BY <2>1, <2>2 DEF Running, Current
<1> QED
  BY <1>1, <1>2, <1>3, <1>4, <1>5, <1>6, <1>7 DEF ExportStep

(* A download that met nobody sends the database as it is, whatever files   *)
(* and connections failed and killed downloads left (regenerate_export).    *)
THEOREM OwnDownloadIsCurrent == WebSpec => []DownloadCurrent
<1>1. WebInit => ExportInv
  BY DEF WebInit, ExportInit, ExportInv, Running, Current
<1>2. ExportInv /\ [WebNext]_webVars => ExportInv'
  <2> SUFFICES ASSUME ExportInv, [WebNext]_webVars
               PROVE  ExportInv'
    OBVIOUS
  <2>1. CASE Reporting
    BY <2>1, CommitKeeps DEF Reporting
  <2>2. CASE Exporting
    <3>1. UNCHANGED rows
      BY <2>2 DEF Exporting, vars, importVars
    <3> QED
      BY <2>2, <3>1, ExportStepKeeps DEF Exporting
  <2>3. CASE Summarizing \/ UNCHANGED webVars
    BY <2>3, CommitKeeps DEF Summarizing, webVars, vars, importVars
  <2>4. CASE Killed
    BY <2>4, CommitKeeps DEF Killed
  <2> QED
    BY <2>1, <2>2, <2>3, <2>4 DEF WebNext
<1>3. ExportInv => DownloadCurrent
  BY DEF ExportInv, DownloadCurrent
<1> QED
  BY <1>1, <1>2, <1>3, PTL DEF WebSpec
=============================================================================
