--------------------------- MODULE DashboardRenderer ---------------------------
(***************************************************************************)
(* deploy/container-demo/bin/dashboard_renderer.py next to the ML loop: it *)
(* reads the alerts of both loops, has a language model summarise them in  *)
(* a thread of its own, and writes the page.  An alert file that does not  *)
(* parse costs a round, and the next round reads it again.                 *)
(*                                                                         *)
(* The file of the SIEM loop is only known by whether it holds a line that *)
(* a killed append has cut off (AlertFile): such a line stays there.       *)
(***************************************************************************)
EXTENDS MlLoop

CONSTANTS
  None,       \* no summary in the cache
  Failed,     \* the summary "AI Analyst failed"
  MaxCrashes, \* bound: how often the renderer is killed
  MaxErrors   \* bound: how many requests to the language model go wrong

ASSUME RendererAssumption ==
  /\ MaxCrashes \in Nat /\ MaxErrors \in Nat
  /\ None \notin Alerts /\ Failed \notin Alerts

VARIABLES
  ragged,  \* does wazuh-alerts.ndjson hold a line that is cut off
  at,      \* where the renderer is; "dead" until it is started again
  view,    \* the alerts that this round has read
  page,    \* the alerts that index.html shows, or Torn
  active,  \* _LLM_THREAD_ACTIVE
  asked,   \* what the running thread summarises, None without a thread
  summary, \* _LLM_SUMMARY_CACHE: the alerts it is about, or None, or Failed
  fresh,   \* is _LLM_LAST_RUN less than 30 s ago
  crashes, \* history: how often the renderer was killed
  errors   \* history: how many requests went wrong

llmVars == <<active, asked, summary, fresh>>
pageVars == <<ragged, at, view, page, llmVars, crashes, errors>>
vars == <<mlVars, pageVars>>

Init ==
  /\ MlInit
  /\ ragged = FALSE /\ at = "idle" /\ view = NoAlerts /\ page = NoAlerts
  /\ active = FALSE /\ asked = None /\ summary = None /\ fresh = FALSE
  /\ crashes = 0 /\ errors = 0

-----------------------------------------------------------------------------

\* load_wazuh_events, when every line of both files parses
ReadAlerts ==
  /\ at = "idle" /\ ~ragged /\ alerts # Torn
  /\ view' = alerts /\ at' = "render"
  /\ UNCHANGED <<ragged, page, llmVars, crashes, errors>>

\* get_live_llm_summary: no thread while the cache is fresh, while one is
\* running, or when there is nothing to summarise
Summarise ==
  IF (summary # None /\ fresh) \/ active \/ view = NoAlerts
  THEN UNCHANGED llmVars
  ELSE /\ active' = TRUE /\ asked' = view
       /\ UNCHANGED <<summary, fresh>>

\* render_dashboard_preview; then write_text truncates the page ...
Render ==
  /\ at = "render"
  /\ Summarise
  /\ page' = Torn /\ at' = "write"
  /\ UNCHANGED <<ragged, view, crashes, errors>>

\* ... and fills it
WritePage ==
  /\ at = "write"
  /\ page' = view /\ at' = "idle"
  /\ UNCHANGED <<ragged, view, llmVars, crashes, errors>>

-----------------------------------------------------------------------------
(* The thread: _run_llm_request.                                            *)

Cache(text) == summary' = text /\ fresh' = TRUE

\* Faulty variant: a request that goes wrong leaves the flag up
ThreadEndsAnswered == asked' = None /\ active' = (errors' # errors)

\* The flag comes down in `finally`, after every outcome
ThreadEnds == asked' = None /\ active' = FALSE

Answer ==
  /\ asked # None
  /\ Cache(asked) /\ UNCHANGED errors /\ ThreadEnds
  /\ UNCHANGED <<ragged, at, view, page, crashes>>

\* An exception is cached as the summary; an empty answer is not cached
AnswerFails ==
  /\ asked # None /\ errors < MaxErrors
  /\ errors' = errors + 1
  /\ Cache(Failed) \/ UNCHANGED <<summary, fresh>>
  /\ ThreadEnds
  /\ UNCHANGED <<ragged, at, view, page, crashes>>

Expire ==
  /\ fresh
  /\ fresh' = FALSE
  /\ UNCHANGED <<ragged, at, view, page, active, asked, summary, crashes, errors>>

-----------------------------------------------------------------------------

\* The cache and the thread are gone with the process
RendererKilled ==
  /\ at # "dead" /\ crashes < MaxCrashes
  /\ crashes' = crashes + 1 /\ at' = "dead"
  /\ active' = FALSE /\ asked' = None /\ summary' = None /\ fresh' = FALSE
  /\ UNCHANGED <<ragged, view, page, errors>>

RendererStarts ==
  /\ at = "dead" /\ at' = "idle"
  /\ UNCHANGED <<ragged, view, page, llmVars, crashes, errors>>

\* The SIEM loop is killed in the middle of an append
SiemLineCut ==
  /\ ~ragged /\ ragged' = TRUE
  /\ UNCHANGED <<at, view, page, llmVars, crashes, errors>>

Renderer == ReadAlerts \/ Render \/ WritePage \/ RendererStarts

Next ==
  \/ MlNext /\ UNCHANGED pageVars
  \/ (Renderer \/ Answer \/ Expire) /\ UNCHANGED mlVars
  \/ (AnswerFails \/ RendererKilled \/ SiemLineCut) /\ UNCHANGED mlVars

Spec == Init /\ [][Next]_vars

\* Both processes are scheduled and started again, time passes, and the
\* language model answers or fails within its timeout
FairSpec ==
  /\ Spec
  /\ WF_vars(Loop /\ UNCHANGED pageVars)
  /\ WF_vars(Renderer /\ UNCHANGED mlVars)
  /\ WF_vars((Answer \/ AnswerFails) /\ UNCHANGED mlVars)
  /\ WF_vars(Expire /\ UNCHANGED mlVars)

-----------------------------------------------------------------------------

TypeOK ==
  /\ MlTypeOK
  /\ ragged \in BOOLEAN /\ at \in {"idle", "render", "write", "dead"}
  /\ view \in Alerts /\ page \in Alerts \union {Torn}
  /\ active \in BOOLEAN /\ asked \in Alerts \union {None}
  /\ summary \in Alerts \union {None, Failed} /\ fresh \in BOOLEAN
  /\ crashes \in Nat /\ errors \in Nat

(* When no more events come, the page shows the alerts for the whole log in *)
(* the end: nothing appended during a pass is forgotten, and kills of       *)
(* either process are made up for.  A line cut off in the SIEM loop's file  *)
(* keeps the page from being rendered, and a pass that a failed command     *)
(* ended is not tried again before the log grows.  (A page is half written  *)
(* while the renderer is in write_text, or was killed there.)               *)
PageShowsLog == <>[](at # "idle" \/ Reflects(page) \/ ragged \/ gaveUp)

(* The summary is about the newest alerts in the end, whatever request or   *)
(* process failed before: the flag that keeps other threads out comes down. *)
SummaryFollows ==
  <>[](ragged \/ alerts = NoAlerts \/ summary = alerts)
=============================================================================
