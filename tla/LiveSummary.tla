------------------------------ MODULE LiveSummary ------------------------------
(***************************************************************************)
(* The live summary of src_web/main.rs: a click raises a flag, reads the   *)
(* latest eBPF events and spawns a task, whose child process asks the      *)
(* language model; the task stores the answer and lowers the flag.  The    *)
(* dashboard polls for the answer while the flag is up.                    *)
(***************************************************************************)
EXTENDS Naturals, FiniteSets

CONSTANTS
  Requests,  \* clicks on the button, each served once
  NoSummary

ASSUME SummaryAssumption == NoSummary \notin Requests

VARIABLES
  request,          \* [request -> where its handler or task is]
  live_llm_running, \* the flag
  live_llm_summary, \* [of, good]: the text of a request, good or an error; NoSummary
  answered          \* history: what the last child process to end came to

liveVars == <<request, live_llm_running, live_llm_summary, answered>>

LiveInit ==
  /\ request = [q \in Requests |-> "none"]
  /\ live_llm_running = FALSE
  /\ live_llm_summary = NoSummary /\ answered = NoSummary

AtWork(q) == request[q] \in {"query", "child", "store", "lower"}

\* Request q goes on at step pc
Goes(q, pc) == request' = [request EXCEPT ![q] = pc]

Raised == TRUE

\* swap(true): only the request that finds the flag down goes on
Generate(q) ==
  /\ request[q] = "none"
  /\ IF live_llm_running
     THEN Goes(q, "over") /\ UNCHANGED live_llm_running
     ELSE Goes(q, "query") /\ live_llm_running' = Raised
  /\ UNCHANGED <<live_llm_summary, answered>>

\* Faulty variant: an error of the database leaves through `?`
LeftUp == live_llm_running

Lowered == FALSE

\* get_latest_ebpf_raw_events: fails (the table may lack the column raw_event, or
\* the database may be held by the sensor), finds nothing, or finds events
Query(q) ==
  /\ request[q] = "query"
  /\ \/ Goes(q, "over") /\ live_llm_running' = Lowered
     \/ Goes(q, "child") /\ UNCHANGED live_llm_running
  /\ UNCHANGED <<live_llm_summary, answered>>

\* run_llm_summarize_process ends; that it cannot be started is an error as well
ChildEnds(q) ==
  /\ request[q] = "child"
  /\ Goes(q, "store")
  /\ \E good \in BOOLEAN : answered' = [of |-> q, good |-> good]
  /\ UNCHANGED <<live_llm_running, live_llm_summary>>

\* The answer, or the text of the error, replaces the summary
Store(q) ==
  /\ request[q] = "store" /\ Goes(q, "lower")
  /\ live_llm_summary' = answered
  /\ UNCHANGED <<live_llm_running, answered>>

Lower(q) ==
  /\ request[q] = "lower" /\ Goes(q, "over")
  /\ live_llm_running' = FALSE
  /\ UNCHANGED <<live_llm_summary, answered>>

LiveStep(q) == Query(q) \/ ChildEnds(q) \/ Store(q) \/ Lower(q)

LiveCrash ==
  /\ request' = [q \in Requests |-> IF request[q] = "none" THEN "none" ELSE "over"]
  /\ live_llm_running' = FALSE
  /\ live_llm_summary' = NoSummary /\ answered' = NoSummary

-----------------------------------------------------------------------------

(* The flag is up exactly while one request is at work: no way through the  *)
(* handler or the task leaves it up, which would refuse every later click.  *)
(* A page that finds it down shows what the last child came to, never the   *)
(* summary of an earlier request.                                           *)
FlagMeansAtWork ==
  /\ Cardinality({q \in Requests : AtWork(q)}) <= 1
  /\ live_llm_running <=> \E q \in Requests : AtWork(q)
  /\ ~live_llm_running => live_llm_summary = answered
=============================================================================
