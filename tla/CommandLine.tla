---------------------------- MODULE CommandLine ----------------------------
(***************************************************************************)
(* cli.main of src/honeypot_ai/cli.py: one command per process, and the    *)
(* components that the commands run, each on its own files.                *)
(***************************************************************************)
EXTENDS ModelTraining, AlertStore, SessionAnalysis, EndpointWindows, LogParsing,
        IndicatorExchange, LlmClient

VARIABLE job  \* the component at work

vars == <<job, trainingVars, storeVars, sessionVars, windowVars, parsingVars, exchangeVars, llmVars>>

Init ==
  /\ job = "none"
  /\ TrainingInit /\ StoreInit /\ SessionInit /\ WindowsInit /\ ParsingInit /\ ExchangeInit /\ LlmInit

\* main calls the function of the command
Dispatch ==
  /\ job = "none"
  /\ job' \in {"parse_paths", "analyze", "dataset", "train", "score", "misp", "llm-summarize"}
  /\ UNCHANGED <<trainingVars, storeVars, sessionVars, windowVars, parsingVars, exchangeVars, llmVars>>

ParseFiles ==
  /\ job = "parse_paths" /\ ParsingNext
  /\ UNCHANGED <<job, trainingVars, storeVars, sessionVars, windowVars, exchangeVars, llmVars>>

Analyze ==
  /\ job = "analyze" /\ SessionNext
  /\ UNCHANGED <<job, trainingVars, storeVars, windowVars, parsingVars, exchangeVars, llmVars>>

Dataset ==
  /\ job = "dataset" /\ WindowsNext
  /\ UNCHANGED <<job, trainingVars, storeVars, sessionVars, parsingVars, exchangeVars, llmVars>>

\* train, evaluate and tune
Training ==
  /\ job = "train" /\ TrainingNext
  /\ UNCHANGED <<job, storeVars, sessionVars, windowVars, parsingVars, exchangeVars, llmVars>>

\* score, and the training runs that it depends on
Scoring ==
  /\ job = "score" /\ StoreNext
  /\ UNCHANGED <<job, trainingVars, sessionVars, windowVars, parsingVars, exchangeVars, llmVars>>

\* misp-push and misp-pull
Exchange ==
  /\ job = "misp" /\ ExchangeNext
  /\ UNCHANGED <<job, trainingVars, storeVars, sessionVars, windowVars, parsingVars, llmVars>>

Summaries ==
  /\ job = "llm-summarize" /\ LlmNext
  /\ UNCHANGED <<job, trainingVars, storeVars, sessionVars, windowVars, parsingVars, exchangeVars>>

Next ==
  Dispatch \/ ParseFiles \/ Analyze \/ Dataset \/ Training \/ Scoring \/ Exchange \/ Summaries

Spec == Init /\ [][Next]_vars
=============================================================================
