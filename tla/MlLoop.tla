-------------------------------- MODULE MlLoop --------------------------------
(***************************************************************************)
(* deploy/container-demo/bin/ml-loop.sh: whenever the log of events has    *)
(* another size than at the last pass, make a dataset of it, train a model *)
(* on the dataset, score the dataset with the model, and replace the file  *)
(* of alerts by the result.  The script runs under `set -e`: the failure   *)
(* of a command that is not tested ends it, and the container is started   *)
(* again without its memory of the last pass.                              *)
(*                                                                         *)
(* A dataset is the size of the log that it was made of; a model is the    *)
(* dataset it was trained on; alerts are a pair of a dataset and a model.  *)
(***************************************************************************)
EXTENDS Integers

CONSTANTS
  MaxLog,      \* bound: how far the log grows
  HasWindows,  \* the sizes at which the log makes an endpoint window
  Torn,        \* a file that is being written, or whose writer was killed
  MaxKills,    \* bound: how often the script is killed
  MaxFailures  \* bound: how many commands fail

Sizes == 0..MaxLog

NoAlerts == [data |-> 0, model |-> 0]

Alerts == [data : Sizes, model : Sizes]

ASSUME MlAssumption ==
  /\ MaxLog \in Nat /\ MaxKills \in Nat /\ MaxFailures \in Nat
  /\ HasWindows \subseteq 1..MaxLog
  /\ Torn \notin Sizes \union Alerts

VARIABLES
  log,      \* RAW_LOG, by its size
  pc,       \* where the script is; "dead" until it is started again
  sig,      \* signature: the size at the start of this pass
  last,     \* last_signature, 0 for none
  made,     \* tmp_dataset
  dataset,  \* DATASET_PATH, 0 while there is none
  model,    \* model.joblib, 0 while there is none
  draft,    \* tmp_alerts
  alerts,   \* ML_ALERT_LOG
  kills,    \* history: how often the script was killed
  failures, \* history: how many commands failed
  gaveUp    \* history: did a failure end the last pass without alerts

files  == <<dataset, model, draft, alerts>>
faults == <<kills, failures>>
mlVars == <<log, pc, sig, last, made, files, faults, gaveUp>>

MlInit ==
  /\ log = 0 /\ pc = "idle" /\ sig = 0 /\ last = 0 /\ made = 0
  /\ dataset = 0 /\ model = 0 /\ draft = NoAlerts /\ alerts = NoAlerts
  /\ kills = 0 /\ failures = 0 /\ gaveUp = FALSE

-----------------------------------------------------------------------------

\* Events are appended to the log, perhaps in the middle of a pass
AppendEvents ==
  /\ \E n \in (log + 1)..MaxLog : log' = n
  /\ UNCHANGED <<pc, sig, last, made, files, faults, gaveUp>>

CheckSignature ==
  /\ pc = "idle" /\ log # last /\ log > 0
  /\ sig' = log /\ pc' = "dataset" /\ gaveUp' = FALSE
  /\ UNCHANGED <<log, last, made, files, faults>>

\* Faulty variant: the size of the log at the end of the pass is remembered
EndPassLate(failed) ==
  /\ last' = log /\ pc' = "idle" /\ gaveUp' = failed
  /\ UNCHANGED <<log, sig, made, kills>>

\* The size at the start is: whatever was appended since makes another pass
EndPass(failed) ==
  /\ last' = sig /\ pc' = "idle" /\ gaveUp' = failed
  /\ UNCHANGED <<log, sig, made, kills>>

Goto(step) ==
  /\ pc' = step
  /\ UNCHANGED <<log, sig, last, kills, gaveUp>>

\* The log is read as it is now.  A line cut short is no error: it is taken
\* for a line of text.
MakeDataset ==
  /\ pc = "dataset"
  /\ made' = log /\ Goto("rows")
  /\ UNCHANGED <<files, failures>>

\* A log without endpoint windows empties the alerts
NoRows ==
  /\ pc = "rows" /\ made \notin HasWindows
  /\ alerts' = NoAlerts /\ EndPass(FALSE)
  /\ UNCHANGED <<dataset, model, draft, failures>>

MoveDataset ==
  /\ pc = "rows" /\ made \in HasWindows
  /\ dataset' = made /\ Goto("train")
  /\ UNCHANGED <<made, model, draft, alerts, failures>>

\* Faulty variant: a model that is there is not trained again
TrainOnce ==
  /\ pc = "train"
  /\ IF model = 0 THEN model' = Torn /\ Goto("dump")
                  ELSE UNCHANGED model /\ Goto("score")
  /\ UNCHANGED <<made, dataset, draft, alerts, failures>>

\* joblib.dump opens model.joblib itself ...
Train ==
  /\ pc = "train"
  /\ model' = Torn /\ Goto("dump")
  /\ UNCHANGED <<made, dataset, draft, alerts, failures>>

\* ... and fills it
Dump ==
  /\ pc = "dump"
  /\ model' = dataset /\ Goto("score")
  /\ UNCHANGED <<made, dataset, draft, alerts, failures>>

\* joblib.load raises for half a file
Loadable == model # Torn

\* Faulty variant: the alerts are written in place
ScoreInPlace ==
  /\ pc = "score" /\ Loadable
  /\ draft' = Torn /\ alerts' = Torn /\ Goto("scoring")
  /\ UNCHANGED <<made, dataset, model, failures>>

Score ==
  /\ pc = "score" /\ Loadable
  /\ draft' = Torn /\ Goto("scoring")
  /\ UNCHANGED <<made, dataset, model, alerts, failures>>

ScoreWritten ==
  /\ pc = "scoring"
  /\ draft' = [data |-> dataset, model |-> model] /\ Goto("move")
  /\ UNCHANGED <<made, dataset, model, alerts, failures>>

MoveAlerts ==
  /\ pc = "move"
  /\ alerts' = draft /\ draft' = NoAlerts /\ EndPass(FALSE)
  /\ UNCHANGED <<dataset, model, failures>>

Exit == pc' = "dead" /\ UNCHANGED <<log, sig, last, made, files, gaveUp>>

\* The model was torn by a kill or a failure, and training it again failed
ScoreExits == pc = "score" /\ ~Loadable /\ Exit /\ UNCHANGED faults

Restart ==
  /\ pc = "dead"
  /\ pc' = "idle" /\ last' = 0
  /\ UNCHANGED <<log, sig, made, files, faults, gaveUp>>

-----------------------------------------------------------------------------
(* Commands that fail, and a kill between any two steps.                    *)

\* The `if` around the dataset command: the batch is skipped
DatasetFails ==
  /\ pc = "dataset"
  /\ draft' = NoAlerts /\ EndPass(TRUE)
  /\ UNCHANGED <<dataset, model, alerts>>

\* `|| cat` after the train command: what model there is is used
TrainFails ==
  /\ pc \in {"train", "dump"}
  /\ IF model = 0 THEN EndPass(TRUE) ELSE Goto("score") /\ UNCHANGED made
  /\ UNCHANGED files

\* No other command is tested
CommandFails == pc \in {"rows", "score", "scoring", "move"} /\ Exit /\ UNCHANGED kills

Fails ==
  /\ failures < MaxFailures
  /\ failures' = failures + 1
  /\ DatasetFails \/ TrainFails \/ CommandFails

Kill ==
  /\ pc # "dead" /\ kills < MaxKills
  /\ kills' = kills + 1
  /\ Exit /\ UNCHANGED failures

Loop ==
  \/ CheckSignature \/ MakeDataset \/ NoRows \/ MoveDataset \/ Train \/ Dump
  \/ Score \/ ScoreWritten \/ MoveAlerts \/ ScoreExits \/ Restart

MlNext == AppendEvents \/ Loop \/ Fails \/ Kill

-----------------------------------------------------------------------------

MlTypeOK ==
  /\ log \in Sizes /\ sig \in Sizes /\ last \in Sizes /\ made \in Sizes
  /\ pc \in {"idle", "dataset", "rows", "train", "dump", "score", "scoring",
             "move", "dead"}
  /\ dataset \in Sizes /\ model \in Sizes \union {Torn}
  /\ draft \in Alerts \union {Torn} /\ alerts \in Alerts \union {Torn}
  /\ kills \in Nat /\ failures \in Nat /\ gaveUp \in BOOLEAN

(* Readers of the alerts find a whole set of them, or none: the file is     *)
(* replaced by a rename (ml-loop.sh, line 43), whatever was killed or       *)
(* failed while the new ones were written.                                  *)
AlertsWhole == alerts # Torn

(* Alerts were scored by a model of the same dataset, unless a command      *)
(* failed: a kill between training and scoring repeats both.                *)
ScoredByOwnModel == alerts # Torn => alerts.model = alerts.data \/ failures > 0

(* What the alerts should be for the log as it is.                          *)
Reflects(a) == IF log \in HasWindows THEN a # Torn /\ a.data = log ELSE a = NoAlerts
=============================================================================
