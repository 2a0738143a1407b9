------------------------------ MODULE AlertStore ------------------------------
(***************************************************************************)
(* The command `score` and the tables of src/honeypot_ai/ml_store.py.  A   *)
(* model is trained anew now and then; its id is a hash of the windows and *)
(* the seed, so that the same windows with another objective or learner    *)
(* give another threshold, or other scores, under the same id.  A row of   *)
(* ml_alerts has the model, the window and the score as its key.           *)
(***************************************************************************)
EXTENDS Integers, FiniteSets

CONSTANTS
  ModelIds,
  Windows,     \* the windows of the dataset that is scored
  Levels,      \* the scores and thresholds
  Margins,     \* how far a stored high threshold lies above the threshold
  None,        \* no model, no high threshold, no override
  MaxCommands  \* bound: commands run

ASSUME StoreAssumption ==
  /\ Levels \subseteq Int /\ Margins \subseteq Nat \ {0}
  /\ None \notin Int /\ MaxCommands \in Nat

VARIABLES
  artifact,  \* [id, threshold, high]: model.joblib, or None
  scoreOf,   \* [window -> score] that the model gives
  ml_alerts, \* rows [model, window, score, threshold, severity]
  last,      \* [threshold, below]: the last scoring if it was stored whole, or None
  forced,    \* history: keys whose row comes from a scoring with --threshold
  commands   \* history: commands run

storeVars == <<artifact, scoreOf, ml_alerts, last, forced, commands>>

StoreInit ==
  /\ artifact = None /\ scoreOf \in [Windows -> {0}]
  /\ ml_alerts = {} /\ last = None /\ forced = {} /\ commands = 0

Key(row) == <<row.model, row.window, row.score>>

\* Faulty variant: INSERT OR IGNORE
Kept(table, rows) ==
  table \union {r \in rows : \A q \in table : Key(q) # Key(r)}

\* INSERT OR REPLACE
Replaced(table, rows) ==
  {q \in table : \A r \in rows : Key(q) # Key(r)} \union rows

\* Faulty variant: only the double of the threshold is looked at
DoubleHigh(threshold, stored) == IF stored = None THEN 2 * threshold ELSE stored

\* A model without a high threshold: max(threshold * 2.0, threshold + 0.5)
HighFor(threshold, stored) ==
  IF stored # None THEN stored
  ELSE IF 2 * threshold > threshold + 50 THEN 2 * threshold ELSE threshold + 50

Severity(s, threshold, stored) ==
  IF s >= HighFor(threshold, stored) THEN "high"
  ELSE IF s >= threshold THEN "medium" ELSE "low"

\* score_windows and _alert_for_window
AlertsAt(threshold, below) ==
  {[model |-> artifact.id, window |-> w, score |-> scoreOf[w], threshold |-> threshold,
    severity |-> Severity(scoreOf[w], threshold, artifact.high)] :
     w \in {v \in Windows : below \/ scoreOf[v] >= threshold}}

\* A training run writes model.joblib; older models have no high threshold
Retrain ==
  /\ commands < MaxCommands /\ commands' = commands + 1
  /\ \E id \in ModelIds, t \in Levels :
       \E h \in {t + g : g \in Margins} \union {None} :
         artifact' = [id |-> id, threshold |-> t, high |-> h]
  /\ scoreOf' \in [Windows -> Levels]
  /\ last' = None
  /\ UNCHANGED <<ml_alerts, forced>>

\* insert_ml_alerts has stored all rows, or some when it fails or is killed
ScoreDataset ==
  /\ artifact # None
  /\ commands < MaxCommands /\ commands' = commands + 1
  /\ \E override \in Levels \union {None}, below \in BOOLEAN :
       LET threshold == IF override = None THEN artifact.threshold ELSE override
           rows == AlertsAt(threshold, below)
       IN  \E stored \in SUBSET rows :
             /\ ml_alerts' = Replaced(ml_alerts, stored)
             /\ last' = IF stored = rows THEN [threshold |-> threshold, below |-> below]
                        ELSE None
             /\ forced' = (forced \ {Key(r) : r \in stored}) \union
                          (IF override = None THEN {} ELSE {Key(r) : r \in stored})
  /\ UNCHANGED <<artifact, scoreOf>>

StoreNext == Retrain \/ ScoreDataset

-----------------------------------------------------------------------------

(* After a scoring that was stored whole, the table holds its verdict for   *)
(* every window that it reports; a row with the present score but another   *)
(* threshold is one that this scoring has no alert for.                     *)
StoreShowsLastScoring ==
  last # None =>
    /\ \A w \in Windows :
         last.below \/ scoreOf[w] >= last.threshold =>
           \E r \in ml_alerts : Key(r) = <<artifact.id, w, scoreOf[w]>>
    /\ \A r \in ml_alerts :
         r.model = artifact.id /\ scoreOf[r.window] = r.score =>
           \/ r.threshold = last.threshold
              /\ r.severity = Severity(r.score, last.threshold, artifact.high)
           \/ r.score < last.threshold /\ ~last.below

(* A stored alert is called low exactly if it lies below its threshold,     *)
(* except after --threshold, which can lie above the stored high threshold  *)
(* (_severity asks for the high threshold first).                           *)
SeverityFollowsThreshold ==
  \A r \in ml_alerts :
    Key(r) \notin forced => (r.severity = "low" <=> r.score < r.threshold)
=============================================================================
