---------------------------- MODULE ModelTraining ----------------------------
(***************************************************************************)
(* The commands `train`, `train --threshold-objective`, `evaluate` and     *)
(* `tune` of src/honeypot_ai/ml.py.  A dataset is its windows in temporal  *)
(* order, 1 the first; the first ones may be dated before min_year (events *)
(* without a time stamp are put into 1970).  The learners are external:    *)
(* whatever scores and quantiles they may come to.  tune and evaluate      *)
(* treat every learner alike; one of them is followed.                     *)
(***************************************************************************)
EXTENDS ThresholdChoice

CONSTANTS
  MaxWindows, \* bound: windows in a dataset
  Scores,     \* the scores that windows can get
  Shares,     \* pairs of percentages <<train, calibration>> for the splits
  FprTarget,  \* target_fpr, in percent
  PerDay,     \* target_alerts_per_day
  Durations   \* days that the calibration windows may span, 0 if none

ASSUME TrainingAssumption ==
  /\ MaxWindows \in Nat /\ Scores \subseteq Int
  /\ Shares \subseteq (1..99) \X (1..99)
  /\ FprTarget \in 0..100 /\ PerDay \in Nat \ {0} /\ Durations \subseteq Nat

Objectives == {"none", "best-f1", "target-fpr", "target-alerts-per-day"}
Parts == {"train", "calibration", "test"}

VARIABLES
  command,    \* "train", "evaluate", "tune", or "none"
  objective,  \* --threshold-objective
  shares,     \* the fractions of the split
  dataset,    \* [size, old, label]: windows, undated ones among them, labels
  stage,      \* how far the command is
  part,       \* [Parts -> windows]
  quantile,   \* [base, high]: fallback threshold and high quantile of the training scores
  score,      \* [held-out window -> score]
  days,       \* what _duration_days makes of the calibration windows
  left,       \* windows that the candidate loop has not reached
  candidates, \* candidate records so far
  choice,     \* [threshold, source]
  high        \* high_threshold

input == <<command, objective, shares, dataset>>
work  == <<part, quantile, score, days, left, candidates, choice, high>>
trainingVars == <<input, stage, work>>

NoPart == [k \in Parts |-> {}]
NoChoice == [threshold |-> 0, source |-> "none"]

TrainingInit ==
  /\ command = "none" /\ objective = "none" /\ shares = <<0, 0>>
  /\ dataset = [size |-> 0, old |-> 0, label |-> <<>>]
  /\ stage = "idle" /\ part = NoPart /\ quantile = [base |-> 0, high |-> 0]
  /\ score = <<>> /\ days = 0 /\ left = {} /\ candidates = {}
  /\ choice = NoChoice /\ high = 0

-----------------------------------------------------------------------------

\* evaluate has no objective; train has one when it calibrates; tune always has
StartTraining(c) ==
  /\ stage = "idle"
  /\ command' = c
  /\ objective' \in Objectives
  /\ c = "tune" => objective' # "none"
  /\ c = "evaluate" => objective' = "none"
  /\ shares' \in Shares
  /\ \E n \in 0..MaxWindows : \E k \in 0..Smaller(n, 1) :
       \E label \in [1..n -> {"benign", "malicious"}] :
         dataset' = [size |-> n, old |-> k, label |-> label]
  /\ stage' = "split"
  /\ UNCHANGED work

Fails == stage' = "failed" /\ UNCHANGED <<input, work>>

\* The windows from min_year on; plain training uses all of them
Used ==
  IF command = "train" /\ objective = "none"
  THEN 1..dataset.size ELSE (dataset.old + 1)..dataset.size

\* int(n * fraction), kept away from both ends
Cut(n, percent, lowest, highest) ==
  Larger(lowest, Smaller(highest, (n * percent) \div 100))

\* Faulty variant: the first cut leaves room for one more part only
TuneCutsTight(n) ==
  LET first == Cut(n, shares[1], 1, n - 1)
  IN  <<first, Cut(n, shares[1] + shares[2], first + 1, n - 1)>>

\* train_end and calibration_end of tune_temporal_split
TuneCuts(n) ==
  LET first == Cut(n, shares[1], 1, n - 2)
  IN  <<first, Cut(n, shares[1] + shares[2], first + 1, n - 1)>>

\* The windows of W from the i-th to the j-th
Slice(W, i, j) ==
  {w \in W : i <= Cardinality({v \in W : v <= w}) /\ Cardinality({v \in W : v <= w}) <= j}

Split ==
  LET n == Cardinality(Used)
      one == Cut(n, shares[1], 1, n - 1)
      two == TuneCuts(n)
      least == IF command = "tune" THEN 3
               ELSE IF command = "train" /\ objective = "none" THEN 1 ELSE 2
  IN  /\ stage = "split"
      /\ \/ n < least /\ Fails
         \/ /\ n >= least
            /\ \/ /\ command = "tune"
                  /\ part' = [train |-> Slice(Used, 1, two[1]),
                              calibration |-> Slice(Used, two[1] + 1, two[2]),
                              test |-> Slice(Used, two[2] + 1, n)]
               \/ /\ command = "evaluate"
                  /\ part' = [train |-> Slice(Used, 1, one), calibration |-> {},
                              test |-> Slice(Used, one + 1, n)]
               \/ /\ command = "train" /\ objective # "none"
                  /\ part' = [train |-> Slice(Used, 1, one),
                              calibration |-> Slice(Used, one + 1, n), test |-> {}]
               \/ /\ command = "train" /\ objective = "none"
                  /\ part' = [train |-> Used, calibration |-> {}, test |-> {}]
            /\ stage' = "fit"
            /\ UNCHANGED <<input, quantile, score, days, left, candidates, choice, high>>

\* The learners see the windows that are not malicious, or all if there are none
Fitted ==
  LET benign == part["train"] \ Malicious(dataset.label, part["train"])
  IN  IF benign = {} THEN part["train"] ELSE benign

\* Isolation forests need two rows
Trained == {"river"} \union (IF Cardinality(Fitted) >= 2 THEN {"isolation"} ELSE {})

\* _select_scorer: auto goes by AUC where the labels of the training part allow
\* one and River wins a near tie; without an AUC the forest is preferred
Preferred ==
  IF Binary(dataset.label, part["train"]) THEN Trained
  ELSE IF "isolation" \in Trained THEN {"isolation"} ELSE {"river"}

Picks(requested) ==
  CASE command # "train" -> Trained
    [] requested = "auto" -> Preferred
    [] OTHER -> Trained \intersect {requested}

\* The River threshold is at least 0.05, except in tune
Base(scorer, q) == IF scorer = "river" /\ command # "tune" THEN Larger(q, 5) ELSE q

Fit ==
  /\ stage = "fit"
  /\ \E requested \in {"auto", "river", "isolation"} :
       \/ Picks(requested) = {} /\ Fails
       \/ \E scorer \in Picks(requested), q, h \in Scores :
            /\ quantile' = [base |-> Base(scorer, q), high |-> h]
            /\ choice' = [threshold |-> Base(scorer, q), source |-> "training_quantile"]
            /\ high' = High(h, Base(scorer, q))
            /\ stage' = IF part["calibration"] # {} THEN "calibrate" ELSE "finish"
            /\ UNCHANGED <<input, part, score, days, left, candidates>>

\* _score_many over the holdout, and the first candidate
ScoreHoldout ==
  /\ stage = "calibrate"
  /\ score' \in [part["calibration"] -> Scores]
  /\ days' \in Durations
  /\ left' = part["calibration"]
  /\ candidates' = NoAlerts(left', score')
  /\ stage' = "count"
  /\ UNCHANGED <<input, part, quantile, choice, high>>

Top == {i \in left : \A j \in left : score[j] <= score[i]}

\* The inner loop: every window with the next lower score
NextGroup == Top

\* One pass of the loop of _threshold_candidates
Count ==
  LET group == NextGroup
      done  == (part["calibration"] \ left) \union group
  IN  /\ stage = "count" /\ left # {}
      /\ left' = left \ group
      /\ candidates' = candidates \union
           {[threshold |-> score[i], alerts |-> Cardinality(done),
             tp |-> Cardinality(Malicious(dataset.label, done)),
             fp |-> Cardinality(done \ Malicious(dataset.label, done))] : i \in group}
      /\ UNCHANGED <<input, stage, part, quantile, score, days, choice, high>>

\* The threshold is taken from the holdout, and the high one follows it
Choose ==
  /\ stage = "count" /\ left = {}
  /\ choice' = Selected(objective, candidates, part["calibration"], dataset.label, score,
                        quantile.base, FprTarget, days, PerDay)
  /\ high' = High(quantile.high, choice'.threshold)
  /\ stage' = "finish"
  /\ UNCHANGED <<input, part, quantile, score, days, left, candidates>>

\* The artifact is written, or the metrics of the test part are reported
Finish ==
  /\ stage = "finish"
  /\ stage' = "done"
  /\ UNCHANGED <<input, work>>

TrainingNext ==
  \/ \E c \in {"train", "evaluate", "tune"} : StartTraining(c)
  \/ Split \/ Fit \/ ScoreHoldout \/ Count \/ Choose \/ Finish

-----------------------------------------------------------------------------

After(I, J) == \A i \in I, j \in J : j < i

(* However few windows there are, a command that splits them has windows in *)
(* every part, uses each dated window once, and neither calibrates nor      *)
(* tests on a window that is not later than all it was trained on (the cuts *)
(* of train_calibrated_model, evaluate_temporal_split, tune_temporal_split).*)
PartsInOrder ==
  stage \notin {"idle", "split", "failed"} =>
    /\ UNION {part[k] : k \in Parts} = Used
    /\ part["train"] # {}
    /\ objective # "none" => part["calibration"] # {}
    /\ command # "train" => part["test"] # {}
    /\ After(part["calibration"], part["train"])
    /\ After(part["test"], part["train"] \union part["calibration"])

Calibrated == stage = "finish" /\ part["calibration"] # {}
Raised == Counted(part["calibration"], dataset.label, score, choice.threshold)
Benign == part["calibration"] \ Malicious(dataset.label, part["calibration"])

Fits(c) ==
  IF objective = "target-fpr" THEN c.fp * 100 <= FprTarget * Cardinality(Benign)
  ELSE c.alerts <= PerDay * days

(* A threshold that was chosen for a budget keeps it when the holdout is    *)
(* scored with it, and no other threshold within the budget would find more *)
(* malicious windows; the training quantile, which no budget was held       *)
(* against, remains only where the holdout cannot decide: one label, or no  *)
(* time between its windows (_select_calibration_threshold).                *)
BudgetKept ==
  Calibrated =>
    \/ /\ choice.source = "training_quantile"
       /\ IF objective = "target-alerts-per-day" THEN days = 0
          ELSE ~Binary(dataset.label, part["calibration"])
    \/ /\ choice.source = objective /\ objective \in {"target-fpr", "target-alerts-per-day"}
       /\ Fits(Raised)
       /\ \A i \in part["calibration"] :
            LET other == Counted(part["calibration"], dataset.label, score, score[i])
            IN  Fits(other) => other.tp <= Raised.tp
    \/ choice.source = objective /\ objective = "best-f1"
=============================================================================
