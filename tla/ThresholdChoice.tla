--------------------------- MODULE ThresholdChoice ---------------------------
(***************************************************************************)
(* How src/honeypot_ai/ml.py counts alerts and picks a threshold.  Scores  *)
(* and thresholds are integers, in hundredths; scores are even numbers, so *)
(* that one more than a score is a threshold just above it.  Rates are     *)
(* fractions <<numerator, denominator>>, compared by cross-multiplication. *)
(***************************************************************************)
EXTENDS Integers, FiniteSets

Larger(a, b)  == IF a < b THEN b ELSE a
Smaller(a, b) == IF a < b THEN a ELSE b

Malicious(label, I) == {i \in I : label[i] = "malicious"}

\* Are there windows of both labels in I?
Binary(label, I) == Malicious(label, I) \notin {{}, I}

\* Alerts among the windows of I when every score from t on raises one
Counted(I, label, score, t) ==
  LET A == {i \in I : score[i] >= t}
  IN  [threshold |-> t, alerts |-> Cardinality(A),
       tp |-> Cardinality(Malicious(label, A)),
       fp |-> Cardinality(A \ Malicious(label, A))]

\* The first candidate lies above every score, so that nothing raises an alert
NoAlerts(I, score) ==
  {[threshold |-> score[i] + 1, alerts |-> 0, tp |-> 0, fp |-> 0] :
     i \in {j \in I : \A k \in I : score[k] <= score[j]}}

-----------------------------------------------------------------------------

\* _safe_div and _metric_or_zero: 0 where there is nothing to divide by
Rate(a, b) == IF b = 0 THEN <<0, 1>> ELSE <<a, b>>

Less(r, s) == r[1] * s[2] < s[1] * r[2]

F1(c, pos) == IF c.tp = 0 THEN <<0, 1>> ELSE <<2 * c.tp, c.alerts + pos>>

\* The keys of the two calls of max, for pos malicious and neg other windows
FprKey(c, pos, neg) ==
  <<Rate(c.tp, pos), F1(c, pos), Rate(c.tp, c.alerts), Rate(-c.fp, neg), <<c.alerts, 1>>>>

PerDayKey(c, pos) ==
  <<Rate(c.tp, pos), <<c.alerts, 1>>, F1(c, pos), Rate(c.tp, c.alerts)>>

\* Tuples compare from the left
KeyLess(k, l) ==
  \E i \in DOMAIN k :
    Less(k[i], l[i]) /\ \A j \in 1..(i - 1) : ~Less(l[j], k[j]) /\ ~Less(k[j], l[j])

\* max returns the first of the best, and candidates come in falling order
FirstBest(C, key) ==
  CHOOSE c \in C :
    \A d \in C : ~KeyLess(key[c], key[d]) /\ (~KeyLess(key[d], key[c]) => d.threshold <= c.threshold)

\* precision_recall_curve and argmax: the lowest of the scores with the best F1
BestF1(I, label, score) ==
  LET pos == Cardinality(Malicious(label, I))
      C   == {Counted(I, label, score, score[i]) : i \in I}
  IN  CHOOSE c \in C :
        \A d \in C : ~Less(F1(c, pos), F1(d, pos))
                     /\ (~Less(F1(d, pos), F1(c, pos)) => c.threshold <= d.threshold)

\* Faulty variant: false positives are set against all windows
WithinFprOfAll(C, neg, percent) ==
  {c \in C : neg # 0 /\ c.fp * 100 <= percent * (neg + c.tp)}

\* Candidates within the budget of an objective; days = 0 where it has no value
WithinFpr(C, neg, percent) ==
  {c \in C : neg # 0 /\ c.fp * 100 <= percent * neg}

WithinPerDay(C, days, perDay) ==
  {c \in C : days # 0 /\ c.alerts <= perDay * days}

Chosen(c, source) == [threshold |-> c.threshold, source |-> source]

\* _select_calibration_threshold over the candidates C of the windows I
Selected(objective, C, I, label, score, base, percent, days, perDay) ==
  LET pos   == Cardinality(Malicious(label, I))
      neg   == Cardinality(I) - pos
      fpr   == WithinFpr(C, neg, percent)
      daily == WithinPerDay(C, days, perDay)
  IN  IF objective = "best-f1" /\ Binary(label, I)
      THEN Chosen(BestF1(I, label, score), objective)
      ELSE IF objective = "target-fpr" /\ Binary(label, I) /\ fpr # {}
      THEN Chosen(FirstBest(fpr, [c \in fpr |-> FprKey(c, pos, neg)]), objective)
      ELSE IF objective = "target-alerts-per-day" /\ daily # {}
      THEN Chosen(FirstBest(daily, [c \in daily |-> PerDayKey(c, pos)]), objective)
      ELSE [threshold |-> base, source |-> "training_quantile"]

\* _high_threshold: the quantile, or a margin above the threshold (0.05 is 5)
High(quantile, threshold) ==
  IF quantile > threshold THEN quantile
  ELSE threshold + Larger((IF threshold < 0 THEN -threshold ELSE threshold) \div 2, 5)
=============================================================================
