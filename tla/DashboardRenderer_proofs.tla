------------------------ MODULE DashboardRenderer_proofs ------------------------
(***************************************************************************)
(* What the readers of the ML loop's alerts can rely on, for every bound   *)
(* and every log, whatever is killed or fails.                             *)
(*                                                                         *)
(* Whether alerts are whole and whether their own model scored them is     *)
(* settled before they are moved into place: the invariant follows the     *)
(* model and the draft through the pass.                                   *)
(***************************************************************************)
EXTENDS DashboardRenderer, TLAPS

\* Alerts scored by a model of the same dataset, or after a failure
Own(a) == a.model = a.data \/ failures > 0

ModelTrained == pc \in {"score", "scoring"} => model = dataset \/ failures > 0

ModelLoaded == pc = "scoring" => Loadable

DraftScored == pc = "move" => draft \in Alerts /\ Own(draft)

AlertsScored == alerts \in Alerts /\ Own(alerts)

MlInv == MlTypeOK /\ ModelTrained /\ ModelLoaded /\ DraftScored /\ AlertsScored

-----------------------------------------------------------------------------

(* No alerts at all are whole and of no model.                              *)
LEMMA NoAlertsScored == NoAlerts \in Alerts /\ Own(NoAlerts)
BY MlAssumption DEF NoAlerts, Alerts, Sizes, Own

(* The script and its files start in the invariant.                         *)
LEMMA MlInitial == MlInit => MlInv
<1> SUFFICES ASSUME MlInit
             PROVE  MlInv
  OBVIOUS
<1>1. 0 \in Sizes
  BY MlAssumption DEF Sizes
<1>2. gaveUp \in BOOLEAN
  BY Zenon DEF MlInit
<1>3. MlTypeOK
  BY <1>1, <1>2, NoAlertsScored DEF MlInit, MlTypeOK
<1>4. AlertsScored
  BY NoAlertsScored DEF MlInit, AlertsScored, Own
<1> QED
  BY <1>3, <1>4 DEF MlInit, MlInv, ModelTrained, ModelLoaded, DraftScored

(* A script that ends, for whatever reason, leaves the invariant.           *)
LEMMA ExitKeeps ==
  ASSUME MlInv, Exit, failures' \in Nat, kills' \in Nat, failures' >= failures
  PROVE  MlInv'
<1>1. MlTypeOK'
  BY DEF MlInv, MlTypeOK, Exit, files
<1>2. (ModelTrained /\ ModelLoaded /\ DraftScored)'
  BY DEF Exit, ModelTrained, ModelLoaded, DraftScored
<1>3. AlertsScored'
  BY DEF MlInv, MlTypeOK, Exit, files, AlertsScored, Own
<1> QED
  BY <1>1, <1>2, <1>3 DEF MlInv

(* Every step of the ML loop, its faults included, keeps the invariant.     *)
LEMMA MlStep == MlInv /\ [MlNext]_mlVars => MlInv'
<1> SUFFICES ASSUME MlInv, [MlNext]_mlVars
             PROVE  MlInv'
  OBVIOUS
<1> USE DEF MlInv, MlTypeOK, files, faults
<1>1. CASE AppendEvents
  <2>1. log' \in Sizes
    BY <1>1, MlAssumption DEF AppendEvents, Sizes
  <2> QED
    BY <1>1, <2>1
    DEF AppendEvents, ModelTrained, ModelLoaded, Loadable, DraftScored, AlertsScored, Own
<1>2. CASE CheckSignature
  BY <1>2
  DEF CheckSignature, ModelTrained, ModelLoaded, DraftScored, AlertsScored, Own
<1>3. CASE MakeDataset
  BY <1>3
  DEF MakeDataset, Goto, ModelTrained, ModelLoaded, DraftScored, AlertsScored, Own
<1>4. CASE NoRows
  <2>1. AlertsScored'
    BY <1>4, NoAlertsScored DEF NoRows, EndPass, AlertsScored, Own
  <2> QED
    BY <1>4, <2>1
    DEF NoRows, EndPass, ModelTrained, ModelLoaded, DraftScored, AlertsScored
<1>5. CASE MoveDataset
  BY <1>5
  DEF MoveDataset, Goto, ModelTrained, ModelLoaded, DraftScored, AlertsScored, Own
<1>6. CASE Train
  BY <1>6
  DEF Train, Goto, ModelTrained, ModelLoaded, DraftScored, AlertsScored, Own
<1>7. CASE Dump
  BY <1>7
  DEF Dump, Goto, ModelTrained, ModelLoaded, DraftScored, AlertsScored, Own
<1>8. CASE Score
  BY <1>8
  DEF Score, Goto, ModelTrained, ModelLoaded, Loadable, DraftScored, AlertsScored, Own
<1>9. CASE ScoreWritten
  <2>1. model \in Sizes
    BY <1>9 DEF ScoreWritten, ModelLoaded, Loadable
  <2>2. draft' \in Alerts /\ Own(draft)'
    BY <1>9, <2>1 DEF ScoreWritten, Alerts, ModelTrained, Own
  <2> QED
    BY <1>9, <2>2
    DEF ScoreWritten, Goto, ModelTrained, ModelLoaded, DraftScored, AlertsScored, Own
<1>10. CASE MoveAlerts
  <2>1. draft' \in Alerts
    BY <1>10, NoAlertsScored DEF MoveAlerts
  <2>2. AlertsScored'
    BY <1>10 DEF MoveAlerts, DraftScored, AlertsScored, Own
  <2> QED
    BY <1>10, <2>1, <2>2
    DEF MoveAlerts, EndPass, ModelTrained, ModelLoaded, DraftScored, AlertsScored
<1>11. CASE ScoreExits
  BY <1>11, ExitKeeps DEF ScoreExits
<1>12. CASE Restart
  <2>1. last' \in Sizes
    BY <1>12, MlAssumption DEF Restart, Sizes
  <2> QED
    BY <1>12, <2>1
    DEF Restart, ModelTrained, ModelLoaded, DraftScored, AlertsScored, Own
<1>13. CASE Fails
  <2>1. failures' > 0 /\ failures' \in Nat /\ failures' >= failures
    BY <1>13 DEF Fails
  <2>2. CASE DatasetFails
    <3>1. draft' \in Alerts
      BY <2>2, NoAlertsScored DEF DatasetFails
    <3> QED
      BY <2>1, <2>2, <3>1
      DEF DatasetFails, EndPass, ModelTrained, ModelLoaded, DraftScored, AlertsScored, Own
  <2>3. CASE TrainFails
    BY <2>1, <2>3
    DEF TrainFails, EndPass, Goto, ModelTrained, ModelLoaded, DraftScored, AlertsScored, Own
  <2>4. CASE CommandFails
    BY <2>1, <2>4, ExitKeeps DEF CommandFails
  <2> QED
    BY <1>13, <2>2, <2>3, <2>4 DEF Fails
<1>14. CASE Kill
  BY <1>14, ExitKeeps DEF Kill
<1>15. CASE UNCHANGED mlVars
  BY <1>15
  DEF mlVars, ModelTrained, ModelLoaded, Loadable, DraftScored, AlertsScored, Own
<1> QED
  BY <1>1, <1>2, <1>3, <1>4, <1>5, <1>6, <1>7, <1>8, <1>9, <1>10, <1>11, <1>12,
     <1>13, <1>14, <1>15 DEF MlNext, Loop

-----------------------------------------------------------------------------

(* The renderer next to it touches none of the loop's variables.            *)
LEMMA NextIsMlStep == [Next]_vars => [MlNext]_mlVars
BY DEF Next, vars

(* Whoever reads the ML alerts finds a whole set of them, whatever was      *)
(* killed or failed (ml-loop.sh writes a draft and renames it).             *)
THEOREM AlertsAlwaysWhole == Spec => []AlertsWhole
<1>1. Init => MlInv
  BY MlInitial DEF Init
<1>2. MlInv /\ [Next]_vars => MlInv'
  BY MlStep, NextIsMlStep
<1>3. MlInv => AlertsWhole
  BY MlAssumption DEF MlInv, AlertsScored, AlertsWhole
<1> QED
  BY <1>1, <1>2, <1>3, PTL DEF Spec

(* They were scored by the model trained on their own dataset, unless some  *)
(* command failed (ml-loop.sh runs both again after it was started again).  *)
THEOREM AlertsOfOwnModel == Spec => []ScoredByOwnModel
<1>1. Init => MlInv
  BY MlInitial DEF Init
<1>2. MlInv /\ [Next]_vars => MlInv'
  BY MlStep, NextIsMlStep
<1>3. MlInv => ScoredByOwnModel
  BY DEF MlInv, AlertsScored, Own, ScoredByOwnModel
<1> QED
  BY <1>1, <1>2, <1>3, PTL DEF Spec

(* The page, the cache and the thread of the renderer are well typed next   *)
(* to a well-typed ML loop: the renderer only reads whole alerts.           *)
THEOREM TypeCorrect == Spec => []TypeOK
<1>1. Init => MlInv /\ TypeOK
  <2> SUFFICES ASSUME Init
               PROVE  MlInv /\ TypeOK
    OBVIOUS
  <2>1. MlInv /\ MlTypeOK
    BY MlInitial DEF Init, MlInv
  <2>2. view \in Alerts /\ page \in Alerts
    BY NoAlertsScored DEF Init
  <2>3. ragged \in BOOLEAN /\ active \in BOOLEAN /\ fresh \in BOOLEAN
    BY DEF Init
  <2>4. crashes \in Nat /\ errors \in Nat
    BY DEF Init
  <2> QED
    BY <2>1, <2>2, <2>3, <2>4 DEF Init, TypeOK
<1>2. ASSUME MlInv, TypeOK, [Next]_vars
      PROVE  MlInv' /\ TypeOK'
  <2>1. MlInv' /\ MlTypeOK'
    BY <1>2, MlStep, NextIsMlStep DEF MlInv
  <2>2. alerts # Torn => alerts \in Alerts
    BY <1>2 DEF MlInv, AlertsScored
  <2> USE <1>2, <2>1, <2>2 DEF TypeOK, llmVars
  <2>3. CASE UNCHANGED pageVars
    BY <2>3 DEF pageVars
  <2>4. CASE ReadAlerts
    BY <2>4 DEF ReadAlerts
  <2>5. CASE Render
    BY <2>5 DEF Render, Summarise
  <2>6. CASE WritePage
    BY <2>6 DEF WritePage
  <2>7. CASE Answer
    BY <2>7 DEF Answer, Cache, ThreadEnds
  <2>8. CASE AnswerFails
    <3>1. errors' \in Nat
      BY <2>8 DEF AnswerFails
    <3>2. UNCHANGED <<ragged, at, view, page, crashes>>
      BY <2>8 DEF AnswerFails
    <3>3. summary' \in Alerts \union {None, Failed} /\ fresh' \in BOOLEAN
      BY <2>8 DEF AnswerFails, Cache
    <3>4. active' \in BOOLEAN /\ asked' \in Alerts \union {None}
      BY <2>8 DEF AnswerFails, ThreadEnds
    <3> QED
      BY <3>1, <3>2, <3>3, <3>4
  <2>9. CASE Expire
    BY <2>9 DEF Expire
  <2>10. CASE RendererKilled
    <3>1. crashes' \in Nat
      BY <2>10 DEF RendererKilled
    <3> QED
      BY <2>10, <3>1 DEF RendererKilled
  <2>11. CASE RendererStarts
    BY <2>11 DEF RendererStarts
  <2>12. CASE SiemLineCut
    BY <2>12 DEF SiemLineCut
  <2> QED
    BY <2>3, <2>4, <2>5, <2>6, <2>7, <2>8, <2>9, <2>10, <2>11, <2>12
    DEF Next, Renderer, vars
<1> QED
  BY <1>1, <1>2, PTL DEF Spec
=============================================================================
