-------------------------- MODULE SplunkStream_proofs --------------------------
(***************************************************************************)
(* Proofs about SplunkStream for any sources, rotations, sinks, kills and  *)
(* failing posts, and that it implements AtLeastOnce where nothing is      *)
(* rotated.                                                                *)
(***************************************************************************)
EXTENDS SplunkDelivery, AlertFile_proofs

\* A step of the tail, other than a kill
Reading == FileStep \/ ScanStep \/ SaveTruncate \/ SaveWrite("idle") \/ Restart

(* Steps are those of the tail, which reach no sink, kills, and the others. *)
LEMMA StepKinds ==
  ASSUME [Next]_vars
  PROVE  \/ Reading /\ UNCHANGED <<sink, hecVars>>
         \/ Kill /\ unsent' = {} /\ UNCHANGED <<sink, hec, failures>>
         \/ NothingNew \/ Accept \/ Append \/ (\E l \in Lines : Post(l)) \/ Sent
         \/ (\E l \in Lines : PostFails(l)) \/ (KilledInAppend /\ UNCHANGED hecVars)
         \/ UNCHANGED vars
BY DEF Next, Running, Save, Reading

(* They are TailSteps, and outside an append and the sending, save for the  *)
(* log writers, who leave the daemon alone.                                 *)
LEMMA ReadingFacts ==
  ASSUME Reading
  PROVE  /\ TailStep
         /\ UNCHANGED <<pc, batch>> \/ (pc # "append" /\ pc' \notin {"append", "send"})
         /\ UNCHANGED <<pc, batch>> \/ pc # "send"
BY DEF Reading, TailStep, FileStep, Grow, RotateAway, Recreate, reader, ScanStep, LoadOffsets,
       Stat, Read, ReadMissing, Reject, Stop, ScanFinished, SaveTruncate, SaveWrite, Restart

SplunkTypeInv == TypeOK /\ (pc # "send" => unsent = {})

(* Every variable keeps its type, and only a poll that sends has events yet *)
(* to send (splunk_stream_once and its environment).                        *)
THEOREM TypeCorrect == Spec => []SplunkTypeInv
<1>1. Init => SplunkTypeInv
  <2>1. ASSUME Init
        PROVE  SinkTypeOK /\ hec \in [Lines -> Nat] /\ pc = "idle" /\ batch = {}
    BY <2>1 DEF Init, SinkInit, SinkTypeOK, TailInit
  <2> QED
    BY <2>1, TailInitType DEF Init, TypeOK, SplunkTypeInv
<1>2. SplunkTypeInv /\ [Next]_vars => SplunkTypeInv'
  <2> SUFFICES ASSUME SplunkTypeInv, [Next]_vars
               PROVE  SplunkTypeInv'
    OBVIOUS
  <2> USE DEF SplunkTypeInv, TypeOK, SinkTypeOK, sink, hecVars
  <2>1. CASE Reading /\ UNCHANGED <<sink, hecVars>>
    BY <2>1, ReadingFacts, TailStepType
  <2>2. CASE Kill /\ unsent' = {} /\ UNCHANGED <<sink, hec, failures>>
    BY <2>2, TailStepType DEF TailStep
  <2>3. CASE NothingNew \/ Sent
    BY <2>3, SplunkAssumption DEF NothingNew, Sent, ScanFinished, TailTypeOK, files, reader
  <2>4. CASE Accept
    BY <2>4, SplunkAssumption DEF Accept, StartSending, ScanFinished, TailTypeOK, files, reader
  <2>5. CASE Append
    <3>1. TailTypeOK'
      BY <2>5, SplunkAssumption DEF Append, StartSending, TailTypeOK, files, reader
    <3>2. SinkTypeOK'
      BY <2>5, AppendType DEF Append
    <3> QED
      BY <2>5, <3>1, <3>2 DEF Append, AppendBatch, StartSending, reader
  <2>6. ASSUME NEW l \in Lines, Post(l)
        PROVE  SplunkTypeInv'
    BY <2>6 DEF Post, TailTypeOK, files, reader
  <2>7. ASSUME NEW l \in Lines, PostFails(l)
        PROVE  SplunkTypeInv'
    <3>1. TailTypeOK'
      BY <2>7, StopType DEF PostFails, TailTypeOK
    <3> QED
      BY <2>7, <3>1 DEF PostFails
  <2>8. CASE KilledInAppend /\ UNCHANGED hecVars
    <3>1. crashes' \in Nat
      BY <2>8 DEF KilledInAppend, TailTypeOK
    <3>2. SinkTypeOK'
      BY <2>8, KilledType
    <3> QED
      BY <2>8, <3>1, <3>2, StopType DEF KilledInAppend
  <2>9. CASE UNCHANGED vars
    BY <2>9 DEF vars, tailVars, TailTypeOK, files, reader
  <2> QED
    BY <2>1, <2>2, <2>3, <2>4, <2>5, <2>6, <2>7, <2>8, <2>9, StepKinds
<1> QED
  BY <1>1, <1>2, PTL DEF Spec

-----------------------------------------------------------------------------
(* Offsets stand at the ends of lines, in the state file and in a poll.     *)

EndsInv == AtLineEnds(Saved) /\ AtLineEnds(next)

(* Any step leaves them there.                                              *)
LEMMA EndsAlways == Spec => []EndsInv
<1>1. Init => EndsInv
  BY ZeroAtLineEnds DEF Init, TailInit, Saved, EndsInv
<1>2. SplunkTypeInv /\ EndsInv /\ [Next]_vars => EndsInv'
  <2> SUFFICES ASSUME SplunkTypeInv, EndsInv, [Next]_vars
               PROVE  EndsInv'
    OBVIOUS
  <2> USE DEF EndsInv
  <2>1. CASE UNCHANGED <<files, stateFile>> /\ (UNCHANGED next \/ Stop)
    BY <2>1 DEF AtLineEnds, Saved, Zero, files, Stop, AtRest
  <2>2. CASE TailStep
    BY <2>2, TailStepAtLineEnds DEF SplunkTypeInv, TypeOK
  <2>3. CASE \/ NothingNew \/ Accept \/ Append \/ (\E l \in Lines : Post(l) \/ PostFails(l)) \/ Sent
             \/ KilledInAppend \/ UNCHANGED vars
    BY <2>1, <2>3 DEF NothingNew, Accept, Append, Post, PostFails, Sent, KilledInAppend, vars,
       tailVars, reader
  <2> QED
    BY <2>2, <2>3, StepKinds, ReadingFacts DEF TailStep
<1> QED
  BY <1>1, <1>2, TypeCorrect, PTL DEF Spec

-----------------------------------------------------------------------------
(* No line is skipped: the promise of the offsets, for the lines that every *)
(* configured sink got.  What the batch still lacks is appended or posted   *)
(* before the offsets are saved.                                            *)

Delivered == {l \in Lines : InFile(l) /\ Indexed(l)}

SendingInv ==
  /\ pc = "append" => ToFile
  /\ pc = "send" => ToHec /\ \A l \in batch : InFile(l) /\ (l \in unsent \/ hec[l] > 0)

SkipInv == SendingInv /\ PassedOnly(Delivered) /\ NextPromises(Delivered)

(* An append puts the batch in the file; the collector comes next, if any.  *)
LEMMA AppendKeepsPromise ==
  ASSUME SplunkTypeInv, SkipInv, Append
  PROVE  SkipInv'
<1>1. batch \subseteq Lines /\ hec \in [Lines -> Nat]
  BY DEF SplunkTypeInv, TypeOK, TailTypeOK
<1>2. /\ UNCHANGED <<files, stateFile, next, batch, hec>>
      /\ pc = "append" /\ pc' = (IF ToHec THEN "send" ELSE "save")
      /\ unsent' = (IF ToHec THEN batch ELSE {})
  BY DEF Append, AppendBatch, StartSending, reader
<1>3. \A l \in Lines : (Handled(l) => Handled(l)') /\ (l \in batch => Handled(l)')
  BY <1>1, AppendHandled DEF Append, SplunkTypeInv, TypeOK
<1>4. SendingInv'
  BY <1>1, <1>2, <1>3 DEF SendingInv, InFile
<1>5. PICK D : D = Delivered
  OBVIOUS
<1>6. PICK E : E = Delivered'
  OBVIOUS
<1>7. D \subseteq E
  BY <1>2, <1>3, <1>5, <1>6 DEF Delivered, InFile, Indexed
<1>8. \A l \in Lines : Pending(l) => Pending(l)' \/ l \in E
  BY <1>2, <1>3, <1>6, SplunkAssumption DEF Pending, Delivered, InFile, Indexed
<1>9. PassedOnly(E)' /\ NextPromises(E)'
  BY <1>2, <1>5, <1>7, <1>8, SameOffsets DEF SkipInv, PassedOnly, NextPromises
<1> QED
  BY <1>4, <1>6, <1>9 DEF SkipInv, PassedOnly, NextPromises

(* The offsets of the process pass what every sink has or will get from the *)
(* batch.                                                                   *)
LEMMA SkipStep ==
  ASSUME SplunkTypeInv, AtLineEnds(next), SkipInv, [Next]_vars
  PROVE  SkipInv'
<1>0. batch \subseteq Lines /\ hec \in [Lines -> Nat]
  BY DEF SplunkTypeInv, TypeOK, TailTypeOK
<1>1. PICK D : D = Delivered
  OBVIOUS
<1>2. PICK E : E = Delivered'
  OBVIOUS
<1>3. SendingInv /\ PassedOnly(D) /\ NextPromises(D)
  BY <1>1 DEF SkipInv, PassedOnly, NextPromises
<1>4. ASSUME SendingInv', PassedOnly(E)', NextPromises(E)'
      PROVE  SkipInv'
  BY <1>2, <1>4 DEF SkipInv, PassedOnly, NextPromises
<1>5. UNCHANGED <<sink, hec>> =>
        E = D /\ \A l \in Lines : InFile(l)' <=> InFile(l)
  BY <1>1, <1>2 DEF Delivered, InFile, Indexed, Handled, sink
<1>6. ASSUME Stop, UNCHANGED <<files, stateFile>>, D \subseteq E
      PROVE  SkipInv'
  <2>1. PassedOnly(E)' /\ NextPromises(E)'
    BY <1>3, <1>6, StopKeepsPromise
  <2>2. SendingInv'
    BY <1>6 DEF SendingInv, Stop
  <2> QED
    BY <1>4, <2>1, <2>2
<1>7. CASE Reading /\ UNCHANGED <<sink, hecVars>>
  <2>1. PassedOnly(E)' /\ NextPromises(E)'
    <3>1. E = D
      BY <1>5, <1>7 DEF hecVars
    <3>2. PassedOnly(D)' /\ NextPromises(D)'
      BY <1>3, <1>7, ReadingFacts, TailStepKeepsPromise DEF SplunkTypeInv, TypeOK
    <3> QED
      BY <3>1, <3>2
  <2>2. SendingInv'
    BY <1>0, <1>3, <1>5, <1>7, ReadingFacts DEF SendingInv, hecVars
  <2> QED
    BY <1>4, <2>1, <2>2
<1>8. CASE Kill /\ unsent' = {} /\ UNCHANGED <<sink, hec, failures>>
  BY <1>5, <1>6, <1>8 DEF Kill
<1>9. CASE NothingNew \/ Accept \/ Sent \/ UNCHANGED vars
  <2>1. UNCHANGED <<files, stateFile, next, batch, sink, hec>>
    BY <1>9 DEF NothingNew, Accept, Sent, vars, tailVars, reader, hecVars
  <2>2. SendingInv'
    BY <1>0, <1>3, <1>5, <1>9, <2>1, SplunkAssumption
    DEF SendingInv, NothingNew, Accept, Sent, StartSending, vars, tailVars, hecVars, InFile
  <2>3. \A l \in Lines : Pending(l) => Pending(l)' \/ l \in E
    <3>1. CASE NothingNew \/ UNCHANGED vars
      BY <2>1, <3>1 DEF Pending, NothingNew, GotLines, vars, tailVars
    <3>2. CASE Accept
      BY <2>1, <3>2, SplunkAssumption DEF Pending, Accept, StartSending
    <3>3. CASE Sent
      BY <1>2, <1>3, <1>5, <2>1, <3>3 DEF Pending, Sent, SendingInv, Delivered, Indexed
    <3> QED
      BY <1>9, <3>1, <3>2, <3>3
  <2>4. PassedOnly(E)' /\ NextPromises(E)'
    BY <1>3, <1>5, <2>1, <2>3, SameOffsets
  <2> QED
    BY <1>4, <2>2, <2>4
<1>10. CASE Append
  BY <1>10, AppendKeepsPromise
<1>11. ASSUME NEW l \in Lines, Post(l)
       PROVE  SkipInv'
  <2>1. /\ UNCHANGED <<files, stateFile, next, batch, pc, sink>>
        /\ \A m \in Lines : hec[m] > 0 => hec'[m] > 0
        /\ hec'[l] > 0 /\ unsent' = unsent \ {l}
    BY <1>0, <1>11 DEF Post, reader
  <2>2. \A m \in Lines : InFile(m)' <=> InFile(m)
    BY <2>1 DEF InFile, Handled, sink
  <2>3. D \subseteq E
    BY <1>1, <1>2, <2>1, <2>2 DEF Delivered, Indexed
  <2>4. PassedOnly(E)' /\ NextPromises(E)'
    BY <1>3, <2>1, <2>3, SameOffsets DEF Pending
  <2>5. SendingInv'
    BY <1>0, <1>3, <2>1, <2>2 DEF SendingInv
  <2> QED
    BY <1>4, <2>4, <2>5
<1>12. ASSUME NEW l \in Lines, PostFails(l)
       PROVE  SkipInv'
  <2>1. UNCHANGED sink /\ \A m \in Lines : hec[m] > 0 => hec'[m] > 0
    BY <1>0, <1>12 DEF PostFails
  <2>2. D \subseteq E
    BY <1>1, <1>2, <2>1 DEF Delivered, InFile, Indexed, Handled, sink
  <2> QED
    BY <1>6, <1>12, <2>2 DEF PostFails
<1>13. CASE KilledInAppend /\ UNCHANGED hecVars
  <2>1. \A m \in Lines : Handled(m) => Handled(m)'
    BY <1>13, KilledHandled DEF SplunkTypeInv, TypeOK
  <2>2. D \subseteq E
    BY <1>1, <1>2, <1>13, <2>1 DEF Delivered, InFile, Indexed, hecVars
  <2> QED
    BY <1>6, <1>13, <2>2 DEF KilledInAppend
<1> QED
  BY <1>7, <1>8, <1>9, <1>10, <1>11, <1>12, <1>13, StepKinds

(* Whatever is killed, rotated, rejected or fails to be posted, the saved   *)
(* offsets pass no line that a sink still lacks, save for lines that begin  *)
(* below an offset carried over a rotation (send_to_splunk_hec comes before *)
(* _save_offsets).                                                          *)
THEOREM NoLineSkipped == Spec => []NothingSkipped
<1>1. Init => SkipInv
  BY PromiseAtStart DEF Init, SkipInv, SendingInv, TailInit
<1>2. SplunkTypeInv /\ EndsInv /\ SkipInv /\ [Next]_vars => SkipInv'
  BY SkipStep DEF EndsInv
<1>3. SkipInv => NothingSkipped
  BY DEF SkipInv, PassedOnly, Delivered, InFile, Indexed, NothingSkipped
<1> QED
  BY <1>1, <1>2, <1>3, TypeCorrect, EndsAlways, PTL DEF Spec

-----------------------------------------------------------------------------
(* Copies.  Kills and failed posts pay for the second copy of a line, in    *)
(* either sink; an event that is still to be posted was not posted since    *)
(* the last of them.                                                        *)

Paid == crashes + failures

PostsFresh == pc = "send" => \A l \in unsent : hec[l] <= Paid

CopiesInv == CopiesWithin(out, Paid) /\ CopiesWithin(hec, Paid) /\ PostsFresh

LEMMA CopiesStep ==
  ASSUME SplunkTypeInv, SplunkTypeInv', CopiesInv, [Next]_vars
  PROVE  CopiesInv'
<1>0. /\ TailTypeOK /\ SinkTypeOK /\ Paid \in Nat /\ crashes \in Nat /\ failures \in Nat
      /\ out \in [Lines -> Nat] /\ out' \in [Lines -> Nat]
      /\ hec \in [Lines -> Nat] /\ hec' \in [Lines -> Nat]
      /\ batch \subseteq Lines /\ unsent \subseteq batch
  BY DEF SplunkTypeInv, TypeOK, TailTypeOK, SinkTypeOK, Paid
<1>1. PICK c \in [Lines -> Nat], h \in [Lines -> Nat], k \in Nat : c = out /\ h = hec /\ k = Paid
  BY <1>0
<1>2. PICK d \in [Lines -> Nat], g \in [Lines -> Nat] : d = out' /\ g = hec'
  BY <1>0
<1>3. /\ CopiesWithin(c, k) /\ CopiesWithin(h, k)
      /\ \A l \in Lines : c[l] <= 1 + k /\ h[l] <= 1 + k
  BY <1>1 DEF CopiesInv, CopiesWithin
<1>4. ASSUME CopiesWithin(d, k)', CopiesWithin(g, k)', UNCHANGED <<crashes, failures>>, PostsFresh'
      PROVE  CopiesInv'
  BY <1>1, <1>2, <1>4 DEF CopiesInv, CopiesWithin, Paid
<1>5. ASSUME Stop, crashes' + failures' = Paid + 1, \A l \in Lines : d[l] <= 1 + k /\ g[l] <= 1 + k
      PROVE  CopiesInv'
  <2>1. CopiesWithin(d, k + 1)' /\ CopiesWithin(g, k + 1)'
    BY <1>5, StopPays
  <2>2. PostsFresh'
    BY <1>5 DEF Stop, PostsFresh
  <2> QED
    BY <1>1, <1>2, <1>5, <2>1, <2>2 DEF CopiesInv, CopiesWithin, Paid
<1>6. CASE Reading /\ UNCHANGED <<sink, hecVars>>
  <2>1. d = c /\ g = h /\ UNCHANGED <<hec, unsent, failures>> /\ TailStep
    BY <1>1, <1>2, <1>6, ReadingFacts DEF sink, hecVars
  <2>2. CASE Kill
    <3>1. Stop /\ crashes' + failures' = Paid + 1
      BY <1>0, <2>1, <2>2 DEF Kill, Paid
    <3> QED
      BY <1>3, <1>5, <2>1, <3>1
  <2>3. CASE CopiesWithin(c, k)' /\ CopiesWithin(h, k)' /\ UNCHANGED crashes
    <3>1. PostsFresh'
      BY <1>6, <2>1, <2>3, ReadingFacts DEF CopiesInv, PostsFresh, Paid
    <3> QED
      BY <1>4, <2>1, <2>3, <3>1
  <2> QED
    BY <1>0, <1>3, <2>1, <2>2, <2>3, TailStepKeepsWithin
<1>7. CASE Kill /\ unsent' = {} /\ UNCHANGED <<sink, hec, failures>>
  <2>1. d = c /\ g = h
    BY <1>1, <1>2, <1>7 DEF sink
  <2>2. Stop /\ crashes' + failures' = Paid + 1
    BY <1>0, <1>7 DEF Kill, Paid
  <2> QED
    BY <1>3, <1>5, <2>1, <2>2
<1>8. CASE NothingNew \/ Accept \/ Sent \/ UNCHANGED vars
  <2>1. /\ d = c /\ g = h /\ UNCHANGED <<files, stateFile, next, batch, hec, crashes, failures>>
        /\ \/ UNCHANGED <<pc, unsent>>
           \/ pc = "scan" /\ pc' \in {"append", "send", "save"} /\ (pc' = "send" => unsent' = batch)
           \/ pc = "send" /\ pc' = "save"
    BY <1>1, <1>2, <1>8, SplunkAssumption
    DEF NothingNew, Accept, Sent, StartSending, ScanFinished, vars, tailVars, reader, sink, hecVars
  <2>2. CopiesWithin(c, k)' /\ CopiesWithin(h, k)'
    BY <1>3, <2>1, SamePollKeepsWithin
  <2>3. pc = "scan" => \A l \in batch : h[l] <= k
    BY <1>3 DEF CopiesWithin, Saving
  <2>4. PostsFresh'
    BY <1>1, <2>1, <2>3 DEF CopiesInv, PostsFresh, Paid
  <2> QED
    BY <1>4, <2>1, <2>2, <2>4
<1>9. CASE Append
  <2>1. /\ UNCHANGED <<files, stateFile, next, batch, hec, crashes, failures>> /\ g = h
        /\ pc = "append" /\ pc' \in {"send", "save"} /\ Saving' /\ ~Saving /\ ~Resting
        /\ (pc' = "send" => unsent' = batch)
    BY <1>1, <1>2, <1>9 DEF Append, AppendBatch, StartSending, reader, Saving, Resting
  <2>2. \A l \in Lines : d[l] = c[l] \/ (l \in batch /\ d[l] = c[l] + 1)
    BY <1>0, <1>1, <1>2, <1>9, AppendedOnce DEF Append
  <2>3. \A l \in batch : c[l] <= k /\ h[l] <= k
    BY <1>3, <2>1 DEF CopiesWithin
  <2>4. CopiesWithin(d, k)'
    BY <1>0, <1>3, <2>1, <2>2, <2>3, DeliveryKeepsWithin
  <2>5. CopiesWithin(h, k)'
    BY <1>3, <2>1, SamePollKeepsWithin
  <2>6. PostsFresh'
    BY <1>1, <2>1, <2>3 DEF PostsFresh, Paid
  <2> QED
    BY <1>4, <2>1, <2>4, <2>5, <2>6
<1>10. ASSUME NEW l \in Lines, Post(l)
       PROVE  CopiesInv'
  <2>1. /\ UNCHANGED <<files, stateFile, next, batch, pc, crashes, failures>> /\ d = c
        /\ pc = "send" /\ Saving' /\ ~Resting /\ l \in unsent /\ unsent' = unsent \ {l}
        /\ hec' = [hec EXCEPT ![l] = @ + 1]
    BY <1>1, <1>2, <1>10 DEF Post, reader, sink, Saving, Resting
  <2>2. h[l] <= k /\ {l} \in SUBSET batch
    BY <1>0, <1>1, <2>1 DEF CopiesInv, PostsFresh
  <2>3. \A m \in Lines : g[m] = h[m] \/ (m \in {l} /\ g[m] = h[m] + 1)
    BY <1>0, <1>1, <1>2, <2>1
  <2>4. CopiesWithin(g, k)'
    <3>1. \A m \in {l} : h[m] <= k
      BY <2>2
    <3> QED
      BY <1>0, <1>3, <2>1, <2>2, <2>3, <3>1, DeliveryKeepsWithin
  <2>5. CopiesWithin(c, k)'
    BY <1>3, <2>1, SamePollKeepsWithin
  <2>6. PostsFresh'
    <3>1. \A m \in unsent' : hec'[m] = hec[m]
      BY <1>0, <2>1
    <3> QED
      BY <2>1, <3>1 DEF CopiesInv, PostsFresh, Paid
  <2> QED
    BY <1>4, <2>1, <2>4, <2>5, <2>6
<1>11. ASSUME NEW l \in Lines, PostFails(l)
       PROVE  CopiesInv'
  <2>1. /\ d = c /\ Stop /\ crashes' = crashes /\ failures' = failures + 1
        /\ pc = "send" /\ l \in unsent /\ hec' \in {hec, [hec EXCEPT ![l] = @ + 1]}
    BY <1>1, <1>2, <1>11 DEF PostFails, sink
  <2>2. h[l] <= k
    BY <1>1, <2>1 DEF CopiesInv, PostsFresh
  <2>3. \A m \in Lines : g[m] = h[m] \/ (m = l /\ g[m] = h[m] + 1)
    BY <1>0, <1>1, <1>2, <2>1
  <2>4. \A m \in Lines : g[m] <= 1 + k
    BY <1>3, <2>2, <2>3
  <2>5. crashes' + failures' = Paid + 1
    BY <1>0, <2>1 DEF Paid
  <2> QED
    BY <1>3, <1>5, <2>1, <2>4, <2>5
<1>12. CASE KilledInAppend /\ UNCHANGED hecVars
  <2>1. Stop /\ g = h /\ crashes' + failures' = Paid + 1
    BY <1>0, <1>1, <1>2, <1>12 DEF KilledInAppend, hecVars, Paid
  <2>2. CopiesWithin(out, k)
    BY <1>1, <1>3
  <2>3. \A l \in Lines : d[l] <= 1 + k
    BY <1>0, <1>2, <1>12, <2>2, KilledInAppendPays
  <2> QED
    BY <1>3, <1>5, <2>1, <2>3
<1> QED
  BY <1>6, <1>7, <1>8, <1>9, <1>10, <1>11, <1>12, StepKinds

(* Rotations, rejected input and restarts duplicate nothing: each kill and  *)
(* each failed post costs at most one more copy of a line in either sink,   *)
(* however many batches it is retried in (append, post, then save).         *)
THEOREM DuplicationNeedsAFailure == Spec => []CopiesBounded
<1>1. Init => CopiesInv
  <2> SUFFICES ASSUME Init
               PROVE  CopiesInv
    OBVIOUS
  <2>1. /\ \A l \in Lines : out[l] = 0 /\ hec[l] = 0
        /\ Paid = 0 /\ pc = "idle" /\ TailInit
    BY DEF Init, TailInit, SinkInit, Paid
  <2>2. CopiesWithin(out, 0) /\ CopiesWithin(hec, 0)
    BY <2>1, WithinAtStart
  <2> QED
    BY <2>1, <2>2 DEF CopiesInv, PostsFresh
<1>2. SplunkTypeInv /\ SplunkTypeInv' /\ CopiesInv /\ [Next]_vars => CopiesInv'
  BY CopiesStep
<1>3. SplunkTypeInv /\ CopiesInv => CopiesBounded
  <2> SUFFICES ASSUME SplunkTypeInv, CopiesInv, NEW l \in Lines
               PROVE  hec[l] <= 1 + crashes + failures /\ out[l] <= 1 + crashes + failures
    BY DEF CopiesBounded
  <2>1. crashes \in Nat /\ failures \in Nat
    BY DEF SplunkTypeInv, TypeOK, TailTypeOK
  <2>2. hec[l] <= 1 + Paid /\ out[l] <= 1 + Paid
    BY DEF CopiesInv, CopiesWithin
  <2>3. 1 + Paid = 1 + crashes + failures
    BY <2>1 DEF Paid
  <2> QED
    BY <2>2, <2>3
<1> QED
  BY <1>1, <1>2, <1>3, TypeCorrect, PTL DEF Spec

-----------------------------------------------------------------------------
(* The promise of AtLeastOnce, where nobody rotates a source.               *)

(* Batches are read, and files change by the hand of their writers.         *)
LEMMA BatchesAndFiles ==
  ASSUME [Next]_vars
  PROVE  /\ batch' \subseteq batch \/ \E p \in Paths : Read(p)
         /\ \/ FileStep /\ UNCHANGED <<stateFile, sink, hec>>
            \/ UNCHANGED files /\ UNCHANGED stateFile
            \/ UNCHANGED files /\ UNCHANGED <<sink, hec>>
BY DEF Next, Running, FileStep, Grow, RotateAway, Recreate, ScanStep, LoadOffsets, Stat, Read,
       ReadMissing, Reject, NothingNew, Accept, Append, Post, Sent, PostFails, Save,
       SaveTruncate, SaveWrite, Restart, Kill, KilledInAppend, Stop, AtRest, reader, vars,
       tailVars, hecVars

(* What a sink gains in a step was published, and is not taken back.        *)
LEMMA HandedOn ==
  ASSUME SplunkTypeInv, UnrotatedInv, [Next]_vars
  PROVE  \E S \in SUBSET Published : Delivered' = Delivered \union S
<1>0. /\ TailTypeOK /\ SinkTypeOK /\ batch \subseteq Lines /\ unsent \subseteq batch
      /\ hec \in [Lines -> Nat]
  BY DEF SplunkTypeInv, TypeOK, TailTypeOK
<1>1. \A l \in Lines : (Handled(l) => Handled(l)') /\ (Handled(l)' => Handled(l) \/ l \in batch)
  <2>1. CASE UNCHANGED <<out, merged>>
    BY <2>1 DEF Handled
  <2>2. CASE Append
    BY <1>0, <2>2, AppendHandled DEF Append
  <2>3. CASE KilledInAppend
    BY <1>0, <2>3, KilledHandled
  <2> QED
    BY <2>1, <2>2, <2>3, StepKinds
    DEF NothingNew, Accept, Post, Sent, PostFails, sink, vars
<1>2. \A l \in Lines : (hec[l] > 0 => hec'[l] > 0) /\ (hec'[l] > 0 => hec[l] > 0 \/ l \in batch)
  <2>1. CASE UNCHANGED hec
    BY <2>1
  <2>2. ASSUME NEW m \in Lines, Post(m) \/ PostFails(m), ~UNCHANGED hec
        PROVE  m \in batch /\ hec' = [hec EXCEPT ![m] = @ + 1]
    BY <1>0, <2>2 DEF Post, PostFails
  <2>3. CASE \E m \in Lines : Post(m) \/ PostFails(m)
    BY <1>0, <2>1, <2>2, <2>3
  <2> QED
    BY <2>1, <2>3, StepKinds DEF NothingNew, Accept, Append, Sent, hecVars, vars
<1>3. Delivered \subseteq Delivered' /\ Delivered' \ Delivered \subseteq batch
  BY <1>1, <1>2 DEF Delivered, InFile, Indexed
<1>4. Delivered' \ Delivered \in SUBSET Published
  BY <1>0, <1>3 DEF UnrotatedInv, Published
<1> QED
  BY <1>3, <1>4

(* Every step is one of the promise or none of its business.                *)
LEMMA StepOfPromise ==
  ASSUME MaxGen = 0, SplunkTypeInv, SplunkTypeInv', UnrotatedInv, SkipInv', UnrotatedInv',
         [Next]_vars
  PROVE  [Delivery!Next]_Delivery!vars
<1> USE DEF Delivery!Next, Published, PassedLines, Delivered
<1>1. UNCHANGED <<sink, hec>> => UNCHANGED Delivered
  BY DEF sink, InFile, Indexed, Handled
<1>2. CASE FileStep /\ UNCHANGED <<stateFile, sink, hec>>
  BY <1>1, <1>2, FilesPublish DEF Delivery!Publish, SplunkTypeInv, TypeOK
<1>3. CASE UNCHANGED files /\ UNCHANGED stateFile
  BY <1>3, HandedOn, SameSources DEF Delivery!Hand
<1>4. CASE UNCHANGED files /\ UNCHANGED <<sink, hec>>
  <2>1. PICK D : D = Delivered'
    OBVIOUS
  <2>2. PassedOnly(D)'
    BY <2>1 DEF SkipInv, PassedOnly
  <2>3. PassedLines' \subseteq Delivered'
    BY <2>1, <2>2, PassedLinesPromised
  <2> QED
    BY <1>1, <1>4, <2>3, SameSources DEF Delivery!Progress
<1> QED
  BY <1>2, <1>3, <1>4, BatchesAndFiles

(* Where no source is rotated, the daemon is an implementation of           *)
(* AtLeastOnce, with whatever sinks it has: an event that only one of them  *)
(* has is not handed on yet, and what a restart would skip they all have,   *)
(* whenever it is killed or a post fails (splunk_stream_once).              *)
THEOREM DeliversAtLeastOnce ==
  ASSUME MaxGen = 0
  PROVE  Spec => ImplementsDelivery
<1>1. Init => SkipInv /\ UnrotatedInv
  BY PromiseAtStart, NothingAtStart DEF Init, SkipInv, SendingInv, TailInit
<1>2. SplunkTypeInv /\ SplunkTypeInv' /\ EndsInv /\ SkipInv /\ UnrotatedInv /\ [Next]_vars
      => SkipInv' /\ UnrotatedInv'
  BY SkipStep, UnrotatedStep, BatchesAndFiles DEF SplunkTypeInv, TypeOK, EndsInv
<1>3. Init => Delivery!Init
  <2> SUFFICES ASSUME Init
               PROVE  Delivery!Init
    OBVIOUS
  <2>1. \A l \in Lines : ~(InFile(l) /\ Indexed(l))
    BY SplunkAssumption DEF Init, SinkInit, Handled, InFile, Indexed
  <2> QED
    BY <2>1, NothingAtStart DEF Init, Delivery!Init, Published, PassedLines
<1>4. SplunkTypeInv /\ SplunkTypeInv' /\ UnrotatedInv /\ SkipInv' /\ UnrotatedInv' /\ [Next]_vars
      => [Delivery!Next]_Delivery!vars
  BY StepOfPromise
<1> QED
  BY <1>1, <1>2, <1>3, <1>4, TypeCorrect, EndsAlways, PTL DEF Spec, ImplementsDelivery, Delivery!Spec
=============================================================================
