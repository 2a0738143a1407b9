-------------------------- MODULE WazuhStream_proofs --------------------------
(***************************************************************************)
(* Proofs about WazuhStream for any sources, any rotations and any number  *)
(* of kills, and that it implements AtLeastOnce where nothing is rotated.  *)
(***************************************************************************)
EXTENDS WazuhDelivery, AlertFile_proofs, FiniteSetTheorems

(* The steps that leave the output file alone are steps of the tail.        *)
LEMMA StepKinds ==
  ASSUME [Next]_vars
  PROVE  \/ TailStep /\ UNCHANGED sink
         \/ NothingNew \/ Accept \/ Append \/ KilledInAppend \/ UNCHANGED vars
BY DEF Next, Daemon, Save, TailStep

(* Every variable keeps its type: files and offsets of the tail, copies and *)
(* ragged ends of the output (all of stream_once and its environment).      *)
THEOREM TypeCorrect == Spec => []TypeOK
<1>1. Init => TypeOK
  <2>1. ASSUME SinkInit
        PROVE  SinkTypeOK
    BY <2>1 DEF SinkInit, SinkTypeOK
  <2> QED
    BY <2>1, TailInitType DEF Init, TypeOK
<1>2. TypeOK /\ [Next]_vars => TypeOK'
  <2> SUFFICES ASSUME TypeOK, [Next]_vars
               PROVE  TypeOK'
    OBVIOUS
  <2> USE DEF TypeOK, SinkTypeOK, sink
  <2>1. CASE TailStep /\ UNCHANGED sink
    BY <2>1, TailStepType
  <2>2. CASE NothingNew
    <3>1. CASE Stop
      BY <2>2, <3>1, StopType DEF NothingNew, TailTypeOK
    <3>2. CASE pc' = "save" /\ UNCHANGED reader
      BY <2>2, <3>2 DEF NothingNew, TailTypeOK, files, reader
    <3> QED
      BY <2>2, <3>1, <3>2 DEF NothingNew
  <2>3. CASE Accept
    BY <2>3 DEF Accept, TailTypeOK, files, reader
  <2>4. CASE Append
    <3>1. TailTypeOK'
      BY <2>4 DEF Append, TailTypeOK, files, reader
    <3> QED
      BY <2>4, <3>1, AppendType DEF Append
  <2>5. CASE KilledInAppend
    <3>1. crashes' \in Nat
      BY <2>5 DEF KilledInAppend, TailTypeOK
    <3> QED
      BY <2>5, <3>1, StopType, KilledType DEF KilledInAppend
  <2>6. CASE UNCHANGED vars
    BY <2>6 DEF vars, tailVars, TailTypeOK, files, reader
  <2> QED
    BY <2>1, <2>2, <2>3, <2>4, <2>5, <2>6, StepKinds
<1> QED
  BY <1>1, <1>2, PTL DEF Spec

-----------------------------------------------------------------------------
(* Offsets stand at the ends of lines, in the state file and in a poll.     *)

EndsInv == AtLineEnds(Saved) /\ AtLineEnds(next)

(* Any step leaves them there.                                              *)
LEMMA EndsAlways == Spec => []EndsInv
<1>1. Init => EndsInv
  BY ZeroAtLineEnds DEF Init, TailInit, Saved, EndsInv
<1>2. TypeOK /\ EndsInv /\ [Next]_vars => EndsInv'
  <2> SUFFICES ASSUME TypeOK, EndsInv, [Next]_vars
               PROVE  EndsInv'
    OBVIOUS
  <2> USE DEF EndsInv
  <2>1. CASE UNCHANGED <<files, stateFile>> /\ (UNCHANGED next \/ Stop)
    BY <2>1 DEF AtLineEnds, Saved, Zero, files, Stop, AtRest
  <2>2. CASE TailStep
    BY <2>2, TailStepAtLineEnds DEF TypeOK
  <2>3. CASE NothingNew \/ Accept \/ Append \/ KilledInAppend \/ UNCHANGED vars
    BY <2>1, <2>3 DEF NothingNew, Accept, Append, KilledInAppend, vars, tailVars, reader
  <2> QED
    BY <2>2, <2>3, StepKinds
<1> QED
  BY <1>1, <1>2, TypeCorrect, PTL DEF Spec

(* No saved offset ever splits a line, unless a rotation put another file   *)
(* below an offset that was in use.                                         *)
THEOREM OffsetsAtLineEnds == Spec => []OffsetsSplitNoLine
<1>1. EndsInv => OffsetsSplitNoLine
  BY DEF EndsInv, AtLineEnds, OffsetsSplitNoLine
<1> QED
  BY <1>1, EndsAlways, PTL

-----------------------------------------------------------------------------
(* No line is skipped, and a bad line stops its source: the promise of the  *)
(* offsets, for the lines handled and for the lines that are not bad.       *)

HandledLines == {l \in Lines : Handled(l)}

(* A poll that finds nothing, or accepts its batch, hands nothing on.       *)
LEMMA NoAppendKeepsPromise ==
  ASSUME NEW D, PassedOnly(D), NextPromises(D), NothingNew \/ Accept
  PROVE  PassedOnly(D)' /\ NextPromises(D)'
<1>1. CASE NothingNew
  <2>1. CASE Stop
    BY <1>1, <2>1, StopKeepsPromise DEF NothingNew
  <2>2. CASE UNCHANGED reader
    BY <1>1, <2>2, SameOffsets DEF NothingNew, GotLines, reader, Pending
  <2> QED
    BY <1>1, <2>1, <2>2 DEF NothingNew
<1>2. CASE Accept
  BY <1>2, SameOffsets DEF Accept, reader, Pending, ScanFinished
<1> QED
  BY <1>1, <1>2

SkipInv == PassedOnly(HandledLines) /\ NextPromises(HandledLines)

(* The offsets of the process pass what was handed on or waits in its batch.*)
LEMMA SkipStep ==
  ASSUME TypeOK, AtLineEnds(next), SkipInv, [Next]_vars
  PROVE  SkipInv'
<1>1. UNCHANGED sink => HandledLines' = HandledLines
  BY DEF HandledLines, Handled, sink
<1>2. PICK D : D = HandledLines
  OBVIOUS
<1>3. PassedOnly(D) /\ NextPromises(D)
  BY <1>2 DEF SkipInv
<1>4. HandledLines' = D => (SkipInv' <=> PassedOnly(D)' /\ NextPromises(D)')
  BY DEF SkipInv, PassedOnly, NextPromises
<1>5. CASE TailStep /\ UNCHANGED sink
  BY <1>1, <1>2, <1>3, <1>4, <1>5, TailStepKeepsPromise DEF TypeOK
<1>6. CASE NothingNew \/ Accept
  BY <1>1, <1>2, <1>3, <1>4, <1>6, NoAppendKeepsPromise DEF NothingNew, Accept
<1>7. CASE Append
  <2>1. D \union batch \subseteq HandledLines'
    BY <1>2, <1>7, AppendHandled DEF Append, TypeOK, TailTypeOK, HandledLines
  <2>2. PICK E : E = HandledLines'
    OBVIOUS
  <2>3. PassedOnly(E)' /\ NextPromises(E)'
    BY <1>3, <1>7, <2>1, <2>2, SameOffsets DEF Append, reader, Pending
  <2> QED
    BY <2>2, <2>3 DEF SkipInv, PassedOnly, NextPromises
<1>8. CASE KilledInAppend
  <2>1. D \subseteq HandledLines'
    BY <1>2, <1>8, KilledHandled DEF TypeOK, HandledLines
  <2>2. PICK E : E = HandledLines'
    OBVIOUS
  <2>3. PassedOnly(E)' /\ NextPromises(E)'
    BY <1>3, <1>8, <2>1, <2>2, StopKeepsPromise DEF KilledInAppend
  <2> QED
    BY <2>2, <2>3 DEF SkipInv, PassedOnly, NextPromises
<1>9. CASE UNCHANGED vars
  BY <1>1, <1>2, <1>3, <1>4, <1>9, SameOffsets DEF vars, tailVars, reader, Pending
<1> QED
  BY <1>5, <1>6, <1>7, <1>8, <1>9, StepKinds

(* Whatever is killed, rotated or rejected, and whenever: the saved offsets *)
(* pass no line that the output was not handed, save for lines that begin   *)
(* below an offset carried over a rotation (append before _save_offsets).   *)
THEOREM NoLineSkipped == Spec => []NothingSkipped
<1>1. Init => SkipInv
  BY PromiseAtStart DEF Init, SkipInv
<1>2. TypeOK /\ EndsInv /\ SkipInv /\ [Next]_vars => SkipInv'
  BY SkipStep DEF EndsInv
<1>3. SkipInv => NothingSkipped
  BY DEF SkipInv, PassedOnly, HandledLines, NothingSkipped
<1> QED
  BY <1>1, <1>2, <1>3, TypeCorrect, EndsAlways, PTL DEF Spec

(* Only an accepted batch is appended, and only Accept begins an append.    *)
LEMMA TailStepAppends ==
  ASSUME TailStep, pc' = "append"
  PROVE  pc = "append" /\ UNCHANGED batch
BY DEF TailStep, FileStep, Grow, RotateAway, Recreate, reader, ScanStep, LoadOffsets, Stat,
       Read, ReadMissing, Reject, Stop, SaveTruncate, SaveWrite, Restart, Kill

(* A source stands still at a line that does not parse, however often the   *)
(* daemon is restarted and whatever else is rotated, unless the line begins *)
(* below a carried offset and is read as a tail (parse_ndjson and           *)
(* _validate_wazuh_lines raise before anything is appended or saved).       *)
THEOREM BadLinesBlock == Spec => []BadLineBlocks
<1> DEFINE Good == Lines \ Bad
           BadInv == /\ PassedOnly(Good) /\ NextPromises(Good)
                     /\ pc = "append" => batch \intersect Bad = {}
<1>1. Init => BadInv
  BY PromiseAtStart DEF Init, TailInit
<1>2. TypeOK /\ EndsInv /\ BadInv /\ [Next]_vars => BadInv'
  <2> SUFFICES ASSUME TypeOK, EndsInv, BadInv, [Next]_vars
               PROVE  BadInv'
    OBVIOUS
  <2>1. PICK D : D = Good
    OBVIOUS
  <2>2. PassedOnly(D) /\ NextPromises(D)
    BY <2>1
  <2>3. ASSUME PassedOnly(D)', NextPromises(D)'
        PROVE  PassedOnly(Good)' /\ NextPromises(Good)'
    BY <2>1, <2>3 DEF PassedOnly, NextPromises
  <2> HIDE DEF Good
  <2>4. CASE TailStep /\ UNCHANGED sink
    BY <2>2, <2>3, <2>4, TailStepKeepsPromise, TailStepAppends DEF TypeOK, EndsInv
  <2>5. CASE NothingNew
    BY <2>2, <2>3, <2>5, NoAppendKeepsPromise DEF NothingNew, Stop
  <2>6. CASE Accept
    BY <2>2, <2>3, <2>6, NoAppendKeepsPromise DEF Accept, Parses, reader
  <2>7. CASE Append
    <3>1. batch \subseteq D
      BY <2>1, <2>7 DEF Append, AppendBatch, TypeOK, TailTypeOK, Good
    <3>2. PassedOnly(D)' /\ NextPromises(D)'
      BY <2>2, <2>7, <3>1, SameOffsets DEF Append, reader, Pending
    <3> QED
      BY <2>3, <2>7, <3>2 DEF Append
  <2>8. CASE KilledInAppend
    <3>1. PassedOnly(D)' /\ NextPromises(D)'
      BY <2>2, <2>8, StopKeepsPromise DEF KilledInAppend
    <3> QED
      BY <2>3, <2>8, <3>1 DEF KilledInAppend, Stop
  <2>9. CASE UNCHANGED vars
    <3>1. PassedOnly(D)' /\ NextPromises(D)'
      BY <2>2, <2>9, SameOffsets DEF vars, tailVars, reader, Pending
    <3> QED
      BY <2>3, <2>9, <3>1 DEF vars, tailVars, reader
  <2> QED
    BY <2>4, <2>5, <2>6, <2>7, <2>8, <2>9, StepKinds
<1>3. BadInv => BadLineBlocks
  BY TailAssumption DEF PassedOnly, BadLineBlocks
<1> QED
  BY <1>1, <1>2, <1>3, TypeCorrect, EndsAlways, PTL DEF Spec

-----------------------------------------------------------------------------
(* Copies: the file has at most one more copy of a line per kill.           *)

LEMMA CopiesStep ==
  ASSUME TypeOK, TypeOK', CopiesWithin(out, crashes), [Next]_vars
  PROVE  CopiesWithin(out, crashes)'
<1>0. /\ TailTypeOK /\ SinkTypeOK /\ out \in [Lines -> Nat] /\ out' \in [Lines -> Nat]
      /\ crashes \in Nat /\ batch \subseteq Lines
  BY DEF TypeOK, TailTypeOK, SinkTypeOK
<1>1. PICK c \in [Lines -> Nat], k \in Nat : c = out /\ k = crashes
  BY <1>0
<1>2. PICK d \in [Lines -> Nat] : d = out'
  BY <1>0
<1>3. CopiesWithin(c, k) /\ \A l \in Lines : c[l] <= 1 + k
  BY <1>1 DEF CopiesWithin
<1>4. ASSUME CopiesWithin(d, k)', UNCHANGED crashes
      PROVE  CopiesWithin(out, crashes)'
  BY <1>1, <1>2, <1>4 DEF CopiesWithin
<1>5. ASSUME Stop, crashes' = crashes + 1, \A l \in Lines : d[l] <= 1 + k
      PROVE  CopiesWithin(out, crashes)'
  <2>1. CopiesWithin(d, k + 1)'
    BY <1>5, StopPays
  <2> QED
    BY <1>1, <1>2, <1>5, <2>1 DEF CopiesWithin
<1>6. CASE TailStep /\ UNCHANGED sink
  <2>1. d = c
    BY <1>1, <1>2, <1>6 DEF sink
  <2> QED
    BY <1>0, <1>3, <1>4, <1>5, <1>6, <2>1, TailStepKeepsWithin DEF Kill
<1>7. CASE NothingNew \/ Accept \/ UNCHANGED vars
  <2>1. d = c /\ UNCHANGED <<files, stateFile, crashes>>
    BY <1>1, <1>2, <1>7 DEF NothingNew, Accept, vars, tailVars, sink
  <2>2. CASE Stop /\ ~Saving
    BY <1>3, <1>4, <2>1, <2>2, StopKeepsWithin
  <2>3. CASE UNCHANGED reader /\ (UNCHANGED pc \/ (pc = "scan" /\ pc' \in {"save", "append"}))
    <3>1. UNCHANGED <<next, batch>>
      BY <2>3 DEF reader
    <3> QED
      BY <1>3, <1>4, <2>1, <2>3, <3>1, SamePollKeepsWithin
  <2> QED
    BY <1>7, <2>2, <2>3 DEF NothingNew, Accept, vars, tailVars, ScanFinished, Saving
<1>8. CASE Append
  <2>1. /\ UNCHANGED <<files, next, batch, crashes>>
        /\ Saving' /\ ~Saving /\ ~Resting
    BY <1>8 DEF Append, AppendBatch, reader, Saving, Resting
  <2>2. \A l \in Lines : d[l] = c[l] \/ (l \in batch /\ d[l] = c[l] + 1)
    BY <1>0, <1>1, <1>2, <1>8, AppendedOnce DEF Append
  <2>3. \A l \in batch : c[l] <= k
    BY <1>3, <2>1 DEF CopiesWithin
  <2>4. CopiesWithin(d, k)'
    BY <1>0, <1>3, <2>1, <2>2, <2>3, DeliveryKeepsWithin
  <2> QED
    BY <1>4, <2>1, <2>4
<1>9. CASE KilledInAppend
  <2>1. CopiesWithin(out, k)
    BY <1>1, <1>3
  <2> QED
    BY <1>0, <1>2, <1>5, <1>9, <2>1, KilledInAppendPays DEF KilledInAppend
<1> QED
  BY <1>6, <1>7, <1>8, <1>9, StepKinds

-----------------------------------------------------------------------------
(* Garbled lines.  Only a ragged end garbles the line behind it, and only a *)
(* kill leaves one: a ragged end is a kill that cost no line yet.           *)

Owed == IF ragged THEN 1 ELSE 0

MergedInv == IsFiniteSet(merged) /\ Cardinality(merged) + Owed <= crashes

(* An append garbles one line at most, and one only behind a ragged end.    *)
LEMMA WrittenMerges ==
  ASSUME IsFiniteSet(merged), NEW W, NEW f, Written(W, f)
  PROVE  IsFiniteSet(merged') /\ Cardinality(merged') <= Cardinality(merged) + Owed
<1>0. Cardinality(merged) \in Nat
  BY FS_CardinalityType
<1>1. CASE merged' = merged
  BY <1>0, <1>1 DEF Owed
<1>2. CASE ragged /\ merged' = merged \union {f}
  <2>1. /\ IsFiniteSet(merged \union {f})
        /\ Cardinality(merged \union {f}) \in {Cardinality(merged), Cardinality(merged) + 1}
    BY FS_AddElement
  <2> QED
    BY <1>0, <1>2, <2>1 DEF Owed
<1>3. merged' = merged \/ (ragged /\ merged' = merged \union {f})
  BY DEF Written
<1> QED
  BY <1>1, <1>2, <1>3

(* Kills pay for the garbled lines.                                         *)
LEMMA MergedStep ==
  ASSUME TypeOK, MergedInv, [Next]_vars
  PROVE  MergedInv'
<1>0. Cardinality(merged) \in Nat /\ crashes \in Nat /\ ragged \in BOOLEAN
  BY FS_CardinalityType DEF MergedInv, TypeOK, TailTypeOK, SinkTypeOK
<1>1. CASE Append
  <2>0. crashes' = crashes
    BY <1>1 DEF Append
  <2>1. CASE (\E f : Written(batch, f)) /\ ragged' = FALSE
    <3>1. IsFiniteSet(merged') /\ Cardinality(merged') <= Cardinality(merged) + Owed
      BY <2>1, WrittenMerges DEF MergedInv
    <3>2. Cardinality(merged') \in Nat
      BY <3>1, FS_CardinalityType
    <3> QED
      BY <1>0, <2>0, <2>1, <3>1, <3>2 DEF MergedInv, Owed
  <2>2. CASE UNCHANGED sink
    BY <2>0, <2>2 DEF MergedInv, Owed, sink
  <2> QED
    BY <1>1, <2>1, <2>2 DEF Append, AppendBatch
<1>2. CASE KilledInAppend
  <2>1. crashes' = crashes + 1 /\ ragged' \in BOOLEAN
    BY <1>0, <1>2 DEF KilledInAppend
  <2>2. CASE \E W, f : Written(W, f)
    <3>1. IsFiniteSet(merged') /\ Cardinality(merged') <= Cardinality(merged) + Owed
      BY <2>2, WrittenMerges DEF MergedInv
    <3>2. Cardinality(merged') \in Nat
      BY <3>1, FS_CardinalityType
    <3>3. Owed \in {0, 1} /\ Owed' \in {0, 1}
      BY DEF Owed
    <3>4. Cardinality(merged') <= crashes
      BY <1>0, <3>1, <3>2, <3>3 DEF MergedInv
    <3> QED
      BY <1>0, <2>1, <3>1, <3>2, <3>3, <3>4 DEF MergedInv
  <2>3. CASE merged' = merged
    BY <1>0, <2>1, <2>3 DEF MergedInv, Owed
  <2> QED
    BY <1>2, <2>2, <2>3 DEF KilledInAppend
<1>3. CASE UNCHANGED sink
  <2>1. merged' = merged /\ ragged' = ragged
    BY <1>3 DEF sink
  <2>2. crashes' = crashes \/ crashes' = crashes + 1
    BY <1>3 DEF sink, Next, Daemon, Save, NothingNew, Accept, Append, KilledInAppend, vars, tailVars,
       FileStep, Grow, RotateAway, Recreate, ScanStep, LoadOffsets, Stat, Read, ReadMissing,
       Reject, SaveTruncate, SaveWrite, Restart, Kill
  <2> QED
    BY <1>0, <2>1, <2>2 DEF MergedInv, Owed
<1>4. CASE NothingNew \/ Accept \/ UNCHANGED vars
  BY <1>3, <1>4 DEF NothingNew, Accept, vars
<1> QED
  BY <1>1, <1>2, <1>3, <1>4, StepKinds

(* Rotations, rejected input and failing previews duplicate and garble      *)
(* nothing: only kills do, each at most one copy of a line and one line     *)
(* (append before save; the next append starts behind a ragged end).        *)
THEOREM DuplicationNeedsAKill == Spec => []CopiesBoundedByCrashes
<1>1. Init => CopiesWithin(out, crashes) /\ MergedInv
  <2> SUFFICES ASSUME Init
               PROVE  CopiesWithin(out, crashes) /\ MergedInv
    OBVIOUS
  <2>1. /\ \A l \in Lines : out[l] = 0
        /\ crashes = 0 /\ pc = "idle" /\ batch = {} /\ merged = {} /\ ~ragged
    BY DEF Init, TailInit, SinkInit
  <2>2. IsFiniteSet({}) /\ Cardinality({}) = 0
    BY FS_EmptySet
  <2> QED
    BY <2>1, <2>2, WithinAtStart DEF Init, MergedInv, Owed
<1>2. TypeOK /\ TypeOK' /\ CopiesWithin(out, crashes) /\ MergedInv /\ [Next]_vars
      => CopiesWithin(out, crashes)' /\ MergedInv'
  BY CopiesStep, MergedStep
<1>3. TypeOK /\ CopiesWithin(out, crashes) /\ MergedInv => CopiesBoundedByCrashes
  <2> SUFFICES ASSUME TypeOK, CopiesWithin(out, crashes), MergedInv
               PROVE  CopiesBoundedByCrashes
    OBVIOUS
  <2>1. Cardinality(merged) \in Nat /\ crashes \in Nat /\ Owed \in {0, 1}
    BY FS_CardinalityType DEF MergedInv, TypeOK, TailTypeOK, Owed
  <2> QED
    BY <2>1 DEF CopiesWithin, MergedInv, CopiesBoundedByCrashes
<1> QED
  BY <1>1, <1>2, <1>3, TypeCorrect, PTL DEF Spec

-----------------------------------------------------------------------------
(* The promise of AtLeastOnce, where nobody rotates a source.               *)

(* Batches are read, and files change by the hand of their writers.         *)
LEMMA BatchesAndFiles ==
  ASSUME [Next]_vars
  PROVE  /\ batch' \subseteq batch \/ \E p \in Paths : Read(p)
         /\ \/ FileStep /\ UNCHANGED <<stateFile, sink>>
            \/ UNCHANGED files /\ UNCHANGED stateFile
            \/ UNCHANGED files /\ UNCHANGED sink
BY DEF Next, Daemon, FileStep, Grow, RotateAway, Recreate, ScanStep, LoadOffsets, Stat, Read,
       ReadMissing, Reject, NothingNew, Accept, Append, Save, SaveTruncate, SaveWrite, Restart,
       Kill, KilledInAppend, Stop, AtRest, reader, vars, tailVars

(* What the output gains in a step was published, and is not taken back.    *)
LEMMA HandedOn ==
  ASSUME TypeOK, UnrotatedInv, [Next]_vars
  PROVE  \E S \in SUBSET Published : HandledLines' = HandledLines \union S
<1>1. \/ UNCHANGED <<out, merged>>
      \/ \A l \in Lines : (Handled(l) => Handled(l)') /\ (Handled(l)' => Handled(l) \/ l \in batch)
  BY StepKinds, AppendHandled, KilledHandled
  DEF TypeOK, sink, NothingNew, Accept, Append, vars
<1>2. HandledLines \subseteq HandledLines' /\ HandledLines' \ HandledLines \subseteq batch
  BY <1>1 DEF HandledLines, Handled
<1>3. batch \subseteq Published
  BY DEF UnrotatedInv, Published, TypeOK, TailTypeOK
<1>4. HandledLines' \ HandledLines \in SUBSET Published
  BY <1>2, <1>3
<1> QED
  BY <1>2, <1>4

(* Every step is one of the promise or none of its business.                *)
LEMMA StepOfPromise ==
  ASSUME MaxGen = 0, TypeOK, TypeOK', UnrotatedInv, SkipInv', UnrotatedInv', [Next]_vars
  PROVE  [Delivery!Next]_Delivery!vars
<1> USE DEF Delivery!Next, Published, PassedLines, HandledLines
<1>1. CASE FileStep /\ UNCHANGED <<stateFile, sink>>
  <2>1. UNCHANGED HandledLines
    BY <1>1 DEF sink, Handled
  <2> QED
    BY <1>1, <2>1, FilesPublish DEF Delivery!Publish, TypeOK
<1>2. CASE UNCHANGED files /\ UNCHANGED stateFile
  BY <1>2, HandedOn, SameSources DEF Delivery!Hand
<1>3. CASE UNCHANGED files /\ UNCHANGED sink
  <2>1. UNCHANGED HandledLines
    BY <1>3 DEF sink, Handled
  <2>2. PICK D : D = HandledLines'
    OBVIOUS
  <2>3. PassedOnly(D)'
    BY <2>2 DEF SkipInv, PassedOnly
  <2>4. PassedLines' \subseteq HandledLines'
    BY <2>2, <2>3, PassedLinesPromised
  <2> QED
    BY <1>3, <2>1, <2>4, SameSources DEF Delivery!Progress
<1> QED
  BY <1>1, <1>2, <1>3, BatchesAndFiles

(* Where no source is rotated, the daemon is an implementation of           *)
(* AtLeastOnce: it hands on only what was published, and what a restart     *)
(* would skip it has handed on, whenever it is killed (stream_once).        *)
THEOREM DeliversAtLeastOnce ==
  ASSUME MaxGen = 0
  PROVE  Spec => ImplementsDelivery
<1>1. Init => SkipInv /\ UnrotatedInv
  BY PromiseAtStart, NothingAtStart DEF Init, SkipInv
<1>2. TypeOK /\ TypeOK' /\ EndsInv /\ SkipInv /\ UnrotatedInv /\ [Next]_vars
      => SkipInv' /\ UnrotatedInv'
  BY SkipStep, UnrotatedStep, BatchesAndFiles DEF TypeOK, EndsInv
<1>3. Init => Delivery!Init
  <2> SUFFICES ASSUME Init
               PROVE  Delivery!Init
    OBVIOUS
  <2>1. \A l \in Lines : ~Handled(l)
    BY DEF Init, SinkInit, Handled
  <2> QED
    BY <2>1, NothingAtStart DEF Init, Delivery!Init, Published, PassedLines
<1>4. TypeOK /\ TypeOK' /\ UnrotatedInv /\ SkipInv' /\ UnrotatedInv' /\ [Next]_vars
      => [Delivery!Next]_Delivery!vars
  BY StepOfPromise
<1> QED
  BY <1>1, <1>2, <1>3, <1>4, TypeCorrect, EndsAlways, PTL DEF Spec, ImplementsDelivery, Delivery!Spec
=============================================================================
