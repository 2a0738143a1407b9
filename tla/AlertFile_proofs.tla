--------------------------- MODULE AlertFile_proofs ---------------------------
(***************************************************************************)
(* What both daemons need: lemmas about the files that are tailed, the     *)
(* offsets and the output file, for any sources, rotations and kills.      *)
(***************************************************************************)
EXTENDS AlertFile, TLAPS

(* A line is a path, a generation of it and a position that ends a line.    *)
LEMMA LineParts ==
  ASSUME NEW l \in Lines
  PROVE  /\ l = <<l[1], l[2], l[3]>>
         /\ l[1] \in Paths /\ l[2] \in Gens /\ l[3] \in Ends[l[1]][l[2]]
         /\ l[3] \in Nat \ {0}
<1>1. PICK p \in Paths, g \in Gens : l \in {<<p, g, e>> : e \in Ends[p][g] \ Blank[p][g]}
  BY DEF Lines
<1>2. PICK e \in Ends[p][g] : l = <<p, g, e>>
  BY <1>1
<1>3. Ends[p][g] \in SUBSET (Nat \ {0})
  BY TailAssumption
<1> QED
  BY <1>2, <1>3

(* A line that ends below an offset begins below it.                        *)
LEMMA EndsBelow ==
  ASSUME NEW l \in Lines, NEW o \in Nat, l[3] <= o
  PROVE  BeginsBelow(l, o)
<1>1. l[3] \in Nat \ {0} /\ l[1] \in Paths /\ l[2] \in Gens
  BY LineParts
<1>2. Ends[l[1]][l[2]] \in SUBSET Nat
  BY <1>1, TailAssumption
<1>3. \A x \in Nat : x < o \/ l[3] <= x
  BY <1>1
<1> QED
  BY <1>1, <1>2, <1>3 DEF BeginsBelow

(* A line that begins below an offset begins below any larger one.          *)
LEMMA BeginsBelowMore ==
  ASSUME NEW l \in Lines, NEW o \in Nat, NEW m \in Nat, o <= m, BeginsBelow(l, o)
  PROVE  BeginsBelow(l, m)
<1>1. l[1] \in Paths /\ l[2] \in Gens
  BY LineParts
<1>2. Ends[l[1]][l[2]] \in SUBSET Nat
  BY <1>1, TailAssumption
<1>3. \A x \in Nat : x < o => x < m
  OBVIOUS
<1> QED
  BY <1>2, <1>3 DEF BeginsBelow

(* An offset at the end of a line leaves the next line whole.               *)
LEMMA WholeBehindEnd ==
  ASSUME NEW l \in Lines, NEW o \in Nat, o \in Ends[l[1]][l[2]] \union {0}, o < l[3]
  PROVE  ~BeginsBelow(l, o)
<1>1. l[3] \in Nat
  BY LineParts
<1> QED
  BY <1>1 DEF BeginsBelow

(* There is a next generation below the bound.                              *)
LEMMA GensStep ==
  ASSUME NEW g \in Gens, g < MaxGen
  PROVE  g + 1 \in Gens
<1>1. MaxGen \in Nat
  BY TailAssumption
<1> QED
  BY <1>1 DEF Gens

(* The state file always yields an offset for every path.                   *)
LEMMA SavedType ==
  ASSUME stateFile \in [Paths -> Nat] \union {Torn}
  PROVE  Saved \in [Paths -> Nat]
BY TailAssumption DEF Saved, Zero

(* What else a poll reads is of one of three kinds.                         *)
LEMMA OthersType ==
  ASSUME NEW p, NEW lo, NEW hi, NEW other \in Others(p, lo, hi)
  PROVE  other \subseteq {"blank", "event", "bad"}
BY DEF Others

(* What is appended keeps the output file well typed.                       *)
LEMMA WrittenType ==
  ASSUME SinkTypeOK, NEW W \in SUBSET Lines, NEW f, Written(W, f)
  PROVE  out' \in [Lines -> Nat] /\ merged' \subseteq Lines /\ torn' \in BOOLEAN
BY DEF Written, SinkTypeOK

(* What is handed on by an append is what was, and what it writes.          *)
LEMMA WrittenHandled ==
  ASSUME SinkTypeOK, NEW W \in SUBSET Lines, NEW f, Written(W, f), NEW l \in Lines
  PROVE  Handled(l)' <=> Handled(l) \/ l \in W
BY DEF Written, Handled, SinkTypeOK

(* An append hands on the lines of the batch, and no others.                *)
LEMMA AppendHandled ==
  ASSUME TailTypeOK, SinkTypeOK, AppendBatch, NEW l \in Lines
  PROVE  Handled(l)' <=> Handled(l) \/ l \in batch
<1>1. CASE \E f : Written(batch, f)
  BY <1>1, WrittenHandled DEF TailTypeOK
<1>2. CASE batch = {} /\ UNCHANGED sink
  BY <1>2 DEF Handled, sink
<1> QED
  BY <1>1, <1>2 DEF AppendBatch

(* It keeps the output file well typed.                                     *)
LEMMA AppendType ==
  ASSUME TailTypeOK, SinkTypeOK, AppendBatch
  PROVE  SinkTypeOK'
<1>1. CASE (\E f : Written(batch, f)) /\ ragged' = FALSE
  BY <1>1, WrittenType DEF TailTypeOK, SinkTypeOK
<1>2. CASE UNCHANGED sink
  BY <1>2 DEF SinkTypeOK, sink
<1> QED
  BY <1>1, <1>2 DEF AppendBatch

(* So does a kill in the middle of an append ...                            *)
LEMMA KilledType ==
  ASSUME TailTypeOK, SinkTypeOK, KilledInAppend
  PROVE  SinkTypeOK'
<1>1. CASE UNCHANGED <<out, merged, torn>> /\ ragged' \in BOOLEAN
  BY <1>1 DEF SinkTypeOK
<1>2. CASE (\E W \in SUBSET batch : \E f : Written(W, f)) /\ ragged' \in BOOLEAN
  BY <1>2, WrittenType DEF TailTypeOK, SinkTypeOK
<1> QED
  BY <1>1, <1>2 DEF KilledInAppend, SinkTypeOK

(* ... which hands on a part of the batch.                                  *)
LEMMA KilledHandled ==
  ASSUME TailTypeOK, SinkTypeOK, KilledInAppend, NEW l \in Lines
  PROVE  (Handled(l) => Handled(l)') /\ (Handled(l)' => Handled(l) \/ l \in batch)
<1>1. CASE UNCHANGED <<out, merged>>
  BY <1>1 DEF Handled
<1>2. CASE \E W \in SUBSET batch : \E f : Written(W, f)
  BY <1>2, WrittenHandled DEF TailTypeOK
<1> QED
  BY <1>1, <1>2 DEF KilledInAppend

\* A step of the log writers, the reading half of a poll, a save or a restart
TailStep ==
  \/ FileStep \/ ScanStep \/ SaveTruncate \/ Restart \/ Kill
  \/ \E then \in {"dead", "idle"} : SaveWrite(then)

(* The initial state of files and reader is well typed.                     *)
LEMMA TailInitType == TailInit => TailTypeOK
<1> SUFFICES ASSUME TailInit
             PROVE  TailTypeOK
  OBVIOUS
<1>1. Zero \in [Paths -> Gens] /\ Zero \in [Paths -> Nat]
  BY TailAssumption DEF Zero, Gens
<1>2. here \in [Paths -> BOOLEAN] /\ \A p \in Paths : here[p]
  BY DEF TailInit
<1>3. /\ gen = Zero /\ len = Zero /\ carried = Zero /\ stateFile = Zero
      /\ pc = "idle" /\ crashes = 0
      /\ todo = {} /\ cur = {} /\ next = Zero /\ batch = {} /\ strays = {}
  BY DEF TailInit
<1> QED
  BY <1>1, <1>2, <1>3 DEF TailTypeOK

(* A process that stops is well typed.                                      *)
LEMMA StopType ==
  ASSUME TailTypeOK, Stop, UNCHANGED <<files, stateFile>>, crashes' \in Nat
  PROVE  TailTypeOK'
BY DEF TailTypeOK, Stop, AtRest, Zero, files

(* These steps keep files, offsets and reader well typed.                   *)
LEMMA TailStepType == TailTypeOK /\ TailStep => TailTypeOK'
<1> SUFFICES ASSUME TailTypeOK, TailStep
             PROVE  TailTypeOK'
  OBVIOUS
<1> USE DEF TailTypeOK, files, reader
<1>1. ASSUME NEW p \in Paths, Grow(p)
      PROVE  TailTypeOK'
  <2>1. Size[p][gen[p]] \in Nat
    BY TailAssumption
  <2>2. len' \in [Paths -> Nat]
    BY <1>1, <2>1 DEF Grow
  <2> QED
    BY <1>1, <2>2 DEF Grow
<1>2. ASSUME NEW p \in Paths, RotateAway(p)
      PROVE  TailTypeOK'
  BY <1>2 DEF RotateAway
<1>3. ASSUME NEW p \in Paths, Recreate(p)
      PROVE  TailTypeOK'
  <2>1. Saved \in [Paths -> Nat]
    BY SavedType
  <2>2. gen[p] + 1 \in Gens
    <3>1. gen[p] \in Gens /\ gen[p] < MaxGen
      BY <1>3 DEF Recreate
    <3> QED
      BY <3>1, GensStep
  <2>3. gen' \in [Paths -> Gens] /\ len' \in [Paths -> Nat]
    BY <1>3, <2>2 DEF Recreate
  <2>4. carried' \in [Paths -> Nat]
    BY <1>3, <2>1 DEF Recreate
  <2>5. \A q \in Paths : ~here'[q] => gen'[q] < MaxGen
    BY <1>3 DEF Recreate
  <2>6. here' \in [Paths -> BOOLEAN]
    BY <1>3 DEF Recreate
  <2> QED
    BY <1>3, <2>3, <2>4, <2>5, <2>6 DEF Recreate
<1>4. CASE LoadOffsets
  BY <1>4, SavedType DEF LoadOffsets
<1>5. ASSUME NEW p \in Paths, Stat(p)
      PROVE  TailTypeOK'
  BY <1>5 DEF Stat, StatOffset
<1>6. ASSUME NEW p \in Paths, Read(p)
      PROVE  TailTypeOK'
  <2>1. 1..len[p] \subseteq Nat
    OBVIOUS
  <2>2. next' \in [Paths -> Nat] /\ batch' \subseteq Lines
    BY <1>6, <2>1 DEF Read, NewLines
  <2>3. strays' \subseteq {"blank", "event", "bad"}
    BY <1>6, OthersType DEF Read
  <2> QED
    BY <1>6, <2>2, <2>3 DEF Read
<1>7. CASE SaveTruncate
  BY <1>7 DEF SaveTruncate
<1>8. ASSUME NEW then \in {"dead", "idle"}, SaveWrite(then)
      PROVE  TailTypeOK'
  BY <1>8 DEF SaveWrite, AtRest, Zero
<1>9. CASE Restart
  BY <1>9 DEF Restart
<1>10. CASE Kill \/ Reject \/ (\E p \in Paths : ReadMissing(p))
  BY <1>10, StopType DEF Kill, Reject, ReadMissing
<1> QED
  BY <1>1, <1>2, <1>3, <1>4, <1>5, <1>6, <1>7, <1>8, <1>9, <1>10
  DEF TailStep, FileStep, ScanStep

-----------------------------------------------------------------------------
(* Offsets stand at the ends of lines, in the state file and in a poll.     *)

AtLineEnds(offsets) ==
  \A p \in Paths : offsets[p] \in Ends[p][gen[p]] \union {0} \/ offsets[p] <= carried[p]

(* Offset 0 is at the start of a file.                                      *)
LEMMA ZeroAtLineEnds ==
  ASSUME NEW offsets, offsets = Zero
  PROVE  AtLineEnds(offsets)
BY DEF AtLineEnds, Zero

(* A step of the tail leaves every offset at the end of a line, or below    *)
(* what a rotation carried (the trimming of _read_new_complete_lines).      *)
LEMMA TailStepAtLineEnds ==
  ASSUME TailTypeOK, AtLineEnds(Saved), AtLineEnds(next), TailStep
  PROVE  AtLineEnds(Saved)' /\ AtLineEnds(next)'
<1> USE DEF AtLineEnds
<1>0. Saved \in [Paths -> Nat] /\ next \in [Paths -> Nat]
  BY SavedType DEF TailTypeOK
<1>1. ASSUME NEW p \in Paths, Grow(p) \/ RotateAway(p)
      PROVE  AtLineEnds(Saved)' /\ AtLineEnds(next)'
  BY <1>1 DEF Grow, RotateAway, reader, Saved, Zero
<1>2. ASSUME NEW p \in Paths, Recreate(p)
      PROVE  AtLineEnds(Saved)' /\ AtLineEnds(next)'
  <2>1. /\ UNCHANGED next /\ Saved' = Saved
        /\ \A q \in Paths : q # p => gen'[q] = gen[q] /\ carried'[q] = carried[q]
        /\ Saved[p] <= carried'[p] /\ next[p] <= carried'[p]
    BY <1>0, <1>2 DEF Recreate, reader, Saved, Zero, TailTypeOK
  <2> QED
    BY <2>1
<1>3. CASE LoadOffsets
  BY <1>3 DEF LoadOffsets, files, Saved, Zero
<1>4. ASSUME NEW p \in Paths, Stat(p)
      PROVE  AtLineEnds(Saved)' /\ AtLineEnds(next)'
  <2>1. \A q \in Paths : next'[q] = next[q] \/ next'[q] = 0
    BY <1>0, <1>4 DEF Stat, StatOffset
  <2> QED
    BY <1>4, <2>1 DEF Stat, files, Saved, Zero
<1>5. ASSUME NEW p \in Paths, Read(p)
      PROVE  AtLineEnds(Saved)' /\ AtLineEnds(next)'
  <2>1. \A q \in Paths : next'[q] = next[q] \/ next'[q] \in Ends[q][gen[q]]
    BY <1>0, <1>5 DEF Read, LastNewline
  <2> QED
    BY <1>5, <2>1 DEF Read, files, Saved, Zero
<1>6. CASE SaveTruncate
  BY <1>6 DEF SaveTruncate, files, reader, Saved, Zero
<1>7. ASSUME NEW then, SaveWrite(then)
      PROVE  AtLineEnds(Saved)' /\ AtLineEnds(next)'
  <2>1. Saved' = next
    BY <1>7, TailAssumption DEF SaveWrite, Saved, TailTypeOK
  <2> QED
    BY <1>7, <2>1 DEF SaveWrite, AtRest, files, Zero
<1>8. CASE Restart
  BY <1>8 DEF Restart, files, reader, Saved, Zero
<1>9. CASE Kill \/ Reject \/ (\E p \in Paths : ReadMissing(p))
  BY <1>9 DEF Kill, Reject, ReadMissing, Stop, AtRest, files, Saved, Zero
<1> QED
  BY <1>1, <1>2, <1>3, <1>4, <1>5, <1>6, <1>7, <1>8, <1>9 DEF TailStep, FileStep, ScanStep

-----------------------------------------------------------------------------
(* The saved offsets come from next.  So that they pass only lines of a set *)
(* D (the lines that were handed on, say), save for lines that a rotation   *)
(* carried over, next must promise as much: a line below it is in D, was    *)
(* carried over, or still waits in the batch.                               *)

Pending(l) == pc \in {"scan", "read", "append", "send"} /\ l \in batch

Below(l, offsets) == l[2] = gen[l[1]] /\ l[3] <= offsets[l[1]]

PassedOnly(D) == \A l \in Lines : Passed(l) => l \in D \/ Carried(l)

NextPromises(D) == \A l \in Lines : Below(l, next) => l \in D \/ Carried(l) \/ Pending(l)

(* No line lies below offset 0.                                             *)
LEMMA NothingBelowZero ==
  ASSUME NEW l \in Lines, NEW offsets, offsets = Zero
  PROVE  ~(l[3] <= offsets[l[1]])
BY LineParts DEF Zero

(* At the start no offset passes anything.                                  *)
LEMMA PromiseAtStart ==
  ASSUME TailInit, NEW D
  PROVE  PassedOnly(D) /\ NextPromises(D)
<1>1. Saved = Zero /\ next = Zero
  BY DEF TailInit, Saved
<1> QED
  BY <1>1, NothingBelowZero DEF PassedOnly, NextPromises, Passed, Below

(* With files and offsets as they were, a line keeps its standing.          *)
LEMMA SameFiles ==
  ASSUME NEW l \in Lines, UNCHANGED files
  PROVE  /\ Carried(l)' <=> Carried(l)
         /\ (UNCHANGED stateFile) => (Passed(l)' <=> Passed(l))
         /\ (UNCHANGED next) => (Below(l, next)' <=> Below(l, next))
BY DEF files, Carried, Passed, Saved, Zero, Below

(* What D lacks, and what it gains, in a step that leaves the offsets alone.*)
LEMMA SameOffsets ==
  ASSUME NEW D, NEW E, PassedOnly(D), NextPromises(D), UNCHANGED <<files, stateFile, next>>,
         D \subseteq E, \A l \in Lines : Pending(l) => Pending(l)' \/ l \in E
  PROVE  PassedOnly(E)' /\ NextPromises(E)'
<1>1. PassedOnly(E)'
  BY SameFiles DEF PassedOnly
<1>2. NextPromises(E)'
  BY SameFiles DEF NextPromises
<1> QED
  BY <1>1, <1>2

(* A process that stops forgets its offsets and loses nothing by it.        *)
LEMMA StopKeepsPromise ==
  ASSUME NEW D, NEW E, PassedOnly(D), Stop, UNCHANGED <<files, stateFile>>, D \subseteq E
  PROVE  PassedOnly(E)' /\ NextPromises(E)'
<1>1. next' = Zero
  BY DEF Stop, AtRest
<1>2. NextPromises(E)'
  BY <1>1, NothingBelowZero DEF NextPromises, Below
<1>3. PassedOnly(E)'
  BY SameFiles DEF PassedOnly
<1> QED
  BY <1>2, <1>3

(* A rotation counts what lies below the offsets as carried.                *)
LEMMA RecreateKeepsPromise ==
  ASSUME TailTypeOK, NEW D, PassedOnly(D), NextPromises(D), NEW p \in Paths, Recreate(p)
  PROVE  PassedOnly(D)' /\ NextPromises(D)'
<1>1. Saved \in [Paths -> Nat] /\ next \in [Paths -> Nat]
  BY SavedType DEF TailTypeOK
<1>2. /\ UNCHANGED <<next, stateFile, pc, batch>> /\ Saved' = Saved
      /\ \A q \in Paths : q # p => gen'[q] = gen[q] /\ carried'[q] = carried[q]
      /\ Saved[p] <= carried'[p] /\ next[p] <= carried'[p]
      /\ carried'[p] \in Nat
  BY <1>1 DEF Recreate, reader, Saved, Zero, TailTypeOK
<1>3. \A l \in Lines : Pending(l)' <=> Pending(l)
  BY <1>2 DEF Pending
<1>4. ASSUME NEW l \in Lines, l[1] # p
      PROVE  /\ Passed(l)' <=> Passed(l)
             /\ Below(l, next)' <=> Below(l, next)
             /\ Carried(l)' <=> Carried(l)
  BY <1>2, <1>4, LineParts DEF Passed, Below, Carried
<1>5. ASSUME NEW l \in Lines, l[1] = p
      PROVE  Passed(l)' \/ Below(l, next)' => Carried(l)'
  <2>1. Passed(l)' \/ Below(l, next)' => l[3] <= carried'[p]
    BY <1>1, <1>2, <1>5, LineParts DEF Passed, Below
  <2> QED
    BY <1>2, <1>5, <2>1, EndsBelow DEF Carried
<1> QED
  BY <1>3, <1>4, <1>5 DEF PassedOnly, NextPromises

(* Reading adds to the batch what next passes (_read_new_complete_lines).   *)
LEMMA ReadKeepsPromise ==
  ASSUME TailTypeOK, AtLineEnds(next), NEW D, PassedOnly(D), NextPromises(D),
         NEW p \in Paths, Read(p)
  PROVE  PassedOnly(D)' /\ NextPromises(D)'
<1>1. UNCHANGED files /\ UNCHANGED stateFile /\ pc = "read" /\ pc' = "scan"
  BY DEF Read
<1>2. CASE UNCHANGED <<batch, next>>
  BY <1>1, <1>2, SameOffsets DEF Pending
<1>3. CASE \E hi \in Nat : /\ batch' = batch \union NewLines(p, next[p], hi)
                          /\ next' = [next EXCEPT ![p] = hi]
  <2>1. PICK hi \in Nat : /\ batch' = batch \union NewLines(p, next[p], hi)
                         /\ next' = [next EXCEPT ![p] = hi]
    BY <1>3
  <2>2. next \in [Paths -> Nat]
    BY DEF TailTypeOK
  <2>3. ASSUME NEW l \in Lines, Below(l, next)', ~Below(l, next)
        PROVE  l \in NewLines(p, next[p], hi) \/ Carried(l)
    <3>1. l[1] = p /\ l[2] = gen[p] /\ l[3] <= hi
      BY <1>1, <2>1, <2>2, <2>3, LineParts DEF Below, files
    <3>2. next[p] \in Nat /\ next[p] < l[3]
      BY <2>2, <2>3, <3>1, LineParts DEF Below
    <3>3. CASE ~BeginsBelow(l, next[p])
      BY <3>1, <3>2, <3>3 DEF NewLines
    <3>4. CASE BeginsBelow(l, next[p])
      <4>1. next[p] <= carried[p] /\ carried[p] \in Nat
        BY <3>1, <3>2, <3>4, WholeBehindEnd DEF AtLineEnds, TailTypeOK
      <4> QED
        BY <3>1, <3>2, <3>4, <4>1, BeginsBelowMore DEF Carried
    <3> QED
      BY <3>3, <3>4
  <2>4. \A l \in Lines : Below(l, next)' => Below(l, next) \/ Pending(l)' \/ Carried(l)
    BY <1>1, <2>1, <2>3 DEF Pending
  <2>5. \A l \in Lines : Pending(l) => Pending(l)'
    BY <1>1, <2>1 DEF Pending
  <2> QED
    BY <1>1, <2>4, <2>5, SameFiles DEF PassedOnly, NextPromises
<1>4. 1..len[p] \subseteq Nat
  BY DEF TailTypeOK
<1> QED
  BY <1>2, <1>3, <1>4 DEF Read

(* Every step that hands nothing on keeps the promise.                      *)
LEMMA TailStepKeepsPromise ==
  ASSUME TailTypeOK, AtLineEnds(next), NEW D, PassedOnly(D), NextPromises(D), TailStep
  PROVE  PassedOnly(D)' /\ NextPromises(D)'
<1>1. ASSUME NEW p \in Paths, Grow(p) \/ RotateAway(p)
      PROVE  PassedOnly(D)' /\ NextPromises(D)'
  <2>1. UNCHANGED <<gen, carried, next, stateFile, pc, batch>>
    BY <1>1 DEF Grow, RotateAway, reader
  <2>2. \A l \in Lines : /\ Passed(l)' <=> Passed(l)
                         /\ Below(l, next)' <=> Below(l, next)
                         /\ Carried(l)' <=> Carried(l)
                         /\ Pending(l)' <=> Pending(l)
    BY <2>1 DEF Passed, Saved, Zero, Below, Carried, Pending
  <2> QED
    BY <2>2 DEF PassedOnly, NextPromises
<1>2. CASE LoadOffsets
  <2>1. UNCHANGED files /\ UNCHANGED stateFile /\ next' = Saved
    BY <1>2 DEF LoadOffsets
  <2>2. \A l \in Lines : Below(l, next)' <=> Passed(l)
    BY <2>1 DEF Below, Passed, files
  <2> QED
    BY <2>1, <2>2, SameFiles DEF PassedOnly, NextPromises
<1>3. ASSUME NEW p \in Paths, Stat(p)
      PROVE  PassedOnly(D)' /\ NextPromises(D)'
  <2>1. /\ UNCHANGED files /\ UNCHANGED stateFile /\ UNCHANGED batch
        /\ pc = "scan" /\ pc' \in {"scan", "read"}
    BY <1>3 DEF Stat
  <2>2. \A q \in Paths : next'[q] = next[q] \/ next'[q] = 0
    BY <1>3 DEF Stat, StatOffset, TailTypeOK
  <2>3. ASSUME NEW l \in Lines, Below(l, next)'
        PROVE  Below(l, next)
    BY <2>1, <2>2, <2>3, LineParts DEF Below, files
  <2>4. \A l \in Lines : Pending(l)' <=> Pending(l)
    BY <2>1 DEF Pending
  <2> QED
    BY <2>1, <2>3, <2>4, SameFiles DEF PassedOnly, NextPromises
<1>4. CASE SaveTruncate
  <2>1. UNCHANGED files /\ UNCHANGED reader /\ Saved' = Zero /\ pc = "save"
    BY <1>4 DEF SaveTruncate, Saved
  <2>2. PassedOnly(D)'
    BY <2>1, NothingBelowZero DEF PassedOnly, Passed
  <2>3. NextPromises(D)'
    BY <2>1, SameFiles DEF NextPromises, Pending, reader
  <2> QED
    BY <2>2, <2>3
<1>5. ASSUME NEW then, SaveWrite(then)
      PROVE  PassedOnly(D)' /\ NextPromises(D)'
  <2>1. UNCHANGED files /\ stateFile' = next /\ next' = Zero /\ pc = "saving"
    BY <1>5 DEF SaveWrite, AtRest
  <2>2. Saved' = next
    BY <2>1, TailAssumption DEF Saved, TailTypeOK
  <2>3. \A l \in Lines : Passed(l)' <=> Below(l, next)
    BY <2>1, <2>2 DEF Passed, Below, files
  <2>4. PassedOnly(D)'
    BY <2>1, <2>3, SameFiles DEF PassedOnly, NextPromises, Pending
  <2>5. NextPromises(D)'
    BY <2>1, NothingBelowZero DEF NextPromises, Below
  <2> QED
    BY <2>4, <2>5
<1>6. CASE Restart
  BY <1>6, SameOffsets DEF Restart, reader, Pending
<1>7. CASE Kill \/ Reject \/ (\E p \in Paths : ReadMissing(p))
  BY <1>7, StopKeepsPromise DEF Kill, Reject, ReadMissing
<1> QED
  BY <1>1, <1>2, <1>3, <1>4, <1>5, <1>6, <1>7, RecreateKeepsPromise, ReadKeepsPromise
  DEF TailStep, FileStep, ScanStep

-----------------------------------------------------------------------------
(* Copies.  A sink has c[l] copies of line l, and k kills and failures have *)
(* been paid for.  A line with one copy more than that was delivered since  *)
(* the last one: it is behind the offsets that a restart would load, and    *)
(* these are within its file, so that nothing but another failure can bring *)
(* the line into a batch again.                                             *)

Resting == pc \in {"idle", "dead"}
Saving  == pc \in {"send", "save", "saving"}

\* The line lies below the offset of its path, and the offset within the file
Behind(l, offsets) ==
  l[2] = gen[l[1]] /\ l[3] <= offsets[l[1]] /\ offsets[l[1]] <= len[l[1]]

Gone(l) == l[2] < gen[l[1]]

Consumed(l) ==
  Gone(l) \/ ((Saving \/ Behind(l, Saved)) /\ (Resting \/ Behind(l, next)))

CopiesWithin(c, k) ==
  /\ \A l \in Lines : c[l] <= 1 + k /\ (c[l] > k => Consumed(l))
  /\ Resting => batch = {}
  /\ \A l \in batch : (Gone(l) \/ Behind(l, next)) /\ (Saving \/ c[l] <= k)

(* The types of what this speaks of.                                        *)
LEMMA OffsetTypes ==
  ASSUME TailTypeOK
  PROVE  /\ Saved \in [Paths -> Nat] /\ next \in [Paths -> Nat] /\ len \in [Paths -> Nat]
         /\ gen \in [Paths -> Gens] /\ Gens \subseteq Nat
         /\ batch \subseteq Lines /\ crashes \in Nat
BY SavedType, TailAssumption DEF TailTypeOK, Gens

(* At the start nothing has been delivered.                                 *)
LEMMA WithinAtStart ==
  ASSUME TailInit, NEW c, \A l \in Lines : c[l] = 0
  PROVE  CopiesWithin(c, 0)
BY DEF TailInit, CopiesWithin, Resting

(* A process that stops on its own accord before it delivers anything.      *)
LEMMA StopKeepsWithin ==
  ASSUME NEW c, NEW k, CopiesWithin(c, k), Stop, ~Saving, UNCHANGED <<files, stateFile>>
  PROVE  CopiesWithin(c, k)'
<1>1. batch' = {} /\ Resting' /\ ~Saving'
  BY DEF Stop, AtRest, Resting, Saving
<1>2. \A l \in Lines : Consumed(l) => Consumed(l)'
  BY <1>1 DEF Consumed, Gone, Behind, Saved, Zero, files
<1> QED
  BY <1>1, <1>2 DEF CopiesWithin

(* A kill or a failure pays for the copies that there are.                  *)
LEMMA StopPays ==
  ASSUME NEW c \in [Lines -> Nat], NEW k \in Nat, Stop, \A l \in Lines : c[l] <= 1 + k
  PROVE  CopiesWithin(c, k + 1)'
<1>1. batch' = {} /\ Resting'
  BY DEF Stop, AtRest, Resting
<1>2. \A l \in Lines : c[l] <= 1 + (k + 1) /\ ~(c[l] > k + 1)
  OBVIOUS
<1> QED
  BY <1>1, <1>2 DEF CopiesWithin

(* A poll that goes on from its batch towards the save, delivering nothing. *)
LEMMA SamePollKeepsWithin ==
  ASSUME NEW c, NEW k, CopiesWithin(c, k), UNCHANGED <<files, stateFile, next, batch>>,
         \/ UNCHANGED pc
         \/ pc \in {"scan", "append", "send"} /\ pc' \in {"append", "send", "save"}
            /\ (pc = "send" => pc' # "append")
  PROVE  CopiesWithin(c, k)'
<1>1. (Resting' <=> Resting) /\ (Saving => Saving')
  BY DEF Resting, Saving
<1>2. \A l : (Gone(l)' <=> Gone(l)) /\ (Behind(l, next)' <=> Behind(l, next))
                /\ (Behind(l, Saved)' <=> Behind(l, Saved))
  BY DEF Gone, Behind, Saved, Zero, files
<1> QED
  BY <1>1, <1>2 DEF CopiesWithin, Consumed

(* Lines of the batch are delivered once, on the way to the save.           *)
LEMMA DeliveryKeepsWithin ==
  ASSUME NEW c \in [Lines -> Nat], NEW d, NEW k \in Nat, NEW W \in SUBSET batch, TailTypeOK,
         CopiesWithin(c, k), UNCHANGED <<files, next, batch>>, Saving', ~Resting,
         \A l \in W : c[l] <= k,
         \A l \in Lines : d[l] = c[l] \/ (l \in W /\ d[l] = c[l] + 1)
  PROVE  CopiesWithin(d, k)'
<1>1. ~Resting'
  BY DEF Resting, Saving
<1>2. \A l : (Gone(l)' <=> Gone(l)) /\ (Behind(l, next)' <=> Behind(l, next))
  BY DEF Gone, Behind, files
<1>3. ASSUME NEW l \in Lines
      PROVE  d[l] <= 1 + k /\ (d[l] > k => Consumed(l)')
  <2>1. CASE d[l] = c[l]
    BY <1>1, <1>2, <2>1 DEF CopiesWithin, Consumed
  <2>2. CASE l \in W /\ d[l] = c[l] + 1
    BY <1>1, <1>2, <2>2 DEF CopiesWithin, Consumed
  <2> QED
    BY <2>1, <2>2
<1> QED
  BY <1>1, <1>2, <1>3 DEF CopiesWithin

(* Reading takes only lines that were not delivered since the last failure. *)
LEMMA ReadKeepsWithin ==
  ASSUME TailTypeOK, NEW c \in [Lines -> Nat], NEW k \in Nat, CopiesWithin(c, k),
         NEW p \in Paths, Read(p)
  PROVE  CopiesWithin(c, k)'
<1> USE OffsetTypes
<1>1. /\ UNCHANGED <<gen, len, Saved>>
      /\ pc = "read" /\ pc' = "scan" /\ ~Saving /\ ~Saving' /\ ~Resting /\ ~Resting'
  BY DEF Read, files, Saved, Zero, Saving, Resting
<1>2. CASE UNCHANGED <<batch, next>>
  BY <1>1, <1>2 DEF CopiesWithin, Consumed, Gone, Behind
<1>3. CASE ~UNCHANGED <<batch, next>>
  <2>1. PICK hi \in 1..len[p] :
          /\ LastNewline(p, next[p], hi)
          /\ batch' = batch \union NewLines(p, next[p], hi)
          /\ next' = [next EXCEPT ![p] = hi]
    BY <1>3 DEF Read
  <2>2. hi \in Nat /\ next[p] < hi /\ hi <= len[p]
    BY <2>1 DEF LastNewline
  <2>3. \A l \in Lines : Behind(l, next) => Behind(l, next)'
    BY <1>1, <2>1, <2>2, LineParts DEF Behind
  <2>4. \A l \in Lines : Gone(l)' <=> Gone(l)
    BY <1>1 DEF Gone
  <2>5. \A l \in Lines : Behind(l, Saved)' <=> Behind(l, Saved)
    BY <1>1 DEF Behind
  <2>6. ASSUME NEW l \in NewLines(p, next[p], hi)
        PROVE  c[l] <= k /\ Behind(l, next)'
    <3>1. l \in Lines /\ l[1] = p /\ l[2] = gen[p] /\ next[p] < l[3] /\ l[3] <= hi
      BY DEF NewLines
    <3>2. l[3] \in Nat
      BY <3>1, LineParts
    <3>3. ~Gone(l) /\ ~Behind(l, next)
      BY <3>1, <3>2 DEF Gone, Behind
    <3>4. c[l] <= k
      BY <1>1, <3>1, <3>3 DEF CopiesWithin, Consumed
    <3> QED
      BY <1>1, <2>1, <2>2, <3>1, <3>4 DEF Behind
  <2>7. \A l \in Lines : Consumed(l) => Consumed(l)'
    BY <1>1, <2>3, <2>4, <2>5 DEF Consumed
  <2>8. \A l \in batch' : (Gone(l)' \/ Behind(l, next)') /\ c[l] <= k
    BY <1>1, <2>1, <2>3, <2>4, <2>6 DEF CopiesWithin
  <2> QED
    BY <1>1, <2>7, <2>8 DEF CopiesWithin
<1> QED
  BY <1>2, <1>3

(* A step of the tail delivers nothing and brings nothing delivered back.   *)
LEMMA TailStepKeepsWithin ==
  ASSUME TailTypeOK, NEW c \in [Lines -> Nat], NEW k \in Nat, CopiesWithin(c, k), TailStep
  PROVE  Kill \/ (CopiesWithin(c, k)' /\ UNCHANGED crashes)
<1> USE OffsetTypes
<1>1. ASSUME NEW p \in Paths, Grow(p) \/ RotateAway(p)
      PROVE  CopiesWithin(c, k)'
  <2>1. /\ UNCHANGED <<gen, next, Saved, pc, batch>>
        /\ \A q \in Paths : len[q] <= len'[q] /\ len'[q] \in Nat
    <3>1. CASE Grow(p)
      <4>1. Size[p][gen[p]] \in Nat
        BY TailAssumption
      <4>2. PICK n \in (len[p] + 1)..Size[p][gen[p]] : len' = [len EXCEPT ![p] = n]
        BY <3>1 DEF Grow
      <4>3. n \in Nat /\ len[p] <= n
        BY <4>1, <4>2
      <4> QED
        BY <3>1, <4>2, <4>3 DEF Grow, reader, Saved, Zero
    <3>2. CASE RotateAway(p)
      BY <3>2 DEF RotateAway, reader, Saved, Zero
    <3> QED
      BY <1>1, <3>1, <3>2
  <2>2. \A l \in Lines : /\ Gone(l)' <=> Gone(l)
                         /\ Behind(l, next) => Behind(l, next)'
                         /\ Behind(l, Saved) => Behind(l, Saved)'
    BY <2>1, LineParts DEF Gone, Behind
  <2>3. (Resting' <=> Resting) /\ (Saving' <=> Saving)
    BY <2>1 DEF Resting, Saving
  <2> QED
    BY <2>1, <2>2, <2>3 DEF CopiesWithin, Consumed
<1>2. ASSUME NEW p \in Paths, Recreate(p)
      PROVE  CopiesWithin(c, k)'
  <2>1. /\ UNCHANGED <<next, Saved, pc, batch>>
        /\ gen'[p] = gen[p] + 1
        /\ \A q \in Paths : q # p => gen'[q] = gen[q] /\ len'[q] = len[q]
    BY <1>2 DEF Recreate, reader, Saved, Zero
  <2>2. \A l \in Lines : /\ Gone(l) => Gone(l)'
                         /\ Behind(l, next) => Behind(l, next)' \/ Gone(l)'
                         /\ Behind(l, Saved) => Behind(l, Saved)' \/ Gone(l)'
    BY <2>1, LineParts DEF Gone, Behind
  <2>3. (Resting' <=> Resting) /\ (Saving' <=> Saving)
    BY <2>1 DEF Resting, Saving
  <2> QED
    BY <2>1, <2>2, <2>3 DEF CopiesWithin, Consumed
<1>3. ASSUME LoadOffsets
      PROVE  CopiesWithin(c, k)'
  <2>1. /\ UNCHANGED <<gen, len, Saved, batch>> /\ next' = Saved
        /\ Resting /\ ~Resting' /\ ~Saving /\ ~Saving'
    BY <1>3 DEF LoadOffsets, files, Saved, Zero, Resting, Saving
  <2>2. \A l \in Lines : Consumed(l) => Consumed(l)'
    BY <2>1 DEF Consumed, Gone, Behind
  <2> QED
    BY <2>1, <2>2 DEF CopiesWithin
<1>4. ASSUME NEW p \in Paths, Stat(p)
      PROVE  CopiesWithin(c, k)'
  <2>1. /\ UNCHANGED <<gen, len, Saved, batch>>
        /\ ~Resting /\ ~Resting' /\ ~Saving /\ ~Saving'
        /\ \A q \in Paths : next[q] <= len[q] => next'[q] = next[q]
    BY <1>4 DEF Stat, StatOffset, files, Saved, Zero, Resting, Saving
  <2>2. \A l \in Lines : /\ Gone(l)' <=> Gone(l)
                         /\ Behind(l, next) => Behind(l, next)'
                         /\ Behind(l, Saved)' <=> Behind(l, Saved)
    BY <2>1, LineParts DEF Gone, Behind
  <2> QED
    BY <2>1, <2>2 DEF CopiesWithin, Consumed
<1>5. ASSUME SaveTruncate
      PROVE  CopiesWithin(c, k)'
  <2>1. /\ UNCHANGED <<gen, len, next, batch>>
        /\ Saving /\ Saving' /\ ~Resting /\ ~Resting'
    BY <1>5 DEF SaveTruncate, files, reader, Resting, Saving
  <2> QED
    BY <2>1 DEF CopiesWithin, Consumed, Gone, Behind
<1>6. ASSUME NEW then \in {"dead", "idle"}, SaveWrite(then)
      PROVE  CopiesWithin(c, k)'
  <2>1. /\ UNCHANGED <<gen, len>> /\ Saved' = next /\ batch' = {}
        /\ Saving /\ ~Saving' /\ ~Resting /\ Resting'
    BY <1>6, TailAssumption DEF SaveWrite, AtRest, files, Saved, Resting, Saving, TailTypeOK
  <2>2. \A l \in Lines : Consumed(l) => Consumed(l)'
    BY <2>1 DEF Consumed, Gone, Behind
  <2> QED
    BY <2>1, <2>2 DEF CopiesWithin
<1>7. ASSUME Restart
      PROVE  CopiesWithin(c, k)'
  <2>1. /\ UNCHANGED <<gen, len, next, Saved, batch>>
        /\ ~Saving /\ ~Saving' /\ Resting /\ Resting'
    BY <1>7 DEF Restart, files, reader, Saved, Zero, Resting, Saving
  <2> QED
    BY <2>1 DEF CopiesWithin, Consumed, Gone, Behind
<1>8. ASSUME Reject \/ (\E p \in Paths : ReadMissing(p))
      PROVE  CopiesWithin(c, k)'
  BY <1>8, StopKeepsWithin DEF Reject, ReadMissing, ScanFinished, Saving
<1>9. Kill \/ UNCHANGED crashes
  BY DEF TailStep, FileStep, Grow, RotateAway, Recreate, ScanStep, LoadOffsets, Stat, Read,
         ReadMissing, Reject, SaveTruncate, SaveWrite, Restart
<1> QED
  BY <1>1, <1>2, <1>3, <1>4, <1>5, <1>6, <1>7, <1>8, <1>9, ReadKeepsWithin
  DEF TailStep, FileStep, ScanStep

(* What is written is written once.                                         *)
LEMMA WrittenOnce ==
  ASSUME SinkTypeOK, NEW W \in SUBSET Lines, NEW f, Written(W, f), NEW l \in Lines
  PROVE  out'[l] = out[l] \/ (l \in W /\ out'[l] = out[l] + 1)
BY DEF Written, SinkTypeOK

(* An append writes each line of the batch at most once.                    *)
LEMMA AppendedOnce ==
  ASSUME TailTypeOK, SinkTypeOK, AppendBatch, NEW l \in Lines
  PROVE  out'[l] = out[l] \/ (l \in batch /\ out'[l] = out[l] + 1)
<1>1. CASE \E f : Written(batch, f)
  BY <1>1, WrittenOnce DEF TailTypeOK
<1>2. CASE UNCHANGED sink
  BY <1>2 DEF sink
<1> QED
  BY <1>1, <1>2 DEF AppendBatch

(* A kill in the middle of an append.                                       *)
LEMMA KilledInAppendPays ==
  ASSUME TailTypeOK, SinkTypeOK, NEW k \in Nat, CopiesWithin(out, k), KilledInAppend
  PROVE  \A l \in Lines : out'[l] <= 1 + k
<1>1. batch \subseteq Lines /\ out \in [Lines -> Nat]
  BY DEF TailTypeOK, SinkTypeOK
<1>2. PICK W \in SUBSET batch : UNCHANGED <<out, merged>> \/ \E f : Written(W, f)
  BY DEF KilledInAppend
<1>3. \A l \in batch : out[l] <= k
  BY DEF KilledInAppend, CopiesWithin, Saving
<1>4. ASSUME NEW l \in Lines
      PROVE  out'[l] <= 1 + k
  <2>1. out'[l] = out[l] \/ (l \in batch /\ out'[l] = out[l] + 1)
    BY <1>1, <1>2, WrittenOnce
  <2> QED
    BY <1>1, <1>3, <2>1 DEF CopiesWithin
<1> QED
  BY <1>4

-----------------------------------------------------------------------------
(* The promise of AtLeastOnce, where nobody rotates a source: what a batch  *)
(* holds is on disk, and no offset was carried into another file.           *)

UnrotatedInv ==
  /\ \A p \in Paths : here[p] /\ carried[p] = 0
  /\ \A l \in batch : Complete(l)

Published == {l \in Lines : Complete(l)}
PassedLines == {l \in Lines : Passed(l)}

(* It holds at the start, when there is nothing to speak of.                *)
LEMMA NothingAtStart ==
  ASSUME TailInit
  PROVE  UnrotatedInv /\ Published = {} /\ PassedLines = {} /\ ~Poisoned
<1>1. \A l \in Lines : ~Complete(l) /\ ~Passed(l)
  BY LineParts, NothingBelowZero DEF TailInit, Zero, Complete, Passed, Saved
<1> QED
  BY <1>1, TailAssumption DEF TailInit, Zero, UnrotatedInv, Published, PassedLines, Poisoned

(* Sources only grow.                                                       *)
LEMMA NoRotation ==
  ASSUME MaxGen = 0, TailTypeOK, UnrotatedInv, FileStep \/ UNCHANGED files
  PROVE  /\ UNCHANGED <<here, gen, carried>>
         /\ \A p \in Paths : len[p] <= len'[p]
<1>1. \A p \in Paths : here[p] /\ gen[p] = 0 /\ len[p] \in Nat
  BY DEF UnrotatedInv, TailTypeOK, Gens
<1>2. ASSUME NEW p \in Paths, RotateAway(p) \/ Recreate(p)
      PROVE  FALSE
  BY <1>1, <1>2 DEF RotateAway, Recreate
<1>3. ASSUME NEW p \in Paths, Grow(p)
      PROVE  UNCHANGED <<here, gen, carried>> /\ \A q \in Paths : len[q] <= len'[q]
  <2>1. Size[p][gen[p]] \in Nat
    BY TailAssumption DEF TailTypeOK
  <2>2. PICK n \in (len[p] + 1)..Size[p][gen[p]] : len' = [len EXCEPT ![p] = n]
    BY <1>3 DEF Grow
  <2>3. len \in [Paths -> Nat] /\ n \in Nat /\ len[p] <= n
    BY <1>1, <2>1, <2>2 DEF TailTypeOK
  <2> QED
    BY <1>3, <2>2, <2>3 DEF Grow
<1>4. CASE UNCHANGED files
  BY <1>1, <1>4 DEF files
<1> QED
  BY <1>2, <1>3, <1>4 DEF FileStep

(* A complete line stays complete.                                          *)
LEMMA CompleteStays ==
  ASSUME MaxGen = 0, TailTypeOK, TailTypeOK', UnrotatedInv, FileStep \/ UNCHANGED files,
         NEW l \in Lines, Complete(l)
  PROVE  Complete(l)'
<1>1. l[1] \in Paths /\ l[3] \in Nat /\ len[l[1]] \in Nat /\ len'[l[1]] \in Nat
  BY LineParts DEF TailTypeOK
<1> QED
  BY <1>1, NoRotation DEF Complete

(* A batch is read from what is on disk.                                    *)
LEMMA UnrotatedStep ==
  ASSUME MaxGen = 0, TailTypeOK, TailTypeOK', UnrotatedInv, FileStep \/ UNCHANGED files,
         batch' \subseteq batch \/ \E p \in Paths : Read(p)
  PROVE  UnrotatedInv'
<1>1. \A p \in Paths : here'[p] /\ carried'[p] = 0
  BY NoRotation DEF UnrotatedInv
<1>2. ASSUME NEW p \in Paths, Read(p), NEW l \in batch', l \notin batch
      PROVE  Complete(l)
  <2>1. PICK hi \in 1..len[p] : LastNewline(p, next[p], hi) /\ l \in NewLines(p, next[p], hi)
    BY <1>2 DEF Read
  <2>2. l \in Lines /\ l[1] = p /\ l[2] = gen[p] /\ l[3] <= hi
    BY <2>1 DEF NewLines
  <2>3. l[3] \in Nat /\ hi \in Nat /\ len[p] \in Nat /\ hi <= len[p]
    BY <2>1, <2>2, LineParts DEF TailTypeOK
  <2> QED
    BY <1>2, <2>2, <2>3 DEF Complete, Read
<1>3. batch' \subseteq Lines
  BY DEF TailTypeOK
<1>4. \A l \in batch' : Complete(l)
  BY <1>2 DEF UnrotatedInv
<1>5. \A l \in batch' : Complete(l)'
  BY <1>3, <1>4, CompleteStays
<1> QED
  BY <1>1, <1>5 DEF UnrotatedInv

(* The log writers publish; what a restart would skip is as before.         *)
LEMMA FilesPublish ==
  ASSUME MaxGen = 0, TailTypeOK, TailTypeOK', UnrotatedInv, FileStep, UNCHANGED stateFile
  PROVE  /\ \E S \in SUBSET Lines : Published' = Published \union S
         /\ Poisoned' \in {Poisoned, TRUE}
         /\ UNCHANGED PassedLines
<1>1. Published \subseteq Published' /\ Published' \subseteq Lines
  BY CompleteStays DEF Published
<1>2. Poisoned => Poisoned'
  BY CompleteStays, TailAssumption DEF Poisoned
<1>3. UNCHANGED PassedLines
  BY NoRotation DEF PassedLines, Passed, Saved, Zero
<1>4. Poisoned' = Poisoned \/ Poisoned' = TRUE
  BY <1>2 DEF Poisoned
<1> QED
  BY <1>1, <1>3, <1>4

(* Nobody else does.                                                        *)
LEMMA SameSources ==
  ASSUME UNCHANGED files
  PROVE  UNCHANGED <<Published, Poisoned>> /\ (UNCHANGED stateFile => UNCHANGED PassedLines)
BY DEF files, Published, PassedLines, Poisoned, Complete, Passed, Saved, Zero

(* With no offset carried, the promise of the offsets has no exception.     *)
LEMMA PassedLinesPromised ==
  ASSUME UnrotatedInv', NEW D, PassedOnly(D)'
  PROVE  PassedLines' \subseteq D
BY LineParts DEF UnrotatedInv, Carried, BeginsBelow, PassedOnly, PassedLines
=============================================================================
