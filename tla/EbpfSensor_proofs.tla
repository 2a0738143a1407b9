------------------------- MODULE EbpfSensor_proofs -------------------------
(***************************************************************************)
(* Proofs about the eBPF sensor for any programs, calls, ring size, number *)
(* of commands, failures and kills.                                        *)
(***************************************************************************)
EXTENDS EbpfSensor, FiniteSetTheorems, TLAPS

Options == [job : {"capture", "replay"}, stream : BOOLEAN, db : BOOLEAN, output : BOOLEAN]

Pieces == [ev : Events, whole : BOOLEAN, db : BOOLEAN]

PieceOf(w) == [ev |-> hand, whole |-> w, db |-> opts.db]

RowOf(e) == [id |-> EventId(e), ev |-> e]

TypeInv ==
  /\ runs \in [Pids -> Programs \union {None}]
  /\ ring \in Seq(Records) /\ (~Capturing => ring = <<>>)
  /\ pc \in {"off", "outer", "drain", "write", "insert", "output", "load"}
  /\ opts \in Options
  /\ hand \in Events \union {None} /\ (hand # None <=> pc \in {"write", "insert"})
  /\ (pc \in {"outer", "drain", "write", "insert"} => opts.job = "capture")
  /\ (pc = "load" => opts.job = "replay")
  /\ kept \in Seq(Events) /\ pos \in 0..Len(kept)
  /\ (pc = "off" => kept = <<>>) /\ (pc \notin {"output", "load"} => pos = 0)
  /\ stream \in Seq(Pieces) /\ output \in Seq(Events)
  /\ \A r \in rows : r.ev \in Events /\ r = RowOf(r.ev)
  /\ clock \in Nat /\ n \in Nat /\ first \in Nat /\ base \in Nat /\ cuts \in Nat

(* What a record becomes is an event of the same number.                    *)
LEMMA DecodedType ==
  ASSUME TypeInv, NEW r \in Records, NEW t \in Nat
  PROVE  Decoded(r, t) \in Events
<1>1. r.n \in Nat /\ r.call \in Calls /\ r.pid \in Pids
  BY DEF Records
<1>2. BinaryOf(r) \in Programs \union {None}
  BY <1>1, SensorAssumption DEF BinaryOf, TypeInv
<1>3. SeverityOf(r.call, KnownArguments(r)) \in {"none", "low", "medium", "high"}
  BY <1>1, SensorAssumption
  DEF SeverityOf, Kinds, FileSeverity, NetworkSeverity, ProcessSeverity
<1> QED
  BY <1>1, <1>2, <1>3 DEF Decoded, Events

(* What is appended to the stream, whole or cut.                            *)
LEMMA PieceType ==
  ASSUME TypeInv, pc = "write", NEW w \in BOOLEAN
  PROVE  stream \in Seq(Pieces) /\ Append(stream, PieceOf(w)) \in Seq(Pieces)
<1>1. PieceOf(w) \in Pieces
  BY DEF TypeInv, PieceOf, Pieces, Options
<1> QED
  BY <1>1 DEF TypeInv

(* The end of a command.                                                    *)
LEMMA EndType ==
  ASSUME TypeInv, NEW how, End(how), UNCHANGED <<rows, output>>, stream' \in Seq(Pieces)
  PROVE  TypeInv'
BY DEF TypeInv, End, Capturing, Options, NoOptions

(* What Insert leaves are rows of their events.                             *)
LEMMA InsertType ==
  ASSUME TypeInv, NEW e \in Events, Insert(e)
  PROVE  \A r \in rows' : r.ev \in Events /\ r = RowOf(r.ev)
BY DEF TypeInv, Insert, RowOf

(* A file that can be read is read as it is.                                *)
LEMMA ReadFacts ==
  ASSUME TypeInv, EventsRead # None
  PROVE  /\ EventsRead \in Seq(Events) /\ Len(EventsRead) = Len(stream)
         /\ \A i \in 1..Len(stream) : EventsRead[i] = stream[i].ev
<1>1. DOMAIN stream = 1..Len(stream) /\ Len(stream) \in Nat
      /\ \A i \in 1..Len(stream) : stream[i].ev \in Events
  <2>1. \A x \in Pieces : x.ev \in Events
    BY DEF Pieces
  <2>2. stream \in Seq(Pieces)
    BY DEF TypeInv
  <2> QED
    BY <2>1, <2>2
<1>2. EventsRead = [i \in 1..Len(stream) |-> stream[i].ev]
  BY <1>1 DEF EventsRead
<1>3. PICK s : s = EventsRead
  OBVIOUS
<1>4. s \in [1..Len(stream) -> Events]
  BY <1>1, <1>2, <1>3
<1>5. s \in Seq(Events) /\ Len(s) = Len(stream)
  BY <1>1, <1>4
<1> QED
  BY <1>2, <1>3, <1>5

(* Every step keeps the types.                                              *)
LEMMA TypeStep == TypeInv /\ [Next]_vars => TypeInv'
<1> SUFFICES ASSUME TypeInv, [Next]_vars
             PROVE  TypeInv'
  OBVIOUS
<1>1. ASSUME NEW p \in Pids, NEW c \in Calls, Call(p, c)
      PROVE  TypeInv'
  <2>1. runs' \in [Pids -> Programs \union {None}]
    BY <1>1, SensorAssumption DEF Call, TypeInv
  <2>2. n' \in Nat
    BY <1>1 DEF Call, TypeInv
  <2>3. ring' \in Seq(Records)
    <3>1. PICK r \in Records : r = [n |-> n', call |-> c, pid |-> p]
      BY <2>2 DEF Records
    <3>2. ring' \in {ring, Append(ring, r)}
      BY <1>1, <3>1 DEF Call, Submitted
    <3>3. ring \in Seq(Records)
      BY DEF TypeInv
    <3>4. Append(ring, r) \in Seq(Records)
      BY <3>1, <3>3
    <3> QED
      BY <3>2, <3>3, <3>4
  <2> QED
    BY <1>1, <2>1, <2>2, <2>3 DEF Call, TypeInv, Capturing, command, files
<1>2. CASE StartCapture
  BY <1>2 DEF StartCapture, TypeInv, Options, Capturing, files
<1>3. CASE StartReplay
  <2>1. CASE EventsRead = None
    BY <1>3, <2>1 DEF StartReplay, TypeInv, Options, Capturing
  <2>2. CASE EventsRead # None
    <3>1. kept' \in Seq(Events) /\ pos' \in 0..Len(kept')
      <4>1. pos = 0 /\ pos = pos' /\ kept' = EventsRead /\ hand = hand'
        BY <1>3, <2>2 DEF StartReplay, TypeInv
      <4>2. EventsRead \in Seq(Events)
        BY <2>2, ReadFacts
      <4> QED
        BY <4>1, <4>2
    <3>2. opts' \in Options /\ opts'.job = "replay"
      BY <1>3 DEF StartReplay, Options
    <3>3. pc' \in {"output", "load"} /\ output' \in {<<>>, output}
      BY <1>3, <2>2 DEF StartReplay, NewOutput
    <3> QED
      BY <1>3, <3>1, <3>2, <3>3 DEF StartReplay, TypeInv, Capturing
  <2> QED
    BY <2>1, <2>2
<1>4. CASE Deadline
  BY <1>4 DEF Deadline, TypeInv, Capturing, files, history
<1>5. CASE Outer
  <2>1. CASE TimeUp /\ ~opts.output /\ End("done") /\ UNCHANGED files
    BY <2>1, EndType DEF files, TypeInv
  <2>2. CASE pc' = "output" /\ output' = NewOutput
             /\ UNCHANGED <<runs, ring, opts, expired, hand, kept, pos, result, stream, rows, clock,
                             history>>
    BY <1>5, <2>2 DEF Outer, TypeInv, Capturing, history, NewOutput
  <2>3. CASE pc' = "drain"
             /\ UNCHANGED <<runs, ring, opts, expired, hand, kept, pos, result, files, clock, history>>
    BY <1>5, <2>3 DEF Outer, TypeInv, Capturing, files, history
  <2> QED
    BY <1>5, <2>1, <2>2, <2>3 DEF Outer
<1>6. CASE Take
  <2>1. CASE ring = <<>>
    BY <1>6, <2>1 DEF Take, TypeInv, Capturing, files, history
  <2>2. CASE ring # <<>>
    <3>1. Head(ring) \in Records /\ Tail(ring) \in Seq(Records)
      BY <2>2 DEF TypeInv
    <3>2. CASE Wanted(Head(ring).call)
      <4>1. clock' \in Nat
        BY <1>6, <2>2, <3>2 DEF Take, TypeInv
      <4>2. hand' \in Events /\ hand' # None
        BY <1>6, <2>2, <3>1, <3>2, <4>1, DecodedType, EventsAssumption DEF Take
      <4> QED
        BY <1>6, <2>2, <3>1, <3>2, <4>1, <4>2 DEF Take, TypeInv, Capturing, files, history
    <3>3. CASE ~Wanted(Head(ring).call)
      BY <1>6, <2>2, <3>1, <3>3 DEF Take, TypeInv, Capturing, files, history
    <3> QED
      BY <3>2, <3>3
  <2> QED
    BY <2>1, <2>2
<1>7. CASE WriteStream
  <2>1. stream' \in Seq(Pieces)
    <3>1. stream' \in {stream, Append(stream, PieceOf(TRUE))}
      BY <1>7 DEF WriteStream, PieceOf
    <3> QED
      BY <1>7, <3>1, PieceType DEF WriteStream
  <2> QED
    BY <1>7, <2>1 DEF WriteStream, TypeInv, Capturing, history
<1>8. CASE InsertRow
  <2>1. hand \in Events
    BY <1>8 DEF InsertRow, TypeInv
  <2>2. kept' \in Seq(Events) /\ Len(kept') >= Len(kept)
    BY <1>8, <2>1 DEF InsertRow, TypeInv
  <2>3. \A r \in rows' : r.ev \in Events /\ r = RowOf(r.ev)
    BY <1>8, <2>1, InsertType DEF InsertRow, TypeInv
  <2> QED
    BY <1>8, <2>2, <2>3 DEF InsertRow, TypeInv, Capturing, history
<1>9. CASE WriteOutput
  <2>1. CASE pos < Len(kept) /\ output' = Append(output, kept[pos + 1]) /\ pos' = pos + 1
             /\ UNCHANGED <<runs, ring, pc, opts, expired, hand, kept, result, stream, rows, clock,
                     history>>
    <3>1. pc = "output" /\ pos' \in 0..Len(kept)
      BY <1>9, <2>1 DEF WriteOutput, TypeInv
    <3>2. output' \in Seq(Events)
      <4>1. output \in Seq(Events) /\ kept[pos + 1] \in Events
        BY <2>1 DEF TypeInv
      <4> QED
        BY <2>1, <4>1
    <3> QED
      BY <2>1, <3>1, <3>2 DEF TypeInv, Capturing, history
  <2>2. CASE pos = Len(kept) /\ opts.job = "capture" /\ End("done") /\ UNCHANGED files
    BY <2>2, EndType DEF files, TypeInv
  <2>3. CASE opts.job = "replay" /\ pc' = "load" /\ pos' = 0
             /\ UNCHANGED <<runs, ring, opts, expired, hand, kept, result, files, clock, history>>
    <3>1. pc = "output" /\ ring' = ring /\ ~Capturing' /\ ~Capturing
      BY <1>9, <2>3 DEF WriteOutput, Capturing
    <3>2. pos' \in 0..Len(kept')
      BY <2>3 DEF TypeInv
    <3> QED
      BY <2>3, <3>1, <3>2 DEF TypeInv, files, history
  <2> QED
    BY <1>9, <2>1, <2>2, <2>3 DEF WriteOutput
<1>10. CASE LoadRows
  <2>1. CASE /\ opts.db /\ pos < Len(kept) /\ Insert(kept[pos + 1]) /\ pos' = pos + 1
             /\ UNCHANGED <<runs, ring, pc, opts, expired, hand, kept, result, stream, output, clock,
                            history>>
    <3>1. kept[pos + 1] \in Events
      BY <2>1 DEF TypeInv
    <3>2. \A r \in rows' : r.ev \in Events /\ r = RowOf(r.ev)
      BY <2>1, <3>1, InsertType
    <3>3. pc = "load" /\ pos' \in 0..Len(kept')
      BY <1>10, <2>1 DEF LoadRows, TypeInv
    <3> QED
      BY <2>1, <3>2, <3>3 DEF TypeInv, Capturing, history
  <2>2. CASE End("done") /\ UNCHANGED files
    BY <2>2, EndType DEF files, TypeInv
  <2> QED
    BY <1>10, <2>1, <2>2 DEF LoadRows
<1>11. CASE Fail
  <2>1. stream' \in Seq(Pieces)
    <3>1. stream' = stream \/ (pc = "write" /\ stream' = Append(stream, PieceOf(FALSE)))
      BY <1>11 DEF Fail, PieceOf, files
    <3> QED
      BY <3>1, PieceType DEF TypeInv
  <2> QED
    BY <1>11, <2>1, EndType DEF Fail, GiveUp, files
<1>12. CASE Kill
  BY <1>12, EndType DEF Kill, files, TypeInv
<1>13. CASE UNCHANGED vars
  BY <1>13 DEF vars, command, files, history, TypeInv, Capturing
<1> QED
  BY <1>1, <1>2, <1>3, <1>4, <1>5, <1>6, <1>7, <1>8, <1>9, <1>10, <1>11, <1>12, <1>13
  DEF Next, Step

(* Types; only a capture holds an event in hand or records in the ring.     *)
THEOREM TypeCorrect == Spec => []TypeInv
<1>1. Init => TypeInv
  BY SensorAssumption DEF Init, TypeInv, NoOptions, Options, Capturing
<1> QED
  BY <1>1, TypeStep, PTL DEF Spec

-----------------------------------------------------------------------------
(* Which event is which.  Records are numbered as the probes report them,   *)
(* and the ring hands them on in that order: an event that is new to the    *)
(* program has another number than all that it has handed on.               *)

Known ==
  Streamed \union {r.ev : r \in rows} \union {kept[i] : i \in DOMAIN kept}
    \union (IF hand = None THEN {} ELSE {hand})

Reports(e) ==
  /\ e.call.kind = "process_exec" => e.binary = e.call.prog
  /\ e.severity = SeverityOf(e.call, None)

IdentityInv ==
  /\ \A i, j \in DOMAIN ring : i < j => ring[i].n < ring[j].n
  /\ \A i \in DOMAIN ring : ring[i].n <= n
  /\ \A e \in Known : e.n <= n /\ Reports(e) /\ \A i \in DOMAIN ring : e.n < ring[i].n
  /\ \A e, f \in Known : e.n = f.n => e = f

(* Where the elements of a sequence that grows or shrinks are.              *)
LEMMA Appended ==
  ASSUME NEW S, NEW s \in Seq(S), NEW x \in S
  PROVE  /\ DOMAIN Append(s, x) = 1..(Len(s) + 1) /\ DOMAIN s = 1..Len(s) /\ Len(s) \in Nat
         /\ \A i \in DOMAIN s : Append(s, x)[i] = s[i]
         /\ Append(s, x)[Len(s) + 1] = x
OBVIOUS

LEMMA Drained ==
  ASSUME NEW S, NEW s \in Seq(S), s # <<>>
  PROVE  /\ s = <<>> \/ Len(s) > 0
         /\ DOMAIN s = 1..Len(s) /\ DOMAIN Tail(s) = 1..(Len(s) - 1) /\ Len(s) \in Nat
         /\ 1 \in DOMAIN s /\ Head(s) = s[1]
         /\ \A i \in DOMAIN Tail(s) : i + 1 \in DOMAIN s /\ Tail(s)[i] = s[i + 1]
OBVIOUS

(* The event in hand is known.                                              *)
LEMMA StreamGrows ==
  ASSUME TypeInv, pc = "write", NEW w \in BOOLEAN, stream' = Append(stream, PieceOf(w))
  PROVE  Streamed' = Streamed \union {hand}
<1>1. PICK x \in Pieces : x = PieceOf(w)
  BY DEF TypeInv, PieceOf, Pieces, Options
<1>2. stream \in Seq(Pieces)
  BY DEF TypeInv
<1>3. x.ev = hand
  BY <1>1 DEF PieceOf
<1>4. /\ DOMAIN stream' = 1..(Len(stream) + 1) /\ DOMAIN stream = 1..Len(stream)
      /\ Len(stream) \in Nat /\ \A i \in DOMAIN stream : stream'[i] = stream[i]
      /\ stream'[Len(stream) + 1] = x
  BY <1>1, <1>2, Appended
<1> QED
  BY <1>3, <1>4 DEF Streamed

LEMMA InsertKnown ==
  ASSUME NEW e, Insert(e)
  PROVE  {r.ev : r \in rows'} \subseteq {r.ev : r \in rows} \union {e}
<1>1. ASSUME NEW r \in rows'
      PROVE  r.ev \in {q.ev : q \in rows} \union {e}
  <2>1. r \in rows \/ r = [id |-> EventId(e), ev |-> e]
    BY <1>1 DEF Insert
  <2> QED
    BY <2>1
<1> QED
  BY <1>1

(* Only the probes and the ring buffer bring new events.                    *)
LEMMA NothingNew ==
  ASSUME TypeInv, [Next]_vars, ~(\E p \in Pids, c \in Calls : Call(p, c)), ~Take
  PROVE  Known' \subseteq Known /\ ring' \in {ring, <<>>} /\ n' = n
<1>0. ASSUME NEW how, End(how), UNCHANGED rows, Streamed' \subseteq Known
      PROVE  Known' \subseteq Known /\ ring' \in {ring, <<>>} /\ n' = n
  <2>1. hand' = None /\ DOMAIN kept' = {}
    BY <1>0 DEF End
  <2> QED
    BY <1>0, <2>1 DEF Known, End
<1>1. ASSUME UNCHANGED stream
      PROVE  Streamed' = Streamed /\ Streamed \subseteq Known
  BY <1>1 DEF Streamed, Known
<1>2. CASE StartCapture \/ Deadline
  BY <1>2 DEF StartCapture, Deadline, Known, Streamed, files, history
<1>3. CASE StartReplay
  <2>1. CASE EventsRead = None
    BY <1>3, <2>1 DEF StartReplay, Known, Streamed
  <2>2. CASE EventsRead # None
    <3>1. \A i \in DOMAIN kept' : kept'[i] \in Streamed
      <4>1. kept' = EventsRead /\ DOMAIN EventsRead = 1..Len(stream) /\ DOMAIN stream = 1..Len(stream)
        BY <1>3, <2>2, ReadFacts DEF StartReplay, TypeInv
      <4> QED
        BY <2>2, <4>1, ReadFacts DEF Streamed
    <3> QED
      BY <1>3, <2>2, <3>1 DEF StartReplay, Known, Streamed
  <2> QED
    BY <2>1, <2>2
<1>4. CASE Outer
  <2>1. CASE End("done") /\ UNCHANGED files
    BY <2>1, <1>0, <1>1 DEF files
  <2> QED
    BY <1>4, <2>1 DEF Outer, Known, Streamed, files, history
<1>5. CASE WriteStream
  <2>1. hand # None
    BY <1>5 DEF WriteStream, TypeInv
  <2>2. Streamed' \subseteq Streamed \union {hand}
    <3>1. CASE opts.stream
      <4>1. stream' = Append(stream, PieceOf(TRUE)) /\ pc = "write"
        BY <1>5, <3>1 DEF WriteStream, PieceOf
      <4> QED
        BY <4>1, StreamGrows
    <3>2. CASE ~opts.stream
      BY <1>5, <3>2 DEF WriteStream, Streamed
    <3> QED
      BY <3>1, <3>2
  <2> QED
    BY <1>5, <2>1, <2>2 DEF WriteStream, Known, history
<1>6. CASE InsertRow
  <2>1. hand # None /\ hand \in Events /\ hand' = None
    BY <1>6 DEF InsertRow, TypeInv
  <2>2. {r.ev : r \in rows'} \subseteq {r.ev : r \in rows} \union {hand}
    BY <1>6, InsertKnown DEF InsertRow
  <2>3. \A i \in DOMAIN kept' : kept'[i] \in {kept[j] : j \in DOMAIN kept} \union {hand}
    <3>1. kept' \in {kept, Append(kept, hand)} /\ kept \in Seq(Events)
      BY <1>6 DEF InsertRow, TypeInv
    <3> QED
      BY <2>1, <3>1, Appended
  <2> QED
    BY <1>6, <2>1, <2>2, <2>3 DEF InsertRow, Known, Streamed, history
<1>7. CASE WriteOutput
  <2>1. CASE End("done") /\ UNCHANGED files
    BY <2>1, <1>0, <1>1 DEF files
  <2> QED
    BY <1>7, <2>1 DEF WriteOutput, Known, Streamed, files, history
<1>8. CASE LoadRows
  <2>1. CASE End("done") /\ UNCHANGED files
    BY <2>1, <1>0, <1>1 DEF files
  <2>2. CASE pos < Len(kept) /\ Insert(kept[pos + 1])
             /\ UNCHANGED <<runs, ring, pc, opts, expired, hand, kept, result, stream, output, clock,
                       history>>
    <3>1. pos + 1 \in DOMAIN kept
      BY <2>2 DEF TypeInv
    <3>2. {r.ev : r \in rows'} \subseteq {r.ev : r \in rows} \union {kept[pos + 1]}
      BY <2>2, InsertKnown
    <3> QED
      BY <2>2, <3>1, <3>2 DEF Known, Streamed, history
  <2> QED
    BY <1>8, <2>1, <2>2 DEF LoadRows
<1>9. CASE Fail
  <2>1. Streamed' \subseteq Known /\ UNCHANGED rows
    <3>1. CASE UNCHANGED stream
      BY <1>9, <3>1, <1>1 DEF Fail, files
    <3>2. CASE pc = "write" /\ stream' = Append(stream, PieceOf(FALSE)) /\ UNCHANGED rows
      BY <3>2, StreamGrows DEF TypeInv, Known
    <3> QED
      BY <1>9, <3>1, <3>2 DEF Fail, PieceOf, files
  <2> QED
    BY <1>9, <2>1, <1>0 DEF Fail, GiveUp
<1>10. CASE Kill
  BY <1>10, <1>0, <1>1 DEF Kill, files
<1>11. CASE UNCHANGED vars
  BY <1>11 DEF vars, command, files, history, Known, Streamed
<1> QED
  BY <1>2, <1>3, <1>4, <1>5, <1>6, <1>7, <1>8, <1>9, <1>10, <1>11 DEF Next, Step

(* A call puts a record with a new number behind the others.                *)
LEMMA CallAdds ==
  ASSUME TypeInv, NEW p \in Pids, NEW c \in Calls, Call(p, c)
  PROVE  /\ n' = n + 1 /\ n \in Nat /\ UNCHANGED <<command, files, first>>
         /\ exempt \subseteq exempt'
         /\ \/ ring' = ring /\ n' \in exempt'
            \/ \E r \in Records : r.n = n' /\ (Wanted(r.call) \/ n' \in exempt')
                                 /\ ring \in Seq(Records) /\ ring' = Append(ring, r)
<1>1. n' = n + 1 /\ n \in Nat /\ n' \in Nat /\ ring \in Seq(Records)
  BY DEF Call, TypeInv
<1>2. PICK r \in Records : r = [n |-> n', call |-> c, pid |-> p]
  BY <1>1 DEF Records
<1>3. CASE Len(ring) < RingSize
  BY <1>1, <1>2, <1>3 DEF Call, Submitted
<1>4. CASE ~(Len(ring) < RingSize)
  BY <1>1, <1>4 DEF Call, Submitted
<1> QED
  BY <1>3, <1>4

(* A record that is taken is the first one, and becomes an event if wanted. *)
LEMMA TakeHandsOn ==
  ASSUME TypeInv, Take
  PROVE  /\ hand = None /\ UNCHANGED <<kept, opts, files, history>>
         /\ pc = "drain" /\ pc' \in {"outer", "drain", "write"}
         /\ \/ ring = <<>> /\ ring' = ring /\ hand' = None
            \/ ring # <<>> /\ ring' = Tail(ring) /\ hand' = None /\ ~Wanted(Head(ring).call)
            \/ /\ ring # <<>> /\ ring' = Tail(ring) /\ hand' # None
               /\ hand'.n = Head(ring).n /\ Reports(hand')
<1>1. hand = None
  BY DEF Take, TypeInv
<1>2. UNCHANGED <<kept, opts, files, history>> /\ pc = "drain" /\ pc' \in {"outer", "drain", "write"}
  BY DEF Take
<1>3. CASE ring = <<>>
  BY <1>1, <1>2, <1>3 DEF Take
<1>4. CASE ring # <<>> /\ ~Wanted(Head(ring).call)
  BY <1>1, <1>2, <1>4 DEF Take
<1>5. CASE ring # <<>> /\ Wanted(Head(ring).call)
  <2>1. ring' = Tail(ring) /\ hand' = Decoded(Head(ring), clock') /\ clock' \in Nat
    BY <1>5 DEF Take, TypeInv
  <2>2. Head(ring) \in Records
    BY <1>5 DEF TypeInv
  <2>3. hand' # None
    BY <2>1, <2>2, DecodedType, EventsAssumption
  <2>4. hand'.n = Head(ring).n
    BY <2>1 DEF Decoded
  <2>5. Reports(hand')
    BY <2>1 DEF Decoded, Reports, BinaryOf, KnownArguments
  <2> QED
    BY <1>1, <1>2, <1>5, <2>1, <2>3, <2>4, <2>5
<1> QED
  BY <1>3, <1>4, <1>5

(* Every step keeps events and numbers together.                            *)
LEMMA IdentityStep == TypeInv /\ IdentityInv /\ [Next]_vars => IdentityInv'
<1> SUFFICES ASSUME TypeInv, IdentityInv, [Next]_vars
             PROVE  IdentityInv'
  OBVIOUS
<1>0. /\ ring \in Seq(Records) /\ n \in Nat
      /\ \A i \in DOMAIN ring : ring[i].n \in Nat
      /\ \A e \in Known : e.n \in Nat
  <2>1. \A r \in Records : r.n \in Nat
    BY DEF Records
  <2>2. \A e \in Events : e.n \in Nat
    BY DEF Events
  <2>3. \A e \in Known : e \in Events
    <3>1. \A x \in Pieces : x.ev \in Events
      BY DEF Pieces
    <3>2. \A i \in DOMAIN stream : stream[i].ev \in Events
      BY <3>1 DEF TypeInv
    <3> QED
      BY <3>2 DEF Known, Streamed, TypeInv
  <2> QED
    BY <2>1, <2>2, <2>3 DEF TypeInv
<1>1. ASSUME Known' \subseteq Known, ring' \in {ring, <<>>}, n' = n
      PROVE  IdentityInv'
  BY <1>1 DEF IdentityInv, Reports
<1>2. ASSUME NEW p \in Pids, NEW c \in Calls, Call(p, c)
      PROVE  IdentityInv'
  <2>1. n' = n + 1 /\ Known' = Known
    BY <1>2, CallAdds DEF Known, Streamed, command, files
  <2>2. CASE ring' = ring
    BY <1>0, <2>1, <2>2 DEF IdentityInv, Reports
  <2>3. ASSUME NEW r \in Records, r.n = n', ring' = Append(ring, r)
        PROVE  IdentityInv'
    <3>1. /\ DOMAIN ring' = 1..(Len(ring) + 1) /\ DOMAIN ring = 1..Len(ring) /\ Len(ring) \in Nat
          /\ \A i \in DOMAIN ring : ring'[i] = ring[i]
          /\ ring'[Len(ring) + 1].n = n + 1
      BY <1>0, <2>1, <2>3, Appended
    <3>2. \A i \in DOMAIN ring' : i \in DOMAIN ring \/ i = Len(ring) + 1
      BY <3>1
    <3>3. \A i, j \in DOMAIN ring' : i < j => ring'[i].n < ring'[j].n
      BY <1>0, <3>1, <3>2 DEF IdentityInv
    <3>4. \A i \in DOMAIN ring' : ring'[i].n <= n'
      BY <1>0, <2>1, <3>1, <3>2 DEF IdentityInv
    <3>5. \A e \in Known : e.n <= n' /\ \A i \in DOMAIN ring' : e.n < ring'[i].n
      BY <1>0, <2>1, <3>1, <3>2 DEF IdentityInv
    <3> QED
      BY <2>1, <3>3, <3>4, <3>5 DEF IdentityInv, Reports
  <2> QED
    BY <1>2, <2>2, <2>3, CallAdds
<1>3. CASE Take
  <2>1. UNCHANGED n /\ Known' = Known \union (IF hand' = None THEN {} ELSE {hand'})
    BY <1>3, TakeHandsOn DEF Known, Streamed, files, history
  <2>2. CASE ring = <<>> /\ ring' = ring /\ hand' = None
    BY <1>1, <2>1, <2>2
  <2>3. CASE ring # <<>> /\ ring' = Tail(ring)
    <3>1. /\ DOMAIN ring = 1..Len(ring) /\ DOMAIN ring' = 1..(Len(ring) - 1) /\ Len(ring) \in Nat
          /\ 1 \in DOMAIN ring /\ Head(ring) = ring[1]
          /\ \A i \in DOMAIN ring' : i + 1 \in DOMAIN ring /\ ring'[i] = ring[i + 1]
      BY <1>0, <2>3, Drained
    <3>2. \A i \in DOMAIN ring' : i \in Nat /\ 1 < i + 1
      BY <3>1
    <3>3. \A i, j \in DOMAIN ring' : i < j => ring'[i].n < ring'[j].n
      BY <1>0, <3>1, <3>2 DEF IdentityInv
    <3>4. \A i \in DOMAIN ring' : ring'[i].n <= n /\ ring[1].n < ring'[i].n
      BY <1>0, <3>1, <3>2 DEF IdentityInv
    <3>5. \A e \in Known : e.n < ring[1].n /\ e.n <= n /\ Reports(e)
                           /\ \A i \in DOMAIN ring' : e.n < ring'[i].n
      BY <3>1 DEF IdentityInv
    <3>6. CASE hand' = None
      BY <2>1, <3>3, <3>4, <3>5, <3>6 DEF IdentityInv, Reports
    <3>7. CASE hand' # None
      <4>1. hand'.n = ring[1].n /\ Reports(hand')
        BY <1>3, <2>3, <3>1, <3>7, TakeHandsOn
      <4>2. Known' = Known \union {hand'}
        BY <2>1, <3>7
      <4>3. ring[1].n <= n /\ ring[1].n \in Nat
        BY <1>0, <3>1 DEF IdentityInv
      <4>4. \A e \in Known' : e.n <= n' /\ Reports(e) /\ \A i \in DOMAIN ring' : e.n < ring'[i].n
        BY <2>1, <3>4, <3>5, <4>1, <4>2, <4>3
      <4>5. \A e, f \in Known' : e.n = f.n => e = f
        BY <1>0, <3>5, <4>1, <4>2, <4>3 DEF IdentityInv
      <4> QED
        BY <2>1, <3>3, <3>4, <4>4, <4>5 DEF IdentityInv, Reports
    <3> QED
      BY <3>6, <3>7
  <2> QED
    BY <1>3, <2>2, <2>3, TakeHandsOn
<1> QED
  BY <1>1, <1>2, <1>3, NothingNew

LEMMA IdentityStart == Init => IdentityInv
BY DEF Init, IdentityInv, Known, Streamed

(* Whatever is captured, imported and killed, an event has one row: its id  *)
(* is that of its first insertion (insert_event, event_id).                 *)
THEOREM OneRowPerEvent == Spec => []EventHasOneRow
<1>1. TypeInv /\ IdentityInv => EventHasOneRow
  <2> SUFFICES ASSUME TypeInv, IdentityInv, NEW r \in rows, NEW q \in rows, r.ev.n = q.ev.n
               PROVE  r = q
    BY DEF EventHasOneRow
  <2>1. r.ev = q.ev
    BY DEF IdentityInv, Known
  <2>2. r = RowOf(r.ev) /\ q = RowOf(q.ev)
    BY DEF TypeInv
  <2> QED
    BY <2>1, <2>2
<1> QED
  BY <1>1, TypeCorrect, TypeStep, IdentityStart, IdentityStep, PTL DEF Spec

(* However late a record is drained, its event reports the call             *)
(* (decode_wire_event, enrich_process_context_from_procfs).                 *)
THEOREM LateEventsReportCalls == Spec => []EventReportsCall
<1>1. IdentityInv => EventReportsCall
  BY DEF IdentityInv, EventReportsCall, Known, Reports
<1> QED
  BY <1>1, TypeCorrect, TypeStep, IdentityStart, IdentityStep, PTL DEF Spec

-----------------------------------------------------------------------------
(* Where each record of a capture is.  The ring is left only through the    *)
(* program's hand, and the hand is emptied only when the stream has the     *)
(* event; a record that is not wanted was marked as such by its probe.      *)

Accounted(i) ==
  \/ i \in exempt
  \/ \E k \in DOMAIN ring : ring[k].n = i
  \/ hand # None /\ hand.n = i
  \/ \E e \in Streamed : e.n = i

AccountInv ==
  /\ \A i, j \in DOMAIN stream : i < j => stream[i].ev.n < stream[j].ev.n
  /\ pc = "write" => \A e \in Streamed : e.n < hand.n
  /\ pc = "insert" /\ opts.stream => hand \in Streamed
  /\ \A k \in DOMAIN ring : Wanted(ring[k].call) \/ ring[k].n \in exempt
  /\ Capturing /\ opts.stream => \A i \in first..n : Accounted(i)

(* Nothing moves while the program is on its way.                           *)
LEMMA NothingMoves ==
  ASSUME AccountInv, UNCHANGED <<stream, ring, hand, exempt, n, first, opts>>,
         pc' = pc \/ (pc' \notin {"write", "insert"} /\ (pc = "off" => pc' = "off"))
  PROVE  AccountInv'
BY DEF AccountInv, Accounted, Streamed, Capturing

(* The stream stays in order when the event in hand is put behind it.       *)
LEMMA StreamInOrder ==
  ASSUME TypeInv, AccountInv, pc = "write", NEW w \in BOOLEAN, stream' = Append(stream, PieceOf(w))
  PROVE  \A i, j \in DOMAIN stream' : i < j => stream'[i].ev.n < stream'[j].ev.n
<1>1. PICK x \in Pieces : x = PieceOf(w)
  BY DEF TypeInv, PieceOf, Pieces, Options
<1>2. stream \in Seq(Pieces)
  BY DEF TypeInv
<1>3. x.ev = hand
  BY <1>1 DEF PieceOf
<1>4. /\ DOMAIN stream' = 1..(Len(stream) + 1) /\ DOMAIN stream = 1..Len(stream)
      /\ Len(stream) \in Nat /\ \A i \in DOMAIN stream : stream'[i] = stream[i]
      /\ stream'[Len(stream) + 1] = x
  BY <1>1, <1>2, Appended
<1>5. \A i \in DOMAIN stream : stream[i].ev.n < hand.n
  BY DEF AccountInv, Streamed
<1>6. \A i \in DOMAIN stream' : i \in DOMAIN stream \/ i = Len(stream) + 1
  BY <1>4
<1> QED
  BY <1>3, <1>4, <1>5, <1>6 DEF AccountInv

(* The end of a command leaves nothing to account for.                      *)
LEMMA EndAccounts ==
  ASSUME NEW how, End(how),
         \A i, j \in DOMAIN stream' : i < j => stream'[i].ev.n < stream'[j].ev.n
  PROVE  AccountInv'
BY DEF End, AccountInv, Capturing

LEMMA AccountStep == TypeInv /\ IdentityInv /\ AccountInv /\ [Next]_vars => AccountInv'
<1> SUFFICES ASSUME TypeInv, IdentityInv, AccountInv, [Next]_vars
             PROVE  AccountInv'
  OBVIOUS
<1>0. ASSUME NEW how, End(how), UNCHANGED stream
      PROVE  AccountInv'
  BY <1>0, EndAccounts DEF AccountInv
<1>1. ASSUME NEW p \in Pids, NEW c \in Calls, Call(p, c)
      PROVE  AccountInv'
  <2>1. /\ n' = n + 1 /\ n \in Nat /\ first \in Nat /\ exempt \subseteq exempt'
        /\ UNCHANGED <<stream, hand, first, opts, pc>>
    BY <1>1, CallAdds DEF command, files, TypeInv
  <2>2. \A i \in first'..n' : i \in first..n \/ i = n'
    BY <2>1
  <2>3. CASE ring' = ring /\ n' \in exempt'
    <3>1. \A i : Accounted(i) \/ i = n' => Accounted(i)'
      BY <2>1, <2>3 DEF Accounted, Streamed
    <3>2. \A k \in DOMAIN ring' : Wanted(ring'[k].call) \/ ring'[k].n \in exempt'
      BY <2>1, <2>3 DEF AccountInv
    <3> QED
      BY <2>1, <2>2, <3>1, <3>2 DEF AccountInv, Capturing, Streamed
  <2>4. ASSUME NEW r \in Records, r.n = n', Wanted(r.call) \/ n' \in exempt',
               ring \in Seq(Records), ring' = Append(ring, r)
        PROVE  AccountInv'
    <3>1. /\ DOMAIN ring' = 1..(Len(ring) + 1) /\ DOMAIN ring = 1..Len(ring) /\ Len(ring) \in Nat
          /\ \A i \in DOMAIN ring : ring'[i] = ring[i]
          /\ ring'[Len(ring) + 1] = r
      BY <2>4, Appended
    <3>2. \A k \in DOMAIN ring' : k \in DOMAIN ring \/ k = Len(ring) + 1
      BY <3>1
    <3>3. Len(ring) + 1 \in DOMAIN ring' /\ \A k \in DOMAIN ring : k \in DOMAIN ring'
      BY <3>1
    <3>4. \A k \in DOMAIN ring' : Wanted(ring'[k].call) \/ ring'[k].n \in exempt'
      BY <2>1, <2>4, <3>1, <3>2 DEF AccountInv
    <3>5. \A i : Accounted(i) \/ i = n' => Accounted(i)'
      BY <2>1, <2>4, <3>1, <3>3 DEF Accounted, Streamed
    <3> QED
      BY <2>1, <2>2, <3>4, <3>5 DEF AccountInv, Capturing, Streamed
  <2> QED
    BY <1>1, <2>3, <2>4, CallAdds
<1>2. CASE Take
  <2>1. /\ hand = None /\ UNCHANGED <<stream, opts, n, exempt, first>>
        /\ pc = "drain" /\ pc' \in {"outer", "drain", "write"}
    BY <1>2, TakeHandsOn DEF files, history
  <2>2. pc' = "write" => hand' # None
    BY <1>2, TypeStep DEF TypeInv
  <2>3. CASE ring = <<>> /\ ring' = ring /\ hand' = None
    BY <2>1, <2>2, <2>3 DEF AccountInv, Accounted, Streamed, Capturing
  <2>4. CASE ring # <<>> /\ ring' = Tail(ring)
    <3>1. /\ DOMAIN ring = 1..Len(ring) /\ DOMAIN ring' = 1..(Len(ring) - 1) /\ Len(ring) \in Nat
          /\ 1 \in DOMAIN ring /\ Head(ring) = ring[1]
          /\ \A i \in DOMAIN ring' : i + 1 \in DOMAIN ring /\ ring'[i] = ring[i + 1]
      BY <2>4, Drained DEF TypeInv
    <3>2. \A k \in DOMAIN ring : k = 1 \/ (k - 1 \in DOMAIN ring' /\ ring'[k - 1] = ring[k])
      BY <3>1
    <3>3. \A k \in DOMAIN ring' : Wanted(ring'[k].call) \/ ring'[k].n \in exempt'
      BY <2>1, <3>1 DEF AccountInv
    <3>4. hand' = None => ring[1].n \in exempt
      BY <1>2, <2>4, <3>1, TakeHandsOn DEF AccountInv
    <3>5. hand' # None => hand'.n = ring[1].n
      BY <1>2, <2>4, <3>1, TakeHandsOn
    <3>6. \A i : Accounted(i) => Accounted(i)'
      BY <2>1, <3>2, <3>4, <3>5 DEF Accounted, Streamed
    <3>7. \A e \in Streamed : e.n < ring[1].n
      BY <3>1 DEF IdentityInv, Known
    <3> QED
      BY <2>1, <2>2, <3>3, <3>5, <3>6, <3>7 DEF AccountInv, Capturing, Streamed
  <2> QED
    BY <1>2, <2>3, <2>4, TakeHandsOn
<1>3. CASE WriteStream
  <2>1. /\ pc = "write" /\ pc' = "insert" /\ hand # None
        /\ UNCHANGED <<ring, hand, exempt, n, first, opts>>
    BY <1>3 DEF WriteStream, TypeInv, history
  <2>2. CASE opts.stream
    <3>1. stream' = Append(stream, PieceOf(TRUE))
      BY <1>3, <2>2 DEF WriteStream, PieceOf
    <3>2. Streamed' = Streamed \union {hand}
      BY <2>1, <3>1, StreamGrows
    <3>3. \A i, j \in DOMAIN stream' : i < j => stream'[i].ev.n < stream'[j].ev.n
      BY <2>1, <3>1, StreamInOrder
    <3> QED
      BY <2>1, <3>2, <3>3 DEF AccountInv, Accounted, Capturing
  <2>3. CASE ~opts.stream
    BY <1>3, <2>1, <2>3 DEF WriteStream, AccountInv, Accounted, Capturing, Streamed
  <2> QED
    BY <2>2, <2>3
<1>4. CASE InsertRow
  BY <1>4 DEF InsertRow, AccountInv, Accounted, Capturing, Streamed, history
<1>5. CASE StartCapture
  <2>1. /\ ring' = <<>> /\ first' = n + 1 /\ n' = n /\ n \in Nat /\ pc' = "outer"
        /\ UNCHANGED stream
    BY <1>5 DEF StartCapture, TypeInv, Capturing, files
  <2>2. first'..n' = {}
    BY <2>1
  <2> QED
    BY <2>1, <2>2 DEF AccountInv
<1>6. CASE StartReplay
  <2>1. opts'.job = "replay" /\ pc' \notin {"write", "insert"} /\ UNCHANGED <<ring, exempt, stream>>
    BY <1>6 DEF StartReplay
  <2> QED
    BY <2>1 DEF AccountInv, Capturing
<1>7. CASE Outer \/ Deadline
  BY <1>0, <1>7, NothingMoves DEF Outer, Deadline, files, history
<1>8. CASE WriteOutput
  BY <1>0, <1>8, NothingMoves DEF WriteOutput, files, history
<1>9. CASE LoadRows
  BY <1>0, <1>9, NothingMoves DEF LoadRows, files, history
<1>10. CASE Fail
  <2>1. CASE UNCHANGED stream
    BY <1>0, <1>10, <2>1 DEF Fail, GiveUp
  <2>2. CASE pc = "write" /\ stream' = Append(stream, PieceOf(FALSE))
    BY <1>10, <2>2, StreamInOrder, EndAccounts DEF Fail, GiveUp
  <2> QED
    BY <1>10, <2>1, <2>2 DEF Fail, PieceOf, files
<1>11. CASE Kill
  BY <1>0, <1>11 DEF Kill, files
<1>12. CASE UNCHANGED vars
  BY <1>12, NothingMoves DEF vars, command, files, history
<1> QED
  BY <1>1, <1>2, <1>3, <1>4, <1>5, <1>6, <1>7, <1>8, <1>9, <1>10, <1>11, <1>12 DEF Next, Step

(* A record is in the stream, in order, or it is known why it is not there  *)
(* yet or never will be (capture_live, StreamWriter).                       *)
THEOREM NoRecordVanishes == Spec => []EventsAccounted
<1>1. Init => AccountInv
  BY DEF Init, AccountInv, Capturing
<1>2. AccountInv => EventsAccounted
  BY DEF AccountInv, Accounted, EventsAccounted
<1> QED
  BY <1>1, <1>2, TypeCorrect, TypeStep, IdentityStart, IdentityStep, AccountStep, PTL DEF Spec

-----------------------------------------------------------------------------
(* The database behind the stream.  Every event that the stream has ahead   *)
(* of it, but for the one in hand, was left behind by a capture that was    *)
(* cut short after WriteStream.                                             *)

Missing == {i \in DOMAIN stream :
              stream[i].db /\ \A r \in rows : r.id # EventId(stream[i].ev)}

Left == IF pc = "insert" THEN Missing \ {Len(stream)} ELSE Missing

AheadInv ==
  /\ Cardinality(Left) <= cuts
  /\ pc = "insert" /\ opts.stream => stream # <<>> /\ stream[Len(stream)].ev = hand
  /\ pc = "insert" /\ ~(opts.stream /\ opts.db) => Cardinality(Missing) <= cuts

(* An insertion takes no id away and adds that of its event.                *)
LEMMA InsertIds ==
  ASSUME NEW e, Insert(e)
  PROVE  /\ {r.id : r \in rows} \subseteq {r.id : r \in rows'}
         /\ EventId(e) \in {r.id : r \in rows'}
<1>1. PICK new : new = [id |-> EventId(e), ev |-> e]
  OBVIOUS
<1>2. new \in rows' /\ new.id = EventId(e)
  BY <1>1 DEF Insert
<1>3. \A r \in rows : r.id = EventId(e) \/ r \in rows'
  BY DEF Insert
<1> QED
  BY <1>2, <1>3

(* Fewer are no more, and one more is at most one more.                     *)
LEMMA OneMore ==
  ASSUME NEW S, NEW T, NEW x, IsFiniteSet(T), S \subseteq T \union {x}
  PROVE  /\ IsFiniteSet(S) /\ Cardinality(S) \in Nat /\ Cardinality(T) \in Nat
         /\ Cardinality(S) <= Cardinality(T) + 1
         /\ S \subseteq T => Cardinality(S) <= Cardinality(T)
<1>1. IsFiniteSet(T \union {x}) /\ Cardinality(T \union {x}) <= Cardinality(T) + 1
  <2>1. Cardinality(T) \in Nat
    BY FS_CardinalityType
  <2> QED
    BY <2>1, FS_AddElement
<1>2. IsFiniteSet(S) /\ Cardinality(S) <= Cardinality(T \union {x})
  BY <1>1, FS_Subset
<1>3. Cardinality(S) \in Nat /\ Cardinality(T) \in Nat /\ Cardinality(T \union {x}) \in Nat
  BY <1>1, <1>2, FS_CardinalityType
<1>4. S \subseteq T => Cardinality(S) <= Cardinality(T)
  BY FS_Subset
<1> QED
  BY <1>1, <1>2, <1>3, <1>4

LEMMA MissingFinite ==
  ASSUME TypeInv
  PROVE  IsFiniteSet(Missing) /\ IsFiniteSet(Left)
<1>1. stream \in Seq(Pieces)
  BY DEF TypeInv
<1>2. DOMAIN stream = 1..Len(stream) /\ Len(stream) \in Nat
  BY <1>1
<1>3. IsFiniteSet(DOMAIN stream)
  BY <1>2, FS_Interval
<1>4. Missing \subseteq DOMAIN stream /\ Left \subseteq Missing
  BY DEF Missing, Left
<1> QED
  BY <1>3, <1>4, FS_Subset

(* As long as no row loses its id, only an appended piece can be missing.   *)
LEMMA MissingStep ==
  ASSUME TypeInv, {r.id : r \in rows} \subseteq {r.id : r \in rows'}
  PROVE  /\ stream' = stream => Missing' \subseteq Missing
         /\ \A w \in BOOLEAN : pc = "write" /\ stream' = Append(stream, PieceOf(w)) =>
              /\ Missing' \subseteq Missing \union {Len(stream')}
              /\ ~opts.db => Missing' \subseteq Missing
              /\ stream' # <<>> /\ stream'[Len(stream')].ev = hand
<1>1. \A e : (\A r \in rows' : r.id # EventId(e)) => \A r \in rows : r.id # EventId(e)
  OBVIOUS
<1>2. ASSUME stream' = stream
      PROVE  Missing' \subseteq Missing
  BY <1>1, <1>2 DEF Missing, EventId
<1>3. ASSUME NEW w \in BOOLEAN, pc = "write", stream' = Append(stream, PieceOf(w))
      PROVE  /\ Missing' \subseteq Missing \union {Len(stream')}
             /\ ~opts.db => Missing' \subseteq Missing
             /\ stream' # <<>> /\ stream'[Len(stream')].ev = hand
  <2>1. PICK x \in Pieces : x = PieceOf(w)
    BY <1>3 DEF TypeInv, PieceOf, Pieces, Options
  <2>2. stream \in Seq(Pieces)
    BY DEF TypeInv
  <2>3. x.ev = hand /\ x.db = opts.db
    BY <2>1 DEF PieceOf
  <2>4. /\ DOMAIN stream' = 1..(Len(stream) + 1) /\ DOMAIN stream = 1..Len(stream)
        /\ Len(stream) \in Nat /\ \A i \in DOMAIN stream : stream'[i] = stream[i]
        /\ stream'[Len(stream) + 1] = x /\ Len(stream') = Len(stream) + 1
    BY <1>3, <2>1, <2>2, Appended
  <2>5. \A i \in DOMAIN stream' : i \in DOMAIN stream \/ i = Len(stream')
    BY <2>4
  <2>6. \A i \in Missing' : i \in DOMAIN stream => i \in Missing
    BY <1>1, <2>4 DEF Missing, EventId
  <2>7. \A i \in Missing' : i \in DOMAIN stream' /\ stream'[i].db
    BY DEF Missing
  <2>8. Missing' \subseteq Missing \union {Len(stream')}
    BY <2>5, <2>6, <2>7
  <2>9. ~opts.db => Missing' \subseteq Missing
    BY <2>3, <2>4, <2>5, <2>6, <2>7
  <2>10. stream' # <<>> /\ stream'[Len(stream')].ev = hand
    BY <2>3, <2>4
  <2> QED
    BY <2>8, <2>9, <2>10
<1> QED
  BY <1>2, <1>3

LEMMA AheadStep == TypeInv /\ AheadInv /\ [Next]_vars => AheadInv'
<1> SUFFICES ASSUME TypeInv, AheadInv, [Next]_vars
             PROVE  AheadInv'
  OBVIOUS
<1>0. /\ IsFiniteSet(Missing) /\ IsFiniteSet(Left) /\ cuts \in Nat
      /\ Cardinality(Missing) \in Nat /\ Cardinality(Left) \in Nat
      /\ Cardinality(Missing) <= cuts + 1
      /\ pc # "insert" => Left = Missing
  <2>1. Missing \subseteq Left \union {Len(stream)} /\ (pc # "insert" => Left = Missing)
    BY DEF Left
  <2>2. IsFiniteSet(Missing) /\ IsFiniteSet(Left)
    BY MissingFinite
  <2>3. /\ Cardinality(Missing) \in Nat /\ Cardinality(Left) \in Nat
        /\ Cardinality(Missing) <= Cardinality(Left) + 1
    BY <2>1, <2>2, OneMore
  <2>4. Cardinality(Left) <= cuts /\ cuts \in Nat
    BY DEF AheadInv, TypeInv
  <2>5. Cardinality(Missing) <= cuts + 1
    BY <2>3, <2>4
  <2> QED
    BY <2>1, <2>2, <2>3, <2>4, <2>5
<1>1. ASSUME pc # "insert", pc' # "insert", Missing' \subseteq Missing, UNCHANGED cuts
      PROVE  AheadInv'
  <2>1. Cardinality(Missing') <= Cardinality(Missing)
    BY <1>0, <1>1, OneMore
  <2>2. Cardinality(Missing') \in Nat
    BY <1>0, <1>1, OneMore
  <2> QED
    BY <1>0, <1>1, <2>1, <2>2 DEF AheadInv, Left
<1>2. ASSUME UNCHANGED <<stream, rows>>
      PROVE  Missing' = Missing
  BY <1>2 DEF Missing, EventId
<1>3. ASSUME UNCHANGED <<pc, opts, hand, stream, rows, cuts>>
      PROVE  AheadInv'
  BY <1>2, <1>3 DEF AheadInv, Left
<1>4. ASSUME NEW how, End(how), UNCHANGED rows, how # "failed" \/ opts.job = "replay",
             UNCHANGED stream, pc # "insert"
      PROVE  AheadInv'
  BY <1>1, <1>2, <1>4 DEF End
<1>5. ASSUME End("failed"), opts.job = "capture", pc # "insert" => Missing' \subseteq Missing \union {Len(stream')},
             pc = "insert" => Missing' = Missing
      PROVE  AheadInv'
  <2>1. cuts' = cuts + 1 /\ pc' = "off"
    BY <1>5 DEF End
  <2>2. Cardinality(Missing') <= cuts + 1
    <3>1. CASE pc = "insert"
      BY <1>0, <1>5, <3>1
    <3>2. CASE pc # "insert"
      <4>1. Cardinality(Missing') <= Cardinality(Missing) + 1 /\ Cardinality(Missing') \in Nat
        BY <1>0, <1>5, <3>2, OneMore
      <4> QED
        BY <1>0, <3>2, <4>1 DEF AheadInv
    <3> QED
      BY <3>1, <3>2
  <2> QED
    BY <2>1, <2>2 DEF AheadInv, Left
<1>6. ASSUME NEW p \in Pids, NEW c \in Calls, Call(p, c)
      PROVE  AheadInv'
  BY <1>3, <1>6 DEF Call, command, files
<1>7. CASE StartCapture \/ StartReplay
  BY <1>1, <1>2, <1>7 DEF StartCapture, StartReplay, files
<1>8. CASE Deadline \/ UNCHANGED vars
  BY <1>3, <1>8 DEF Deadline, vars, command, files, history
<1>9. CASE Outer
  BY <1>1, <1>2, <1>4, <1>9 DEF Outer, files, history
<1>10. CASE Take
  BY <1>1, <1>2, <1>10, TakeHandsOn DEF files, history
<1>11. CASE WriteStream
  <2>1. pc = "write" /\ pc' = "insert" /\ UNCHANGED <<opts, hand, rows, cuts>> /\ Left = Missing
    BY <1>0, <1>11 DEF WriteStream, history
  <2>2. CASE opts.stream
    <3>1. stream' = Append(stream, PieceOf(TRUE))
      BY <1>11, <2>2 DEF WriteStream, PieceOf
    <3>2. /\ Missing' \subseteq Missing \union {Len(stream')}
          /\ ~opts.db => Missing' \subseteq Missing
          /\ stream' # <<>> /\ stream'[Len(stream')].ev = hand
      BY <2>1, <3>1, MissingStep
    <3>3. Left' \subseteq Missing
      BY <2>1, <3>2 DEF Left
    <3>4. Cardinality(Left') <= Cardinality(Missing) /\ Cardinality(Left') \in Nat
      BY <1>0, <3>3, OneMore
    <3>5. ~opts.db => Cardinality(Missing') <= Cardinality(Missing) /\ Cardinality(Missing') \in Nat
      BY <1>0, <3>2, OneMore
    <3> QED
      BY <1>0, <2>1, <2>2, <3>2, <3>4, <3>5 DEF AheadInv
  <2>3. CASE ~opts.stream
    <3>1. Missing' = Missing
      BY <1>2, <1>11, <2>1, <2>3 DEF WriteStream
    <3>2. Left' \subseteq Missing
      BY <2>1, <3>1 DEF Left
    <3>3. Cardinality(Left') <= Cardinality(Missing) /\ Cardinality(Left') \in Nat
      BY <1>0, <3>2, OneMore
    <3> QED
      BY <1>0, <2>1, <2>3, <3>1, <3>3 DEF AheadInv
  <2> QED
    BY <2>2, <2>3
<1>12. CASE InsertRow
  <2>1. pc = "insert" /\ pc' = "drain" /\ UNCHANGED <<opts, stream, cuts>>
    BY <1>12 DEF InsertRow, history
  <2>2. CASE opts.db
    <3>1. Insert(hand)
      BY <1>12, <2>2 DEF InsertRow
    <3>2. Missing' \subseteq Missing
      BY <2>1, <3>1, InsertIds, MissingStep
    <3>3. CASE opts.stream
      <4>1. stream[Len(stream)].ev = hand
        BY <2>1, <3>3 DEF AheadInv
      <4>2. \E r \in rows' : r.id = EventId(hand)
        BY <3>1, InsertIds
      <4>3. Len(stream) \notin Missing'
        BY <2>1, <4>1, <4>2 DEF Missing, EventId
      <4>4. Missing' \subseteq Left
        BY <2>1, <3>2, <4>3 DEF Left
      <4>5. Cardinality(Missing') <= Cardinality(Left) /\ Cardinality(Missing') \in Nat
        BY <1>0, <4>4, OneMore
      <4> QED
        BY <1>0, <2>1, <4>5 DEF AheadInv, Left
    <3>4. CASE ~opts.stream
      <4>1. Cardinality(Missing') <= Cardinality(Missing) /\ Cardinality(Missing') \in Nat
        BY <1>0, <3>2, OneMore
      <4> QED
        BY <1>0, <2>1, <3>4, <4>1 DEF AheadInv, Left
    <3> QED
      BY <3>3, <3>4
  <2>3. CASE ~opts.db
    <3>1. Missing' = Missing
      BY <1>2, <1>12, <2>1, <2>3 DEF InsertRow
    <3> QED
      BY <2>1, <2>3, <3>1 DEF AheadInv, Left
  <2> QED
    BY <2>2, <2>3
<1>13. CASE WriteOutput
  BY <1>1, <1>2, <1>4, <1>13 DEF WriteOutput, files, history
<1>14. CASE LoadRows
  <2>1. pc = "load"
    BY <1>14 DEF LoadRows
  <2>2. CASE End("done") /\ UNCHANGED files
    BY <1>4, <2>1, <2>2 DEF files
  <2>3. CASE Insert(kept[pos + 1]) /\ UNCHANGED <<pc, stream, cuts>>
    <3>1. Missing' \subseteq Missing
      BY <2>3, InsertIds, MissingStep
    <3> QED
      BY <1>1, <2>1, <2>3, <3>1
  <2> QED
    BY <1>14, <2>2, <2>3 DEF LoadRows, history
<1>15. CASE Fail \/ Kill
  <2>1. End("failed") /\ UNCHANGED rows
    BY <1>15 DEF Fail, Kill, GiveUp, files
  <2>2. UNCHANGED stream \/ (pc = "write" /\ stream' = Append(stream, PieceOf(FALSE)))
    BY <1>15 DEF Fail, Kill, PieceOf, files
  <2>3. opts.job \in {"capture", "replay"} /\ (pc \in {"write", "insert"} => opts.job = "capture")
    BY DEF AheadInv, TypeInv, Options
  <2>4. CASE UNCHANGED stream
    <3>1. Missing' = Missing
      BY <1>2, <2>1, <2>4
    <3> QED
      BY <1>4, <1>5, <2>1, <2>3, <2>4, <3>1
  <2>5. CASE pc = "write" /\ stream' = Append(stream, PieceOf(FALSE))
    <3>1. Missing' \subseteq Missing \union {Len(stream')}
      BY <2>1, <2>5, MissingStep
    <3> QED
      BY <1>5, <2>1, <2>3, <2>5, <3>1
  <2> QED
    BY <2>2, <2>4, <2>5
<1> QED
  BY <1>6, <1>7, <1>8, <1>9, <1>10, <1>11, <1>12, <1>13, <1>14, <1>15 DEF Next, Step

LEMMA AheadStart == Init => AheadInv
<1> SUFFICES ASSUME Init
             PROVE  AheadInv
  OBVIOUS
<1>1. Missing = {} /\ Left = Missing /\ pc = "off" /\ cuts = 0
  BY DEF Init, Missing, Left
<1> QED
  BY <1>1, FS_EmptySet DEF AheadInv

(* The stream is never further ahead of the database than the captures that *)
(* were cut short account for (capture_live writes the stream first).       *)
THEOREM DatabaseFollows == Spec => []StreamAheadByOne
<1>1. TypeInv /\ AheadInv => StreamAheadByOne
  <2> SUFFICES ASSUME TypeInv, AheadInv
               PROVE  StreamAheadByOne
    OBVIOUS
  <2>1. Missing \subseteq Left \union {Len(stream)} /\ (pc # "insert" => Missing = Left)
    BY DEF Left
  <2>2. Cardinality(Missing) <= Cardinality(Left) + 1 /\ Cardinality(Missing) \in Nat
        /\ Cardinality(Left) \in Nat
    BY <2>1, MissingFinite, OneMore
  <2>3. Cardinality(Left) <= cuts /\ cuts \in Nat
    BY DEF AheadInv, TypeInv
  <2>4. Cardinality(Missing) <= cuts + (IF pc = "insert" THEN 1 ELSE 0)
    BY <2>1, <2>2, <2>3
  <2> QED
    BY <2>4 DEF StreamAheadByOne, Missing
<1> QED
  BY <1>1, TypeCorrect, TypeStep, AheadStart, AheadStep, PTL DEF Spec

-----------------------------------------------------------------------------
(* What a command writes.  The events it keeps are those of the stream, from *)
(* where its capture or the file began; the output file gets them one by one, *)
(* and then the database does.                                              *)

From == IF opts.job = "capture" THEN base ELSE 0

Copying == opts.job = "capture" => opts.output /\ opts.stream

Copies(s, k) == Len(s) = k - From /\ \A i \in 1..Len(s) : s[i] = stream[From + i].ev

HasRow(e) == \E r \in rows : r.id = EventId(e)

CopyInv ==
  /\ result = "done" => pc = "off"
  /\ pc = "output" => opts.output /\ Len(output) = pos /\ \A i \in 1..pos : output[i] = kept[i]
  /\ pc = "load" /\ opts.output => output = kept
  /\ pc = "load" => \A i \in 1..pos : HasRow(kept[i])
  /\ pc \notin {"off", "insert"} /\ Copying => Copies(kept, Len(stream))
  /\ pc = "insert" /\ Copying => Copies(kept, Len(stream) - 1)
  /\ result = "done" /\ opts.output /\ Copying => Copies(output, Len(stream))
  /\ ImportRestores

(* A command that moves on without writing or keeping anything.             *)
LEMMA NothingCopied ==
  ASSUME TypeInv, CopyInv, UNCHANGED <<opts, kept, pos, stream, rows, output, result, base>>,
         pc' = pc \/ (pc \in {"outer", "drain", "write"} /\ pc' \in {"outer", "drain", "write"})
  PROVE  CopyInv'
<1>1. Streamed' = Streamed
  BY DEF Streamed
<1>2. From' = From /\ Copying' = Copying
  BY DEF From, Copying
<1>3. \A s, k : Copies(s, k)' = Copies(s, k)
  BY <1>2 DEF Copies
<1> QED
  BY <1>1, <1>2, <1>3 DEF CopyInv, ImportRestores, HasRow, Copies

(* A command that ends in failure has promised nothing.                     *)
LEMMA FailureCopied ==
  ASSUME End("failed")
  PROVE  CopyInv'
BY DEF End, CopyInv, ImportRestores

(* An insertion leaves the rows that others look for.                       *)
LEMMA RowsStay ==
  ASSUME NEW e, Insert(e)
  PROVE  /\ \E r \in rows' : r.id = EventId(e)
         /\ \A f : HasRow(f) => \E r \in rows' : r.id = EventId(f)
<1>1. \A f : HasRow(f) => EventId(f) \in {r.id : r \in rows}
  BY DEF HasRow
<1> QED
  BY <1>1, InsertIds

(* One more event is copied when the stream, or the file, has it.           *)
LEMMA CopyStep == TypeInv /\ AheadInv /\ CopyInv /\ [Next]_vars => CopyInv'
<1> SUFFICES ASSUME TypeInv, AheadInv, CopyInv, [Next]_vars
             PROVE  CopyInv'
  OBVIOUS
<1>0. /\ stream \in Seq(Pieces) /\ kept \in Seq(Events) /\ output \in Seq(Events)
      /\ Len(stream) \in Nat /\ Len(kept) \in Nat /\ base \in Nat /\ pos \in 0..Len(kept)
      /\ DOMAIN stream = 1..Len(stream)
  BY DEF TypeInv
<1>1. ASSUME NEW p \in Pids, NEW c \in Calls, Call(p, c)
      PROVE  CopyInv'
  BY <1>1, NothingCopied DEF Call, command, files
<1>2. CASE Deadline \/ UNCHANGED vars
  BY <1>2, NothingCopied DEF Deadline, vars, command, files, history
<1>3. CASE Take
  <2>1. UNCHANGED <<pos, result>>
    BY <1>3 DEF Take
  <2> QED
    BY <1>3, <2>1, NothingCopied, TakeHandsOn DEF files, history
<1>4. CASE Fail \/ Kill
  BY <1>4, FailureCopied DEF Fail, Kill, GiveUp
<1>5. CASE StartCapture
  <2>1. /\ pc' = "outer" /\ kept' = <<>> /\ result' = "none" /\ base' = Len(stream)
        /\ opts'.job = "capture" /\ stream' = stream
    BY <1>5 DEF StartCapture, TypeInv, files
  <2>2. From' = Len(stream)
    BY <2>1 DEF From
  <2>3. Copies(kept, Len(stream))'
    BY <1>0, <2>1, <2>2 DEF Copies
  <2> QED
    BY <1>0, <2>1, <2>3 DEF CopyInv, ImportRestores
<1>6. CASE StartReplay
  <2>1. CASE EventsRead = None
    BY <1>6, <2>1 DEF StartReplay, CopyInv, ImportRestores
  <2>2. CASE EventsRead # None
    <3>1. /\ pc' \in {"output", "load"} /\ kept' = EventsRead /\ result' = "none"
          /\ opts'.job = "replay" /\ stream' = stream /\ pos' = 0
          /\ pc' = "output" <=> opts'.output
      BY <1>6, <2>2 DEF StartReplay, TypeInv
    <3>2. pc' = "output" => output' = <<>>
      BY <1>6, <2>2, <3>1 DEF StartReplay, NewOutput
    <3>3. From' = 0
      BY <3>1 DEF From
    <3>4. Copies(kept, Len(stream))'
      <4>1. Len(EventsRead) = Len(stream) /\ \A i \in 1..Len(stream) : EventsRead[i] = stream[i].ev
        BY <2>2, ReadFacts
      <4> QED
        BY <1>0, <3>1, <3>3, <4>1 DEF Copies
    <3> QED
      BY <1>0, <3>1, <3>2, <3>4 DEF CopyInv, ImportRestores
  <2> QED
    BY <2>1, <2>2
<1>7. CASE Outer
  <2>1. CASE ~opts.output /\ End("done") /\ UNCHANGED files
    <3>1. opts' = opts /\ opts.job = "capture" /\ pc' = "off"
      BY <1>7, <2>1 DEF Outer, TypeInv, End
    <3> QED
      BY <2>1, <3>1 DEF CopyInv, ImportRestores
  <2>2. CASE /\ opts.output /\ pc' = "output" /\ output' = NewOutput
             /\ UNCHANGED <<runs, ring, opts, expired, hand, kept, pos, result, stream, rows, clock,
                             history>>
    <3>1. pc = "outer" /\ pos = 0 /\ opts.job = "capture" /\ base' = base
      BY <1>7, <2>2 DEF Outer, TypeInv, history
    <3>2. Copying' = Copying /\ \A s, k : Copies(s, k)' = Copies(s, k)
      BY <2>2, <3>1 DEF Copying, Copies, From
    <3>3. result # "done"
      BY <3>1 DEF CopyInv
    <3>4. Copying => Copies(kept, Len(stream))'
      BY <2>2, <3>1, <3>2 DEF CopyInv, Copies
    <3>5. Len(output') = 0 /\ pos' = 0 /\ result' # "done" /\ opts'.output
      BY <2>2, <3>1, <3>3 DEF NewOutput
    <3> QED
      BY <2>2, <3>2, <3>4, <3>5 DEF CopyInv, ImportRestores
  <2>3. CASE pc' = "drain"
             /\ UNCHANGED <<runs, ring, opts, expired, hand, kept, pos, result, files, clock, history>>
    BY <1>7, <2>3, NothingCopied DEF Outer, files, history
  <2> QED
    BY <1>7, <2>1, <2>2, <2>3 DEF Outer
<1>8. CASE WriteStream
  <2>1. /\ pc = "write" /\ pc' = "insert" /\ opts.job = "capture" /\ result # "done"
        /\ UNCHANGED <<opts, kept, base, result>>
    BY <1>8 DEF WriteStream, TypeInv, CopyInv, history
  <2>2. From' = From /\ Copying' = Copying /\ From \in Nat
    BY <1>0, <2>1 DEF From, Copying
  <2>3. ASSUME Copying
        PROVE  Copies(kept, Len(stream) - 1)'
    <3>1. stream' = Append(stream, PieceOf(TRUE)) /\ Copies(kept, Len(stream))
      BY <1>8, <2>1, <2>3 DEF WriteStream, Copying, PieceOf, CopyInv
    <3>2. PICK x \in Pieces : x = PieceOf(TRUE)
      BY <2>1 DEF TypeInv, PieceOf, Pieces, Options
    <3>3. Len(stream') = Len(stream) + 1 /\ \A i \in DOMAIN stream : stream'[i] = stream[i]
      BY <1>0, <3>1, <3>2
    <3>4. \A i \in 1..Len(kept) : From + i \in DOMAIN stream
      BY <1>0, <2>2, <3>1 DEF Copies
    <3>5. Len(kept) = (Len(stream') - 1) - From
      BY <1>0, <2>2, <3>1, <3>3 DEF Copies
    <3>6. \A i \in 1..Len(kept) : kept[i] = stream'[From + i].ev
      BY <3>1, <3>3, <3>4 DEF Copies
    <3> QED
      BY <2>1, <2>2, <3>5, <3>6 DEF Copies
  <2>4. Copying' => Copies(kept, Len(stream) - 1)'
    BY <2>2, <2>3
  <2> QED
    BY <2>1, <2>4 DEF CopyInv, ImportRestores
<1>9. CASE InsertRow
  <2>1. /\ pc = "insert" /\ pc' = "drain" /\ opts.job = "capture" /\ result # "done"
        /\ UNCHANGED <<opts, stream, base, result>> /\ hand \in Events
    BY <1>9 DEF InsertRow, TypeInv, CopyInv, history
  <2>2. From' = From /\ Copying' = Copying /\ From = base
    BY <2>1 DEF From, Copying
  <2>3. ASSUME Copying
        PROVE  Copies(kept, Len(stream))'
    <3>1. kept' = Append(kept, hand) /\ Copies(kept, Len(stream) - 1)
      BY <1>9, <2>1, <2>3 DEF InsertRow, Copying, CopyInv
    <3>2. stream[Len(stream)].ev = hand
      BY <2>1, <2>3 DEF AheadInv, Copying
    <3>3. /\ Len(kept') = Len(kept) + 1 /\ kept'[Len(kept) + 1] = hand
          /\ \A i \in 1..Len(kept) : kept'[i] = kept[i]
      BY <1>0, <2>1, <3>1
    <3>4. Len(kept) + 1 = Len(stream) - From
      BY <1>0, <2>2, <3>1 DEF Copies
    <3>5. ASSUME NEW i \in 1..Len(kept')
          PROVE  kept'[i] = stream[From + i].ev
      <4>1. CASE i \in 1..Len(kept)
        BY <3>1, <3>3, <4>1 DEF Copies
      <4>2. CASE i = Len(kept) + 1
        BY <1>0, <2>2, <3>2, <3>3, <3>4, <4>2
      <4> QED
        BY <1>0, <3>3, <4>1, <4>2
    <3> QED
      BY <2>1, <2>2, <3>3, <3>4, <3>5 DEF Copies
  <2> QED
    BY <1>0, <2>1, <2>2, <2>3 DEF CopyInv, ImportRestores
<1>10. CASE WriteOutput
  <2>1. /\ pc = "output" /\ opts.output /\ result # "done"
        /\ Len(output) = pos /\ \A i \in 1..pos : output[i] = kept[i]
    BY <1>10 DEF WriteOutput, CopyInv
  <2>2. CASE pos < Len(kept) /\ output' = Append(output, kept[pos + 1]) /\ pos' = pos + 1
             /\ UNCHANGED <<runs, ring, pc, opts, expired, hand, kept, result, stream, rows, clock,
                     history>>
    <3>1. From' = From /\ Copying' = Copying /\ \A s, k : Copies(s, k)' = Copies(s, k)
      BY <2>2 DEF From, Copying, Copies, history
    <3>2. kept[pos + 1] \in Events
      BY <1>0, <2>2
    <3>3. /\ Len(output') = pos + 1 /\ output'[pos + 1] = kept[pos + 1]
          /\ \A i \in 1..pos : output'[i] = kept[i]
      BY <1>0, <2>1, <2>2, <3>2
    <3>4. \A i \in 1..(pos + 1) : i \in 1..pos \/ i = pos + 1
      BY <1>0
    <3> QED
      BY <2>1, <2>2, <3>1, <3>3, <3>4 DEF CopyInv, ImportRestores, Copies
  <2>3. CASE pos = Len(kept) /\ opts.job = "capture" /\ End("done") /\ UNCHANGED files
    <3>1. opts' = opts /\ base' = base /\ pc' = "off" /\ stream' = stream /\ output' = output
      BY <2>3 DEF End, files
    <3>2. From' = From /\ Copying' = Copying
      BY <3>1 DEF From, Copying
    <3>3. Copying => Copies(kept, Len(stream))
      BY <1>0, <2>1 DEF CopyInv
    <3>4. Copying => Copies(output, Len(stream))'
      BY <2>1, <2>3, <3>1, <3>2, <3>3 DEF Copies
    <3> QED
      BY <2>3, <3>1, <3>2, <3>4 DEF CopyInv, ImportRestores
  <2>4. CASE pos = Len(kept) /\ opts.job = "replay" /\ pc' = "load" /\ pos' = 0
             /\ UNCHANGED <<runs, ring, opts, expired, hand, kept, result, files, clock, history>>
    <3>1. From' = From /\ Copying' = Copying /\ \A s, k : Copies(s, k)' = Copies(s, k)
      BY <2>4 DEF From, Copying, Copies, files, history
    <3>2. output = kept
      BY <1>0, <2>1, <2>4
    <3>3. pos' = 0 /\ pc' = "load" /\ result' # "done" /\ UNCHANGED <<kept, output, stream>>
      BY <2>1, <2>4 DEF files
    <3>4. Copying => Copies(kept, Len(stream))'
      BY <2>1, <3>1, <3>3 DEF CopyInv, Copies
    <3> QED
      BY <3>1, <3>2, <3>3, <3>4 DEF CopyInv, ImportRestores
  <2> QED
    BY <1>10, <2>2, <2>3, <2>4 DEF WriteOutput
<1>11. CASE LoadRows
  <2>1. pc = "load" /\ opts.job = "replay" /\ Copying /\ result # "done" /\ From = 0
    BY <1>11 DEF LoadRows, TypeInv, Copying, CopyInv, From
  <2>2. Copies(kept, Len(stream))
    BY <1>0, <2>1 DEF CopyInv
  <2>3. CASE /\ opts.db /\ pos < Len(kept) /\ Insert(kept[pos + 1]) /\ pos' = pos + 1
             /\ UNCHANGED <<runs, ring, pc, opts, expired, hand, kept, result, stream, output, clock,
                            history>>
    <3>1. From' = From /\ Copying' = Copying /\ \A s, k : Copies(s, k)' = Copies(s, k)
      BY <2>3 DEF From, Copying, Copies, history
    <3>2. /\ \E r \in rows' : r.id = EventId(kept[pos + 1])
          /\ \A f : HasRow(f) => \E r \in rows' : r.id = EventId(f)
      BY <2>3, RowsStay
    <3>3. \A i \in 1..(pos + 1) : i \in 1..pos \/ i = pos + 1
      BY <1>0
    <3>4. (\A i \in 1..pos : HasRow(kept[i]))'
      <4>1. \A i \in 1..(pos + 1) : \E r \in rows' : r.id = EventId(kept[i])
        BY <2>1, <3>2, <3>3 DEF CopyInv
      <4> QED
        BY <2>3, <4>1 DEF HasRow, EventId
    <3>5. pc' = "load" /\ result' # "done" /\ (opts'.output => output' = kept')
      BY <2>1, <2>3 DEF CopyInv
    <3>6. Copies(kept, Len(stream))'
      BY <2>2, <2>3, <3>1 DEF Copies
    <3> QED
      BY <3>4, <3>5, <3>6 DEF CopyInv, ImportRestores
  <2>4. CASE (opts.db => pos = Len(kept)) /\ End("done") /\ UNCHANGED files
    <3>1. UNCHANGED <<opts, base, stream, output, rows>> /\ pc' = "off"
      BY <2>4 DEF End, files
    <3>2. From' = From /\ Copying' = Copying
      BY <3>1 DEF From, Copying
    <3>3. opts.output => Copies(output, Len(stream))'
      BY <2>1, <2>2, <3>1, <3>2 DEF CopyInv, Copies
    <3>4. ASSUME opts.db, NEW e \in Streamed
          PROVE  HasRow(e)
      <4>1. PICK i \in 1..Len(stream) : e = stream[i].ev
        BY <1>0, <3>4 DEF Streamed
      <4>2. i \in 1..pos /\ kept[i] = e
        BY <1>0, <2>1, <2>2, <2>4, <3>4, <4>1 DEF Copies
      <4> QED
        BY <2>1, <4>2 DEF CopyInv
    <3>5. ImportRestores'
      BY <3>1, <3>4 DEF ImportRestores, Streamed, HasRow
    <3> QED
      BY <2>4, <3>1, <3>2, <3>3, <3>5 DEF CopyInv
  <2> QED
    BY <1>11, <2>3, <2>4 DEF LoadRows
<1> QED
  BY <1>1, <1>2, <1>3, <1>4, <1>5, <1>6, <1>7, <1>8, <1>9, <1>10, <1>11 DEF Next, Step

LEMMA CopyStart == Init => CopyInv
BY DEF Init, CopyInv, ImportRestores

(* An output file that a successful command leaves has the events of its    *)
(* capture's stream or of the replayed file (write_events).                 *)
THEOREM OutputCopiesStream == Spec => []OutputIsStream
<1>1. TypeInv /\ CopyInv => OutputIsStream
  <2> SUFFICES ASSUME TypeInv, CopyInv, result = "done", opts.output, Copying
               PROVE  output = [i \in 1..(Len(stream) - From) |-> stream[From + i].ev]
    BY DEF OutputIsStream, Copying, From
  <2>1. Copies(output, Len(stream)) /\ output \in Seq(Events)
    BY DEF CopyInv, TypeInv
  <2>2. output = [i \in 1..Len(output) |-> output[i]]
    BY <2>1
  <2> QED
    BY <2>1, <2>2 DEF Copies
<1> QED
  BY <1>1, TypeCorrect, TypeStep, AheadStart, AheadStep, CopyStart, CopyStep, PTL DEF Spec

(* A successful import leaves a row for every event of the file             *)
(* (insert_events), whatever the database had before.                       *)
THEOREM ImportReachesDatabase == Spec => []ImportRestores
<1>1. CopyInv => ImportRestores
  BY DEF CopyInv
<1> QED
  BY <1>1, TypeCorrect, TypeStep, AheadStart, AheadStep, CopyStart, CopyStep, PTL DEF Spec
=============================================================================
