------------------------------- MODULE EbpfSensor ------------------------------
(***************************************************************************)
(* The eBPF sensor: the probes of crates/ebpf-sensor-ebpf fill a ring      *)
(* buffer, and the program of crates/ebpf-sensor drains it, asks /proc     *)
(* about the process and hands each event to a stream file, to a database  *)
(* and to a list that becomes the --output file.  The commands `import`    *)
(* and `run` replay the stream file into the database and the output file. *)
(* The database admits one process at a time, so commands do not overlap.  *)
(***************************************************************************)
EXTENDS Naturals, Sequences, FiniteSets

CONSTANTS
  Pids, Programs,
  Tools, Shells, \* programs that process_severity knows by name
  UrlUsers,   \* programs that are started with a URL among their arguments
  Calls,      \* what processes do: [kind, prog, path, peer, port, write]
  WatchedPaths, SensitivePaths, PublicPeers, SuspiciousPorts,
  None,
  RingSize,   \* records the ring buffer holds
  MaxCalls, MaxJobs  \* bounds: calls that the probes see, commands run

Kinds == {"process_exec", "process_exit", "network_connect", "file_access",
          "privilege_change"}

ASSUME SensorAssumption ==
  /\ RingSize \in Nat \ {0} /\ MaxCalls \in Nat /\ MaxJobs \in Nat
  /\ None \notin Programs
  /\ \A c \in Calls : c.kind \in Kinds /\ (c.kind = "process_exec" => c.prog \in Programs)

VARIABLES
  runs,     \* [pid -> program it runs, or None], as /proc shows it
  ring,     \* records [n, call, pid] in the ring buffer
  pc,       \* where the command is: "off" "outer" "drain" "write" "insert" "output" "load"
  opts,     \* options of the last command: [job, stream, db, output]
  expired,  \* the deadline of the capture has passed
  hand,     \* the event being handed on, or None
  kept,     \* `events`: what goes to the output file or into the database
  pos,      \* how many of `kept` are written or inserted
  stream,   \* pieces [ev, whole, db] of the stream file; one that is not whole has no newline
  rows,     \* [id, ev] in ebpf_events
  output,   \* events in the output file
  clock,    \* the time of day
  result,   \* how the last command ended: "none" "done" "failed"
  n, exempt, first, base, cuts, jobs
            \* history: records, those not wanted or met by a full ring, first record
            \* and stream length of this capture, captures cut short, commands run

files == <<stream, rows, output>>
history == <<n, exempt, first, base, cuts, jobs>>
command == <<pc, opts, expired, hand, kept, pos, result>>
vars == <<runs, ring, command, files, clock, history>>

NoOptions == [job |-> "capture", stream |-> FALSE, db |-> FALSE, output |-> FALSE]

Init ==
  /\ runs \in [Pids -> Programs] /\ ring = <<>>
  /\ pc = "off" /\ expired = FALSE /\ hand = None /\ kept = <<>> /\ pos = 0
  /\ opts = NoOptions
  /\ stream = <<>> /\ rows = {} /\ output = <<>> /\ clock = 0 /\ result = "none"
  /\ n = 0 /\ exempt = {} /\ first = 1 /\ base = 0 /\ cuts = 0 /\ jobs = 0

Capturing == opts.job = "capture" /\ pc # "off"

-----------------------------------------------------------------------------
(* Kernel side *)

Records == [n : Nat, call : Calls, pid : Pids]

\* A record that the program reports, if it gets it
Wanted(call) ==
  /\ call.kind = "network_connect" => call.peer # None
  /\ call.kind = "file_access" => call.path \in WatchedPaths

\* Faulty variant: the oldest record is overwritten
SubmittedOver(buffer, record) ==
  IF Len(buffer) < RingSize THEN Append(buffer, record) ELSE Append(Tail(buffer), record)

\* reserve fails when the buffer is full
Submitted(buffer, record) ==
  IF Len(buffer) < RingSize THEN Append(buffer, record) ELSE buffer

\* A system call: the probe reserves a record, fills and submits it.  A connect
\* that is not to an IPv4 peer is discarded: it holds its place until it is skipped.
Call(p, call) ==
  /\ n < MaxCalls
  /\ Capturing
  /\ runs[p] # None \/ call.kind = "process_exec"
  /\ runs' = [runs EXCEPT ![p] = IF call.kind = "process_exec" THEN call.prog
                                 ELSE IF call.kind = "process_exit" THEN None ELSE @]
  /\ n' = n + 1
  /\ ring' = Submitted(ring, [n |-> n', call |-> call, pid |-> p])
  /\ exempt' = IF Len(ring) < RingSize /\ Wanted(call) THEN exempt ELSE exempt \union {n'}
  /\ UNCHANGED <<command, files, clock, first, base, cuts, jobs>>

-----------------------------------------------------------------------------
(* User side *)

FileSeverity(call) ==
  IF ~call.write THEN "none"
  ELSE IF call.path \in SensitivePaths THEN "high" ELSE "medium"

NetworkSeverity(call) ==
  IF call.port \in SuspiciousPorts THEN "high"
  ELSE IF call.peer \in PublicPeers THEN "medium" ELSE "none"

ProcessSeverity(prog, arguments) ==
  IF prog \in Tools \/ arguments \in UrlUsers THEN "medium"
  ELSE IF prog \in Shells THEN "low" ELSE "none"

SeverityOf(call, arguments) ==
  CASE call.kind = "privilege_change" -> "high"
    [] call.kind = "file_access"      -> FileSeverity(call)
    [] call.kind = "network_connect"  -> NetworkSeverity(call)
    [] call.kind = "process_exec"     -> ProcessSeverity(call.prog, arguments)
    [] call.kind = "process_exit"     -> "none"

\* What is known of the arguments when the severity is decided: the probes send none
KnownArguments(record) == None

\* Faulty variant: what /proc says wins
ProcBinary(record) == runs[record.pid]

\* enrich_process_context_from_procfs asks /proc only for what the record lacks
BinaryOf(record) ==
  IF record.call.kind = "process_exec" THEN record.call.prog ELSE runs[record.pid]

Events == [n : Nat, ts : Nat, call : Calls, pid : Pids, binary : Programs \union {None},
           severity : {"none", "low", "medium", "high"}]

ASSUME EventsAssumption == None \notin Events

\* decode_wire_event and enrich_process_context_from_procfs
Decoded(record, now) ==
  [n |-> record.n, ts |-> now, call |-> record.call, pid |-> record.pid,
   binary |-> BinaryOf(record),
   severity |-> SeverityOf(record.call, KnownArguments(record))]

\* Faulty variant: the id has the time of the insertion
EventIdNow(e) == <<clock, e.call.kind, e.pid, e.call.path, e.call.peer>>

EventId(e) == <<e.ts, e.call.kind, e.pid, e.call.path, e.call.peer>>

Insert(e) ==
  rows' = {r \in rows : r.id # EventId(e)} \union {[id |-> EventId(e), ev |-> e]}

\* Faulty variant: an existing file is continued
OldOutput == output

NewOutput == <<>>

\* Faulty variant: lines that do not parse are skipped
ReadableEvents ==
  LET good == SelectSeq([i \in DOMAIN stream |->
                [ok |-> stream[i].whole /\ (i > 1 => stream[i - 1].whole),
                 ev |-> stream[i].ev]], LAMBDA x : x.ok)
  IN  [i \in DOMAIN good |-> good[i].ev]

\* read_events gives all lines, or none when one of them does not parse
EventsRead ==
  IF \A i \in DOMAIN stream : stream[i].whole
  THEN [i \in DOMAIN stream |-> stream[i].ev] ELSE None

End(how) ==
  /\ pc' = "off" /\ ring' = <<>> /\ hand' = None /\ kept' = <<>> /\ pos' = 0
  /\ expired' = FALSE
  /\ result' = how
  /\ cuts' = IF how = "failed" /\ opts.job = "capture" THEN cuts + 1 ELSE cuts
  /\ opts' = IF how = "failed" THEN NoOptions ELSE opts
  /\ base' = IF how = "failed" THEN 0 ELSE base
  /\ first' = 1 /\ exempt' = {}
  /\ UNCHANGED <<runs, clock, n, jobs>>

\* `capture`: probes are attached, the stream and the database are opened.  Opening
\* may fail: the command then ends before it did anything.
StartCapture ==
  /\ pc = "off" /\ jobs < MaxJobs
  /\ \E s, d, o \in BOOLEAN :
       opts' = [job |-> "capture", stream |-> s, db |-> d, output |-> o]
  /\ pc' = "outer" /\ result' = "none" /\ jobs' = jobs + 1
  /\ first' = n + 1 /\ base' = Len(stream)
  /\ UNCHANGED <<runs, ring, expired, hand, kept, pos, files, clock, n, exempt, cuts>>

Deadline ==
  /\ Capturing /\ ~expired /\ expired' = TRUE
  /\ UNCHANGED <<runs, ring, pc, opts, hand, kept, pos, result, files, clock, history>>

\* Faulty variant: the deadline counts only when there was something to drain
TimeUpBusy == expired /\ ring # <<>>

TimeUp == expired

\* The head of the outer loop; after it write_events or the end
Outer ==
  /\ pc = "outer"
  /\ \/ ~TimeUp /\ pc' = "drain"
        /\ UNCHANGED <<runs, ring, opts, expired, hand, kept, pos, result, files, clock, history>>
     \/ TimeUp /\ opts.output
        /\ pc' = "output" /\ output' = NewOutput
        /\ UNCHANGED <<runs, ring, opts, expired, hand, kept, pos, result, stream, rows, clock,
                       history>>
     \/ TimeUp /\ ~opts.output /\ End("done") /\ UNCHANGED files

\* events_map.next(): the inner loop goes on as long as there are records
Take ==
  /\ pc = "drain"
  /\ \/ ring = <<>> /\ pc' = "outer"
        /\ UNCHANGED <<runs, ring, opts, expired, hand, kept, pos, result, files, clock, history>>
     \/ /\ ring # <<>>
        /\ ring' = Tail(ring)
        /\ IF Wanted(Head(ring).call)
           THEN /\ clock' \in {clock, clock + 1}
                /\ hand' = Decoded(Head(ring), clock') /\ pc' = "write"
           ELSE UNCHANGED <<clock, hand, pc>>
        /\ UNCHANGED <<runs, opts, expired, kept, pos, result, files, history>>

WriteStream ==
  /\ pc = "write" /\ pc' = "insert"
  /\ stream' = IF opts.stream
               THEN Append(stream, [ev |-> hand, whole |-> TRUE, db |-> opts.db])
               ELSE stream
  /\ UNCHANGED <<runs, ring, opts, expired, hand, kept, pos, result, rows, output, clock, history>>

\* `events` is also kept when there is nothing else to write to
InsertRow ==
  /\ pc = "insert" /\ pc' = "drain" /\ hand' = None
  /\ IF opts.db THEN Insert(hand) ELSE UNCHANGED rows
  /\ kept' = IF opts.output \/ (~opts.db /\ ~opts.stream) THEN Append(kept, hand) ELSE kept
  /\ UNCHANGED <<runs, ring, opts, expired, pos, result, stream, output, clock, history>>

\* `import` and `run`: the whole file is read before anything is written
StartReplay ==
  /\ pc = "off" /\ jobs < MaxJobs /\ jobs' = jobs + 1
  /\ \E d, o \in BOOLEAN :
       opts' = [job |-> "replay", stream |-> FALSE, db |-> d, output |-> o]
  /\ IF EventsRead = None
     THEN /\ result' = "failed" /\ UNCHANGED <<pc, kept, output>>
     ELSE /\ result' = "none" /\ kept' = EventsRead
          /\ pc' = IF opts'.output THEN "output" ELSE "load"
          /\ output' = IF opts'.output THEN NewOutput ELSE output
  /\ UNCHANGED <<runs, ring, expired, hand, pos, stream, rows, clock, n, exempt, first, base, cuts>>

\* write_events: one event after the other
WriteOutput ==
  /\ pc = "output"
  /\ \/ pos < Len(kept)
        /\ output' = Append(output, kept[pos + 1]) /\ pos' = pos + 1
        /\ UNCHANGED <<runs, ring, pc, opts, expired, hand, kept, result, stream, rows, clock,
                       history>>
     \/ pos = Len(kept) /\ opts.job = "capture" /\ End("done") /\ UNCHANGED files
     \/ pos = Len(kept) /\ opts.job = "replay" /\ pc' = "load" /\ pos' = 0
        /\ UNCHANGED <<runs, ring, opts, expired, hand, kept, result, files, clock, history>>

\* insert_events: one event after the other
LoadRows ==
  /\ pc = "load"
  /\ \/ opts.db /\ pos < Len(kept)
        /\ Insert(kept[pos + 1]) /\ pos' = pos + 1
        /\ UNCHANGED <<runs, ring, pc, opts, expired, hand, kept, result, stream, output, clock,
                       history>>
     \/ (opts.db => pos = Len(kept)) /\ End("done") /\ UNCHANGED files

\* Faulty variant: the error is logged and the capture goes on
SkipInsert ==
  /\ pc' = "drain" /\ hand' = None
  /\ UNCHANGED <<runs, ring, opts, expired, kept, pos, result, clock, history>>

GiveUp == End("failed")

\* A write that fails ends the command; what it kept for the output file is lost
Fail ==
  \/ /\ pc = "write" /\ opts.stream
     /\ \/ stream' = stream
        \/ stream' = Append(stream, [ev |-> hand, whole |-> FALSE, db |-> opts.db])
     /\ End("failed") /\ UNCHANGED <<rows, output>>
  \/ pc = "insert" /\ opts.db /\ GiveUp /\ UNCHANGED files
  \/ pc \in {"output", "load"} /\ End("failed") /\ UNCHANGED files

\* The process is killed, a probe or file could not be opened, or a record of an
\* older probe object did not decode
Kill == pc # "off" /\ End("failed") /\ UNCHANGED files

Step == Outer \/ Take \/ WriteStream \/ InsertRow \/ WriteOutput \/ LoadRows

Next ==
  \/ \E p \in Pids, c \in Calls : Call(p, c)
  \/ StartCapture \/ StartReplay \/ Deadline \/ Step \/ Fail \/ Kill

Spec == Init /\ [][Next]_vars /\ WF_vars(Step)

-----------------------------------------------------------------------------

Streamed == {stream[i].ev : i \in DOMAIN stream}

(* While a capture with a stream runs, each record that it wants has its    *)
(* event in the stream, in order, or it is in hand or in the ring, or it    *)
(* found the ring full.                                                     *)
EventsAccounted ==
  /\ \A i, j \in DOMAIN stream : i < j => stream[i].ev.n < stream[j].ev.n
  /\ Capturing /\ opts.stream =>
       \A i \in first..n :
         \/ i \in exempt
         \/ \E k \in DOMAIN ring : ring[k].n = i
         \/ hand # None /\ hand.n = i
         \/ \E e \in Streamed : e.n = i

(* The database lacks at most the last streamed event of each capture that  *)
(* was cut short, and the one that is in hand: the stream is written first. *)
StreamAheadByOne ==
  Cardinality({i \in DOMAIN stream :
                 /\ stream[i].db
                 /\ \A r \in rows : r.id # EventId(stream[i].ev)})
    <= cuts + (IF pc = "insert" THEN 1 ELSE 0)

(* Capturing an event and importing it, any number of times, gives one row. *)
EventHasOneRow == \A r, q \in rows : r.ev.n = q.ev.n => r = q

(* An import that succeeds leaves a row for every event of the stream; it   *)
(* fails as a whole when a line of the stream was cut.                      *)
ImportRestores ==
  result = "done" /\ opts.job = "replay" /\ opts.db =>
    \A e \in Streamed : \E r \in rows : r.id = EventId(e)

(* An output file of a command that succeeded has the events of that        *)
(* capture's stream, or those of the replayed file, and no others.          *)
OutputIsStream ==
  result = "done" /\ opts.output /\ (opts.job = "capture" => opts.stream) =>
    LET from == IF opts.job = "capture" THEN base ELSE 0
    IN  output = [i \in 1..(Len(stream) - from) |-> stream[from + i].ev]

(* However late a record is drained, the event of an exec names the program *)
(* that was executed, and the severity of an event is that of its call.     *)
EventReportsCall ==
  \A e \in Streamed \union {r.ev : r \in rows} :
    /\ e.call.kind = "process_exec" => e.binary = e.call.prog
    /\ e.severity = SeverityOf(e.call, None)

(* A capture whose deadline has passed ends, once the calls cease: the      *)
(* inner loop itself never looks at the clock.                              *)
CaptureEnds == expired ~> pc = "off"
=============================================================================
