----------------------------- MODULE LogParsing -----------------------------
(***************************************************************************)
(* src/honeypot_ai/parsers.py: parse_paths reads files of several kinds,   *)
(* parse_ndjson the lines that the stream daemons hand it.  A record is    *)
(* the layout that some sensor gives it and its field `type`, which T-Pot  *)
(* adds; an event is the source that it is filed under and whether address *)
(* and session were found.                                                 *)
(***************************************************************************)
EXTENDS Integers, FiniteSets, Sequences

CONSTANTS
  MaxFiles,  \* bound: files of a command
  MaxLines   \* bound: lines, rows or members of a file

ASSUME ParsingAssumption == MaxFiles \in Nat /\ MaxLines \in Nat

\* "nested" and "incident" are the two layouts of Dionaea.  A record that bears
\* no sensor's marks is "flat", its source address under a name that every
\* unspecific parser reads (client_ip), or "ecs", under a name that T-Pot's alone
\* reads (srcip, sip, source.ip, client.ip, REMOTE_ADDR)
Unmarked == {"flat", "ecs"}
Layouts == {"cowrie", "nested", "incident", "suricata", "zeek", "ebpf"} \union Unmarked
SensorOf(layout) == IF layout \in {"nested", "incident"} THEN "dionaea" ELSE layout

\* T-Pot names a sensor ("own") or another of its containers ("nginx")
Records == [layout : Layouts, type : {"none", "own", "nginx"}]
\* Lines without a record to parse: "blank" or a comment, "scalar", which is JSON
\* but no object, and "far": of whatever kind, with a time or a number that
\* _parse_timestamp or _as_int cannot convert and raises on
Bare(what) == [layout |-> what, type |-> "none"]
Far == Bare("far")
Lines == Records \union {Bare("blank"), Bare("text"), Bare("scalar"), Far}

VARIABLES
  hint,     \* --source: "none", "tpot", or a sensor
  folder,   \* the name below which the file lies: a sensor's, or "none"
  kind,     \* what parse_file takes the file for; "stream" for parse_ndjson
  damaged,  \* will the library refuse the file, or lose it on the way?
  content,  \* its lines, rows or members
  at,       \* how many of them have been parsed
  events,   \* the events of this file
  files,    \* files parsed
  parsing   \* "idle", "open", "closed", "failed"

parsingVars == <<hint, folder, kind, damaged, content, at, events, files, parsing>>

ParsingInit ==
  /\ hint = "none" /\ folder = "none" /\ kind = "text" /\ damaged = FALSE
  /\ content = <<>> /\ at = 0 /\ events = <<>> /\ files = 0 /\ parsing = "idle"

\* The names that parse_file tests: archive, SQLite, CSV, then text
KindOf(is) ==
  IF "archive" \in is THEN "archive"
  ELSE IF "sqlite" \in is THEN "sqlite"
  ELSE IF "csv" \in is THEN "csv"
  ELSE IF "text" \in is THEN "text" ELSE "other"

\* What a file of a kind can hold
ContentOf(k) ==
  IF k \in {"text", "stream"} THEN Lines
  ELSE IF k \in {"csv", "sqlite"} THEN Records \union {Far} ELSE {Bare("member")}

-----------------------------------------------------------------------------

SourceFromPath == IF hint \notin {"none", "tpot"} THEN hint ELSE folder

\* _with_path_metadata gives a record without a type that of its folder; the
\* rows of a database have the type of their path in any case
TypeOf(r) ==
  IF kind = "sqlite" THEN SourceFromPath
  ELSE IF r.type = "own" THEN SensorOf(r.layout)
  ELSE IF r.type = "nginx" THEN "nginx"
  ELSE IF kind \in {"text", "csv"} THEN folder ELSE "none"

\* _is_tpot_record: is the type one of T-Pot's?
IsTpotRecord(r) == TypeOf(r) \notin {"none"} \union Unmarked

\* detect_source, in its order of tests
DetectSource(r) ==
  IF r.layout \notin Unmarked THEN SensorOf(r.layout)
  ELSE IF IsTpotRecord(r) THEN "tpot" ELSE "generic"

\* Faulty variant: a Dionaea record is known by its origin only
TpotRouteByOrigin(r) ==
  IF "cowrie" \in {TypeOf(r), r.layout} THEN "cowrie"
  ELSE IF TypeOf(r) = "dionaea" \/ r.layout = "incident" THEN "dionaea"
  ELSE IF TypeOf(r) = "suricata" \/ r.layout \in {"suricata", "ebpf"} THEN "suricata"
  ELSE IF r.layout = "zeek" THEN "zeek" ELSE "container"

\* _parse_tpot: type and marks of a sensor side by side, the first match wins
TpotRoute(r) ==
  IF "cowrie" \in {TypeOf(r), r.layout} THEN "cowrie"
  ELSE IF "dionaea" \in {TypeOf(r), SensorOf(r.layout)} THEN "dionaea"
  ELSE IF TypeOf(r) = "suricata" \/ r.layout \in {"suricata", "ebpf"} THEN "suricata"
  ELSE IF r.layout = "zeek" THEN "zeek" ELSE "container"

\* parse_record: the parser that gets the record
Route(r) ==
  LET source == IF hint # "none" THEN hint ELSE DetectSource(r)
  IN  IF source = "tpot" THEN TpotRoute(r) ELSE source

\* The layouts whose name of the source address a parser reads: src_ip, the few
\* names of _parse_generic, the sixteen of _parse_tpot_generic
AddressIn(parser) ==
  IF parser = "dionaea" THEN {"nested", "incident"}
  ELSE IF parser = "zeek" THEN {"zeek"}
  ELSE {"cowrie", "suricata", "ebpf"}
       \union {l \in {"flat"} : parser \in {"generic", "container"}}
       \union {l \in {"ecs", "zeek"} : parser = "container"}

\* The layouts whose session a parser reads; Suricata and Dionaea have none
SessionIn(parser) ==
  CASE parser = "cowrie" -> {"cowrie", "flat"}
    [] parser \in {"dionaea", "suricata"} -> {}
    [] parser = "ebpf" -> {"ebpf"}
    [] parser = "zeek" -> {"zeek"}
    [] parser = "generic" -> {"cowrie", "zeek", "suricata", "flat"}
    [] parser = "container" -> {"cowrie", "zeek", "suricata"} \union Unmarked

\* The container's parser files an event under the container
ParseRecord(r) ==
  [source |-> IF Route(r) # "container" THEN Route(r)
              ELSE IF TypeOf(r) \in {"none", "ebpf"} \union Unmarked THEN "tpot" ELSE TypeOf(r),
   record |-> r,
   address |-> r.layout \in AddressIn(Route(r)), session |-> r.layout \in SessionIn(Route(r))]

\* A line of text, a damaged or unknown file, a member of an archive
Plain(what) == [source |-> SourceFromPath, record |-> Bare(what), address |-> FALSE, session |-> FALSE]

-----------------------------------------------------------------------------

\* parse_paths takes the next file
OpenFile ==
  /\ parsing = "idle" /\ files < MaxFiles
  /\ hint' \in IF files = 0 THEN {"none", "tpot", "cowrie", "dionaea"} ELSE {hint}
  /\ folder' \in {"none", "cowrie", "suricata"}
  /\ kind' \in {KindOf(is) : is \in SUBSET {"archive", "sqlite", "csv", "text"}} \union
               {k \in {"stream"} : files = 0}
  /\ damaged' \in {d \in BOOLEAN : d => kind' \in {"text", "csv", "sqlite", "archive"}}
  /\ \E n \in 0..MaxLines : content' \in [1..n -> ContentOf(kind')]
  /\ parsing' = "open"
  /\ UNCHANGED <<at, events, files>>

\* The events of a file are handed on, and the next file follows
NextFile ==
  /\ parsing = "closed" /\ kind # "stream"
  /\ folder' = "none" /\ kind' = "text" /\ damaged' = FALSE
  /\ content' = <<>> /\ at' = 0 /\ events' = <<>> /\ parsing' = "idle"
  /\ UNCHANGED <<hint, files>>

Take(new) ==
  /\ parsing = "open" /\ at < Len(content)
  /\ at' = at + 1 /\ events' = events \o new
  /\ UNCHANGED <<hint, folder, kind, damaged, content, files, parsing>>

\* Faulty variant: JSON that is no object is skipped
LineEventsOfObjects(line) ==
  IF line.layout \in {"blank", "scalar"} THEN <<>>
  ELSE IF line.layout = "text" THEN <<Plain("text")>> ELSE <<ParseRecord(line)>>

\* _parse_text_events: what a line gives, where nothing in it raises
LineEvents(line) ==
  IF line.layout = "blank" THEN <<>>
  ELSE IF line.layout \in {"text", "scalar"} THEN <<Plain(line.layout)>> ELSE <<ParseRecord(line)>>

\* What the loop over a file's lines or rows does not catch; parse_ndjson also
\* raises at a line that is no object
LineRaises(line) == line = Far \/ (kind = "stream" /\ line.layout \in {"text", "scalar"})

ParseLine ==
  /\ kind \in {"text", "stream"} /\ at < Len(content) /\ ~LineRaises(content[at + 1])
  /\ Take(LineEvents(content[at + 1]))

\* CSV rows and SQLite rows are records; a row of SQLite has the type of its path
ParseRow ==
  /\ kind \in {"csv", "sqlite"} /\ at < Len(content) /\ ~LineRaises(content[at + 1])
  /\ Take(<<ParseRecord(content[at + 1])>>)

\* The list of an archive is read before its first event is made
ParseMember == kind = "archive" /\ ~damaged /\ Take(<<Plain(content[at + 1].layout)>>)

\* An exception ends the command, and the events of all files are lost
ReadingFails ==
  /\ parsing = "open"
  /\ events' = <<>> /\ parsing' = "failed"
  /\ UNCHANGED <<hint, folder, kind, damaged, content, at, files>>

LineFails == at < Len(content) /\ LineRaises(content[at + 1]) /\ ReadingFails

\* A missing or truncated file of text raises where it is read; tarfile lets
\* through what the code does not expect of it
FileFails == damaged /\ kind # "sqlite" /\ ReadingFails

\* A damaged database or archive ends early with an event of its own, an unknown
\* file is that
CloseDamaged ==
  /\ parsing = "open" /\ ((damaged /\ kind \in {"sqlite", "archive"}) \/ kind = "other")
  /\ events' = Append(events, Plain("file"))
  /\ parsing' = "closed" /\ files' = files + 1
  /\ UNCHANGED <<hint, folder, kind, damaged, content, at>>

Close ==
  /\ parsing = "open" /\ at = Len(content) /\ ~damaged /\ kind # "other"
  /\ parsing' = "closed" /\ files' = files + 1
  /\ UNCHANGED <<hint, folder, kind, damaged, content, at, events>>

ParsingNext ==
  \/ OpenFile \/ NextFile \/ ParseLine \/ ParseRow \/ ParseMember
  \/ LineFails \/ FileFails \/ CloseDamaged \/ Close

-----------------------------------------------------------------------------

(* No line disappears unnoticed: a file that is parsed to its end has an    *)
(* event for every line but the blank ones and the comments, a damaged      *)
(* database or archive says so after what could be read of it, a truncated  *)
(* log is never taken for a whole one, and a reading that fails has its     *)
(* cause in the file, a line or damage, and keeps nothing of it             *)
(* (_parse_text_events, _parse_sqlite, _parse_archive_metadata,             *)
(* parse_ndjson, _parse_timestamp).                                         *)
LinesAccounted ==
  /\ parsing = "closed" =>
       /\ Len(events) = Cardinality({i \in 1..at : content[i].layout # "blank"})
                        + IF damaged \/ kind = "other" THEN 1 ELSE 0
       /\ IF damaged THEN kind \in {"sqlite", "archive"} ELSE kind # "other" => at = Len(content)
       /\ \A i \in 1..at : ~LineRaises(content[i])
  /\ parsing = "failed" => events = <<>> /\ (damaged \/ \E i \in DOMAIN content : LineRaises(content[i]))

\* Nothing around the record claims that another sensor wrote it
Undisputed(r) == hint \in {"none", "tpot"} /\ folder \in {"none", SensorOf(r.layout)}

(* A record keeps its source address whichever way it is read, by its marks *)
(* or as part of T-Pot's logs, with or without T-Pot's type; only an        *)
(* address under a name of T-Pot's own needs the hint or the type           *)
(* (detect_source, _parse_tpot and the names that the parsers read).        *)
AddressKept ==
  \A i \in DOMAIN events :
    LET r == events[i].record
        FromTpot == hint = "tpot" \/ IsTpotRecord(r)
    IN  r.layout \in Layouts /\ Undisputed(r) /\ (r.layout = "ecs" => FromTpot) => events[i].address
=============================================================================
