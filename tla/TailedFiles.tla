----------------------------- MODULE TailedFiles -----------------------------
(***************************************************************************)
(* The reading half of src/honeypot_ai/realtime.py: the log files that     *)
(* other programs append to and rotate, the state file of byte offsets,    *)
(* and the steps of one poll up to the point where a batch of new complete *)
(* lines is in memory.  WazuhStream and SplunkStream add the writing half. *)
(*                                                                         *)
(* Offsets are bytes.  What a file will hold is a constant: Ends[p][g] is  *)
(* the set of positions just after a newline in generation g of path p (a  *)
(* rotation starts a new generation), and a program writing the file       *)
(* reveals more of it by growing len.  A line is named by the generation   *)
(* and the position where it ends.  Lines that the parser passes over      *)
(* without an event (blank ones, with raw input also comments) end at the  *)
(* positions in Blank, and are not counted as lines.                       *)
(*                                                                         *)
(* An offset that a rotation carried into another file may fall inside a   *)
(* line.  What the parser makes of the tail of that line depends on bytes  *)
(* that are left out here, and so everything is possible: the tail is      *)
(* blank, or it is an event of its own, or it is rejected.                 *)
(***************************************************************************)
EXTENDS Integers, FiniteSets

CONSTANTS
  Paths,     \* the files named on the command line
  MaxGen,    \* bound: how many times a path may be rotated
  Ends,      \* [path -> [generation -> positions that end a line]]
  Blank,     \* [path -> [generation -> those that end a blank or comment line]]
  Size,      \* [path -> [generation -> bytes the file grows to]]
  Bad,       \* the lines that the parser or the validator rejects
  Torn,      \* a state file cut off in the middle of a write
  MaxCrashes \* bound: how many times the process is killed

Gens == 0..MaxGen

Lines ==
  UNION {UNION {{<<p, g, e>> : e \in Ends[p][g] \ Blank[p][g]} : g \in Gens} : p \in Paths}

ASSUME TailAssumption ==
  /\ MaxGen \in Nat /\ MaxCrashes \in Nat
  /\ Ends \in [Paths -> [Gens -> SUBSET (Nat \ {0})]]
  /\ Blank \in [Paths -> [Gens -> SUBSET Nat]]
  /\ Size \in [Paths -> [Gens -> Nat]]
  /\ Bad \subseteq Lines
  /\ Torn \notin [Paths -> Nat]

VARIABLES
  here,      \* does the path name a file at the moment
  gen,       \* the generation of the file
  len,       \* its length in bytes
  stateFile, \* the offsets saved on disk, or Torn
  pc,        \* where the process is; "dead" until it is restarted
  todo,      \* paths that this poll has not finished with
  cur,       \* the path between stat and open
  next,      \* next_offsets
  batch,     \* raw_lines: the lines read in this poll
  strays,    \* what else is in raw_lines: "blank" lines, the tail of a line that
             \* is an "event" of its own or "bad"
  carried,   \* history: largest offset in use when the path last got a new file
  crashes    \* history: how often the process was killed

files    == <<here, gen, len, carried>>
reader   == <<todo, cur, next, batch, strays>>
tailVars == <<files, reader, stateFile, pc, crashes>>

Zero == [p \in Paths |-> 0]

\* Faulty variant: after losing the state file, start at the end of the files
SavedAtEnd == IF stateFile = Torn THEN len ELSE stateFile

\* _load_offsets: a missing or undecodable state file means offset 0 everywhere
Saved == IF stateFile = Torn THEN Zero ELSE stateFile

\* Every local of the running process at rest
AtRest ==
  /\ todo' = {} /\ cur' = {} /\ next' = Zero
  /\ batch' = {} /\ strays' = {}

TailInit ==
  /\ here = [p \in Paths |-> TRUE] /\ gen = Zero /\ len = Zero
  /\ carried = Zero
  /\ stateFile = Zero /\ pc = "idle" /\ crashes = 0
  /\ todo = {} /\ cur = {} /\ next = Zero /\ batch = {} /\ strays = {}

-----------------------------------------------------------------------------
(* The programs that write the logs.                                        *)

\* Bytes are appended, perhaps in the middle of a line
Grow(p) ==
  /\ here[p]
  /\ \E n \in (len[p] + 1)..Size[p][gen[p]] : len' = [len EXCEPT ![p] = n]
  /\ UNCHANGED <<here, gen, carried, reader, stateFile, pc, crashes>>

\* Log rotation moves the file away ...
RotateAway(p) ==
  /\ here[p] /\ gen[p] < MaxGen
  /\ here' = [here EXCEPT ![p] = FALSE]
  /\ UNCHANGED <<gen, len, carried, reader, stateFile, pc, crashes>>

\* ... and the writer opens a new one under the same name
Recreate(p) ==
  /\ ~here[p]
  /\ here' = [here EXCEPT ![p] = TRUE]
  /\ gen' = [gen EXCEPT ![p] = @ + 1]
  /\ len' = [len EXCEPT ![p] = 0]
  /\ carried' = [carried EXCEPT
       ![p] = IF next[p] > Saved[p] THEN next[p] ELSE Saved[p]]
  /\ UNCHANGED <<reader, stateFile, pc, crashes>>

-----------------------------------------------------------------------------
(* One poll: load the offsets, then read each path.  The code takes the     *)
(* paths in the order of the command line; every order is allowed here.     *)

\* Faulty variant: a state file that does not decode is not caught
LoadOffsetsUnchecked ==
  /\ pc = "idle"
  /\ pc' = "scan"
  /\ next' = stateFile
  /\ todo' = Paths
  /\ UNCHANGED <<files, cur, batch, strays, stateFile, crashes>>

LoadOffsets ==
  /\ pc = "idle"
  /\ pc' = "scan"
  /\ next' = Saved
  /\ todo' = Paths
  /\ UNCHANGED <<files, cur, batch, strays, stateFile, crashes>>

\* Faulty variant: a file that has not grown is taken for a new one
StatOffsetLeq(p) == IF here[p] /\ len[p] <= next[p] THEN 0 ELSE next[p]

\* A file shorter than the offset is a new one, to be read from its start
StatOffset(p) == IF here[p] /\ len[p] < next[p] THEN 0 ELSE next[p]

\* path.exists() and path.stat(): nothing to read from a missing or unchanged file
Stat(p) ==
  /\ pc = "scan" /\ p \in todo
  /\ LET offset == StatOffset(p)
         done   == ~here[p] \/ len[p] = offset
     IN  /\ next' = [next EXCEPT ![p] = offset]
         /\ todo' = todo \ {p}
         /\ cur'  = IF done THEN {} ELSE {p}
         /\ pc'   = IF done THEN "scan" ELSE "read"
  /\ UNCHANGED <<files, batch, strays, stateFile, crashes>>

\* Line l begins before offset o
BeginsBelow(l, o) == 0 < o /\ \A x \in Ends[l[1]][l[2]] : x < o \/ l[3] <= x

\* The lines of what path p holds now that lie between the offsets lo and hi
NewLines(p, lo, hi) ==
  {l \in Lines : /\ l[1] = p /\ l[2] = gen[p] /\ lo < l[3] /\ l[3] <= hi
                 /\ ~BeginsBelow(l, lo)}

\* What else may lie between them: the tail of a line, or blank lines
Others(p, lo, hi) ==
  IF lo \notin Ends[p][gen[p]] \union {0} THEN {{"blank"}, {"event"}, {"bad"}}
  ELSE IF \E x \in Ends[p][gen[p]] \intersect Blank[p][gen[p]] : lo < x /\ x <= hi
       THEN {{"blank"}} ELSE {{}}

\* Faulty variant: the partial line at the end is consumed with the others
Untrimmed(p, lo, hi) == lo < hi /\ hi = len[p]

\* Faulty variant: data that does not end with a newline is left for later
OnlyIfComplete(p, lo, hi) == lo < hi /\ hi = len[p] /\ hi \in Ends[p][gen[p]]

\* hi is the position after the last newline past lo
LastNewline(p, lo, hi) ==
  /\ hi \in Ends[p][gen[p]] /\ lo < hi /\ hi <= len[p]
  /\ \A x \in Ends[p][gen[p]] : x <= len[p] => x <= hi

\* path.open() and read(): by now the file may have grown or been replaced
Read(p) ==
  /\ pc = "read" /\ cur = {p} /\ here[p]
  /\ \/ \E hi \in 1..len[p] :
          /\ LastNewline(p, next[p], hi)
          /\ batch' = batch \union NewLines(p, next[p], hi)
          /\ \E other \in Others(p, next[p], hi) : strays' = strays \union other
          /\ next' = [next EXCEPT ![p] = hi]
     \/ /\ \A hi \in 1..len[p] : ~LastNewline(p, next[p], hi)
        /\ UNCHANGED <<batch, strays, next>>
  /\ pc' = "scan" /\ cur' = {}
  /\ UNCHANGED <<files, todo, stateFile, crashes>>

\* The process ends: uncaught OSError, ValueError reported by the CLI, or a kill
Stop ==
  /\ pc' = "dead"
  /\ AtRest

\* The file was rotated away between stat and open: FileNotFoundError
ReadMissing(p) ==
  /\ pc = "read" /\ cur = {p} /\ ~here[p]
  /\ Stop
  /\ UNCHANGED <<files, stateFile, crashes>>

ScanFinished == pc = "scan" /\ todo = {}

\* raw_lines is not empty
GotLines == batch # {} \/ strays # {}

\* Faulty variant: lines that do not parse are passed over
ParsesLeniently == "bad" \notin strays

\* parse_ndjson and _validate_wazuh_lines raise on the first bad line
Parses == "bad" \notin strays /\ batch \intersect Bad = {}

\* Faulty variant: the error is logged and the loop goes on behind the batch
RejectAndGoOn ==
  /\ ScanFinished /\ ~Parses
  /\ pc' = "save"
  /\ UNCHANGED <<files, reader, stateFile, crashes>>

Reject ==
  /\ ScanFinished /\ ~Parses
  /\ Stop
  /\ UNCHANGED <<files, stateFile, crashes>>

\* write_text truncates the state file ...
SaveTruncate ==
  /\ pc = "save"
  /\ pc' = "saving"
  /\ stateFile' = Torn
  /\ UNCHANGED <<files, reader, crashes>>

\* ... and then writes the new offsets
SaveWrite(then) ==
  /\ pc = "saving"
  /\ stateFile' = next
  /\ pc' = then
  /\ AtRest
  /\ UNCHANGED <<files, crashes>>

Kill ==
  /\ pc # "dead" /\ crashes < MaxCrashes
  /\ crashes' = crashes + 1
  /\ Stop
  /\ UNCHANGED <<files, stateFile>>

\* wazuh-stream: Restart=always, restart: unless-stopped; splunk-stream: by hand
Restart ==
  /\ pc = "dead"
  /\ pc' = "idle"
  /\ UNCHANGED <<files, reader, stateFile, crashes>>

FileStep == \E p \in Paths : Grow(p) \/ RotateAway(p) \/ Recreate(p)

\* The steps of a running process that only read
ScanStep ==
  \/ LoadOffsets
  \/ \E p \in Paths : Stat(p) \/ Read(p) \/ ReadMissing(p)
  \/ Reject

TailTypeOK ==
  /\ here \in [Paths -> BOOLEAN]
  /\ gen \in [Paths -> Gens] /\ len \in [Paths -> Nat]
  /\ \A p \in Paths : ~here[p] => gen[p] < MaxGen
  /\ carried \in [Paths -> Nat]
  /\ stateFile \in [Paths -> Nat] \union {Torn}
  /\ pc \in {"idle", "scan", "read", "append", "send", "save", "saving", "dead"}
  /\ todo \subseteq Paths /\ cur \subseteq Paths
  /\ next \in [Paths -> Nat]
  /\ batch \subseteq Lines /\ strays \subseteq {"blank", "event", "bad"}
  /\ crashes \in Nat
=============================================================================
