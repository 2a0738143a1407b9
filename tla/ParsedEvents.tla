---------------------------- MODULE ParsedEvents ----------------------------
(***************************************************************************)
(* The events of src/honeypot_ai/models.py as the analyses see them.  What *)
(* a parser and the token lists of mitre.py find in a record is a set of   *)
(* marks; one event may stand for `times` records alike.                   *)
(***************************************************************************)
EXTENDS Integers, FiniteSets

CONSTANTS
  Addresses,  \* IP addresses
  Private,    \* those that ip_scope and _is_likely_internal call private
  Absent,     \* a field that a record does not have
  Events      \* what the logs hold

Sources == {"cowrie", "suricata", "zeek", "dionaea", "ebpf"}

Marks ==
  {"login_failures", "login_successes", "commands", "download_commands", "reverse_shells",
   "persistence_attempts", "scanner_commands", "miner", "alert", "malware", "loopback",
   "process_exec", "shell", "download_tool", "network_connect", "privilege_change",
   "container_runtime", "temp_write", "sensitive_write"}

EventFields ==
  [id : Nat, times : Nat \ {0}, source : Sources, session : Nat \union {Absent},
   src : Addresses \union {Absent}, dest : Addresses \union {Absent}, host : BOOLEAN,
   time : Nat \union {Absent}, marks : SUBSET Marks, passwords : SUBSET Nat,
   urls : SUBSET Nat, hashes : SUBSET Nat, sent : Nat, received : Nat]

ASSUME EventsAssumption ==
  /\ IsFiniteSet(Events) /\ Events \subseteq EventFields
  /\ \A e \in Events :
       IsFiniteSet(e.passwords) /\ IsFiniteSet(e.urls) /\ IsFiniteSet(e.hashes)
  /\ Private \subseteq Addresses /\ Absent \notin Addresses \union Nat
  /\ \A e \in Events :
       e.marks \intersect {"download_commands", "reverse_shells", "persistence_attempts",
                           "scanner_commands", "miner"} # {} => "commands" \in e.marks

\* The tokens in a command count for every source
CommandCounters ==
  {"commands", "download_commands", "reverse_shells", "persistence_attempts", "scanner_commands"}

LoginCounters == {"login_failures", "login_successes"}

\* map_event: ATT&CK techniques
map_event(e) ==
  {t \in {"T1110", "T1059.004", "T1105", "T1053.003", "T1046", "T1496"} :
     CASE t = "T1110"     -> e.source = "cowrie" /\ "login_failures" \in e.marks
       [] t = "T1059.004" -> \/ e.source = "cowrie" /\ "commands" \in e.marks
                             \/ "reverse_shells" \in e.marks
       [] t = "T1105"     -> {"download_commands", "malware"} \intersect e.marks # {} \/ e.urls # {}
       [] t = "T1053.003" -> "persistence_attempts" \in e.marks
       [] t = "T1046"     -> "scanner_commands" \in e.marks
       [] t = "T1496"     -> "miner" \in e.marks}

\* The sum of a function to the naturals over a set: as many as there are pairs
\* of an element and one of its units
Units(S, value) == UNION {{x} \X (1..value[x]) : x \in S}

Total(S, value) == Cardinality(Units(S, value))
=============================================================================
