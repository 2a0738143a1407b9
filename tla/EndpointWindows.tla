--------------------------- MODULE EndpointWindows ---------------------------
(***************************************************************************)
(* The command `dataset` (src/honeypot_ai/endpoint.py): events or packets  *)
(* are counted in windows per endpoint, role and time, the windows are     *)
(* labelled, written, and read back by the commands that follow.           *)
(***************************************************************************)
EXTENDS ParsedEvents

CONSTANTS
  WindowSizes,    \* values of --window-seconds
  Networks,       \* values of --protected-cidr, each the addresses that it covers
  SensorHost      \* the host name in eBPF records

\* On which side of its traffic an endpoint is
Roles == {"internal", "outbound", "inbound", "unknown", "host"}

ASSUME WindowsAssumption ==
  /\ WindowSizes \subseteq Nat \ {0} /\ Networks \subseteq SUBSET Addresses
  /\ SensorHost \notin Addresses \union {Absent}
  /\ Absent \notin (Addresses \union {SensorHost}) \X Roles

VARIABLES
  packets,   \* build_endpoint_windows_from_packets, not build_endpoint_windows
  seconds,   \* window_seconds
  networks,  \* protected addresses, {} if none are given
  toCount,   \* events that the loop has not reached
  counted,   \* history: those that it has
  states,    \* [<<endpoint, role, start>> -> what was counted]
  windows,   \* the windows, labelled
  file,      \* [format, suffix, rows] as written, or Absent
  loaded,    \* what read_windows makes of it
  step

windowVars == <<packets, seconds, networks, toCount, counted, states, windows, file, loaded, step>>

WindowsInit ==
  /\ packets = FALSE /\ seconds = 1 /\ networks = {} /\ toCount = {} /\ counted = {}
  /\ states = [k \in {} |-> Absent] /\ windows = {} /\ file = Absent /\ loaded = {}
  /\ step = "start"

-----------------------------------------------------------------------------

\* _select_endpoint: protected addresses first, or likely internal ones
SelectEndpoint(src, dest) ==
  IF networks # {}
  THEN IF src \in networks THEN <<src, IF dest \in networks THEN "internal" ELSE "outbound">>
       ELSE IF dest \in networks THEN <<dest, "inbound">> ELSE Absent
  ELSE IF dest \in Private THEN <<dest, "inbound">>
  ELSE IF src \in Private THEN <<src, "outbound">>
  ELSE IF dest \in Addresses THEN <<dest, "inbound">>
  ELSE IF src \in Addresses THEN <<src, "unknown">> ELSE Absent

\* _select_event_endpoint: eBPF events fall back to their host
EndpointOf(e) ==
  IF SelectEndpoint(e.src, e.dest) # Absent \/ packets THEN SelectEndpoint(e.src, e.dest)
  ELSE IF e.source = "ebpf" /\ e.host
  THEN <<SensorHost, IF e.dest # Absent /\ e.src = Absent THEN "outbound" ELSE "host">>
  ELSE Absent

\* An event without a time stamp counts for 1970
Instant(e) == IF e.time = Absent THEN 0 ELSE e.time

WindowStart(t) == (t \div seconds) * seconds

WindowFeatures ==
  CommandCounters \union LoginCounters \union
  {"event_count", "packet_count", "suricata_alerts", "shell_execs", "outbound_connects",
   "download_tool_execs", "privilege_changes", "sensitive_file_writes", "temp_file_writes"}

\* Faulty variant: downloads from the host itself count as a tool execution
DownloadToolAnywhere(e) == "download_tool" \in e.marks

\* _looks_like_download_tool also goes by the tokens in the command
DownloadTool(e) ==
  {"download_tool", "download_commands"} \intersect e.marks # {} /\ "loopback" \notin e.marks

\* _apply_ebpf_event
EbpfFeatures(e) ==
  {f \in {"shell_execs"} : "shell" \in e.marks}
  \union {f \in {"download_tool_execs"} : DownloadTool(e)}
  \union {f \in {"outbound_connects"} : "network_connect" \in e.marks}
  \union {f \in {"privilege_changes"} :
            "privilege_change" \in e.marks /\ "container_runtime" \notin e.marks}
  \union {f \in {"sensitive_file_writes"} : "sensitive_write" \in e.marks}
  \union {f \in {"temp_file_writes"} : "temp_write" \in e.marks}

\* The counters that _apply_event or _apply_packet raise
Raises(e) ==
  IF packets THEN {"packet_count"}
  ELSE {"event_count"}
       \union {c \in e.marks \intersect CommandCounters :
                 ~(c = "download_commands" /\ e.source = "ebpf" /\ "loopback" \in e.marks)}
       \union {c \in LoginCounters : e.source = "cowrie" /\ c \in e.marks}
       \union {c \in {"suricata_alerts"} : e.source = "suricata" /\ "alert" \in e.marks}
       \union (IF e.source = "ebpf" THEN EbpfFeatures(e) ELSE {})

\* Faulty variant: bytes of an event that the endpoint is no part of get lost
DirectionalOrNothing(e, endpoint) ==
  IF e.src = endpoint THEN <<e.sent, e.received>>
  ELSE IF e.dest = endpoint THEN <<e.received, e.sent>> ELSE <<0, 0>>

\* _directional_bytes: <<out, in>>
Directional(e, endpoint) ==
  IF e.src = endpoint THEN <<e.sent, e.received>>
  ELSE IF e.dest = endpoint THEN <<e.received, e.sent>> ELSE <<0, e.sent + e.received>>

\* A packet has one length, that of what its source sent
PacketBytes(e, endpoint) == IF e.src = endpoint THEN <<e.sent, 0>> ELSE <<0, e.sent>>

Bytes(e, endpoint) == IF packets THEN PacketBytes(e, endpoint) ELSE Directional(e, endpoint)

NewState ==
  [n |-> [f \in WindowFeatures |-> 0], out |-> 0, in |-> 0, peers |-> {}, hashes |-> {}]

WithCounted(s, e, endpoint) ==
  [n |-> [f \in WindowFeatures |-> s.n[f] + IF f \in Raises(e) THEN e.times ELSE 0],
   out |-> s.out + e.times * Bytes(e, endpoint)[1],
   in |-> s.in + e.times * Bytes(e, endpoint)[2],
   peers |-> s.peers \union ({e.src, e.dest} \ {endpoint, Absent}),
   hashes |-> s.hashes \union (IF packets THEN {} ELSE e.hashes)]

-----------------------------------------------------------------------------

StartDataset ==
  /\ step = "start"
  /\ packets' \in BOOLEAN /\ seconds' \in WindowSizes /\ networks' \in Networks
  /\ toCount' = {e \in Events : packets' => e.src # Absent /\ e.dest # Absent /\ e.time # Absent}
  /\ step' = "count"
  /\ UNCHANGED <<counted, states, windows, file, loaded>>

\* One turn of the loop over the events
CountEvent(e) ==
  LET chosen == EndpointOf(e)
      k == <<chosen[1], chosen[2], WindowStart(Instant(e))>>
      s == IF k \in DOMAIN states THEN states[k] ELSE NewState
  IN  /\ step = "count" /\ e \in toCount
      /\ toCount' = toCount \ {e} /\ counted' = counted \union {e}
      /\ states' = IF chosen = Absent THEN states
                   ELSE [j \in DOMAIN states \union {k} |->
                           IF j = k THEN WithCounted(s, e, chosen[1]) ELSE states[j]]
      /\ UNCHANGED <<packets, seconds, networks, windows, file, loaded, step>>

\* Features that make a window malicious by themselves
Telling ==
  {"suricata_alerts", "reverse_shells", "persistence_attempts", "download_commands",
   "scanner_commands", "privilege_changes", "sensitive_file_writes", "download_tool_execs"}

Reasons(s) ==
  {f \in Telling : s.n[f] > 0}
  \union {h \in {"hash_count"} : s.hashes # {}}
  \union {p \in {"shell with connection"} : s.n["shell_execs"] > 0 /\ s.n["outbound_connects"] > 0}

\* weak_label; windows of packets are not labelled
WeakLabel(s) ==
  IF packets THEN "unknown" ELSE IF Reasons(s) # {} THEN "malicious" ELSE "benign"

Finalize ==
  /\ step = "count" /\ toCount = {}
  /\ windows' = {[key |-> k, end |-> k[3] + seconds, features |-> states[k],
                  label |-> WeakLabel(states[k]),
                  reasons |-> IF packets THEN {} ELSE Reasons(states[k])] : k \in DOMAIN states}
  /\ step' = "write"
  /\ UNCHANGED <<packets, seconds, networks, toCount, counted, states, file, loaded>>

\* write_windows: a format or a suffix asks for CSV, whose rows are flat
WriteWindows ==
  /\ step = "write"
  /\ \E format, suffix \in {"json", "csv"} :
       file' = [csv |-> "csv" \in {format, suffix}, suffix |-> suffix, rows |-> windows]
  /\ step' = "read"
  /\ UNCHANGED <<packets, seconds, networks, toCount, counted, states, windows, loaded>>

\* read_windows goes by the suffix alone; CSV under another name does not parse
ReadWindows ==
  /\ step = "read"
  /\ IF file.csv = (file.suffix = "csv")
     THEN loaded' = file.rows /\ step' = "loaded"
     ELSE loaded' = {} /\ step' = "unreadable"
  /\ UNCHANGED <<packets, seconds, networks, toCount, counted, states, windows, file>>

WindowsNext ==
  \/ StartDataset \/ (\E e \in toCount : CountEvent(e))
  \/ Finalize \/ WriteWindows \/ ReadWindows

-----------------------------------------------------------------------------

\* The counted events of an endpoint and role from time t on, before t + seconds
Within(k) ==
  {e \in counted : /\ EndpointOf(e) = <<k[1], k[2]>>
                   /\ k[3] <= Instant(e) /\ Instant(e) < k[3] + seconds}

(* In whatever order events come, each one that concerns an endpoint is in  *)
(* the half-open window of its role that its time falls into, and a window  *)
(* has the number and the bytes of its events, whichever side of a flow the *)
(* endpoint is on, or neither: nothing is lost or counted twice             *)
(* (_window_start, _window_end, _directional_bytes, _apply_packet).         *)
TrafficConserved ==
  LET times  == [e \in Events |-> e.times]
      amount == [e \in Events |-> e.times * IF packets THEN e.sent ELSE e.sent + e.received]
  IN  /\ \A k \in DOMAIN states :
           /\ states[k].n["event_count"] + states[k].n["packet_count"] = Total(Within(k), times)
           /\ states[k].out + states[k].in = Total(Within(k), amount)
      /\ \A e \in counted : EndpointOf(e) # Absent => \E k \in DOMAIN states : e \in Within(k)

Shows(e, mark) == mark \in e.marks
Ebpf(e, mark) == e.source = "ebpf" /\ mark \in e.marks

\* What makes an event malicious by itself
Incriminates(e) ==
  \/ e.source = "suricata" /\ Shows(e, "alert")
  \/ Shows(e, "reverse_shells") \/ Shows(e, "persistence_attempts") \/ Shows(e, "scanner_commands")
  \/ e.hashes # {}
  \/ Shows(e, "download_commands") /\ ~Ebpf(e, "loopback")
  \/ Ebpf(e, "download_tool") /\ ~Shows(e, "loopback")
  \/ Ebpf(e, "privilege_change") /\ ~Shows(e, "container_runtime")
  \/ Ebpf(e, "sensitive_write")

(* A window is labelled malicious exactly if one of its events is, or if a  *)
(* shell and a connection fall into it; what the host downloads from itself *)
(* and container runtimes do is no evidence on either of the two counters   *)
(* that see it (weak_label, _apply_event, _apply_ebpf_event).               *)
LabelFollowsEvidence ==
  \A w \in windows \union loaded :
    w.label = "malicious" <=>
      /\ ~packets
      /\ \/ \E e \in Within(w.key) : Incriminates(e)
         \/ (\E e \in Within(w.key) : Ebpf(e, "shell")) /\
            (\E e \in Within(w.key) : Ebpf(e, "network_connect"))
=============================================================================
