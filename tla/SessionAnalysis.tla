--------------------------- MODULE SessionAnalysis ---------------------------
(***************************************************************************)
(* analyze and the polls of the stream daemons: features.py groups events  *)
(* into sessions, detectors.py scores the sessions, correlation.py credits *)
(* findings to addresses.  Points are quarters.  Each poll analyses its    *)
(* own batch, so that a session may be split over several.                 *)
(***************************************************************************)
EXTENDS ParsedEvents

VARIABLES
  rest,      \* events that no poll has read yet
  batch,     \* the events of this poll
  unread,    \* those that aggregate_sessions has not reached
  sessions,  \* [session key -> features]
  findings,  \* records [key, src, score, severity, evidence, techniques]
  actors,    \* [address -> [score, techniques]]
  whole,     \* history: [session key -> features], as one batch would have it
  phase

sessionVars == <<rest, batch, unread, sessions, findings, actors, whole, phase>>

NoSessions == [k \in {} |-> Absent]

SessionInit ==
  /\ rest = Events /\ batch = {} /\ unread = {} /\ findings = {} /\ phase = "poll"
  /\ sessions = NoSessions /\ actors = NoSessions /\ whole = NoSessions

-----------------------------------------------------------------------------

\* _session_key, the first of three copies
FeatureKey(e) ==
  CASE e.session # Absent -> <<e.source, "session", e.session>>
    [] e.session = Absent /\ e.src # Absent -> <<e.source, "src", e.src>>
    [] e.session = Absent /\ e.src = Absent /\ e.dest # Absent -> <<e.source, "dest", e.dest>>
    [] OTHER -> <<e.source, "line", e.id>>

DetectorKey(e) == FeatureKey(e)

CorrelationKey(e) == FeatureKey(e)

Counters ==
  CommandCounters \union LoginCounters \union {"total_events", "suricata_alerts", "network_connections"}

NewSession(e) ==
  [n |-> [c \in Counters |-> 0], src |-> e.src, passwords |-> {}, urls |-> {}, hashes |-> {},
   sent |-> 0, received |-> 0]

Counts(e) ==
  {"total_events"} \union (e.marks \intersect CommandCounters)
  \union {c \in LoginCounters : e.source = "cowrie" /\ c \in e.marks}
  \union {c \in {"suricata_alerts"} : e.source = "suricata" /\ "alert" \in e.marks}
  \union {c \in {"network_connections"} : e.source = "zeek"}

\* Faulty variant: the source of a session is that of its first event
FirstSource(f, e) == f.src

SourceOf(f, e) == IF f.src = Absent THEN e.src ELSE f.src

\* _apply_event
WithEvent(f, e) ==
  [n |-> [c \in Counters |-> f.n[c] + IF c \in Counts(e) THEN e.times ELSE 0],
   src |-> SourceOf(f, e), passwords |-> f.passwords \union e.passwords,
   urls |-> f.urls \union e.urls, hashes |-> f.hashes \union e.hashes,
   sent |-> f.sent + e.times * e.sent, received |-> f.received + e.times * e.received]

\* setdefault, and the event is applied
Aggregated(S, e) ==
  LET k == FeatureKey(e)
      f == IF k \in DOMAIN S THEN S[k] ELSE NewSession(e)
  IN  [j \in DOMAIN S \union {k} |-> IF j = k THEN WithEvent(f, e) ELSE S[j]]

Least(a, b) == IF a < b THEN a ELSE b
If(condition, points) == IF condition THEN points ELSE 0

\* Faulty variant: the bonus is for the fifth password, not from the fifth on
ManyPasswordsExactly(f) == Cardinality(f.passwords) = 5

ManyPasswords(f) == Cardinality(f.passwords) >= 5

\* _heuristic_score; transfers are in millions of bytes
Heuristic(f) ==
  Least(3 * f.n["login_failures"], 48) + If(f.n["login_successes"] > 0, 32)
  + Least(6 * f.n["commands"], 48) + 48 * f.n["download_commands"]
  + 80 * f.n["reverse_shells"] + 64 * f.n["persistence_attempts"]
  + 32 * f.n["scanner_commands"] + 40 * f.n["suricata_alerts"]
  + Least(24 * Cardinality(f.hashes), 72) + Least(24 * Cardinality(f.urls), 72)
  + If(ManyPasswords(f), 24) + If(f.sent > 5 \/ f.received > 5, 40)

\* Twice the median of a counter over the sessions
TwiceMedian(c) ==
  LET size == Cardinality(DOMAIN sessions)
      Kth(i) == CHOOSE v \in {sessions[k].n[c] : k \in DOMAIN sessions} :
                  /\ Cardinality({k \in DOMAIN sessions : sessions[k].n[c] < v}) < i
                  /\ Cardinality({k \in DOMAIN sessions : sessions[k].n[c] <= v}) >= i
  IN  Kth((size + 1) \div 2) + Kth(size \div 2 + 1)

\* _robust_anomaly_scores: positive where something lies above its median; how
\* far is left open (below 3, from 3 on, from 20 on)
AnomalyOf(k) ==
  IF Cardinality(DOMAIN sessions) >= 3
     /\ \E c \in Counters : 2 * sessions[k].n[c] > TwiceMedian(c)
  THEN {1, 4, 20} ELSE {0}

severityOf(points) ==
  CASE points >= 280 -> "critical"
    [] points >= 160 /\ points < 280 -> "high"
    [] points >= 60 /\ points < 160 -> "medium"
    [] OTHER -> "low"

\* One turn of the loop of score_sessions
Finding(k, anomaly) ==
  LET base == Heuristic(sessions[k])
      techniques == UNION {map_event(e) : e \in {d \in batch : DetectorKey(d) = k}}
      boosts == anomaly >= 3 /\ (base > 0 \/ techniques # {} \/ anomaly >= 20)
      score == base + If(boosts, Least(6 * anomaly, 80))
  IN  [key |-> k, src |-> sessions[k].src, score |-> score, severity |-> severityOf(score),
       evidence |-> techniques # {} \/ base > 0, techniques |-> techniques]

-----------------------------------------------------------------------------

\* _finding_actor_ips: a public destination stands in for the source of a flow
ActorsOf(f) ==
  LET public == {e.dest : e \in {d \in batch : /\ CorrelationKey(d) = f.key /\ d.source = "zeek"
                                               /\ d.dest \in Addresses \ Private}}
  IN  IF public # {} THEN public ELSE {f.src} \ {Absent}

\* correlate_actors
Correlated(F) ==
  LET Of(ip) == {e \in batch : ip \in {e.src, e.dest}}
      Blamed(ip) == {f \in F : ip \in ActorsOf(f)}
      points == [f \in F |-> f.score]
  IN  [ip \in {a \in Addresses : Of(a) # {} \/ Blamed(a) # {}} |->
         [score |-> Total({f \in Blamed(ip) : f.evidence}, points),
          techniques |-> UNION ({map_event(e) : e \in Of(ip)} \union
                                {f.techniques : f \in Blamed(ip)})]]

\* A poll reads some of the lines, in the order of the files
Poll ==
  /\ phase = "poll" /\ rest # {}
  /\ batch' \in (SUBSET rest) \ {{}}
  /\ rest' = rest \ batch' /\ unread' = batch'
  /\ sessions' = NoSessions /\ findings' = {} /\ actors' = NoSessions
  /\ phase' = "aggregate"
  /\ UNCHANGED whole

Aggregate(e) ==
  /\ phase = "aggregate" /\ e \in unread
  /\ unread' = unread \ {e}
  /\ sessions' = Aggregated(sessions, e)
  /\ whole' = Aggregated(whole, e)
  /\ UNCHANGED <<rest, batch, findings, actors, phase>>

ScoreSessions ==
  /\ phase = "aggregate" /\ unread = {}
  /\ \E anomaly \in [DOMAIN sessions -> {0, 1, 4, 20}] :
       /\ \A k \in DOMAIN sessions : anomaly[k] \in AnomalyOf(k)
       /\ findings' = {f \in {Finding(k, anomaly[k]) : k \in DOMAIN sessions} :
                         f.score > 0 \/ f.techniques # {}}
  /\ phase' = "score"
  /\ UNCHANGED <<rest, batch, unread, sessions, actors, whole>>

Correlate ==
  /\ phase = "score"
  /\ actors' = Correlated(findings)
  /\ phase' = "poll"
  /\ UNCHANGED <<rest, batch, unread, sessions, findings, whole>>

SessionNext == Poll \/ (\E e \in unread : Aggregate(e)) \/ ScoreSessions \/ Correlate

-----------------------------------------------------------------------------

(* A session that is split over several polls is scored too low in parts,   *)
(* never too high: no part scores more than the session as a whole          *)
(* (stream_once analyses each batch by itself, _heuristic_score has caps,   *)
(* thresholds and sets).                                                    *)
SplitNeverScoresHigher ==
  \A k \in DOMAIN sessions : Heuristic(sessions[k]) <= Heuristic(whole[k])

(* A finding with evidence counts against an address whenever an event of   *)
(* the session names its source, be it not the first one (aggregate_sessions,*)
(* _finding_actor_ips).                                                     *)
EvidenceHasActor ==
  phase = "poll" => \A f \in findings :
    f.evidence /\ (\E e \in batch : FeatureKey(e) = f.key /\ e.src # Absent) =>
      \E e \in batch : /\ FeatureKey(e) = f.key
                       /\ \E ip \in {e.src, e.dest} \ {Absent} : actors[ip].score >= f.score
=============================================================================
