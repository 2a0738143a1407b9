--------------------------- MODULE CommandLine_proofs ---------------------------
(***************************************************************************)
(* Proofs about the commands for any models, windows, scores, thresholds,  *)
(* addresses, servers and numbers of commands.  A command works on the     *)
(* state of one component, so that each proof looks at one of them.        *)
(***************************************************************************)
EXTENDS CommandLine, FiniteSetTheorems, TLAPS

(* A command leaves the other components as they were.                      *)
LEMMA OneComponent ==
  ASSUME [Next]_vars
  PROVE  /\ LlmNext \/ UNCHANGED llmVars
         /\ ExchangeNext \/ UNCHANGED exchangeVars
         /\ StoreNext \/ UNCHANGED storeVars
         /\ SessionNext \/ UNCHANGED sessionVars
         /\ TrainingNext \/ UNCHANGED trainingVars
         /\ WindowsNext \/ UNCHANGED windowVars
         /\ ParsingNext \/ UNCHANGED parsingVars
BY DEF Next, vars, Dispatch, ParseFiles, Analyze, Dataset, Training, Scoring, Exchange, Summaries

-----------------------------------------------------------------------------
(* The language model's client.  The body is written between two steps that *)
(* may see different servers; what ties it to the URL is that both follow   *)
(* the API of the last detection, or the path of the endpoint.              *)

LlmInv ==
  /\ BodyFitsUrl
  /\ versioned /\ turn \notin {"idle", "detect"} => api_type = "chat_completions"
  /\ turn = "post" => body = api_type

(* Every request carries a body for its URL, however the server is          *)
(* exchanged between the steps (summarize_events, _resolve_model,           *)
(* _get_paths).                                                             *)
THEOREM RequestsFit == Spec => []BodyFitsUrl
<1>1. Init => LlmInv
  BY DEF Init, LlmInit, LlmInv, BodyFitsUrl, NoRequest
<1>2. LlmInv /\ [Next]_vars => LlmInv'
  <2> SUFFICES ASSUME LlmInv, LlmNext \/ UNCHANGED llmVars
               PROVE  LlmInv'
    BY OneComponent
  <2> USE DEF LlmInv, BodyFitsUrl
  <2>1. CASE ServerExchanged \/ Start \/ Again
    BY <2>1 DEF ServerExchanged, Start, Again
  <2>2. CASE Detect \/ DetectAgain
    BY <2>2 DEF Detect, DetectAgain, Detected
  <2>3. CASE Models
    BY <2>3 DEF Models
  <2>4. CASE Build
    BY <2>4 DEF Build, BodyFor
  <2>5. CASE Post
    BY <2>5 DEF Post, Path
  <2>6. CASE UNCHANGED llmVars
    BY <2>6 DEF llmVars
  <2> QED
    BY <2>1, <2>2, <2>3, <2>4, <2>5, <2>6 DEF LlmNext
<1>3. LlmInv => BodyFitsUrl
  BY DEF LlmInv
<1> QED
  BY <1>1, <1>2, <1>3, PTL DEF Spec

-----------------------------------------------------------------------------
(* Indicators.  An address of the own network gets into a list only by way  *)
(* of a pull, and such a pull trusts its value.                             *)

Inner(type, value) == type # "domain" /\ HostOf(type, value) \in InnerIps

ExchangeInv ==
  /\ DOMAIN lists = DOMAIN CDB_LISTS /\ lists = [l \in DOMAIN CDB_LISTS |-> lists[l]]
  /\ \A a \in attributes : a.ours /\ Inner(a.type, a.value) => ~a.to_ids
  /\ \A a \in hits : Inner(a.type, a.value) => a.value \in trusted
  /\ OwnNetworkNotListed /\ KeysUnique

(* What is exported from the own events is not for detection when it is, or *)
(* leads to, an inner address, and no domain (_to_ids).                     *)
LEMMA ExportedFacts ==
  ASSUME NEW e \in Sightings, NEW a \in Exported(EventIocs(e)), Inner(a.type, a.value)
  PROVE  ~a.to_ids
<1>1. PICK i \in EventIocs(e) :
        a = [type |-> MISP_TYPES[i.kind], value |-> i.value,
             to_ids |-> ToIds(MISP_TYPES[i.kind], i.value), ours |-> TRUE]
  BY DEF Exported
<1>2. /\ a.type = MISP_TYPES[i.kind] /\ a.value = i.value
      /\ a.to_ids = ToIds(MISP_TYPES[i.kind], i.value)
  BY <1>1
<1>3. i.kind \in {"src_ip", "dest_ip", "domain", "url", "md5"} /\ (i.kind = "md5" => i.value \in e.hashes)
  BY DEF EventIocs, IocsOf
<1>4. CASE i.kind \in {"src_ip", "dest_ip"}
  <2>1. a.type \in {"ip-src", "ip-dst"} /\ a.value \in InnerIps
    BY <1>2, <1>4 DEF MISP_TYPES, Inner, HostOf
  <2> QED
    BY <1>2, <2>1, ExchangeAssumption DEF ToIds
<1>5. CASE i.kind = "url"
  <2>1. a.type = "url" /\ a.value.host \in InnerIps
    BY <1>2, <1>5 DEF MISP_TYPES, Inner, HostOf
  <2> QED
    BY <1>2, <2>1, ExchangeAssumption DEF ToIds, Ips
<1>6. CASE i.kind = "md5"
  <2>1. a.type = "md5" /\ a.value \in InnerIps
    BY <1>2, <1>6 DEF MISP_TYPES, Inner, HostOf
  <2>2. e.hashes \subseteq Hashes
    BY ExchangeAssumption
  <2> QED
    BY <1>2, <1>3, <1>6, <2>1, <2>2, ExchangeAssumption DEF Ips
<1>7. CASE i.kind = "domain"
  BY <1>2, <1>7 DEF MISP_TYPES, Inner
<1> QED
  BY <1>3, <1>4, <1>5, <1>6, <1>7

(* A list that is written, whole or in part, has trusted rows, unless it is *)
(* that of the domains, and unique keys (misp_attributes_to_wazuh_cdb).     *)
LEMMA RowsFacts ==
  ASSUME ExchangeInv, NEW l \in DOMAIN CDB_LISTS, NEW rows \in RowsOf(l), NEW written \in SUBSET rows
  PROVE  /\ l # "domain" =>
              \A r \in written : HostOf(r.type, r.key) \in InnerIps => r.key \in trusted
         /\ \A r, s \in written : r.key = s.key => r = s
<1>1. ASSUME l # "domain", NEW r \in Fitting(l), HostOf(r.type, r.key) \in InnerIps
      PROVE  r.key \in trusted
  <2>1. PICK a \in hits : r = [key |-> a.value, type |-> a.type] /\ a.type \in CDB_LISTS[l]
    BY DEF Fitting
  <2>2. a.type # "domain"
    BY <1>1, <2>1 DEF CDB_LISTS
  <2> QED
    BY <1>1, <2>1, <2>2 DEF ExchangeInv, Inner
<1> QED
  BY <1>1 DEF RowsOf

(* Every push, pull, foreign change, write and kill keeps it.               *)
LEMMA ExchangeStep ==
  ASSUME ExchangeInv, ExchangeNext \/ UNCHANGED exchangeVars
  PROVE  ExchangeInv'
<1> USE DEF ExchangeInv
<1>1. ASSUME UNCHANGED lists, trusted \subseteq trusted'
      PROVE  (OwnNetworkNotListed /\ KeysUnique)'
  BY <1>1 DEF OwnNetworkNotListed, HostOf, KeysUnique
<1>2. CASE Push
  <2>1. PICK e \in Sightings : attributes' \in {attributes, attributes \union Exported(EventIocs(e))}
    BY <1>2 DEF Push
  <2>2. \A a \in attributes' : a.ours /\ Inner(a.type, a.value) => ~a.to_ids
    BY <2>1, ExportedFacts
  <2> QED
    BY <1>1, <1>2, <2>2 DEF Push, Inner, HostOf
<1>3. CASE MispChanges
  <2>0. PICK e \in Sightings : \E i \in EventIocs(e) :
          attributes' = attributes \union
            {[type |-> MISP_TYPES[i.kind], value |-> i.value, to_ids |-> TRUE, ours |-> FALSE]}
    BY <1>3 DEF MispChanges
  <2>1. PICK i \in EventIocs(e) :
          attributes' = attributes \union
            {[type |-> MISP_TYPES[i.kind], value |-> i.value, to_ids |-> TRUE, ours |-> FALSE]}
    BY <2>0
  <2>2. \A a \in attributes' : a \in attributes \/ ~a.ours
    BY <2>1
  <2>3. UNCHANGED <<hits, anyway, unwritten, lists, trusted>>
    BY <1>3 DEF MispChanges
  <2>4. (\A a \in attributes : a.ours /\ Inner(a.type, a.value) => ~a.to_ids)'
    BY <2>2 DEF Inner, HostOf
  <2> QED
    BY <1>1, <2>3, <2>4 DEF Inner, HostOf
<1>4. CASE Pull
  <2>1. trusted \subseteq trusted' /\ UNCHANGED <<attributes, lists>>
    BY <1>4 DEF Pull
  <2>2. ASSUME NEW a \in hits', Inner(a.type, a.value)
        PROVE  a.value \in trusted'
    <3>1. a \in attributes /\ (anyway' \/ a.to_ids)
      BY <1>4 DEF Pull
    <3>2. anyway' \/ ~a.ours
      BY <2>2, <3>1
    <3> QED
      BY <1>4, <3>2 DEF Pull
  <2> QED
    BY <1>1, <2>1, <2>2 DEF Inner, HostOf
<1>5. ASSUME NEW l \in DOMAIN CDB_LISTS, WriteList(l) \/ KilledWriting(l)
      PROVE  ExchangeInv'
  <2>1. PICK rows \in RowsOf(l) : \E written \in SUBSET rows : lists' = [lists EXCEPT ![l] = written]
    BY <1>5 DEF WriteList, KilledWriting
  <2>2. UNCHANGED <<attributes, trusted>> /\ hits' \subseteq hits
    BY <1>5 DEF WriteList, KilledWriting
  <2>3. lists'[l] \in SUBSET rows /\ \A m \in DOMAIN CDB_LISTS : m # l => lists'[m] = lists[m]
    BY <2>1
  <2>4. OwnNetworkNotListed'
    BY <2>1, <2>2, <2>3, RowsFacts DEF OwnNetworkNotListed, HostOf
  <2>5. KeysUnique'
    BY <2>1, <2>3, RowsFacts DEF KeysUnique
  <2> QED
    BY <2>1, <2>2, <2>4, <2>5 DEF Inner, HostOf
<1>6. CASE UNCHANGED exchangeVars
  BY <1>1, <1>6 DEF exchangeVars, Inner, HostOf
<1> QED
  BY <1>2, <1>3, <1>4, <1>5, <1>6 DEF ExchangeNext

(* The initial lists are empty.                                             *)
LEMMA ExchangeStart == Init => ExchangeInv
BY DEF Init, ExchangeInit, ExchangeInv, OwnNetworkNotListed, KeysUnique

(* No address of the own network, and no URL that leads to one, is matched  *)
(* by Wazuh on the word of the own sensors alone; only the list of domains  *)
(* may have it (_to_ids, the filter of pull_misp_attributes, _cdb_key).     *)
THEOREM InnerAddressesStayOut == Spec => []OwnNetworkNotListed
<1>1. ExchangeInv /\ [Next]_vars => ExchangeInv'
  BY OneComponent, ExchangeStep
<1>2. ExchangeInv => OwnNetworkNotListed
  BY DEF ExchangeInv
<1> QED
  BY <1>1, <1>2, ExchangeStart, PTL DEF Spec

(* A list has one row per key, whoever published the key and as what        *)
(* (misp_attributes_to_wazuh_cdb), also after an interrupted pull.          *)
THEOREM OneRowPerKey == Spec => []KeysUnique
<1>1. ExchangeInv /\ [Next]_vars => ExchangeInv'
  BY OneComponent, ExchangeStep
<1>2. ExchangeInv => KeysUnique
  BY DEF ExchangeInv
<1> QED
  BY <1>1, <1>2, ExchangeStart, PTL DEF Spec

-----------------------------------------------------------------------------
(* Stored alerts.  A row of the table came from a scoring with the model's  *)
(* own threshold, which lies below its high threshold, or its key is among  *)
(* the forced ones.                                                         *)

ArtifactOK ==
  artifact # None =>
    /\ artifact.threshold \in Int
    /\ artifact.high # None => artifact.high \in Int /\ artifact.high > artifact.threshold

StoreInv ==
  /\ ArtifactOK
  /\ scoreOf \in [Windows -> Int]
  /\ \A r \in ml_alerts : r.window \in Windows /\ r.score \in Int
  /\ SeverityFollowsThreshold /\ StoreShowsLastScoring

(* With the model's own threshold, low is what lies below it (_severity).   *)
LEMMA OwnThreshold ==
  ASSUME ArtifactOK, artifact # None, NEW s \in Int
  PROVE  Severity(s, artifact.threshold, artifact.high) = "low" <=> s < artifact.threshold
<1>1. HighFor(artifact.threshold, artifact.high) \in Int
      /\ HighFor(artifact.threshold, artifact.high) > artifact.threshold
  BY DEF ArtifactOK, HighFor
<1> QED
  BY <1>1 DEF ArtifactOK, Severity

(* What a scoring yields for each window that it reports.                   *)
LEMMA AlertFacts ==
  ASSUME StoreInv, NEW threshold \in Int, NEW below \in BOOLEAN, NEW r \in AlertsAt(threshold, below)
  PROVE  /\ r.window \in Windows /\ (below \/ scoreOf[r.window] >= threshold)
         /\ r.model = artifact.id /\ r.score = scoreOf[r.window] /\ r.score \in Int
         /\ r.threshold = threshold
         /\ r.severity = Severity(r.score, threshold, artifact.high)
<1>1. PICK w \in Windows :
        /\ below \/ scoreOf[w] >= threshold
        /\ r = [model |-> artifact.id, window |-> w, score |-> scoreOf[w], threshold |-> threshold,
                severity |-> Severity(scoreOf[w], threshold, artifact.high)]
  BY DEF AlertsAt
<1> QED
  BY <1>1 DEF StoreInv

(* A scoring replaces the rows of its keys, all or, if it fails, some.      *)
LEMMA ScoreKeepsStore ==
  ASSUME StoreInv, ScoreDataset
  PROVE  StoreInv'
<1> USE DEF StoreInv
<1>1. PICK override \in Levels \union {None}, below \in BOOLEAN :
        LET threshold == IF override = None THEN artifact.threshold ELSE override
            rows == AlertsAt(threshold, below)
        IN  \E stored \in SUBSET rows :
              /\ ml_alerts' = Replaced(ml_alerts, stored)
              /\ last' = IF stored = rows THEN [threshold |-> threshold, below |-> below]
                         ELSE None
              /\ forced' = (forced \ {Key(r) : r \in stored}) \union
                           (IF override = None THEN {} ELSE {Key(r) : r \in stored})
  BY DEF ScoreDataset
<1>2. PICK threshold : threshold = IF override = None THEN artifact.threshold ELSE override
  OBVIOUS
<1>3. PICK rows : rows = AlertsAt(threshold, below)
  OBVIOUS
<1>4. PICK stored \in SUBSET rows :
        /\ ml_alerts' = Replaced(ml_alerts, stored)
        /\ last' = IF stored = rows THEN [threshold |-> threshold, below |-> below] ELSE None
        /\ forced' = (forced \ {Key(r) : r \in stored}) \union
                     (IF override = None THEN {} ELSE {Key(r) : r \in stored})
  BY <1>1, <1>2, <1>3
<1>5. UNCHANGED <<artifact, scoreOf>> /\ artifact # None
  BY DEF ScoreDataset
<1>6. threshold \in Int
  BY <1>2, <1>5, StoreAssumption DEF ArtifactOK
<1>7. \A r \in rows :
        /\ r.window \in Windows /\ (below \/ scoreOf[r.window] >= threshold)
        /\ r.model = artifact.id /\ r.score = scoreOf[r.window] /\ r.score \in Int
        /\ r.threshold = threshold
        /\ r.severity = Severity(r.score, threshold, artifact.high)
  BY <1>3, <1>6, AlertFacts
<1>8. \A r : r \in ml_alerts' <=> r \in stored \/ (r \in ml_alerts /\ \A q \in stored : Key(r) # Key(q))
  BY <1>4 DEF Replaced
<1>9. ArtifactOK' /\ (scoreOf \in [Windows -> Int])'
  BY <1>5 DEF ArtifactOK
<1>10. (\A r \in ml_alerts : r.window \in Windows /\ r.score \in Int)'
  BY <1>7, <1>8
<1>11. SeverityFollowsThreshold'
  <2> SUFFICES ASSUME NEW r \in ml_alerts', Key(r) \notin forced'
               PROVE  r.severity = "low" <=> r.score < r.threshold
    BY DEF SeverityFollowsThreshold, Key
  <2>1. CASE r \in stored
    <3>1. override = None
      BY <1>4, <2>1
    <3> QED
      BY <1>2, <1>5, <1>7, <2>1, <3>1, OwnThreshold
  <2>2. CASE r \in ml_alerts /\ \A q \in stored : Key(r) # Key(q)
    <3>1. Key(r) \notin forced
      BY <1>4, <2>2
    <3> QED
      BY <2>2, <3>1 DEF SeverityFollowsThreshold
  <2> QED
    BY <1>8, <2>1, <2>2
<1>12. StoreShowsLastScoring'
  <2> SUFFICES ASSUME last' # None
               PROVE  StoreShowsLastScoring'
    BY DEF StoreShowsLastScoring
  <2>1. stored = rows /\ last'.threshold = threshold /\ last'.below = below
    BY <1>4
  <2>2. ASSUME NEW w \in Windows, below \/ scoreOf[w] >= threshold
        PROVE  \E r \in ml_alerts' : Key(r) = <<artifact.id, w, scoreOf[w]>>
    <3>1. PICK r \in AlertsAt(threshold, below) :
            r = [model |-> artifact.id, window |-> w, score |-> scoreOf[w], threshold |-> threshold,
                 severity |-> Severity(scoreOf[w], threshold, artifact.high)]
      BY <2>2 DEF AlertsAt
    <3>2. Key(r) = <<artifact.id, w, scoreOf[w]>>
      BY <3>1 DEF Key
    <3> QED
      BY <1>3, <1>8, <2>1, <3>2
  <2>3. ASSUME NEW r \in ml_alerts', r.model = artifact.id, scoreOf[r.window] = r.score
        PROVE  \/ r.threshold = threshold /\ r.severity = Severity(r.score, threshold, artifact.high)
               \/ r.score < threshold /\ ~below
    <3>1. CASE r \in stored
      BY <1>7, <3>1
    <3>2. CASE r \in ml_alerts /\ \A q \in stored : Key(r) # Key(q)
      <4>1. r.window \in Windows /\ r.score \in Int
        BY <3>2
      <4>2. ~(below \/ scoreOf[r.window] >= threshold)
        <5>1. SUFFICES ASSUME below \/ scoreOf[r.window] >= threshold
                       PROVE  FALSE
          OBVIOUS
        <5>2. PICK q \in rows :
                q = [model |-> artifact.id, window |-> r.window, score |-> scoreOf[r.window],
                     threshold |-> threshold,
                     severity |-> Severity(scoreOf[r.window], threshold, artifact.high)]
          BY <1>3, <4>1, <5>1 DEF AlertsAt
        <5>3. Key(q) = Key(r)
          BY <2>3, <5>2 DEF Key
        <5> QED
          BY <2>1, <3>2, <5>3
      <4> QED
        BY <1>6, <2>3, <4>1, <4>2
    <3> QED
      BY <1>8, <3>1, <3>2
  <2> QED
    BY <1>5, <2>1, <2>2, <2>3 DEF StoreShowsLastScoring, Key, Severity, HighFor
<1> QED
  BY <1>9, <1>10, <1>11, <1>12

(* So does a training run, after which no scoring is the last.              *)
LEMMA StoreStep ==
  ASSUME StoreInv, StoreNext \/ UNCHANGED storeVars
  PROVE  StoreInv'
<1>1. CASE Retrain
  <2>1. ArtifactOK'
    <3>1. PICK id \in ModelIds, t \in Levels : \E h \in {t + g : g \in Margins} \union {None} :
            artifact' = [id |-> id, threshold |-> t, high |-> h]
      BY <1>1 DEF Retrain
    <3>2. PICK h \in {t + g : g \in Margins} \union {None} :
            artifact' = [id |-> id, threshold |-> t, high |-> h]
      BY <3>1
    <3>3. t \in Int
      BY StoreAssumption
    <3>4. CASE h = None
      BY <3>2, <3>3, <3>4 DEF ArtifactOK
    <3>5. CASE h # None
      <4>1. PICK g \in Margins : h = t + g
        BY <3>5
      <4>2. g \in Nat /\ g > 0
        BY StoreAssumption
      <4>3. h \in Int /\ h > t
        BY <3>3, <4>1, <4>2
      <4> QED
        BY <3>2, <3>3, <4>3 DEF ArtifactOK
    <3> QED
      BY <3>4, <3>5
  <2>2. scoreOf' \in [Windows -> Int] /\ last' = None /\ UNCHANGED <<ml_alerts, forced>>
    BY <1>1, StoreAssumption DEF Retrain
  <2>3. SeverityFollowsThreshold'
    BY <2>2 DEF StoreInv, SeverityFollowsThreshold, Key
  <2> QED
    BY <2>1, <2>2, <2>3 DEF StoreInv, StoreShowsLastScoring
<1>2. CASE UNCHANGED storeVars
  BY <1>2 DEF storeVars, StoreInv, ArtifactOK, SeverityFollowsThreshold, StoreShowsLastScoring,
              Key, Severity, HighFor
<1> QED
  BY <1>1, <1>2, ScoreKeepsStore DEF StoreNext

(* The store is empty at first.                                             *)
LEMMA StoreStart == Init => StoreInv
BY DEF Init, StoreInit, StoreInv, ArtifactOK, SeverityFollowsThreshold, StoreShowsLastScoring

(* A stored alert is low exactly below its threshold, whatever is trained,  *)
(* scored or killed, unless its row is one of --threshold (_severity).      *)
THEOREM LowMeansBelow == Spec => []SeverityFollowsThreshold
<1>1. StoreInv /\ [Next]_vars => StoreInv'
  BY OneComponent, StoreStep
<1>2. StoreInv => SeverityFollowsThreshold
  BY DEF StoreInv
<1> QED
  BY <1>1, <1>2, StoreStart, PTL DEF Spec

(* After a scoring that was stored whole, the table gives its verdict, not  *)
(* that of an earlier model with the same id (INSERT OR REPLACE).           *)
THEOREM LastScoringShows == Spec => []StoreShowsLastScoring
<1>1. StoreInv /\ [Next]_vars => StoreInv'
  BY OneComponent, StoreStep
<1>2. StoreInv => StoreShowsLastScoring
  BY DEF StoreInv
<1> QED
  BY <1>1, <1>2, StoreStart, PTL DEF Spec

-----------------------------------------------------------------------------
(* Sessions.  Both the poll's session and the whole one get every event of  *)
(* the poll, so that the first stays a part of the second in every feature, *)
(* and the heuristic score is monotone in them.                             *)

Features(f) ==
  /\ f.n \in [Counters -> Nat] /\ f.sent \in Nat /\ f.received \in Nat
  /\ IsFiniteSet(f.passwords) /\ IsFiniteSet(f.urls) /\ IsFiniteSet(f.hashes)

PartOf(f, g) ==
  /\ \A c \in Counters : f.n[c] <= g.n[c]
  /\ f.sent <= g.sent /\ f.received <= g.received
  /\ f.passwords \subseteq g.passwords /\ f.urls \subseteq g.urls /\ f.hashes \subseteq g.hashes

SessionInv ==
  /\ rest \subseteq Events /\ unread \subseteq Events
  /\ \A k \in DOMAIN sessions : Features(sessions[k])
  /\ \A k \in DOMAIN whole : Features(whole[k])
  /\ \A k \in DOMAIN sessions : k \in DOMAIN whole /\ PartOf(sessions[k], whole[k])

(* Caps, bonuses and sizes of sets keep the order (_heuristic_score).       *)
LEMMA HeuristicIsMonotone ==
  ASSUME NEW f, NEW g, Features(f), Features(g), PartOf(f, g)
  PROVE  Heuristic(f) <= Heuristic(g)
<1>1. ASSUME NEW S, NEW T, IsFiniteSet(T), S \subseteq T
      PROVE  Cardinality(S) \in Nat /\ Cardinality(T) \in Nat /\ Cardinality(S) <= Cardinality(T)
  BY <1>1, FS_Subset, FS_CardinalityType
<1>2. ASSUME NEW A, NEW B, NEW points \in Nat, A => B
      PROVE  If(A, points) \in Int /\ If(B, points) \in Int /\ If(A, points) <= If(B, points)
  BY <1>2 DEF If
<1>3. \A c \in Counters : f.n[c] \in Nat /\ g.n[c] \in Nat /\ f.n[c] <= g.n[c]
  BY DEF Features, PartOf
<1>4. {"login_failures", "login_successes", "commands", "download_commands", "reverse_shells",
       "persistence_attempts", "scanner_commands", "suricata_alerts"} \subseteq Counters
  BY DEF Counters, CommandCounters, LoginCounters
<1>5. /\ Cardinality(f.hashes) \in Nat /\ Cardinality(g.hashes) \in Nat
      /\ Cardinality(f.hashes) <= Cardinality(g.hashes)
      /\ Cardinality(f.urls) \in Nat /\ Cardinality(g.urls) \in Nat
      /\ Cardinality(f.urls) <= Cardinality(g.urls)
      /\ Cardinality(f.passwords) \in Nat /\ Cardinality(g.passwords) \in Nat
      /\ Cardinality(f.passwords) <= Cardinality(g.passwords)
  BY <1>1 DEF Features, PartOf
<1> DEFINE failures(h)  == Least(3 * h.n["login_failures"], 48)
           successes(h) == If(h.n["login_successes"] > 0, 32)
           commands_(h) == Least(6 * h.n["commands"], 48)
           hashes_(h)   == Least(24 * Cardinality(h.hashes), 72)
           urls_(h)     == Least(24 * Cardinality(h.urls), 72)
           many(h)      == If(ManyPasswords(h), 24)
           bulk(h)      == If(h.sent > 5 \/ h.received > 5, 40)
<1>6. failures(f) \in Int /\ failures(g) \in Int /\ failures(f) <= failures(g)
  <2>1. PICK a \in Nat, b \in Nat : a = f.n["login_failures"] /\ b = g.n["login_failures"] /\ a <= b
    BY <1>3, <1>4
  <2>2. 3 * a \in Int /\ 3 * b \in Int /\ 3 * a <= 3 * b
    BY <2>1
  <2> QED
    BY <2>1, <2>2 DEF Least
<1>7. successes(f) \in Int /\ successes(g) \in Int /\ successes(f) <= successes(g)
  <2>1. f.n["login_successes"] > 0 => g.n["login_successes"] > 0
    BY <1>3, <1>4
  <2> QED
    BY <1>2, <2>1
<1>8. commands_(f) \in Int /\ commands_(g) \in Int /\ commands_(f) <= commands_(g)
  <2>1. PICK a \in Nat, b \in Nat : a = f.n["commands"] /\ b = g.n["commands"] /\ a <= b
    BY <1>3, <1>4
  <2>2. 6 * a \in Int /\ 6 * b \in Int /\ 6 * a <= 6 * b
    BY <2>1
  <2> QED
    BY <2>1, <2>2 DEF Least
<1>9. /\ hashes_(f) \in Int /\ hashes_(g) \in Int /\ hashes_(f) <= hashes_(g)
       /\ urls_(f) \in Int /\ urls_(g) \in Int /\ urls_(f) <= urls_(g)
  <2>1. \A a, b \in Nat : a <= b => /\ Least(24 * a, 72) \in Int /\ Least(24 * b, 72) \in Int
                                  /\ Least(24 * a, 72) <= Least(24 * b, 72)
    BY DEF Least
  <2> QED
    BY <1>5, <2>1
<1>10. many(f) \in Int /\ many(g) \in Int /\ many(f) <= many(g)
  <2>1. ManyPasswords(f) => ManyPasswords(g)
    BY <1>5 DEF ManyPasswords
  <2> QED
    BY <1>2, <2>1
<1>11. bulk(f) \in Int /\ bulk(g) \in Int /\ bulk(f) <= bulk(g)
  <2>1. f.sent > 5 \/ f.received > 5 => g.sent > 5 \/ g.received > 5
    BY DEF Features, PartOf
  <2> QED
    BY <1>2, <2>1
<1>12. \A h : Heuristic(h) = failures(h) + successes(h) + commands_(h)
          + 48 * h.n["download_commands"] + 80 * h.n["reverse_shells"]
          + 64 * h.n["persistence_attempts"] + 32 * h.n["scanner_commands"]
          + 40 * h.n["suricata_alerts"] + hashes_(h) + urls_(h) + many(h) + bulk(h)
  BY DEF Heuristic
<1> HIDE DEF failures, successes, commands_, hashes_, urls_, many, bulk
<1> QED
  BY <1>3, <1>4, <1>6, <1>7, <1>8, <1>9, <1>10, <1>11, <1>12

(* An event adds the same to both (_apply_event).                           *)
LEMMA EventsAdd ==
  ASSUME NEW f, NEW g, Features(f), Features(g), PartOf(f, g), NEW e \in Events
  PROVE  /\ Features(WithEvent(f, e)) /\ Features(WithEvent(g, e))
         /\ PartOf(WithEvent(f, e), WithEvent(g, e))
<1>1. /\ e.times \in Nat /\ e.sent \in Nat /\ e.received \in Nat
      /\ IsFiniteSet(e.passwords) /\ IsFiniteSet(e.urls) /\ IsFiniteSet(e.hashes)
  BY EventsAssumption DEF EventFields
<1>2. PICK s \in Nat, r \in Nat : s = e.times * e.sent /\ r = e.times * e.received
  <2>1. \A a, b \in Nat : a * b \in Nat
    OBVIOUS
  <2> QED
    BY <1>1, <2>1
<1>3. ASSUME NEW h, Features(h)
      PROVE  /\ Features(WithEvent(h, e))
             /\ \A c \in Counters : WithEvent(h, e).n[c] = h.n[c] + IF c \in Counts(e) THEN e.times ELSE 0
             /\ WithEvent(h, e).sent = h.sent + s /\ WithEvent(h, e).received = h.received + r
             /\ WithEvent(h, e).passwords = h.passwords \union e.passwords
             /\ WithEvent(h, e).urls = h.urls \union e.urls
             /\ WithEvent(h, e).hashes = h.hashes \union e.hashes
  <2>1. IsFiniteSet(h.passwords \union e.passwords) /\ IsFiniteSet(h.urls \union e.urls)
        /\ IsFiniteSet(h.hashes \union e.hashes)
    BY <1>1, <1>3, FS_Union DEF Features
  <2> QED
    BY <1>1, <1>2, <1>3, <2>1 DEF WithEvent, Features
<1>4. PartOf(WithEvent(f, e), WithEvent(g, e))
  <2>1. \A c \in Counters : f.n[c] \in Nat /\ g.n[c] \in Nat /\ f.n[c] <= g.n[c]
    BY DEF Features, PartOf
  <2>2. f.sent \in Nat /\ g.sent \in Nat /\ f.received \in Nat /\ g.received \in Nat
    BY DEF Features
  <2> QED
    BY <1>1, <1>3, <2>1, <2>2 DEF PartOf
<1> QED
  BY <1>3, <1>4

(* A new session has no features, and is a part of any.                     *)
LEMMA NewIsLeast ==
  ASSUME NEW e
  PROVE  Features(NewSession(e)) /\ \A g : Features(g) => PartOf(NewSession(e), g)
<1>1. /\ NewSession(e).n = [c \in Counters |-> 0]
      /\ NewSession(e).sent = 0 /\ NewSession(e).received = 0
      /\ NewSession(e).passwords = {} /\ NewSession(e).urls = {} /\ NewSession(e).hashes = {}
  BY DEF NewSession
<1> QED
  BY <1>1, FS_EmptySet DEF Features, PartOf

(* At first there are no sessions.                                          *)
LEMMA SessionStart == Init => SessionInv
BY DEF Init, SessionInit, SessionInv, NoSessions

(* Each step of the analysis keeps sessions parts of whole ones.            *)
LEMMA SessionStep ==
  ASSUME SessionInv, SessionNext \/ UNCHANGED sessionVars
  PROVE  SessionInv'
<1> USE DEF SessionInv
<1>1. CASE Poll
  BY <1>1 DEF Poll, NoSessions
<1>2. ASSUME NEW e \in unread, Aggregate(e)
      PROVE  SessionInv'
  <2> DEFINE k == FeatureKey(e)
             f == IF k \in DOMAIN sessions THEN sessions[k] ELSE NewSession(e)
             g == IF k \in DOMAIN whole THEN whole[k] ELSE NewSession(e)
  <2>1. e \in Events /\ UNCHANGED rest /\ unread' \subseteq unread
    BY <1>2 DEF Aggregate
  <2>2. Features(f) /\ Features(g) /\ PartOf(f, g)
    BY NewIsLeast
  <2>3. /\ Features(WithEvent(f, e)) /\ Features(WithEvent(g, e))
        /\ PartOf(WithEvent(f, e), WithEvent(g, e))
    BY <2>1, <2>2, EventsAdd
  <2>4. /\ sessions' = [j \in DOMAIN sessions \union {k} |-> IF j = k THEN WithEvent(f, e) ELSE sessions[j]]
        /\ whole' = [j \in DOMAIN whole \union {k} |-> IF j = k THEN WithEvent(g, e) ELSE whole[j]]
    BY <1>2 DEF Aggregate, Aggregated
  <2> HIDE DEF f, g, k
  <2>5. /\ \A j \in DOMAIN sessions' : Features(sessions'[j])
        /\ \A j \in DOMAIN whole' : Features(whole'[j])
    BY <2>3, <2>4
  <2>6. \A j \in DOMAIN sessions' : j \in DOMAIN whole' /\ PartOf(sessions'[j], whole'[j])
    BY <2>3, <2>4
  <2> QED
    BY <2>1, <2>5, <2>6
<1>3. CASE ScoreSessions \/ Correlate \/ UNCHANGED sessionVars
  BY <1>3 DEF ScoreSessions, Correlate, sessionVars
<1> QED
  BY <1>1, <1>2, <1>3 DEF SessionNext

(* A session that is split over polls scores no higher in any of them than  *)
(* as a whole, for any logs and any division of them (stream_once analyses  *)
(* each batch by itself).                                                   *)
THEOREM PartsScoreLower == Spec => []SplitNeverScoresHigher
<1>1. SessionInv /\ [Next]_vars => SessionInv'
  BY OneComponent, SessionStep
<1>2. SessionInv => SplitNeverScoresHigher
  BY HeuristicIsMonotone DEF SessionInv, SplitNeverScoresHigher
<1> QED
  BY <1>1, <1>2, SessionStart, PTL DEF Spec

-----------------------------------------------------------------------------
(* The splits of the training commands.  The windows that are used are an   *)
(* interval, and so is every part; what remains is where the cuts lie.      *)

(* A slice of an interval, by the positions of its first and last window.   *)
LEMMA SliceOfInterval ==
  ASSUME NEW a \in Int, NEW b \in Int, NEW i \in Int, NEW j \in Int
  PROVE  Slice(a..b, i, j) = {w \in a..b : a + i - 1 <= w /\ w <= a + j - 1}
<1>1. ASSUME NEW w \in a..b
      PROVE  Cardinality({v \in a..b : v <= w}) = w - a + 1
  <2>1. {v \in a..b : v <= w} = a..w
    OBVIOUS
  <2>2. w \in Int /\ a <= w
    OBVIOUS
  <2>3. Cardinality(a..w) = w - a + 1
    BY <2>2, FS_Interval
  <2> QED
    BY <2>1, <2>3
<1> QED
  BY <1>1 DEF Slice

(* A cut stays between its limits, whatever the percentage makes of it.     *)
LEMMA CutBetween ==
  ASSUME NEW n \in Nat, NEW percent \in Int, NEW a \in Int, NEW b \in Int, a <= b
  PROVE  Cut(n, percent, a, b) \in Int /\ a <= Cut(n, percent, a, b) /\ Cut(n, percent, a, b) <= b
<1>1. PICK x \in Int : x = (n * percent) \div 100
  <2>1. \A y \in Int : y \div 100 \in Int
    OBVIOUS
  <2>2. n * percent \in Int
    OBVIOUS
  <2> QED
    BY <2>1, <2>2
<1> QED
  BY <1>1 DEF Cut, Larger, Smaller

(* The first cut, which leaves at least one window before it.               *)
LEMMA FirstCut ==
  ASSUME NEW n \in Nat, NEW percent \in Int, NEW top \in Int, 1 <= top
  PROVE  Cut(n, percent, 1, top) \in 1..top
BY CutBetween

\* What a command starts with
Started ==
  /\ command \in {"train", "evaluate", "tune"} /\ objective \in Objectives
  /\ command = "tune" => objective # "none"
  /\ command = "evaluate" => objective = "none"
  /\ shares \in Shares
  /\ dataset.size \in Nat /\ dataset.old \in Nat /\ dataset.old <= dataset.size

TrainingInv ==
  /\ stage # "idle" => Started
  /\ PartsInOrder

\* The windows used are those from a to b
UsedFrom(a, b) == Used = a..b /\ Cardinality(Used) = b - a + 1 /\ a <= b + 1

(* The windows used are the last ones, and there are as many as their       *)
(* numbers say.                                                             *)
LEMMA UsedIsInterval ==
  ASSUME Started
  PROVE  \E a \in Int, b \in Nat : UsedFrom(a, b)
<1>1. PICK b \in Nat, o \in Nat : b = dataset.size /\ o = dataset.old /\ o <= b
  BY DEF Started
<1>2. PICK a \in Int : Used = a..b /\ a <= b + 1
  <2>1. Used = 1..b \/ Used = (o + 1)..b
    BY <1>1 DEF Used
  <2> QED
    BY <1>1, <2>1
<1>3. Cardinality(a..b) = b - a + 1
  BY <1>2, FS_Interval
<1> QED
  BY <1>2, <1>3 DEF UsedFrom

\* The interval a..b, cut behind c and d
Three(a, b, c, d) ==
  [train |-> {w \in a..b : w <= c}, calibration |-> {w \in a..b : c < w /\ w <= d},
   test |-> {w \in a..b : d < w}]

\* P has the windows from a to b in order, and no empty part but where cuts meet
Ordered(P, a, b, c, d) ==
  /\ P["train"] \union P["calibration"] \union P["test"] = a..b
  /\ After(P["calibration"], P["train"])
  /\ After(P["test"], P["train"] \union P["calibration"])
  /\ P["train"] # {}
  /\ c < d => P["calibration"] # {}
  /\ d < b => P["test"] # {}

(* Parts between cuts are in order and complete, and empty only where two   *)
(* cuts meet.                                                               *)
LEMMA ThreeParts ==
  ASSUME NEW a \in Int, NEW b \in Int, NEW c \in Int, NEW d \in Int, a <= c, c <= d, d <= b
  PROVE  Ordered(Three(a, b, c, d), a, b, c, d)
<1> DEFINE P == Three(a, b, c, d)
<1>1. /\ P["train"] = {w \in a..b : w <= c}
      /\ P["calibration"] = {w \in a..b : c < w /\ w <= d}
      /\ P["test"] = {w \in a..b : d < w}
  BY DEF Three
<1> HIDE DEF P
<1>2. P["train"] \union P["calibration"] \union P["test"] = a..b
  BY <1>1
<1>3. After(P["calibration"], P["train"]) /\ After(P["test"], P["train"] \union P["calibration"])
  BY <1>1 DEF After
<1>4. c \in P["train"] /\ (c < d => d \in P["calibration"]) /\ (d < b => b \in P["test"])
  BY <1>1
<1>5. P["train"] # {} /\ (c < d => P["calibration"] # {}) /\ (d < b => P["test"] # {})
  BY <1>4
<1> QED
  BY <1>2, <1>3, <1>5 DEF P, Ordered

(* Each command cuts the windows at positions that its checks leave room    *)
(* for.                                                                     *)
LEMMA SplitCuts ==
  ASSUME Started, Split, stage' # "failed",
         NEW a \in Int, NEW b \in Nat, UsedFrom(a, b)
  PROVE  \E c, d \in Int :
           /\ part' = Three(a, b, c, d)
           /\ a <= c /\ c <= d /\ d <= b
           /\ objective # "none" => c < d
           /\ command # "train" => d < b
<1>1. PICK n \in Nat : n = Cardinality(Used) /\ n = b - a + 1
  BY DEF UsedFrom
<1>2. PICK x \in Int, y \in Int : x = shares[1] /\ y = shares[2]
  <2>1. shares \in (1..99) \X (1..99)
    BY TrainingAssumption DEF Started
  <2>2. shares[1] \in Int /\ shares[2] \in Int
    BY <2>1
  <2> QED
    BY <2>2
<1>3. /\ \A top \in Int : 1 <= top => Cut(n, x, 1, top) \in 1..top
      /\ \A z, low, top \in Int : low <= top => Cut(n, z, low, top) \in low..top
  <2>1. \A top \in Int : 1 <= top => Cut(n, x, 1, top) \in 1..top
    BY FirstCut
  <2>2. \A z, low, top \in Int : low <= top => Cut(n, z, low, top) \in low..top
    BY CutBetween
  <2> QED
    BY <2>1, <2>2
<1>4. \A i, j \in Int : Slice(Used, i, j) = {w \in a..b : a + i - 1 <= w /\ w <= a + j - 1}
  BY SliceOfInterval DEF UsedFrom
<1>5. CASE command = "tune"
  <2>1. n >= 3 /\ part' = [train |-> Slice(Used, 1, TuneCuts(n)[1]),
                          calibration |-> Slice(Used, TuneCuts(n)[1] + 1, TuneCuts(n)[2]),
                          test |-> Slice(Used, TuneCuts(n)[2] + 1, n)]
    BY <1>1, <1>5 DEF Split, Fails
  <2>2. PICK i \in 1..(n - 2) : i = TuneCuts(n)[1]
    <3>1. TuneCuts(n)[1] = Cut(n, x, 1, n - 2)
      BY <1>2 DEF TuneCuts
    <3>2. PICK top \in Int : top = n - 2 /\ 1 <= top
      BY <2>1
    <3>3. Cut(n, x, 1, top) \in 1..top
      BY <1>3, <3>2
    <3> QED
      BY <3>1, <3>2, <3>3
  <2>3. PICK j \in (i + 1)..(n - 1) : j = TuneCuts(n)[2]
    <3>1. TuneCuts(n)[2] = Cut(n, x + y, i + 1, n - 1)
      BY <1>2, <2>2 DEF TuneCuts
    <3>2. x + y \in Int /\ i + 1 \in Int /\ n - 1 \in Int /\ i + 1 <= n - 1
      OBVIOUS
    <3>3. Cut(n, x + y, i + 1, n - 1) \in (i + 1)..(n - 1)
      BY <1>3, <3>2
    <3> QED
      BY <3>1, <3>3
  <2>4. part' = Three(a, b, a + i - 1, a + j - 1)
    <3>1. /\ Slice(Used, 1, i) = {w \in a..b : w <= a + i - 1}
          /\ Slice(Used, i + 1, j) = {w \in a..b : a + i - 1 < w /\ w <= a + j - 1}
          /\ Slice(Used, j + 1, n) = {w \in a..b : a + j - 1 < w}
      BY <1>1, <1>4
    <3> QED
      BY <2>1, <2>2, <2>3, <3>1 DEF Three
  <2>5. a + i - 1 < a + j - 1 /\ a <= a + i - 1 /\ a + j - 1 < b
    BY <1>1
  <2> QED
    BY <2>4, <2>5
<1>6. CASE command = "evaluate"
  <2>1. n >= 2 /\ part' = [train |-> Slice(Used, 1, Cut(n, x, 1, n - 1)), calibration |-> {},
                          test |-> Slice(Used, Cut(n, x, 1, n - 1) + 1, n)]
    BY <1>1, <1>2, <1>6 DEF Split, Fails
  <2>2. PICK i \in 1..(n - 1) : i = Cut(n, x, 1, n - 1)
    <3>1. PICK top \in Int : top = n - 1 /\ 1 <= top
      BY <2>1
    <3>2. Cut(n, x, 1, top) \in 1..top
      BY <1>3, <3>1
    <3> QED
      BY <3>1, <3>2
  <2>3. part' = Three(a, b, a + i - 1, a + i - 1)
    <3>1. /\ Slice(Used, 1, i) = {w \in a..b : w <= a + i - 1}
          /\ {} = {w \in a..b : a + i - 1 < w /\ w <= a + i - 1}
          /\ Slice(Used, i + 1, n) = {w \in a..b : a + i - 1 < w}
      BY <1>1, <1>4
    <3> QED
      BY <2>1, <2>2, <3>1 DEF Three
  <2>4. a <= a + i - 1 /\ a + i - 1 < b
    BY <1>1
  <2> QED
    BY <1>6, <2>3, <2>4 DEF Started
<1>7. CASE command = "train" /\ objective # "none"
  <2>1. n >= 2 /\ part' = [train |-> Slice(Used, 1, Cut(n, x, 1, n - 1)),
                          calibration |-> Slice(Used, Cut(n, x, 1, n - 1) + 1, n), test |-> {}]
    BY <1>1, <1>2, <1>7 DEF Split, Fails
  <2>2. PICK i \in 1..(n - 1) : i = Cut(n, x, 1, n - 1)
    <3>1. PICK top \in Int : top = n - 1 /\ 1 <= top
      BY <2>1
    <3>2. Cut(n, x, 1, top) \in 1..top
      BY <1>3, <3>1
    <3> QED
      BY <3>1, <3>2
  <2>3. part' = Three(a, b, a + i - 1, b)
    <3>1. /\ Slice(Used, 1, i) = {w \in a..b : w <= a + i - 1}
          /\ Slice(Used, i + 1, n) = {w \in a..b : a + i - 1 < w /\ w <= b}
          /\ {} = {w \in a..b : b < w}
      BY <1>1, <1>4
    <3> QED
      BY <2>1, <2>2, <3>1 DEF Three
  <2>4. a <= a + i - 1 /\ a + i - 1 < b
    BY <1>1
  <2> QED
    BY <1>7, <2>3, <2>4
<1>8. CASE command = "train" /\ objective = "none"
  <2>1. n >= 1 /\ part' = [train |-> Used, calibration |-> {}, test |-> {}]
    BY <1>1, <1>8 DEF Split, Fails
  <2>2. part' = Three(a, b, b, b)
    <3>1. /\ Used = {w \in a..b : w <= b}
          /\ {} = {w \in a..b : b < w /\ w <= b}
          /\ {} = {w \in a..b : b < w}
      BY DEF UsedFrom
    <3> QED
      BY <2>1, <3>1 DEF Three
  <2>3. a <= b
    BY <1>1, <2>1
  <2> QED
    BY <1>8, <2>2, <2>3
<1> QED
  BY <1>5, <1>6, <1>7, <1>8 DEF Started

(* Splitting makes the parts, and what follows leaves them alone.           *)
LEMMA TrainingStep ==
  ASSUME TrainingInv, TrainingNext \/ UNCHANGED trainingVars
  PROVE  TrainingInv'
<1>1. ASSUME NEW k \in {"train", "evaluate", "tune"}, StartTraining(k)
      PROVE  TrainingInv'
  <2>1. PICK n \in 0..MaxWindows : \E m \in 0..Smaller(n, 1) : \E label :
          dataset' = [size |-> n, old |-> m, label |-> label]
    BY <1>1 DEF StartTraining
  <2>2. n \in Nat /\ Smaller(n, 1) \in Nat /\ Smaller(n, 1) <= n
    BY TrainingAssumption DEF Smaller
  <2>3. dataset'.size \in Nat /\ dataset'.old \in Nat /\ dataset'.old <= dataset'.size
    BY <2>1, <2>2
  <2>4. Started'
    BY <1>1, <2>3 DEF StartTraining, Started
  <2> QED
    BY <1>1, <2>4 DEF StartTraining, TrainingInv, PartsInOrder
<1>2. CASE Split
  <2>1. UNCHANGED input /\ Started
    BY <1>2 DEF Split, Fails, TrainingInv
  <2>2. Started' /\ Used' = Used
    BY <2>1 DEF Started, input, Used
  <2>3. CASE stage' = "failed"
    BY <2>2, <2>3 DEF TrainingInv, PartsInOrder
  <2>4. CASE stage' # "failed"
    <3>1. PICK a \in Int, b \in Nat : UsedFrom(a, b)
      BY <2>1, UsedIsInterval
    <3>2. PICK c \in Int, d \in Int :
            /\ part' = Three(a, b, c, d)
            /\ a <= c /\ c <= d /\ d <= b
            /\ objective # "none" => c < d
            /\ command # "train" => d < b
      BY <1>2, <2>1, <2>4, <3>1, SplitCuts
    <3>3. PartsInOrder'
      <4>1. Ordered(part', a, b, c, d)
        BY <3>2, ThreeParts
      <4>2. UNION {part'[k] : k \in Parts}
            = part'["train"] \union part'["calibration"] \union part'["test"]
        BY DEF Parts
      <4> QED
        BY <2>1, <2>2, <3>1, <3>2, <4>1, <4>2 DEF Ordered, UsedFrom, PartsInOrder, After, input
    <3> QED
      BY <2>2, <3>3 DEF TrainingInv
  <2> QED
    BY <2>3, <2>4
<1>3. CASE Fit \/ ScoreHoldout \/ Count \/ Choose \/ Finish \/ UNCHANGED trainingVars
  <2>1. UNCHANGED input
    BY <1>3 DEF Fit, Fails, ScoreHoldout, Count, Choose, Finish, trainingVars, input
  <2>2. Started' <=> Started
    BY <2>1 DEF Started, input
  <2>3. UNCHANGED part
    BY <1>3 DEF Fit, Fails, ScoreHoldout, Count, Choose, Finish, trainingVars, work
  <2>4. \/ stage' = stage
        \/ stage' = "failed" /\ stage # "idle"
        \/ stage \notin {"idle", "split", "failed"}
    <3>1. CASE UNCHANGED trainingVars
      BY <3>1 DEF trainingVars
    <3>2. CASE Fit \/ ScoreHoldout \/ Count \/ Choose \/ Finish
      <4>1. stage \in {"fit", "calibrate", "count", "finish"}
        BY <3>2 DEF Fit, ScoreHoldout, Count, Choose, Finish
      <4> QED
        BY <4>1
    <3> QED
      BY <1>3, <3>1, <3>2
  <2>5. Used' = Used
    BY <2>1 DEF Used, input
  <2> QED
    BY <2>1, <2>2, <2>3, <2>4, <2>5 DEF TrainingInv, PartsInOrder, After, input
<1> QED
  BY <1>1, <1>2, <1>3 DEF TrainingNext

(* However few windows there are and whatever the shares, every part that a *)
(* command needs has windows, every window it uses is in one, and no        *)
(* calibration or test window is older than one that was trained on         *)
(* (train_calibrated_model, evaluate_temporal_split, tune_temporal_split).  *)
THEOREM SplitsAreTemporal == Spec => []PartsInOrder
<1>1. Init => TrainingInv
  BY DEF Init, TrainingInit, TrainingInv, PartsInOrder
<1>2. TrainingInv /\ [Next]_vars => TrainingInv'
  BY OneComponent, TrainingStep
<1>3. TrainingInv => PartsInOrder
  BY DEF TrainingInv
<1> QED
  BY <1>1, <1>2, <1>3, PTL DEF Spec

-----------------------------------------------------------------------------
(* The choice of a threshold.  What is better is an order, in which a       *)
(* finite set has a best element.                                           *)

(* A finite set has an element below no other in a strict order.            *)
LEMMA BestElement ==
  ASSUME NEW S, IsFiniteSet(S), S # {}, NEW R,
         \A x \in S : <<x, x>> \notin R,
         \A x, y, z \in S : <<x, y>> \in R /\ <<y, z>> \in R => <<x, z>> \in R
  PROVE  \E m \in S : \A x \in S : <<m, x>> \notin R
<1>1. PICK above : above = [x \in S |-> {y \in S : <<x, y>> \in R}]
  OBVIOUS
<1>2. PICK A : A = {above[x] : x \in S}
  OBVIOUS
<1>3. A # {} /\ A \subseteq FiniteSubsetsOf(S)
  <2>1. ASSUME NEW a \in A
        PROVE  a \subseteq S
    <3>1. PICK x \in S : a = above[x]
      BY <1>2
    <3> QED
      BY <1>1, <3>1
  <2>2. A # {}
    BY <1>2
  <2> QED
    BY <2>1, <2>2, FS_FiniteSubsetsOfFinite
<1>4. PICK a \in A : \A b \in A : <<b, a>> \notin StrictSubsetOrdering(S)
  BY <1>3, WFMin, FS_StrictSubsetOrderingWellFounded
<1>5. PICK m \in S : a = above[m]
  BY <1>2
<1>6. ASSUME NEW x \in S, <<m, x>> \in R
      PROVE  FALSE
  <2>1. above[x] \subseteq a /\ x \in a /\ x \notin above[x] /\ a \subseteq S
    BY <1>1, <1>5, <1>6
  <2>2. <<above[x], a>> \in StrictSubsetOrdering(S)
    BY <2>1 DEF StrictSubsetOrdering
  <2> QED
    BY <1>2, <1>4, <2>2
<1> QED
  BY <1>6

\* A rate: an integer over a positive one
IsRate(r) == r[1] \in Int /\ r[2] \in Nat \ {0}

\* Neither is less
Same(r, s) == ~Less(r, s) /\ ~Less(s, r)

(* A positive factor changes no comparison.                                 *)
LEMMA Factor ==
  ASSUME NEW x \in Int, NEW y \in Int, NEW n \in Nat \ {0}
  PROVE  x <= y <=> x * n <= y * n
<1>1. CASE x <= y
  BY <1>1
<1>2. CASE y < x
  BY <1>2
<1> QED
  BY <1>1, <1>2

(* Rates are ordered as the numbers they stand for.                         *)
LEMMA RatesOrdered ==
  ASSUME NEW r, NEW s, NEW t, IsRate(r), IsRate(s), IsRate(t)
  PROVE  /\ ~Less(r, r)
         /\ Less(r, s) => ~Less(s, r)
         /\ ~Less(s, r) /\ ~Less(t, s) => ~Less(t, r)
<1>1. PICK a \in Int, b \in Nat \ {0}, c \in Int, d \in Nat \ {0}, e \in Int, f \in Nat \ {0} :
        a = r[1] /\ b = r[2] /\ c = s[1] /\ d = s[2] /\ e = t[1] /\ f = t[2]
  BY DEF IsRate
<1>2. /\ Less(r, r) <=> a * b < a * b
      /\ Less(r, s) <=> a * d < c * b
      /\ Less(s, r) <=> c * b < a * d
      /\ Less(t, s) <=> e * d < c * f
      /\ Less(t, r) <=> e * b < a * f
  BY <1>1 DEF Less
<1>3. ASSUME a * d <= c * b, c * f <= e * d
      PROVE  a * f <= e * b
  <2>1. (a * d) * f <= (c * b) * f
    BY <1>3, Factor
  <2>2. (c * f) * b <= (e * d) * b
    BY <1>3, Factor
  <2>3. (a * d) * f = (a * f) * d /\ (c * b) * f = (c * f) * b /\ (e * d) * b = (e * b) * d
    OBVIOUS
  <2>4. (a * f) * d <= (e * b) * d
    BY <2>1, <2>2, <2>3
  <2>5. a * f \in Int /\ e * b \in Int
    OBVIOUS
  <2> QED
    BY <2>4, <2>5, Factor
<1>4. a * b \in Int /\ a * d \in Int /\ c * b \in Int /\ e * d \in Int /\ c * f \in Int
      /\ e * b \in Int /\ a * f \in Int
  OBVIOUS
<1> QED
  BY <1>2, <1>3, <1>4

\* A tuple of n rates
IsKey(k, n) == DOMAIN k = 1..n /\ \A i \in 1..n : IsRate(k[i])

(* Tuples of which neither is less are the same in every place.             *)
LEMMA SameKeys ==
  ASSUME NEW n \in Nat, NEW k, NEW l, IsKey(k, n), IsKey(l, n), ~KeyLess(k, l), ~KeyLess(l, k)
  PROVE  \A i \in 1..n : Same(k[i], l[i])
<1> SUFFICES ASSUME {i \in 1..n : ~Same(k[i], l[i])} # {}
             PROVE  FALSE
  OBVIOUS
<1>1. PICK D : D = {i \in 1..n : ~Same(k[i], l[i])}
  OBVIOUS
<1>2. IsFiniteSet(D) /\ D # {} /\ D \subseteq Int
  <2>1. IsFiniteSet(1..n)
    BY FS_Interval
  <2> QED
    BY <1>1, <2>1, FS_Subset
<1>3. PICK R : R = {p \in D \X D : p[2] < p[1]}
  OBVIOUS
<1>4. PICK i \in D : \A j \in D : <<i, j>> \notin R
  <2>1. \A x \in D : <<x, x>> \notin R
    BY <1>2, <1>3
  <2>2. \A x, y, z \in D : <<x, y>> \in R /\ <<y, z>> \in R => <<x, z>> \in R
    BY <1>2, <1>3
  <2> QED
    BY <1>2, <2>1, <2>2, BestElement
<1>5. i \in 1..n /\ \A j \in 1..(i - 1) : Same(k[j], l[j])
  <2>1. i \in 1..n
    BY <1>1
  <2>2. ASSUME NEW j \in 1..(i - 1), ~Same(k[j], l[j])
        PROVE  FALSE
    <3>1. j \in 1..n /\ j < i
      BY <2>1
    <3>2. j \in D
      BY <1>1, <2>2, <3>1
    <3> QED
      BY <1>3, <1>4, <3>1, <3>2
  <2> QED
    BY <2>1, <2>2
<1>6. Less(k[i], l[i]) \/ Less(l[i], k[i])
  BY <1>1 DEF Same
<1> QED
  BY <1>5, <1>6 DEF KeyLess, IsKey, Same

(* Tuples of rates are ordered.                                             *)
LEMMA KeysOrdered ==
  ASSUME NEW n \in Nat, NEW k, NEW l, NEW m, IsKey(k, n), IsKey(l, n), IsKey(m, n)
  PROVE  /\ ~KeyLess(k, k)
         /\ KeyLess(k, l) /\ KeyLess(l, m) => KeyLess(k, m)
         /\ KeyLess(k, l) /\ ~KeyLess(m, l) => KeyLess(k, m)
         /\ ~KeyLess(l, k) /\ KeyLess(l, m) => KeyLess(k, m)
<1>1. ASSUME NEW i \in 1..n
      PROVE  /\ ~Less(k[i], k[i])
             /\ Same(k[i], l[i]) /\ Same(l[i], m[i]) => Same(k[i], m[i])
             /\ Less(k[i], l[i]) /\ ~Less(m[i], l[i]) => Less(k[i], m[i])
             /\ ~Less(l[i], k[i]) /\ Less(l[i], m[i]) => Less(k[i], m[i])
  <2>1. IsRate(k[i]) /\ IsRate(l[i]) /\ IsRate(m[i])
    BY DEF IsKey
  <2> QED
    BY <2>1, RatesOrdered DEF Same
<1>2. ASSUME NEW i \in 1..n, NEW j \in 1..n, Less(k[i], l[i]), Less(l[j], m[j]),
             \A h \in 1..(i - 1) : Same(k[h], l[h]), \A h \in 1..(j - 1) : Same(l[h], m[h])
      PROVE  KeyLess(k, m)
  <2>1. CASE i < j
    BY <1>1, <1>2, <2>1 DEF KeyLess, IsKey, Same
  <2>2. CASE j < i
    BY <1>1, <1>2, <2>2 DEF KeyLess, IsKey, Same
  <2>3. CASE i = j
    <3>1. Less(k[i], m[i])
      <4>1. IsRate(k[i]) /\ IsRate(l[i]) /\ IsRate(m[i])
        BY DEF IsKey
      <4>2. Less(k[i], l[i]) /\ Less(l[i], m[i])
        BY <1>2, <2>3
      <4> QED
        BY <1>1, <4>1, <4>2, RatesOrdered
    <3>2. \A h \in 1..(i - 1) : Same(k[h], m[h])
      BY <1>1, <1>2, <2>3
    <3> QED
      BY <3>1, <3>2 DEF KeyLess, IsKey, Same
  <2> QED
    BY <2>1, <2>2, <2>3
<1>3. KeyLess(k, l) /\ KeyLess(l, m) => KeyLess(k, m)
  BY <1>2 DEF KeyLess, IsKey, Same
<1>4. ASSUME KeyLess(k, l), \A i \in 1..n : Same(l[i], m[i])
      PROVE  KeyLess(k, m)
  BY <1>1, <1>4 DEF KeyLess, IsKey, Same
<1>5. ASSUME KeyLess(l, m), \A i \in 1..n : Same(k[i], l[i])
      PROVE  KeyLess(k, m)
  BY <1>1, <1>5 DEF KeyLess, IsKey, Same
<1>6. ~KeyLess(k, k)
  BY <1>1 DEF KeyLess, IsKey
<1>7. ~KeyLess(m, l) => KeyLess(l, m) \/ \A i \in 1..n : Same(l[i], m[i])
  BY SameKeys
<1>8. ~KeyLess(l, k) => KeyLess(k, l) \/ \A i \in 1..n : Same(k[i], l[i])
  BY SameKeys
<1> QED
  BY <1>3, <1>4, <1>5, <1>6, <1>7, <1>8

(* max finds a candidate: none has a better key, and in particular none has *)
(* a better first place.                                                    *)
LEMMA FirstBestIsBest ==
  ASSUME NEW C, IsFiniteSet(C), C # {}, \A c \in C : c.threshold \in Int,
         NEW n \in Nat, n >= 1, NEW key, \A c \in C : IsKey(key[c], n)
  PROVE  /\ FirstBest(C, key) \in C
         /\ \A d \in C : ~Less(key[FirstBest(C, key)][1], key[d][1])
<1>1. PICK R : R = {p \in C \X C : \/ KeyLess(key[p[1]], key[p[2]])
                                   \/ /\ ~KeyLess(key[p[2]], key[p[1]])
                                      /\ p[1].threshold < p[2].threshold}
  OBVIOUS
<1>2. \A x, y \in C : <<x, y>> \in R <=> \/ KeyLess(key[x], key[y])
                                         \/ /\ ~KeyLess(key[y], key[x])
                                            /\ x.threshold < y.threshold
  BY <1>1
<1>3. \A x, y, z \in C :
        /\ ~KeyLess(key[x], key[x])
        /\ KeyLess(key[x], key[y]) /\ KeyLess(key[y], key[z]) => KeyLess(key[x], key[z])
        /\ KeyLess(key[x], key[y]) /\ ~KeyLess(key[z], key[y]) => KeyLess(key[x], key[z])
        /\ ~KeyLess(key[y], key[x]) /\ KeyLess(key[y], key[z]) => KeyLess(key[x], key[z])
  BY KeysOrdered
<1>4. \A x \in C : <<x, x>> \notin R
  BY <1>2, <1>3
<1>5. ASSUME NEW x \in C, NEW y \in C, NEW z \in C, <<x, y>> \in R, <<y, z>> \in R
      PROVE  <<x, z>> \in R
  <2>1. PICK i \in Int, j \in Int, k \in Int : i = x.threshold /\ j = y.threshold /\ k = z.threshold
    OBVIOUS
  <2>2. CASE KeyLess(key[x], key[y]) \/ KeyLess(key[y], key[z])
    <3>1. KeyLess(key[x], key[y]) \/ ~KeyLess(key[y], key[x])
      BY <1>2, <1>5
    <3>2. KeyLess(key[y], key[z]) \/ ~KeyLess(key[z], key[y])
      BY <1>2, <1>5
    <3>3. ~KeyLess(key[y], key[x])
      BY <1>3, <3>1
    <3>4. ~KeyLess(key[z], key[y])
      BY <1>3, <3>2
    <3>5. KeyLess(key[x], key[z])
      BY <1>3, <2>2, <3>3, <3>4
    <3> QED
      BY <1>2, <3>5
  <2>3. CASE ~KeyLess(key[x], key[y]) /\ ~KeyLess(key[y], key[z])
    <3>1. ~KeyLess(key[y], key[x]) /\ i < j /\ ~KeyLess(key[z], key[y]) /\ j < k
      BY <1>2, <1>5, <2>1, <2>3
    <3>2. ~KeyLess(key[z], key[x]) /\ i < k
      BY <1>3, <2>3, <3>1
    <3> QED
      BY <1>2, <2>1, <3>2
  <2> QED
    BY <2>2, <2>3
<1>6. PICK m \in C : \A x \in C : <<m, x>> \notin R
  <2>1. \A x, y, z \in C : <<x, y>> \in R /\ <<y, z>> \in R => <<x, z>> \in R
    BY <1>5
  <2> QED
    BY <1>4, <2>1, BestElement
<1>7. \A d \in C : /\ ~KeyLess(key[m], key[d])
                   /\ ~KeyLess(key[d], key[m]) => d.threshold <= m.threshold
  <2> SUFFICES ASSUME NEW d \in C
               PROVE  /\ ~KeyLess(key[m], key[d])
                      /\ ~KeyLess(key[d], key[m]) => d.threshold <= m.threshold
    OBVIOUS
  <2>1. PICK i \in Int, j \in Int : i = m.threshold /\ j = d.threshold
    OBVIOUS
  <2>2. ~KeyLess(key[m], key[d]) /\ (~KeyLess(key[d], key[m]) => ~(i < j))
    BY <1>2, <1>6, <2>1
  <2> QED
    BY <2>1, <2>2
<1>8. PICK b : b = FirstBest(C, key)
  OBVIOUS
<1>9. b \in C /\ \A d \in C : ~KeyLess(key[b], key[d])
  BY <1>7, <1>8 DEF FirstBest
<1>10. \A d \in C : ~Less(key[b][1], key[d][1])
  <2> SUFFICES ASSUME NEW d \in C, Less(key[b][1], key[d][1])
               PROVE  KeyLess(key[b], key[d])
    BY <1>9
  <2>1. 1 \in DOMAIN key[b] /\ 1..(1 - 1) = {}
    BY <1>9 DEF IsKey
  <2> QED
    BY <2>1 DEF KeyLess
<1> QED
  BY <1>8, <1>9, <1>10

(* What is counted are natural numbers, and no more windows are found than  *)
(* there are malicious ones.                                                *)
LEMMA CountedFacts ==
  ASSUME NEW I, IsFiniteSet(I), NEW label, NEW f, NEW t
  PROVE  LET c == Counted(I, label, f, t) IN
         /\ c.threshold = t /\ c.alerts \in Nat /\ c.tp \in Nat /\ c.fp \in Nat
         /\ c.tp <= c.alerts /\ c.tp <= Cardinality(Malicious(label, I))
<1>1. PICK A : A = {i \in I : f[i] >= t}
  OBVIOUS
<1>2. PICK M : M = Malicious(label, A)
  OBVIOUS
<1>3. A \subseteq I /\ M \subseteq A /\ M \subseteq Malicious(label, I) /\ Malicious(label, I) \subseteq I
  BY <1>1, <1>2 DEF Malicious
<1>4. IsFiniteSet(A) /\ IsFiniteSet(M) /\ IsFiniteSet(A \ M) /\ IsFiniteSet(Malicious(label, I))
  BY <1>3, FS_Subset
<1>5. /\ Cardinality(A) \in Nat /\ Cardinality(M) \in Nat /\ Cardinality(A \ M) \in Nat
      /\ Cardinality(M) <= Cardinality(A) /\ Cardinality(M) <= Cardinality(Malicious(label, I))
  BY <1>3, <1>4, FS_CardinalityType, FS_Subset
<1>6. Counted(I, label, f, t)
      = [threshold |-> t, alerts |-> Cardinality(A), tp |-> Cardinality(M), fp |-> Cardinality(A \ M)]
  BY <1>1, <1>2 DEF Counted
<1> QED
  BY <1>5, <1>6

(* There is a highest score, and a threshold above it raises nothing.       *)
LEMMA NoAlertsExists ==
  ASSUME NEW I, IsFiniteSet(I), I # {}, NEW f, \A i \in I : f[i] \in Int, NEW label
  PROVE  /\ \E c \in NoAlerts(I, f) : c.alerts = 0 /\ c.fp = 0
         /\ \A c \in NoAlerts(I, f) : c = Counted(I, label, f, c.threshold) /\ c.threshold \in Int
<1>1. PICK R : R = {p \in I \X I : f[p[1]] < f[p[2]]}
  OBVIOUS
<1>2. \A x, y \in I : <<x, y>> \in R <=> f[x] < f[y]
  BY <1>1
<1>3. PICK m \in I : \A x \in I : <<m, x>> \notin R
  <2>1. \A x \in I : <<x, x>> \notin R
    BY <1>2
  <2>2. \A x, y, z \in I : <<x, y>> \in R /\ <<y, z>> \in R => <<x, z>> \in R
    BY <1>2
  <2> QED
    BY <2>1, <2>2, BestElement
<1>4. ASSUME NEW k \in I
      PROVE  f[k] <= f[m]
  <2>1. PICK x \in Int, y \in Int : x = f[k] /\ y = f[m]
    OBVIOUS
  <2>2. ~(y < x)
    BY <1>2, <1>3, <2>1
  <2> QED
    BY <2>1, <2>2
<1>5. [threshold |-> f[m] + 1, alerts |-> 0, tp |-> 0, fp |-> 0] \in NoAlerts(I, f)
  BY <1>4 DEF NoAlerts
<1>6. ASSUME NEW c \in NoAlerts(I, f)
      PROVE  c = Counted(I, label, f, c.threshold) /\ c.threshold \in Int
  <2>1. PICK i \in I : /\ \A k \in I : f[k] <= f[i]
                       /\ c = [threshold |-> f[i] + 1, alerts |-> 0, tp |-> 0, fp |-> 0]
    BY DEF NoAlerts
  <2>2. PICK t \in Int : t = f[i] + 1 /\ c.threshold = t
    BY <2>1
  <2>3. {k \in I : f[k] >= t} = {}
    BY <2>1, <2>2
  <2>4. Malicious(label, {}) = {} /\ {} \ {} = {} /\ Cardinality({}) = 0
    BY FS_EmptySet DEF Malicious
  <2>5. Counted(I, label, f, t) = [threshold |-> t, alerts |-> 0, tp |-> 0, fp |-> 0]
    BY <2>3, <2>4 DEF Counted
  <2> QED
    BY <2>1, <2>2, <2>5
<1> QED
  BY <1>5, <1>6

\* The counts of a candidate, where pos windows are malicious
IsCandidate(c, pos) ==
  /\ c.threshold \in Int /\ c.alerts \in Nat /\ c.tp \in Nat /\ c.fp \in Nat
  /\ c.tp <= c.alerts /\ c.tp <= pos

(* Both keys are tuples of rates, and the first one is the recall.          *)
LEMMA KeysOfCandidates ==
  ASSUME NEW pos \in Nat, NEW neg \in Nat, NEW c, IsCandidate(c, pos)
  PROVE  /\ IsKey(FprKey(c, pos, neg), 5) /\ FprKey(c, pos, neg)[1] = Rate(c.tp, pos)
         /\ IsKey(PerDayKey(c, pos), 4) /\ PerDayKey(c, pos)[1] = Rate(c.tp, pos)
<1>1. PICK a \in Nat, t \in Nat, u \in Nat : a = c.alerts /\ t = c.tp /\ u = c.fp /\ t <= a
  BY DEF IsCandidate
<1>2. \A x \in Int, y \in Nat : IsRate(Rate(x, y))
  BY DEF IsRate, Rate
<1>3. IsRate(F1(c, pos))
  BY <1>1 DEF IsRate, F1
<1>4. IsRate(<<a, 1>>)
  BY DEF IsRate
<1>5. FprKey(c, pos, neg) = <<Rate(t, pos), F1(c, pos), Rate(t, a), Rate(-u, neg), <<a, 1>>>>
  BY <1>1 DEF FprKey
<1>6. PerDayKey(c, pos) = <<Rate(t, pos), <<a, 1>>, F1(c, pos), Rate(t, a)>>
  BY <1>1 DEF PerDayKey
<1>7. IsRate(Rate(t, pos)) /\ IsRate(Rate(t, a)) /\ IsRate(Rate(-u, neg))
  BY <1>2
<1>8. IsKey(FprKey(c, pos, neg), 5)
  BY <1>3, <1>4, <1>5, <1>7 DEF IsKey
<1>9. IsKey(PerDayKey(c, pos), 4)
  BY <1>3, <1>4, <1>6, <1>7 DEF IsKey
<1> QED
  BY <1>1, <1>5, <1>6, <1>8, <1>9

(* No higher recall means that no more malicious windows are found.         *)
LEMMA RecallDecides ==
  ASSUME NEW pos \in Nat, NEW c, NEW d, IsCandidate(c, pos), IsCandidate(d, pos),
         ~Less(Rate(c.tp, pos), Rate(d.tp, pos))
  PROVE  d.tp <= c.tp
<1>1. PICK x \in Nat, y \in Nat : x = c.tp /\ y = d.tp /\ x <= pos /\ y <= pos
  BY DEF IsCandidate
<1>2. CASE pos = 0
  BY <1>1, <1>2
<1>3. CASE pos # 0
  <2>1. Rate(x, pos) = <<x, pos>> /\ Rate(y, pos) = <<y, pos>>
    BY <1>3 DEF Rate
  <2>2. ~(x * pos < y * pos)
    BY <1>1, <2>1 DEF Less
  <2>3. x * pos \in Int /\ y * pos \in Int /\ pos \in Nat \ {0}
    BY <1>3
  <2>4. y * pos <= x * pos
    BY <2>2, <2>3
  <2> QED
    BY <1>1, <2>3, <2>4, Factor
<1> QED
  BY <1>2, <1>3

(* The candidate that max takes for a budget finds as many as any of them.  *)
LEMMA BestWithinBudget ==
  ASSUME NEW C, IsFiniteSet(C), C # {}, NEW pos \in Nat, NEW neg \in Nat,
         \A c \in C : IsCandidate(c, pos),
         NEW key, \/ \A c \in C : key[c] = FprKey(c, pos, neg)
                  \/ \A c \in C : key[c] = PerDayKey(c, pos),
         NEW b, b = FirstBest(C, key)
  PROVE  b \in C /\ \A d \in C : d.tp <= b.tp
<1>1. \A c \in C : c.threshold \in Int
  BY DEF IsCandidate
<1>2. ASSUME NEW n \in Nat, n >= 1, \A c \in C : IsKey(key[c], n) /\ key[c][1] = Rate(c.tp, pos)
      PROVE  b \in C /\ \A d \in C : d.tp <= b.tp
  <2>1. b \in C /\ \A d \in C : ~Less(key[b][1], key[d][1])
    BY <1>1, <1>2, FirstBestIsBest
  <2> QED
    BY <1>2, <2>1, RecallDecides
<1>3. CASE \A c \in C : key[c] = FprKey(c, pos, neg)
  <2>1. \A c \in C : IsKey(key[c], 5) /\ key[c][1] = Rate(c.tp, pos)
    BY <1>3, KeysOfCandidates
  <2>2. 5 \in Nat /\ 5 >= 1
    OBVIOUS
  <2> QED
    BY <1>2, <2>1, <2>2
<1>4. CASE \A c \in C : key[c] = PerDayKey(c, pos)
  <2>1. \A c \in C : IsKey(key[c], 4) /\ key[c][1] = Rate(c.tp, pos)
    BY <1>4, KeysOfCandidates
  <2>2. 4 \in Nat /\ 4 >= 1
    OBVIOUS
  <2> QED
    BY <1>2, <2>1, <2>2
<1> QED
  BY <1>3, <1>4

(* The image of a finite set is finite.                                     *)
LEMMA ImageFinite ==
  ASSUME NEW S, IsFiniteSet(S), NEW f
  PROVE  IsFiniteSet({f[x] : x \in S})
<1>1. [x \in S |-> f[x]] \in Surjection(S, {f[x] : x \in S})
  BY DEF Surjection
<1> QED
  BY <1>1, FS_Surjection

\* The candidates, once the loop has reached the windows of D
CandidatesOf(I, label, f, D) == NoAlerts(I, f) \union {Counted(I, label, f, f[i]) : i \in D}

(* The candidates are finitely many, and each is what its threshold counts. *)
LEMMA CandidateFacts ==
  ASSUME NEW I, IsFiniteSet(I), I # {}, NEW f, \A i \in I : f[i] \in Int, NEW label
  PROVE  LET C == CandidatesOf(I, label, f, I) IN
         /\ IsFiniteSet(C)
         /\ \A c \in C : /\ IsCandidate(c, Cardinality(Malicious(label, I)))
                         /\ c = Counted(I, label, f, c.threshold)
         /\ \A i \in I : Counted(I, label, f, f[i]) \in C
         /\ \E c \in C : c.alerts = 0 /\ c.fp = 0
<1>1. PICK C : C = CandidatesOf(I, label, f, I)
  OBVIOUS
<1>2. PICK g : g = [i \in I |-> Counted(I, label, f, f[i])]
  OBVIOUS
<1>3. PICK h : h = [i \in I |-> [threshold |-> f[i] + 1, alerts |-> 0, tp |-> 0, fp |-> 0]]
  OBVIOUS
<1>4. IsFiniteSet({g[i] : i \in I}) /\ IsFiniteSet({h[i] : i \in I})
  BY ImageFinite
<1>5. NoAlerts(I, f) \subseteq {h[i] : i \in I}
  BY <1>3 DEF NoAlerts
<1>6. C = NoAlerts(I, f) \union {g[i] : i \in I}
  BY <1>1, <1>2 DEF CandidatesOf
<1>7. IsFiniteSet(C)
  BY <1>4, <1>5, <1>6, FS_Subset, FS_Union
<1>8. \A i \in I : Counted(I, label, f, f[i]) \in C
  BY <1>2, <1>6
<1>9. \E c \in C : c.alerts = 0 /\ c.fp = 0
  BY <1>6, NoAlertsExists
<1>10. ASSUME NEW c \in C
       PROVE  /\ IsCandidate(c, Cardinality(Malicious(label, I)))
              /\ c = Counted(I, label, f, c.threshold)
  <2>1. PICK t \in Int : c = Counted(I, label, f, t)
    <3>1. CASE c \in NoAlerts(I, f)
      BY <3>1, NoAlertsExists
    <3>2. CASE c \in {g[i] : i \in I}
      BY <1>2, <3>2
    <3> QED
      BY <1>6, <3>1, <3>2
  <2>2. /\ c.threshold = t /\ c.alerts \in Nat /\ c.tp \in Nat /\ c.fp \in Nat
        /\ c.tp <= c.alerts /\ c.tp <= Cardinality(Malicious(label, I))
    BY <2>1, CountedFacts
  <2> QED
    BY <2>1, <2>2 DEF IsCandidate
<1> QED
  BY <1>1, <1>7, <1>8, <1>9, <1>10

\* BudgetKept, of a choice for a goal
WithinGoal(goal, ch, raised, I, label, f, percent, neg, span, perDay) ==
  \/ /\ ch.source = "training_quantile"
     /\ IF goal = "target-alerts-per-day" THEN span = 0 ELSE ~Binary(label, I)
  \/ /\ ch.source = goal /\ goal = "target-fpr"
     /\ raised.fp * 100 <= percent * neg
     /\ \A i \in I : Counted(I, label, f, f[i]).fp * 100 <= percent * neg
                       => Counted(I, label, f, f[i]).tp <= raised.tp
  \/ /\ ch.source = goal /\ goal = "target-alerts-per-day"
     /\ raised.alerts <= perDay * span
     /\ \A i \in I : Counted(I, label, f, f[i]).alerts <= perDay * span
                       => Counted(I, label, f, f[i]).tp <= raised.tp
  \/ ch.source = goal /\ goal = "best-f1"

(* Whatever threshold is selected, the budget it was selected for holds     *)
(* when it is applied, and none of the scores would find more within it.    *)
LEMMA SelectedKeepsBudget ==
  ASSUME NEW I, IsFiniteSet(I), I # {}, NEW f, \A i \in I : f[i] \in Int, NEW label,
         NEW goal, goal \in Objectives \ {"none"}, NEW base,
         NEW percent \in Nat, NEW span \in Nat, NEW perDay \in Nat,
         NEW ch, ch = Selected(goal, CandidatesOf(I, label, f, I), I, label, f, base,
                               percent, span, perDay),
         NEW raised, raised = Counted(I, label, f, ch.threshold),
         NEW neg, neg = Cardinality(I \ Malicious(label, I))
  PROVE  WithinGoal(goal, ch, raised, I, label, f, percent, neg, span, perDay)
<1> USE DEF WithinGoal
<1>1. PICK C : C = CandidatesOf(I, label, f, I)
  OBVIOUS
<1>2. PICK pos : pos = Cardinality(Malicious(label, I))
  OBVIOUS
<1>3. pos \in Nat /\ neg \in Nat /\ Cardinality(I) - pos = neg
  <2>1. Malicious(label, I) \subseteq I /\ I \intersect Malicious(label, I) = Malicious(label, I)
    BY DEF Malicious
  <2>2. IsFiniteSet(Malicious(label, I)) /\ IsFiniteSet(I \ Malicious(label, I))
    BY <2>1, FS_Subset
  <2>3. pos \in Nat /\ neg \in Nat /\ Cardinality(I) \in Nat
    BY <1>2, <2>2, FS_CardinalityType
  <2> QED
    BY <1>2, <2>1, <2>3, FS_Difference
<1>4. /\ IsFiniteSet(C)
      /\ \A c \in C : IsCandidate(c, pos) /\ c = Counted(I, label, f, c.threshold)
      /\ \A i \in I : Counted(I, label, f, f[i]) \in C
      /\ \E c \in C : c.alerts = 0 /\ c.fp = 0
  BY <1>1, <1>2, CandidateFacts
<1>5. PICK fpr, daily : fpr = WithinFpr(C, neg, percent) /\ daily = WithinPerDay(C, span, perDay)
  OBVIOUS
<1>6. ch = IF goal = "best-f1" /\ Binary(label, I)
           THEN Chosen(BestF1(I, label, f), goal)
           ELSE IF goal = "target-fpr" /\ Binary(label, I) /\ fpr # {}
           THEN Chosen(FirstBest(fpr, [c \in fpr |-> FprKey(c, pos, neg)]), goal)
           ELSE IF goal = "target-alerts-per-day" /\ daily # {}
           THEN Chosen(FirstBest(daily, [c \in daily |-> PerDayKey(c, pos)]), goal)
           ELSE [threshold |-> base, source |-> "training_quantile"]
  BY <1>1, <1>2, <1>3, <1>5 DEF Selected
<1>7. /\ fpr = {c \in C : neg # 0 /\ c.fp * 100 <= percent * neg}
      /\ daily = {c \in C : span # 0 /\ c.alerts <= perDay * span}
  BY <1>5 DEF WithinFpr, WithinPerDay
<1>8. PICK none \in C : none.alerts = 0 /\ none.fp = 0
  BY <1>4
<1>9. CASE goal = "best-f1"
  BY <1>6, <1>9 DEF Chosen
<1>10. CASE goal = "target-fpr"
  <2>1. CASE ~Binary(label, I)
    BY <1>6, <1>10, <2>1
  <2>2. CASE Binary(label, I)
    <3>1. neg # 0
      <4>1. I \ Malicious(label, I) # {}
        BY <2>2 DEF Binary, Malicious
      <4>2. IsFiniteSet(I \ Malicious(label, I))
        BY FS_Difference
      <4> QED
        BY <4>1, <4>2, FS_EmptySet
    <3>2. none.fp * 100 <= percent * neg
      <4>1. percent * neg \in Nat
        BY <1>3
      <4> QED
        BY <1>8, <4>1
    <3>3. fpr # {}
      BY <1>7, <1>8, <3>1, <3>2
    <3>4. PICK key, b : key = [c \in fpr |-> FprKey(c, pos, neg)] /\ b = FirstBest(fpr, key)
      OBVIOUS
    <3>5. b \in fpr /\ \A d \in fpr : d.tp <= b.tp
      <4>1. fpr \subseteq C /\ IsFiniteSet(fpr) /\ \A c \in fpr : IsCandidate(c, pos)
        BY <1>4, <1>7, FS_Subset
      <4>2. \A c \in fpr : key[c] = FprKey(c, pos, neg)
        BY <3>4
      <4> QED
        BY <1>3, <3>3, <3>4, <4>1, <4>2, BestWithinBudget
    <3>6. ch.threshold = b.threshold /\ ch.source = goal
      BY <1>6, <1>10, <2>2, <3>3, <3>4 DEF Chosen
    <3>7. raised = b /\ raised.fp * 100 <= percent * neg
      BY <1>4, <1>7, <3>5, <3>6
    <3>8. ASSUME NEW i \in I, Counted(I, label, f, f[i]).fp * 100 <= percent * neg
          PROVE  Counted(I, label, f, f[i]).tp <= raised.tp
      <4>1. Counted(I, label, f, f[i]) \in fpr
        BY <1>4, <1>7, <3>1, <3>8
      <4> QED
        BY <3>5, <3>7, <4>1
    <3> QED
      BY <1>10, <3>6, <3>7, <3>8
  <2> QED
    BY <2>1, <2>2
<1>11. CASE goal = "target-alerts-per-day"
  <2>1. CASE span = 0
    <3>1. daily = {}
      BY <1>7, <2>1
    <3> QED
      BY <1>6, <1>11, <2>1, <3>1
  <2>2. CASE span # 0
    <3>1. none.alerts <= perDay * span
      <4>1. perDay * span \in Nat
        OBVIOUS
      <4> QED
        BY <1>8, <4>1
    <3>2. daily # {}
      BY <1>7, <1>8, <2>2, <3>1
    <3>3. PICK key, b : key = [c \in daily |-> PerDayKey(c, pos)] /\ b = FirstBest(daily, key)
      OBVIOUS
    <3>4. b \in daily /\ \A d \in daily : d.tp <= b.tp
      <4>1. daily \subseteq C /\ IsFiniteSet(daily) /\ \A c \in daily : IsCandidate(c, pos)
        BY <1>4, <1>7, FS_Subset
      <4>2. \A c \in daily : key[c] = PerDayKey(c, pos)
        BY <3>3
      <4> QED
        BY <1>3, <3>2, <3>3, <4>1, <4>2, BestWithinBudget
    <3>5. ch.threshold = b.threshold /\ ch.source = goal
      BY <1>6, <1>11, <3>2, <3>3 DEF Chosen
    <3>6. raised = b /\ raised.alerts <= perDay * span
      BY <1>4, <1>7, <3>4, <3>5
    <3>7. ASSUME NEW i \in I, Counted(I, label, f, f[i]).alerts <= perDay * span
          PROVE  Counted(I, label, f, f[i]).tp <= raised.tp
      <4>1. Counted(I, label, f, f[i]) \in daily
        BY <1>4, <1>7, <2>2, <3>7
      <4> QED
        BY <3>4, <3>6, <4>1
    <3> QED
      BY <1>11, <3>5, <3>6, <3>7
  <2> QED
    BY <2>1, <2>2
<1> QED
  BY <1>9, <1>10, <1>11 DEF Objectives

Holdout == part["calibration"]

\* The candidates so far are those of the windows with the higher scores
CountInv ==
  /\ score \in [Holdout -> Scores] /\ left \subseteq Holdout /\ days \in Nat
  /\ \A i \in left, k \in Holdout \ left : score[i] < score[k]
  /\ candidates = CandidatesOf(Holdout, dataset.label, score, Holdout \ left)

BudgetInv ==
  /\ TrainingInv
  /\ stage \notin {"idle", "split", "failed"} /\ objective = "none" => Holdout = {}
  /\ stage \in {"calibrate", "count"} => Holdout # {}
  /\ stage = "count" => CountInv
  /\ BudgetKept

(* The holdout is finite.                                                   *)
LEMMA HoldoutFinite ==
  ASSUME TrainingInv, stage \notin {"idle", "split", "failed"}
  PROVE  IsFiniteSet(Holdout)
<1>1. PICK a \in Int, b \in Nat : Used = a..b
  <2>1. Started
    BY DEF TrainingInv
  <2> QED
    BY <2>1, UsedIsInterval DEF UsedFrom
<1>2. Holdout \in SUBSET (a..b)
  BY <1>1 DEF TrainingInv, PartsInOrder, Parts, Holdout
<1>3. IsFiniteSet(a..b)
  BY FS_Interval
<1> QED
  BY <1>2, <1>3, FS_Subset

(* The windows with the highest score that is left, and those before them,  *)
(* are the ones whose scores reach it.                                      *)
LEMMA GroupReaches ==
  ASSUME NEW I, NEW f, \A i \in I : f[i] \in Int, NEW L, L \subseteq I,
         \A i \in L, k \in I \ L : f[i] < f[k],
         NEW G, G = {i \in L : \A j \in L : f[j] <= f[i]}
  PROVE  /\ I \ (L \ G) = (I \ L) \union G
         /\ \A i \in L \ G, k \in I \ (L \ G) : f[i] < f[k]
         /\ \A i \in G : {k \in I : f[k] >= f[i]} = (I \ L) \union G
<1>1. G \subseteq L
  OBVIOUS
<1>2. ASSUME NEW i \in L \ G, NEW k \in I \ (L \ G)
      PROVE  f[i] < f[k]
  <2>1. CASE k \in I \ L
    BY <2>1
  <2>2. CASE k \in G
    <3>1. PICK j \in L : ~(f[j] <= f[i])
      OBVIOUS
    <3>2. f[j] <= f[k]
      BY <2>2, <3>1
    <3>3. PICK x \in Int, y \in Int, z \in Int : x = f[i] /\ y = f[j] /\ z = f[k]
      OBVIOUS
    <3>4. ~(y <= x) /\ y <= z
      BY <3>1, <3>2, <3>3
    <3>5. x < z
      BY <3>4
    <3> QED
      BY <3>3, <3>5
  <2> QED
    BY <2>1, <2>2
<1>3. ASSUME NEW i \in G, NEW k \in I
      PROVE  f[k] >= f[i] <=> k \in (I \ L) \union G
  <2>1. PICK x \in Int, z \in Int : x = f[i] /\ z = f[k]
    OBVIOUS
  <2>2. CASE k \in I \ L
    <3>1. x < z
      BY <1>1, <2>1, <2>2
    <3>2. z >= x
      BY <3>1
    <3> QED
      BY <2>1, <2>2, <3>2
  <2>3. CASE k \in L
    <3>1. k \in G => x <= z
      BY <1>1, <2>1
    <3>2. ASSUME z >= x, NEW j \in L
          PROVE  f[j] <= f[k]
      <4>1. PICK y \in Int : y = f[j]
        BY <3>2
      <4>2. y <= x
        BY <2>1, <3>2, <4>1
      <4>3. y <= z
        BY <3>2, <4>2
      <4> QED
        BY <2>1, <4>1, <4>3
    <3>3. z >= x => k \in G
      BY <2>3, <3>2
    <3>4. z >= x <=> k \in G
      BY <3>1, <3>3
    <3> QED
      BY <2>1, <2>3, <3>4
  <2> QED
    BY <2>2, <2>3
<1> QED
  BY <1>1, <1>2, <1>3

(* One group more, and the candidates are still those of the higher scores. *)
LEMMA CountKeeps ==
  ASSUME BudgetInv, Count
  PROVE  BudgetInv'
<1>1. stage = "count" /\ UNCHANGED <<input, stage, part, score, days>>
  BY DEF Count
<1>2. TrainingInv'
  BY TrainingStep DEF TrainingNext, BudgetInv
<1>3. PICK I, f, L, G, label :
        I = Holdout /\ f = score /\ L = left /\ G = Top /\ label = dataset.label
  OBVIOUS
<1>4. /\ \A i \in I : f[i] \in Int
      /\ f \in [I -> Scores] /\ L \subseteq I /\ days \in Nat
      /\ \A i \in L, k \in I \ L : f[i] < f[k]
      /\ G = {i \in L : \A j \in L : f[j] <= f[i]}
      /\ candidates = CandidatesOf(I, label, f, I \ L)
  BY <1>1, <1>3, TrainingAssumption DEF BudgetInv, CountInv, Top
<1>5. /\ I \ (L \ G) = (I \ L) \union G
      /\ \A i \in L \ G, k \in I \ (L \ G) : f[i] < f[k]
      /\ \A i \in G : {k \in I : f[k] >= f[i]} = (I \ L) \union G
  BY <1>4, GroupReaches
<1>6. left' = L \ G /\ score' = f /\ Holdout' = I /\ dataset'.label = label /\ days' = days
  BY <1>1, <1>3 DEF Count, NextGroup, Holdout, input
<1>7. PICK D : D = (I \ L) \union G
  OBVIOUS
<1>8. candidates' = candidates \union
        {[threshold |-> f[i], alerts |-> Cardinality(D),
          tp |-> Cardinality(Malicious(label, D)),
          fp |-> Cardinality(D \ Malicious(label, D))] : i \in G}
  BY <1>3, <1>7 DEF Count, NextGroup, Holdout
<1>9. \A i \in G : Counted(I, label, f, f[i])
                   = [threshold |-> f[i], alerts |-> Cardinality(D),
                      tp |-> Cardinality(Malicious(label, D)),
                      fp |-> Cardinality(D \ Malicious(label, D))]
  BY <1>5, <1>7 DEF Counted
<1>10. candidates' = CandidatesOf(I, label, f, D)
  <2>1. candidates' = candidates \union {Counted(I, label, f, f[i]) : i \in G}
    BY <1>8, <1>9
  <2>2. {Counted(I, label, f, f[i]) : i \in D}
        = {Counted(I, label, f, f[i]) : i \in I \ L} \union {Counted(I, label, f, f[i]) : i \in G}
    BY <1>7
  <2> QED
    BY <1>4, <2>1, <2>2 DEF CandidatesOf
<1>11. CountInv'
  BY <1>4, <1>5, <1>6, <1>7, <1>10 DEF CountInv
<1> QED
  BY <1>1, <1>2, <1>11 DEF BudgetInv, BudgetKept, Calibrated, Holdout, input

(* The choice keeps the budget.                                             *)
LEMMA ChoiceKeeps ==
  ASSUME BudgetInv, Choose
  PROVE  BudgetInv'
<1>1. stage = "count" /\ left = {} /\ UNCHANGED <<input, part, score, days>> /\ stage' = "finish"
  BY DEF Choose
<1>2. TrainingInv'
  BY TrainingStep DEF TrainingNext, BudgetInv
<1>3. PICK I, f, label, neg, span :
        /\ I = Holdout /\ f = score /\ label = dataset.label /\ span = days
        /\ neg = Cardinality(I \ Malicious(label, I))
  OBVIOUS
<1>4. IsFiniteSet(I) /\ I # {} /\ objective \in Objectives \ {"none"}
  BY <1>1, <1>3, HoldoutFinite DEF BudgetInv, TrainingInv, Started
<1>5. /\ \A i \in I : f[i] \in Int
      /\ span \in Nat /\ candidates = CandidatesOf(I, label, f, I)
  <2>1. I \ left = I
    BY <1>1
  <2>2. f \in [I -> Scores] /\ span \in Nat /\ candidates = CandidatesOf(I, label, f, I \ left)
    BY <1>1, <1>3 DEF BudgetInv, CountInv
  <2>3. \A i \in I : f[i] \in Int
    BY <2>2, TrainingAssumption
  <2> QED
    BY <2>1, <2>2, <2>3
<1>6. PICK percent \in Nat, perDay \in Nat : percent = FprTarget /\ perDay = PerDay
  BY TrainingAssumption
<1>7. PICK base, ch : /\ ch = Selected(objective, candidates, I, label, f, base, percent, span, perDay)
                      /\ choice' = ch
  BY <1>3, <1>6 DEF Choose, Holdout
<1>8. PICK raised : raised = Counted(I, label, f, ch.threshold)
  OBVIOUS
<1>9. WithinGoal(objective, ch, raised, I, label, f, percent, neg, span, perDay)
  <2>1. PICK goal : goal = objective /\ goal \in Objectives \ {"none"}
    BY <1>4
  <2>2. ch = Selected(goal, CandidatesOf(I, label, f, I), I, label, f, base, percent, span, perDay)
    BY <1>5, <1>7, <2>1
  <2>3. neg = Cardinality(I \ Malicious(label, I))
    BY <1>3
  <2>4. WithinGoal(goal, ch, raised, I, label, f, percent, neg, span, perDay)
    BY ONLY <1>4, <1>5, <1>8, <2>1, <2>2, <2>3, SelectedKeepsBudget
  <2> QED
    BY <2>1, <2>4
<1>10. /\ objective' = objective /\ part'["calibration"] = I /\ score' = f
       /\ dataset'.label = label /\ days' = span /\ Raised' = raised
  BY <1>1, <1>3, <1>7, <1>8 DEF input, Holdout, Raised
<1>11. \A c : Fits(c)' <=> IF objective = "target-fpr" THEN c.fp * 100 <= percent * neg
                           ELSE c.alerts <= perDay * span
  BY <1>3, <1>6, <1>10 DEF Fits, Benign
<1>12. BudgetKept'
  BY <1>7, <1>9, <1>10, <1>11 DEF BudgetKept, WithinGoal
<1> QED
  BY <1>1, <1>2, <1>4, <1>12 DEF BudgetInv, input

(* The parts and the scores of the holdout are what the count begins with.  *)
LEMMA CountBegins ==
  ASSUME BudgetInv,
         (\E c \in {"train", "evaluate", "tune"} : StartTraining(c)) \/ Split \/ Fit \/ ScoreHoldout
  PROVE  BudgetInv'
<1>1. TrainingInv'
  BY TrainingStep DEF TrainingNext, BudgetInv
<1>2. CASE \E c \in {"train", "evaluate", "tune"} : StartTraining(c)
  BY <1>1, <1>2 DEF StartTraining, BudgetInv, BudgetKept, Calibrated
<1>3. CASE Split
  <2>1. stage' = "failed" \/ stage' = "fit"
    BY <1>3 DEF Split, Fails
  <2>2. stage' = "fit" /\ objective' = "none" => Holdout' = {}
    BY <1>3 DEF Split, Fails, BudgetInv, TrainingInv, Started, input, Holdout
  <2> QED
    BY <1>1, <2>1, <2>2 DEF BudgetInv, BudgetKept, Calibrated
<1>4. CASE Fit
  <2>1. /\ stage = "fit" /\ UNCHANGED <<input, part>>
        /\ \/ stage' = "failed"
           \/ stage' = IF Holdout # {} THEN "calibrate" ELSE "finish"
    BY <1>4 DEF Fit, Fails, work, Holdout
  <2>2. Holdout' = Holdout /\ objective' = objective
    BY <2>1 DEF Holdout, input
  <2>3. ~Calibrated'
    BY <2>1, <2>2 DEF Calibrated, Holdout
  <2> QED
    BY <1>1, <2>1, <2>2, <2>3 DEF BudgetInv, BudgetKept
<1>5. CASE ScoreHoldout
  <2>1. /\ stage = "calibrate" /\ stage' = "count" /\ UNCHANGED <<input, part>>
        /\ score' \in [Holdout -> Scores] /\ days' \in Nat /\ left' = Holdout
        /\ candidates' = NoAlerts(left', score')
    BY <1>5, TrainingAssumption DEF ScoreHoldout, Holdout
  <2>2. Holdout' = Holdout /\ objective' = objective
    BY <2>1 DEF Holdout, input
  <2>3. CountInv'
    <3>1. Holdout' \ left' = {}
      BY <2>1, <2>2
    <3> QED
      BY <2>1, <2>2, <3>1 DEF CountInv, CandidatesOf
  <2> QED
    BY <1>1, <2>1, <2>2, <2>3 DEF BudgetInv, BudgetKept, Calibrated
<1> QED
  BY <1>2, <1>3, <1>4, <1>5

(* A threshold chosen for a budget keeps it when the holdout is scored with *)
(* it, and no other would find more within the budget, for any scores,      *)
(* labels, budgets and numbers of windows (_threshold_candidates,           *)
(* _select_calibration_threshold).                                          *)
THEOREM ChosenWithinBudget == Spec => []BudgetKept
<1>1. Init => BudgetInv
  BY DEF Init, TrainingInit, BudgetInv, TrainingInv, PartsInOrder, BudgetKept, Calibrated
<1>2. BudgetInv /\ [Next]_vars => BudgetInv'
  <2> SUFFICES ASSUME BudgetInv, TrainingNext \/ UNCHANGED trainingVars
               PROVE  BudgetInv'
    BY OneComponent
  <2>1. CASE (\E c \in {"train", "evaluate", "tune"} : StartTraining(c)) \/ Split \/ Fit \/ ScoreHoldout
    BY <2>1, CountBegins
  <2>2. CASE Count
    BY <2>2, CountKeeps
  <2>3. CASE Choose
    BY <2>3, ChoiceKeeps
  <2>4. CASE Finish
    <3>1. TrainingInv'
      BY <2>4, TrainingStep DEF TrainingNext, BudgetInv
    <3>2. stage = "finish" /\ stage' = "done" /\ UNCHANGED <<input, work>>
      BY <2>4 DEF Finish
    <3> QED
      BY <3>1, <3>2 DEF BudgetInv, BudgetKept, Calibrated, Holdout, input, work
  <2>5. CASE UNCHANGED trainingVars
    <3>1. TrainingInv'
      BY <2>5, TrainingStep DEF BudgetInv
    <3>2. UNCHANGED <<stage, input, part, score, days, left, candidates, choice>>
      BY <2>5 DEF trainingVars, work
    <3>3. BudgetKept' <=> BudgetKept
      BY <3>2 DEF BudgetKept, Calibrated, Raised, Fits, Benign, input
    <3>4. CountInv' <=> CountInv
      BY <3>2 DEF CountInv, Holdout, input
    <3> QED
      BY <3>1, <3>2, <3>3, <3>4 DEF BudgetInv, Holdout, input
  <2> QED
    BY <2>1, <2>2, <2>3, <2>4, <2>5 DEF TrainingNext
<1>3. BudgetInv => BudgetKept
  BY DEF BudgetInv
<1> QED
  BY <1>1, <1>2, <1>3, PTL DEF Spec
=============================================================================
