------------------------- MODULE EventAnalysis_proofs -------------------------
(***************************************************************************)
(* Proofs about what the commands make of any log: sums over events, the   *)
(* windows of the endpoints, the actors of the sessions and the lines of   *)
(* the files.                                                              *)
(***************************************************************************)
EXTENDS CommandLine_proofs

(* The units of a set come from its elements one by one.                    *)
LEMMA UnitsMember ==
  ASSUME NEW S, NEW value, NEW u
  PROVE  u \in Units(S, value) <=> \E x \in S : u \in {x} \X (1..value[x])
BY DEF Units

(* A finite set has finitely many units.                                    *)
LEMMA UnitsFinite ==
  ASSUME NEW S, IsFiniteSet(S), NEW value, \A x \in S : value[x] \in Nat
  PROVE  IsFiniteSet(Units(S, value))
<1> DEFINE blocks == [x \in S |-> {x} \X (1..value[x])]
<1>1. blocks \in Surjection(S, {{x} \X (1..value[x]) : x \in S})
  BY DEF Surjection
<1>2. IsFiniteSet({{x} \X (1..value[x]) : x \in S})
  BY <1>1, FS_Surjection
<1>3. ASSUME NEW x \in S
      PROVE  IsFiniteSet({x} \X (1..value[x]))
  <2>1. PICK n \in Nat : n = value[x]
    OBVIOUS
  <2>2. IsFiniteSet(1..n)
    BY FS_Interval
  <2>3. IsFiniteSet({x})
    BY FS_Singleton
  <2> QED
    BY <2>1, <2>2, <2>3, FS_Product
<1> QED
  BY <1>2, <1>3, FS_UNION DEF Units

(* An element more adds its value to the sum.                               *)
LEMMA TotalOfOneMore ==
  ASSUME NEW S, IsFiniteSet(S), NEW value, \A y \in S : value[y] \in Nat,
         NEW x, x \notin S, value[x] \in Nat
  PROVE  Total(S \union {x}, value) = Total(S, value) + value[x]
<1>1. PICK n \in Nat : n = value[x]
  OBVIOUS
<1>2. Units(S \union {x}, value) = Units(S, value) \union ({x} \X (1..n))
  <2>1. ASSUME NEW u
        PROVE  u \in Units(S \union {x}, value)
               <=> u \in Units(S, value) \/ u \in {x} \X (1..n)
    <3>1. u \in Units(S \union {x}, value) <=> \E y \in S \union {x} : u \in {y} \X (1..value[y])
      BY UnitsMember
    <3>2. u \in Units(S, value) <=> \E y \in S : u \in {y} \X (1..value[y])
      BY UnitsMember
    <3> QED
      BY <1>1, <3>1, <3>2
  <2> QED
    BY <2>1
<1>3. Units(S, value) \intersect ({x} \X (1..n)) = {}
  <2>1. ASSUME NEW u \in Units(S, value), u \in {x} \X (1..n)
        PROVE  FALSE
    <3>1. PICK y \in S : u \in {y} \X (1..value[y])
      BY <2>1, UnitsMember
    <3> QED
      BY <2>1, <3>1
  <2> QED
    BY <2>1
<1>4. IsFiniteSet(1..n) /\ Cardinality(1..n) = n
  BY FS_Interval
<1>5. IsFiniteSet({x}) /\ Cardinality({x}) = 1
  BY FS_Singleton
<1>6. IsFiniteSet({x} \X (1..n)) /\ Cardinality({x} \X (1..n)) = n
  <2>1. IsFiniteSet({x} \X (1..n)) /\ Cardinality({x} \X (1..n)) = Cardinality({x}) * Cardinality(1..n)
    BY <1>4, <1>5, FS_Product
  <2>2. Cardinality({x} \X (1..n)) = 1 * n
    BY <1>4, <1>5, <2>1
  <2> QED
    BY <2>1, <2>2
<1>7. IsFiniteSet(Units(S, value)) /\ Cardinality(Units(S, value)) \in Nat
  BY UnitsFinite, FS_CardinalityType
<1>8. Cardinality(Units(S, value) \union ({x} \X (1..n)))
      = Cardinality(Units(S, value)) + Cardinality({x} \X (1..n)) - Cardinality({})
  BY <1>3, <1>6, <1>7, FS_Union
<1>9. PICK k \in Nat : k = Cardinality(Units(S, value))
  BY <1>7
<1>10. Cardinality(Units(S, value) \union ({x} \X (1..n))) = k + n
  BY <1>6, <1>8, <1>9, FS_EmptySet
<1> QED
  BY <1>1, <1>2, <1>9, <1>10 DEF Total

(* A sum of naturals is one, and nothing for no elements.                   *)
LEMMA TotalIsNat ==
  ASSUME NEW S, IsFiniteSet(S), NEW value, \A y \in S : value[y] \in Nat
  PROVE  Total(S, value) \in Nat
BY UnitsFinite, FS_CardinalityType DEF Total

LEMMA TotalOfNone ==
  ASSUME NEW value
  PROVE  Total({}, value) = 0
<1>1. Units({}, value) = {}
  BY UnitsMember
<1> QED
  BY <1>1, FS_EmptySet DEF Total

(* No element has more than the sum.                                        *)
LEMMA TotalIsLarge ==
  ASSUME NEW S, IsFiniteSet(S), NEW value, \A y \in S : value[y] \in Nat, NEW x \in S
  PROVE  Total(S, value) >= value[x]
<1>1. IsFiniteSet(S \ {x}) /\ x \notin S \ {x} /\ S = (S \ {x}) \union {x}
  BY FS_RemoveElement
<1>2. PICK T : T = S \ {x}
  OBVIOUS
<1>3. Total(T \union {x}, value) = Total(T, value) + value[x]
  BY <1>1, <1>2, TotalOfOneMore
<1>4. Total(T, value) \in Nat
  BY <1>1, <1>2, TotalIsNat
<1>5. PICK m \in Nat, n \in Nat : m = value[x] /\ n = Total(T, value)
  BY <1>4
<1>6. Total(S, value) = n + m
  BY <1>1, <1>2, <1>3, <1>5
<1> QED
  BY <1>5, <1>6

-----------------------------------------------------------------------------
(* The windows of the endpoints.  A state is kept under the key that each   *)
(* of its events has, and has counted what these events show; windows are   *)
(* half-open and aligned, so that the key is the window that an event falls *)
(* into.                                                                    *)

KeyOf(e) == <<EndpointOf(e)[1], EndpointOf(e)[2], WindowStart(Instant(e))>>

\* The counted events that went under the key k
Under(k) == {e \in counted : EndpointOf(e) # Absent /\ KeyOf(e) = k}

AmountOf(e) == e.times * IF packets THEN e.sent ELSE e.sent + e.received

Tally(k, s) ==
  /\ s.n \in [WindowFeatures -> Nat] /\ s.out \in Nat /\ s.in \in Nat
  /\ s.n["event_count"] + s.n["packet_count"] = Total(Under(k), [e \in Events |-> e.times])
  /\ s.out + s.in = Total(Under(k), [e \in Events |-> AmountOf(e)])
  /\ \A f \in WindowFeatures : s.n[f] > 0 <=> \E e \in Under(k) : f \in Raises(e)
  /\ s.hashes # {} <=> \E e \in Under(k) : ~packets /\ e.hashes # {}

WindowsInv ==
  /\ packets \in BOOLEAN /\ seconds \in Nat \ {0} /\ networks \subseteq Addresses
  /\ counted \subseteq Events /\ toCount \subseteq Events /\ toCount \intersect counted = {}
  /\ step = "start" => counted = {}
  /\ step \in {"start", "count"} => windows = {} /\ loaded = {}
  /\ \A k : k \in DOMAIN states <=> Under(k) # {}
  /\ \A k \in DOMAIN states : Tally(k, states[k])
  /\ \A w \in windows : w.key \in DOMAIN states /\ w.label = WeakLabel(states[w.key])
  /\ step = "read" => file.rows = windows
  /\ loaded \subseteq windows

(* The window of a time is the one that begins at or before it and ends     *)
(* after it.                                                                *)
LEMMA AlignedWindow ==
  ASSUME NEW s \in Nat \ {0}, NEW t \in Nat, NEW u \in Nat
  PROVE  (u \div s) * s <= t /\ t < (u \div s) * s + s <=> (t \div s) * s = (u \div s) * s
<1>1. PICK p \in Nat : p = t \div s
  OBVIOUS
<1>2. PICK q \in Nat : q = u \div s
  OBVIOUS
<1>3. p * s <= t /\ t < p * s + s
  BY <1>1
<1>4. CASE p < q
  <2>1. p * s + s <= q * s
    <3>1. PICK r \in Nat : q = p + 1 + r
      <4>1. q - p - 1 \in Nat /\ q = p + 1 + (q - p - 1)
        BY <1>4
      <4> QED
        BY <4>1
    <3>2. q * s = p * s + s + r * s
      BY <3>1
    <3>3. r * s >= 0
      OBVIOUS
    <3> QED
      BY <3>2, <3>3
  <2> QED
    BY <1>1, <1>2, <1>3, <2>1
<1>5. CASE q < p
  <2>1. q * s + s <= p * s
    <3>1. PICK r \in Nat : p = q + 1 + r
      <4>1. p - q - 1 \in Nat /\ p = q + 1 + (p - q - 1)
        BY <1>5
      <4> QED
        BY <4>1
    <3>2. p * s = q * s + s + r * s
      BY <3>1
    <3>3. r * s >= 0
      OBVIOUS
    <3> QED
      BY <3>2, <3>3
  <2> QED
    BY <1>1, <1>2, <1>3, <2>1
<1> QED
  BY <1>1, <1>2, <1>3, <1>4, <1>5

(* What an event can be.                                                    *)
LEMMA EventFacts ==
  ASSUME NEW e \in Events
  PROVE  /\ e.times \in Nat \ {0} /\ e.sent \in Nat /\ e.received \in Nat
         /\ e.src \in Addresses \union {Absent} /\ e.dest \in Addresses \union {Absent}
         /\ Instant(e) \in Nat
<1>1. e \in EventFields
  BY EventsAssumption
<1> QED
  BY <1>1 DEF EventFields, Instant

Endpoints == (Addresses \union {SensorHost}) \X Roles

(* An endpoint that is chosen is an address or the host, with a role, and   *)
(* no such pair stands for no endpoint.                                     *)
LEMMA EndpointFacts ==
  ASSUME NEW e \in Events, networks \subseteq Addresses
  PROVE  /\ EndpointOf(e) # Absent <=> EndpointOf(e) \in Endpoints
         /\ EndpointOf(e) # Absent => EndpointOf(e) = <<EndpointOf(e)[1], EndpointOf(e)[2]>>
<1>1. Private \subseteq Addresses
  BY EventsAssumption
<1>2. SelectEndpoint(e.src, e.dest) = Absent
      \/ SelectEndpoint(e.src, e.dest) \in Addresses \X Roles
  BY <1>1 DEF SelectEndpoint, Roles
<1>3. EndpointOf(e) = Absent \/ EndpointOf(e) \in Endpoints
  BY <1>2 DEF EndpointOf, Endpoints, Roles
<1>4. Absent \notin Endpoints
  BY WindowsAssumption DEF Endpoints
<1>5. EndpointOf(e) \in Endpoints => EndpointOf(e) = <<EndpointOf(e)[1], EndpointOf(e)[2]>>
  BY DEF Endpoints
<1> QED
  BY <1>3, <1>4, <1>5

(* The events under a key of the shape that keys have are those within its  *)
(* window.                                                                  *)
LEMMA UnderIsWithin ==
  ASSUME WindowsInv, NEW k, Under(k) # {}
  PROVE  Within(k) = Under(k)
<1>1. PICK d \in counted : EndpointOf(d) # Absent /\ KeyOf(d) = k
  BY DEF Under
<1>2. PICK u \in Nat, s \in Nat \ {0} : u = Instant(d) /\ s = seconds
  BY EventFacts DEF WindowsInv
<1>3. k[1] = EndpointOf(d)[1] /\ k[2] = EndpointOf(d)[2] /\ k[3] = (u \div s) * s
  BY <1>1, <1>2 DEF KeyOf, WindowStart
<1>4. <<k[1], k[2]>> \in Endpoints
  BY <1>1, <1>3, EndpointFacts DEF WindowsInv
<1>5. ASSUME NEW e \in counted
      PROVE  e \in Within(k) <=> e \in Under(k)
  <2>1. e \in Events /\ networks \subseteq Addresses
    BY DEF WindowsInv
  <2>2. PICK t \in Nat : t = Instant(e)
    BY <2>1, EventFacts
  <2>3. e \in Within(k) <=> EndpointOf(e) = <<k[1], k[2]>> /\ k[3] <= t /\ t < k[3] + s
    BY <1>2, <2>2 DEF Within
  <2>4. k[3] <= t /\ t < k[3] + s <=> (t \div s) * s = k[3]
    BY <1>3, AlignedWindow
  <2>5. EndpointOf(e) = <<k[1], k[2]>>
        <=> EndpointOf(e) # Absent /\ EndpointOf(e)[1] = k[1] /\ EndpointOf(e)[2] = k[2]
    BY <1>4, <2>1, EndpointFacts
  <2>6. e \in Under(k) <=> /\ EndpointOf(e) # Absent /\ EndpointOf(e)[1] = k[1]
                           /\ EndpointOf(e)[2] = k[2] /\ (t \div s) * s = k[3]
    BY <1>2, <1>3, <2>2 DEF Under, KeyOf, WindowStart
  <2> QED
    BY <2>3, <2>4, <2>5, <2>6
<1> QED
  BY <1>5 DEF Within, Under

(* A window's number and bytes are those of its events.                     *)
LEMMA WindowsConserveTraffic == WindowsInv => TrafficConserved
<1> SUFFICES ASSUME WindowsInv
             PROVE  TrafficConserved
  OBVIOUS
<1>1. ASSUME NEW k \in DOMAIN states
      PROVE  Tally(k, states[k]) /\ Within(k) = Under(k)
  BY UnderIsWithin DEF WindowsInv
<1>2. ASSUME NEW e \in counted, EndpointOf(e) # Absent
      PROVE  \E k \in DOMAIN states : e \in Within(k)
  <2>1. e \in Under(KeyOf(e))
    BY <1>2 DEF Under
  <2>2. KeyOf(e) \in DOMAIN states
    BY <2>1 DEF WindowsInv
  <2> QED
    BY <1>1, <2>1, <2>2
<1> QED
  BY <1>1, <1>2 DEF TrafficConserved, Tally, AmountOf

(* What raises a counter that tells by itself.                              *)
LEMMA TellingEvents ==
  ASSUME NEW e, ~packets
  PROVE  (\E f \in Telling : f \in Raises(e)) \/ e.hashes # {} <=> Incriminates(e)
BY DEF Telling, Raises, EbpfFeatures, DownloadTool, CommandCounters, LoginCounters, Incriminates,
       Shows, Ebpf

(* A window is labelled after what its events show.                         *)
LEMMA WindowsFollowEvidence == WindowsInv => LabelFollowsEvidence
<1> SUFFICES ASSUME WindowsInv, NEW w \in windows
             PROVE  w.label = "malicious" <=>
                      /\ ~packets
                      /\ \/ \E e \in Within(w.key) : Incriminates(e)
                         \/ (\E e \in Within(w.key) : Ebpf(e, "shell")) /\
                            (\E e \in Within(w.key) : Ebpf(e, "network_connect"))
  BY DEF LabelFollowsEvidence, WindowsInv
<1>1. PICK k \in DOMAIN states : k = w.key /\ w.label = WeakLabel(states[k])
  BY DEF WindowsInv
<1>2. Within(k) = Under(k)
  BY UnderIsWithin DEF WindowsInv
<1>3. CASE packets
  BY <1>1, <1>3 DEF WeakLabel
<1>4. CASE ~packets
  <2>1. PICK s : s = states[k]
    OBVIOUS
  <2>2. /\ \A f \in WindowFeatures : s.n[f] > 0 <=> \E e \in Under(k) : f \in Raises(e)
        /\ s.hashes # {} <=> \E e \in Under(k) : e.hashes # {}
    BY <1>4, <2>1 DEF WindowsInv, Tally
  <2>3. Telling \subseteq WindowFeatures /\ {"shell_execs", "outbound_connects"} \subseteq WindowFeatures
    BY DEF Telling, WindowFeatures, CommandCounters
  <2>4. w.label = "malicious" <=> Reasons(s) # {}
    BY <1>1, <1>4, <2>1 DEF WeakLabel
  <2>5. Reasons(s) # {} <=>
          \/ (\E f \in Telling : s.n[f] > 0) \/ s.hashes # {}
          \/ s.n["shell_execs"] > 0 /\ s.n["outbound_connects"] > 0
    BY DEF Reasons
  <2>6. (\E f \in Telling : s.n[f] > 0) \/ s.hashes # {} <=> \E e \in Under(k) : Incriminates(e)
    BY <1>4, <2>2, <2>3, TellingEvents
  <2>7. \A e : /\ "shell_execs" \in Raises(e) <=> Ebpf(e, "shell")
               /\ "outbound_connects" \in Raises(e) <=> Ebpf(e, "network_connect")
    BY <1>4 DEF Raises, EbpfFeatures, CommandCounters, LoginCounters, Ebpf
  <2>8. /\ s.n["shell_execs"] > 0 <=> \E e \in Under(k) : Ebpf(e, "shell")
        /\ s.n["outbound_connects"] > 0 <=> \E e \in Under(k) : Ebpf(e, "network_connect")
    BY <2>2, <2>3, <2>7
  <2> QED
    BY <1>1, <1>2, <1>4, <2>4, <2>5, <2>6, <2>8
<1> QED
  BY <1>3, <1>4

-----------------------------------------------------------------------------

(* An event raises one of the two numbers of records, and its bytes go      *)
(* either way.                                                              *)
LEMMA CountedOnce ==
  ASSUME NEW e \in Events, NEW endpoint
  PROVE  /\ "event_count" \in Raises(e) <=> "packet_count" \notin Raises(e)
         /\ \E a, b \in Nat : /\ Bytes(e, endpoint)[1] = a /\ Bytes(e, endpoint)[2] = b
                             /\ AmountOf(e) = e.times * (a + b)
<1>1. "event_count" \in Raises(e) <=> "packet_count" \notin Raises(e)
  BY DEF Raises, EbpfFeatures, CommandCounters, LoginCounters
<1>2. PICK m \in Nat, n \in Nat : m = e.sent /\ n = e.received
  BY EventFacts
<1>3. \E a, b \in Nat : /\ Bytes(e, endpoint)[1] = a /\ Bytes(e, endpoint)[2] = b
                        /\ a + b = IF packets THEN m ELSE m + n
  BY <1>2 DEF Bytes, PacketBytes, Directional
<1> QED
  BY <1>1, <1>2, <1>3 DEF AmountOf

(* Counting an event keeps the tally of its state.                          *)
LEMMA CountKeepsTally ==
  ASSUME WindowsInv, NEW e \in toCount, EndpointOf(e) # Absent,
         NEW s, Tally(KeyOf(e), s), NEW S, S = Under(KeyOf(e)) \union {e}
  PROVE  LET t == WithCounted(s, e, EndpointOf(e)[1])
         IN  /\ t.n \in [WindowFeatures -> Nat] /\ t.out \in Nat /\ t.in \in Nat
             /\ t.n["event_count"] + t.n["packet_count"] = Total(S, [d \in Events |-> d.times])
             /\ t.out + t.in = Total(S, [d \in Events |-> AmountOf(d)])
             /\ \A f \in WindowFeatures : t.n[f] > 0 <=> \E d \in S : f \in Raises(d)
             /\ t.hashes # {} <=> \E d \in S : ~packets /\ d.hashes # {}
<1> DEFINE t == WithCounted(s, e, EndpointOf(e)[1])
           U == Under(KeyOf(e))
           times == [d \in Events |-> d.times]
           amounts == [d \in Events |-> AmountOf(d)]
<1>1. e \in Events /\ e \notin U /\ U \subseteq Events /\ IsFiniteSet(U)
  <2>1. e \in Events /\ e \notin U /\ U \subseteq Events
    BY DEF WindowsInv, Under
  <2>2. IsFiniteSet(Events)
    BY EventsAssumption
  <2>3. IsFiniteSet(U)
    BY <2>1, <2>2, FS_Subset
  <2> QED
    BY <2>1, <2>3
<1>2. PICK m \in Nat : m = e.times /\ m > 0
  BY <1>1, EventFacts
<1>3. PICK a \in Nat, b \in Nat :
        /\ Bytes(e, EndpointOf(e)[1])[1] = a /\ Bytes(e, EndpointOf(e)[1])[2] = b
        /\ AmountOf(e) = m * (a + b)
  BY <1>1, <1>2, CountedOnce
<1>4. PICK n \in [WindowFeatures -> Nat], o \in Nat, i \in Nat : n = s.n /\ o = s.out /\ i = s.in
  BY DEF Tally
<1>5. \A f \in WindowFeatures : t.n[f] = n[f] + IF f \in Raises(e) THEN m ELSE 0
  BY <1>2, <1>4 DEF WithCounted
<1>6. t.out = o + m * a /\ t.in = i + m * b /\ m * a \in Nat /\ m * b \in Nat
  BY <1>2, <1>3, <1>4 DEF WithCounted
<1>7. t.n \in [WindowFeatures -> Nat] /\ t.out \in Nat /\ t.in \in Nat
  BY <1>2, <1>4, <1>6 DEF WithCounted
<1>8. t.n["event_count"] + t.n["packet_count"] = Total(S, times)
  <2>1. \A d \in U : times[d] \in Nat
    BY <1>1, EventFacts
  <2>2. times[e] = m
    BY <1>1, <1>2
  <2>3. Total(S, times) = Total(U, times) + m
    <3>1. PICK g, V : g = times /\ V = U
      OBVIOUS
    <3>2. IsFiniteSet(V) /\ (\A d \in V : g[d] \in Nat) /\ e \notin V /\ g[e] \in Nat
      BY <1>1, <2>1, <2>2, <3>1
    <3>3. Total(V \union {e}, g) = Total(V, g) + g[e]
      BY <3>2, TotalOfOneMore
    <3> QED
      BY <2>2, <3>1, <3>3
  <2>4. Total(U, times) = n["event_count"] + n["packet_count"]
    BY <1>4 DEF Tally
  <2>5. "event_count" \in WindowFeatures /\ "packet_count" \in WindowFeatures
    BY DEF WindowFeatures
  <2>6. PICK x \in Nat, y \in Nat : x = n["event_count"] /\ y = n["packet_count"]
    BY <1>4, <2>5
  <2>7. "event_count" \in Raises(e) <=> "packet_count" \notin Raises(e)
    BY <1>1, CountedOnce
  <2> QED
    BY <1>5, <2>3, <2>4, <2>5, <2>6, <2>7
<1>9. t.out + t.in = Total(S, amounts)
  <2>1. \A d \in U : amounts[d] \in Nat
    <3>1. ASSUME NEW d \in U
          PROVE  AmountOf(d) \in Nat
      <4>1. PICK k \in Nat, x \in Nat, y \in Nat : k = d.times /\ x = d.sent /\ y = d.received
        BY <1>1, EventFacts
      <4>2. k * x \in Nat /\ k * (x + y) \in Nat
        OBVIOUS
      <4> QED
        BY <4>1, <4>2 DEF AmountOf
    <3> QED
      BY <1>1, <3>1
  <2>2. PICK v \in Nat : v = m * (a + b) /\ v = m * a + m * b
    OBVIOUS
  <2>3. amounts[e] = v
    BY <1>1, <1>3, <2>2
  <2>4. Total(S, amounts) = Total(U, amounts) + v
    <3>1. PICK g, V : g = amounts /\ V = U
      OBVIOUS
    <3>2. IsFiniteSet(V) /\ (\A d \in V : g[d] \in Nat) /\ e \notin V /\ g[e] \in Nat
      BY <1>1, <2>1, <2>3, <3>1
    <3>3. Total(V \union {e}, g) = Total(V, g) + g[e]
      BY <3>2, TotalOfOneMore
    <3> QED
      BY <2>3, <3>1, <3>3
  <2>5. Total(U, amounts) = o + i
    BY <1>4 DEF Tally
  <2> QED
    BY <1>6, <2>2, <2>4, <2>5
<1>10. \A f \in WindowFeatures : t.n[f] > 0 <=> \E d \in S : f \in Raises(d)
  <2> SUFFICES ASSUME NEW f \in WindowFeatures
               PROVE  t.n[f] > 0 <=> \E d \in S : f \in Raises(d)
    OBVIOUS
  <2>1. n[f] > 0 <=> \E d \in U : f \in Raises(d)
    BY <1>4 DEF Tally
  <2>2. PICK x \in Nat : x = n[f]
    BY <1>4
  <2> QED
    BY <1>2, <1>5, <2>1, <2>2
<1>11. t.hashes # {} <=> \E d \in S : ~packets /\ d.hashes # {}
  <2>1. s.hashes # {} <=> \E d \in U : ~packets /\ d.hashes # {}
    BY DEF Tally
  <2>2. t.hashes = s.hashes \union (IF packets THEN {} ELSE e.hashes)
    BY DEF WithCounted
  <2> QED
    BY <2>1, <2>2
<1> QED
  BY <1>7, <1>8, <1>9, <1>10, <1>11

(* A state that nothing has been counted in.                                *)
LEMMA NewTally ==
  ASSUME NEW k, Under(k) = {}
  PROVE  Tally(k, NewState)
BY TotalOfNone DEF Tally, NewState, WindowFeatures

\* What a turn of the loop over the events leaves as it is
LEMMA CountKeepsRest ==
  ASSUME NEW e \in toCount, CountEvent(e)
  PROVE  /\ UNCHANGED <<packets, seconds, networks, windows, file, loaded, step>>
         /\ counted' = counted \union {e} /\ toCount' = toCount \ {e}
         /\ \A d : /\ EndpointOf(d)' = EndpointOf(d) /\ KeyOf(d)' = KeyOf(d)
                   /\ AmountOf(d)' = AmountOf(d) /\ Raises(d)' = Raises(d)
         /\ \A k : Under(k)' = IF EndpointOf(e) # Absent /\ KeyOf(e) = k
                               THEN Under(k) \union {e} ELSE Under(k)
<1>1. UNCHANGED <<packets, seconds, networks, windows, file, loaded, step>>
      /\ counted' = counted \union {e} /\ toCount' = toCount \ {e}
  BY DEF CountEvent
<1>2. ASSUME NEW d
      PROVE  /\ EndpointOf(d)' = EndpointOf(d) /\ KeyOf(d)' = KeyOf(d)
             /\ AmountOf(d)' = AmountOf(d) /\ Raises(d)' = Raises(d)
  <2>1. EndpointOf(d)' = EndpointOf(d)
    BY <1>1 DEF EndpointOf, SelectEndpoint
  <2> QED
    BY <1>1, <2>1 DEF KeyOf, WindowStart, AmountOf, Raises
<1>3. \A k : Under(k)' = IF EndpointOf(e) # Absent /\ KeyOf(e) = k
                         THEN Under(k) \union {e} ELSE Under(k)
  BY <1>1, <1>2 DEF Under
<1> QED
  BY <1>1, <1>2, <1>3

(* Every turn of the loop keeps the invariant.                              *)
LEMMA CountKeepsWindows ==
  ASSUME WindowsInv, NEW e \in toCount, CountEvent(e)
  PROVE  WindowsInv'
<1>0. PICK c : c = KeyOf(e)
  OBVIOUS
<1>1. /\ UNCHANGED <<packets, seconds, networks, windows, file, loaded, step>>
      /\ counted' = counted \union {e} /\ toCount' = toCount \ {e} /\ step = "count"
  BY CountKeepsRest DEF CountEvent
<1>2. \A k : Under(k)' = IF EndpointOf(e) # Absent /\ c = k THEN Under(k) \union {e} ELSE Under(k)
  BY <1>0, CountKeepsRest
<1>3. windows = {} /\ loaded = {}
  BY <1>1 DEF WindowsInv
<1>4. ASSUME NEW k, NEW s, Tally(k, s), EndpointOf(e) = Absent \/ k # c
      PROVE  Tally(k, s)'
  <2>1. Under(k)' = Under(k)
    BY <1>2, <1>4
  <2>2. [d \in Events |-> AmountOf(d)]' = [d \in Events |-> AmountOf(d)]
    BY CountKeepsRest
  <2>3. \A d : Raises(d)' = Raises(d)
    BY CountKeepsRest
  <2> QED
    BY <1>1, <1>4, <2>1, <2>2, <2>3 DEF Tally
<1>5. CASE EndpointOf(e) = Absent
  <2>1. states' = states
    BY <1>5 DEF CountEvent
  <2>2. (\A k \in DOMAIN states : Tally(k, states[k]))'
    BY <1>4, <1>5, <2>1 DEF WindowsInv
  <2>3. (\A k : k \in DOMAIN states <=> Under(k) # {})'
    BY <1>2, <1>5, <2>1 DEF WindowsInv
  <2> QED
    BY <1>1, <1>3, <2>2, <2>3 DEF WindowsInv
<1>6. CASE EndpointOf(e) # Absent
  <2>1. PICK s : s = IF c \in DOMAIN states THEN states[c] ELSE NewState
    OBVIOUS
  <2>2. states' = [j \in DOMAIN states \union {c} |->
                     IF j = c THEN WithCounted(s, e, EndpointOf(e)[1]) ELSE states[j]]
    BY <1>0, <1>6, <2>1 DEF CountEvent, KeyOf
  <2>3. Tally(c, s)
    BY <1>0, <2>1, NewTally DEF WindowsInv
  <2>4. PICK t : t = WithCounted(s, e, EndpointOf(e)[1])
    OBVIOUS
  <2>5. Tally(c, t)'
    <3>1. PICK S : S = Under(c) \union {e} /\ S = Under(c)'
      BY <1>2, <1>6
    <3>2. /\ t.n \in [WindowFeatures -> Nat] /\ t.out \in Nat /\ t.in \in Nat
          /\ t.n["event_count"] + t.n["packet_count"] = Total(S, [d \in Events |-> d.times])
          /\ t.out + t.in = Total(S, [d \in Events |-> AmountOf(d)])
          /\ \A f \in WindowFeatures : t.n[f] > 0 <=> \E d \in S : f \in Raises(d)
          /\ t.hashes # {} <=> \E d \in S : ~packets /\ d.hashes # {}
      BY <1>0, <1>6, <2>3, <2>4, <3>1, CountKeepsTally
    <3>3. [d \in Events |-> AmountOf(d)]' = [d \in Events |-> AmountOf(d)]
      BY CountKeepsRest
    <3>4. \A d : Raises(d)' = Raises(d)
      BY CountKeepsRest
    <3> QED
      BY <1>1, <3>1, <3>2, <3>3, <3>4 DEF Tally
  <2>6. (\A k \in DOMAIN states : Tally(k, states[k]))'
    BY <1>4, <2>2, <2>4, <2>5 DEF WindowsInv
  <2>7. (\A k : k \in DOMAIN states <=> Under(k) # {})'
    BY <1>2, <1>6, <2>2 DEF WindowsInv
  <2> QED
    BY <1>1, <1>3, <2>6, <2>7 DEF WindowsInv
<1> QED
  BY <1>5, <1>6

(* The other steps of the command keep it too.                              *)
LEMMA WindowsStep ==
  ASSUME WindowsInv, WindowsNext \/ UNCHANGED windowVars
  PROVE  WindowsInv'
<1>1. ASSUME UNCHANGED <<packets, seconds, networks, counted, states>>
      PROVE  /\ UNCHANGED <<DOMAIN states>>
             /\ \A k : Under(k)' = Under(k)
             /\ \A k, s : Tally(k, s)' <=> Tally(k, s)
             /\ \A s : WeakLabel(s)' = WeakLabel(s)
  <2>1. \A d : /\ EndpointOf(d)' = EndpointOf(d) /\ Raises(d)' = Raises(d)
               /\ AmountOf(d)' = AmountOf(d)
    BY <1>1 DEF EndpointOf, SelectEndpoint, Raises, AmountOf
  <2>2. \A k : Under(k)' = Under(k)
    BY <1>1, <2>1 DEF Under, KeyOf, WindowStart
  <2>3. [d \in Events |-> AmountOf(d)]' = [d \in Events |-> AmountOf(d)]
    BY <2>1
  <2> QED
    BY <1>1, <2>1, <2>2, <2>3 DEF Tally, WeakLabel
<1>2. CASE StartDataset
  <2>1. counted = {} /\ DOMAIN states = {}
    BY <1>2 DEF StartDataset, WindowsInv, Under
  <2>2. packets' \in BOOLEAN /\ seconds' \in Nat \ {0} /\ networks' \subseteq Addresses
    BY <1>2, WindowsAssumption DEF StartDataset
  <2>3. UNCHANGED <<counted, states, windows, file, loaded>> /\ toCount' \subseteq Events
        /\ step' = "count" /\ step = "start"
    BY <1>2 DEF StartDataset
  <2>4. \A k : Under(k)' = {}
    BY <2>1, <2>3 DEF Under
  <2> QED
    BY <2>1, <2>2, <2>3, <2>4 DEF WindowsInv
<1>3. ASSUME NEW e \in toCount, CountEvent(e)
      PROVE  WindowsInv'
  BY <1>3, CountKeepsWindows
<1>4. CASE Finalize
  <2>1. UNCHANGED <<packets, seconds, networks, toCount, counted, states, file, loaded>>
        /\ step' = "write" /\ step = "count"
    BY <1>4 DEF Finalize
  <2>2. \A w \in windows' : w.key \in DOMAIN states /\ w.label = WeakLabel(states[w.key])
    BY <1>4 DEF Finalize
  <2> QED
    BY <1>1, <2>1, <2>2 DEF WindowsInv
<1>5. CASE WriteWindows
  <2>1. UNCHANGED <<packets, seconds, networks, toCount, counted, states, windows, loaded>>
        /\ step' = "read" /\ step = "write" /\ file'.rows = windows
    BY <1>5 DEF WriteWindows
  <2> QED
    BY <1>1, <2>1 DEF WindowsInv
<1>6. CASE ReadWindows
  <2>1. UNCHANGED <<packets, seconds, networks, toCount, counted, states, windows, file>>
        /\ step' \notin {"start", "count", "read"} /\ loaded' \subseteq windows
    BY <1>6 DEF ReadWindows, WindowsInv
  <2> QED
    BY <1>1, <2>1 DEF WindowsInv
<1>7. CASE UNCHANGED windowVars
  <2>1. UNCHANGED <<packets, seconds, networks, toCount, counted, states, windows, file, loaded, step>>
    BY <1>7 DEF windowVars
  <2> QED
    BY <1>1, <2>1 DEF WindowsInv
<1> QED
  BY <1>2, <1>3, <1>4, <1>5, <1>6, <1>7 DEF WindowsNext

(* At first nothing is counted.                                             *)
LEMMA WindowsStart == Init => WindowsInv
<1> SUFFICES ASSUME WindowsInit
             PROVE  WindowsInv
  BY DEF Init
<1>1. DOMAIN states = {} /\ \A k : Under(k) = {}
  BY DEF WindowsInit, Under
<1>2. packets \in BOOLEAN
  BY DEF WindowsInit
<1>3. seconds \in Nat \ {0}
  <2>1. seconds = 1
    BY DEF WindowsInit
  <2> QED
    BY <2>1
<1>4. networks = {} /\ toCount = {} /\ counted = {} /\ windows = {} /\ loaded = {} /\ step = "start"
  BY DEF WindowsInit
<1> QED
  BY <1>1, <1>2, <1>3, <1>4 DEF WindowsInv

(* For any events, in any order, any window size and protected networks, a  *)
(* window has the number and the bytes of the events that fall into it, and *)
(* no event of an endpoint is in none (_window_start, _directional_bytes).  *)
THEOREM NothingLostInWindows == Spec => []TrafficConserved
<1>1. WindowsInv /\ [Next]_vars => WindowsInv'
  BY OneComponent, WindowsStep
<1> QED
  BY <1>1, WindowsStart, WindowsConserveTraffic, PTL DEF Spec

(* The label of a window is what its events give rise to, as labelled and   *)
(* as read back (weak_label, _apply_event, _apply_ebpf_event).              *)
THEOREM LabelsFollowEvents == Spec => []LabelFollowsEvidence
<1>1. WindowsInv /\ [Next]_vars => WindowsInv'
  BY OneComponent, WindowsStep
<1> QED
  BY <1>1, WindowsStart, WindowsFollowEvidence, PTL DEF Spec

-----------------------------------------------------------------------------
(* Sessions and actors.  A session has the source of one of its events if   *)
(* any of them names one, so that its finding always has an address to      *)
(* blame, and what is blamed on an address is added up.                     *)

EvidenceInv ==
  /\ batch \subseteq Events /\ unread \subseteq batch
  /\ phase # "aggregate" => unread = {}
  /\ IsFiniteSet(DOMAIN sessions) /\ IsFiniteSet(findings)
  /\ \A e \in batch \ unread : FeatureKey(e) \in DOMAIN sessions
  /\ \A k \in DOMAIN sessions :
       \/ sessions[k].src = Absent /\ \A e \in batch \ unread : FeatureKey(e) = k => e.src = Absent
       \/ \E e \in batch \ unread : FeatureKey(e) = k /\ e.src = sessions[k].src /\ e.src # Absent
  /\ \A f \in findings : /\ phase # "aggregate" /\ f.score \in Nat
                         /\ f.key \in DOMAIN sessions /\ f.src = sessions[f.key].src
  /\ EvidenceHasActor

(* Points are naturals (_heuristic_score).                                  *)
LEMMA HeuristicIsNat ==
  ASSUME NEW f, Features(f)
  PROVE  Heuristic(f) \in Nat
<1>1. \A condition, points : points \in Nat => If(condition, points) \in Nat
  BY DEF If
<1>2. \A a, b \in Nat : Least(a, b) \in Nat
  BY DEF Least
<1>3. {"login_failures", "login_successes", "commands", "download_commands", "reverse_shells",
       "persistence_attempts", "scanner_commands", "suricata_alerts"} \subseteq Counters
  BY DEF Counters, CommandCounters, LoginCounters
<1>4. PICK a \in Nat, b \in Nat, c \in Nat, d \in Nat, g \in Nat, h \in Nat, i \in Nat :
        /\ a = f.n["login_failures"] /\ b = f.n["commands"] /\ c = f.n["download_commands"]
        /\ d = f.n["reverse_shells"] /\ g = f.n["persistence_attempts"]
        /\ h = f.n["scanner_commands"] /\ i = f.n["suricata_alerts"]
  BY <1>3 DEF Features
<1>5. PICK p \in Nat, q \in Nat : p = Cardinality(f.hashes) /\ q = Cardinality(f.urls)
  BY FS_CardinalityType DEF Features
<1>6. PICK u \in Nat, v \in Nat, w \in Nat :
        /\ u = If(f.n["login_successes"] > 0, 32) /\ v = If(ManyPasswords(f), 24)
        /\ w = If(f.sent > 5 \/ f.received > 5, 40)
  BY <1>1
<1>7. PICK r \in Nat, s \in Nat, t \in Nat, x \in Nat :
        r = Least(3 * a, 48) /\ s = Least(6 * b, 48) /\ t = Least(24 * p, 72) /\ x = Least(24 * q, 72)
  <2>1. 3 * a \in Nat /\ 6 * b \in Nat /\ 24 * p \in Nat /\ 24 * q \in Nat
    OBVIOUS
  <2> QED
    BY <1>2, <2>1
<1>8. Heuristic(f) = r + u + s + 48 * c + 80 * d + 64 * g + 32 * h + 40 * i + t + x + v + w
  BY <1>4, <1>5, <1>6, <1>7 DEF Heuristic
<1> QED
  BY <1>8

(* What score_sessions finds.                                               *)
LEMMA FoundFacts ==
  ASSUME SessionInv, EvidenceInv, ScoreSessions
  PROVE  /\ IsFiniteSet(findings')
         /\ \A f \in findings' : f.score \in Nat /\ f.key \in DOMAIN sessions
                                 /\ f.src = sessions[f.key].src
<1>1. PICK anomaly \in [DOMAIN sessions -> {0, 1, 4, 20}] :
        findings' \subseteq {Finding(k, anomaly[k]) : k \in DOMAIN sessions}
  BY DEF ScoreSessions
<1>2. IsFiniteSet(findings')
  <2>1. PICK found : found = [k \in DOMAIN sessions |-> Finding(k, anomaly[k])]
    OBVIOUS
  <2>2. IsFiniteSet({found[k] : k \in DOMAIN sessions})
    BY ImageFinite DEF EvidenceInv
  <2>3. findings' \subseteq {found[k] : k \in DOMAIN sessions}
    BY <1>1, <2>1
  <2> QED
    BY <2>2, <2>3, FS_Subset
<1>3. ASSUME NEW k \in DOMAIN sessions, NEW a \in {0, 1, 4, 20}
      PROVE  /\ Finding(k, a).score \in Nat /\ Finding(k, a).key = k
             /\ Finding(k, a).src = sessions[k].src
  <2>1. PICK base \in Nat : base = Heuristic(sessions[k])
    BY HeuristicIsNat DEF SessionInv
  <2>2. PICK bonus \in Nat : bonus = Least(6 * a, 80)
    BY DEF Least
  <2>3. \A condition : base + If(condition, bonus) \in Nat
    BY DEF If
  <2> QED
    BY <2>1, <2>2, <2>3 DEF Finding
<1> QED
  BY <1>1, <1>2, <1>3

(* Correlation blames an address that an event of the session names, with   *)
(* at least the score of the finding (_finding_actor_ips, correlate_actors).*)
LEMMA BlameFalls ==
  ASSUME EvidenceInv, phase = "score", NEW f \in findings, f.evidence,
         NEW e \in batch, FeatureKey(e) = f.key, e.src # Absent
  PROVE  \E d \in batch : /\ FeatureKey(d) = f.key
                         /\ \E ip \in {d.src, d.dest} \ {Absent} :
                              Correlated(findings)[ip].score >= f.score
<1>1. ASSUME NEW d \in batch, NEW ip \in {d.src, d.dest} \ {Absent}, ip \in ActorsOf(f)
      PROVE  Correlated(findings)[ip].score >= f.score
  <2>1. ip \in Addresses
    BY EventFacts DEF EvidenceInv
  <2>2. PICK Blamed : Blamed = {g \in {h \in findings : ip \in ActorsOf(h)} : g.evidence}
    OBVIOUS
  <2>3. PICK points : points = [g \in findings |-> g.score]
    OBVIOUS
  <2>4. Correlated(findings)[ip].score = Total(Blamed, points)
    BY <2>1, <2>2, <2>3 DEF Correlated
  <2>5. Blamed \subseteq findings /\ f \in Blamed
    BY <1>1, <2>2
  <2>6. IsFiniteSet(Blamed) /\ \A g \in Blamed : points[g] \in Nat
    BY <2>3, <2>5, FS_Subset DEF EvidenceInv
  <2>7. Total(Blamed, points) >= points[f]
    BY <2>5, <2>6, TotalIsLarge
  <2> QED
    BY <2>3, <2>4, <2>7
<1>2. PICK public : public = {d.dest : d \in {c \in batch : /\ CorrelationKey(c) = f.key /\ c.source = "zeek"
                                                         /\ c.dest \in Addresses \ Private}}
  OBVIOUS
<1>3. ActorsOf(f) = IF public # {} THEN public ELSE {f.src} \ {Absent}
  BY <1>2 DEF ActorsOf
<1>4. CASE public # {}
  <2>1. PICK d \in batch : FeatureKey(d) = f.key /\ d.dest \in Addresses /\ d.dest \in public
    BY <1>2, <1>4 DEF CorrelationKey
  <2>2. d.dest # Absent
    BY <2>1, EventsAssumption
  <2> QED
    BY <1>1, <1>3, <1>4, <2>1, <2>2
<1>5. CASE public = {}
  <2>1. unread = {} /\ f.key \in DOMAIN sessions /\ f.src = sessions[f.key].src
    BY DEF EvidenceInv
  <2>2. PICK d \in batch : FeatureKey(d) = f.key /\ d.src = f.src /\ d.src # Absent
    BY <2>1 DEF EvidenceInv
  <2> QED
    BY <1>1, <1>3, <1>5, <2>2
<1> QED
  BY <1>4, <1>5

(* Every step of the analysis keeps the invariant.                          *)
LEMMA EvidenceStep ==
  ASSUME SessionInv, EvidenceInv, SessionNext \/ UNCHANGED sessionVars
  PROVE  EvidenceInv'
<1>1. CASE Poll
  <2>1. /\ rest \subseteq Events /\ batch' \subseteq rest /\ unread' = batch' /\ phase' = "aggregate"
        /\ DOMAIN sessions' = {} /\ findings' = {}
    BY <1>1 DEF Poll, SessionInv, NoSessions
  <2> QED
    BY <2>1, FS_EmptySet DEF EvidenceInv, EvidenceHasActor
<1>2. ASSUME NEW e \in unread, Aggregate(e)
      PROVE  EvidenceInv'
  <2>1. PICK k : k = FeatureKey(e)
    OBVIOUS
  <2>2. PICK f : f = IF k \in DOMAIN sessions THEN sessions[k] ELSE NewSession(e)
    OBVIOUS
  <2>3. /\ UNCHANGED <<batch, findings, phase>> /\ phase = "aggregate" /\ unread' = unread \ {e}
        /\ sessions' = [j \in DOMAIN sessions \union {k} |->
                          IF j = k THEN WithEvent(f, e) ELSE sessions[j]]
    BY <1>2, <2>1, <2>2 DEF Aggregate, Aggregated
  <2>4. DOMAIN sessions' = DOMAIN sessions \union {k} /\ sessions'[k] = WithEvent(f, e)
        /\ \A j \in DOMAIN sessions : j # k => sessions'[j] = sessions[j]
    BY <2>3
  <2>5. batch' \ unread' = (batch \ unread) \union {e}
    BY <1>2, <2>3 DEF EvidenceInv
  <2>6. WithEvent(f, e).src = IF f.src = Absent THEN e.src ELSE f.src
    BY DEF WithEvent, SourceOf
  <2>7. findings' = {} /\ EvidenceHasActor'
    BY <2>3 DEF EvidenceInv, EvidenceHasActor
  <2>8. IsFiniteSet(DOMAIN sessions')
    BY <2>4, FS_AddElement DEF EvidenceInv
  <2>9. \A d \in batch' \ unread' : FeatureKey(d) \in DOMAIN sessions'
    BY <2>1, <2>4, <2>5 DEF EvidenceInv
  <2>10. ASSUME NEW j \in DOMAIN sessions'
         PROVE  \/ sessions'[j].src = Absent /\ \A d \in batch' \ unread' : FeatureKey(d) = j => d.src = Absent
                \/ \E d \in batch' \ unread' : FeatureKey(d) = j /\ d.src = sessions'[j].src /\ d.src # Absent
    <3>1. CASE j # k
      <4>1. j \in DOMAIN sessions /\ sessions'[j] = sessions[j]
        BY <2>4, <3>1
      <4> QED
        BY <2>1, <2>5, <3>1, <4>1 DEF EvidenceInv
    <3>2. CASE j = k /\ k \in DOMAIN sessions
      <4>1. f = sessions[k]
        BY <2>2, <3>2
      <4>2. CASE f.src = Absent
        <5>1. \A d \in batch \ unread : FeatureKey(d) = k => d.src = Absent
          BY <3>2, <4>1, <4>2 DEF EvidenceInv
        <5> QED
          BY <2>1, <2>4, <2>5, <2>6, <3>2, <4>2, <5>1
      <4>3. CASE f.src # Absent
        <5>1. \E d \in batch \ unread : FeatureKey(d) = k /\ d.src = f.src /\ d.src # Absent
          BY <3>2, <4>1, <4>3 DEF EvidenceInv
        <5> QED
          BY <2>4, <2>5, <2>6, <3>2, <4>3, <5>1
      <4> QED
        BY <4>2, <4>3
    <3>3. CASE j = k /\ k \notin DOMAIN sessions
      <4>1. f.src = e.src
        BY <2>2, <3>3 DEF NewSession
      <4>2. sessions'[j].src = e.src
        BY <2>4, <2>6, <3>3, <4>1
      <4>3. \A d \in batch \ unread : FeatureKey(d) # k
        BY <3>3 DEF EvidenceInv
      <4> QED
        BY <2>1, <2>5, <3>3, <4>2, <4>3
    <3> QED
      BY <3>1, <3>2, <3>3
  <2> QED
    BY <1>2, <2>3, <2>7, <2>8, <2>9, <2>10 DEF EvidenceInv
<1>3. CASE ScoreSessions
  <2>1. UNCHANGED <<batch, unread, sessions>> /\ unread = {} /\ phase' = "score"
    BY <1>3 DEF ScoreSessions
  <2> QED
    BY <1>3, <2>1, FoundFacts DEF EvidenceInv, EvidenceHasActor
<1>4. CASE Correlate
  <2>1. UNCHANGED <<batch, unread, sessions, findings>> /\ phase = "score" /\ phase' = "poll"
        /\ actors' = Correlated(findings)
    BY <1>4 DEF Correlate
  <2>2. EvidenceHasActor'
    BY <2>1, BlameFalls DEF EvidenceHasActor
  <2> QED
    BY <2>1, <2>2 DEF EvidenceInv
<1>5. CASE UNCHANGED sessionVars
  BY <1>5 DEF sessionVars, EvidenceInv, EvidenceHasActor
<1> QED
  BY <1>1, <1>2, <1>3, <1>4, <1>5 DEF SessionNext

(* At first nothing is found.                                               *)
LEMMA EvidenceStart == Init => EvidenceInv
BY FS_EmptySet DEF Init, SessionInit, EvidenceInv, EvidenceHasActor, NoSessions

(* However events fall into polls and sessions, a finding with evidence     *)
(* counts against an address of its session whenever one of its events      *)
(* names its source (_apply_event, _finding_actor_ips, correlate_actors).   *)
THEOREM EvidenceIsBlamed == Spec => []EvidenceHasActor
<1>1. SessionInv /\ EvidenceInv /\ [Next]_vars => SessionInv' /\ EvidenceInv'
  BY OneComponent, SessionStep, EvidenceStep
<1>2. EvidenceInv => EvidenceHasActor
  BY DEF EvidenceInv
<1> QED
  BY <1>1, <1>2, SessionStart, EvidenceStart, PTL DEF Spec

-----------------------------------------------------------------------------
(* Log files.  While a file is read there is an event for each line that    *)
(* has been parsed, the empty ones left out.                                *)

\* Those of the first n lines that are not empty
Written(n) == {i \in 1..n : content[i].layout # "blank"}

ParsingInv ==
  /\ at \in Nat /\ at <= Len(content)
  /\ content \in Seq(ContentOf(kind))
  /\ damaged => kind # "other"
  /\ \E S : events \in Seq(S)
  /\ parsing = "idle" => at = 0 /\ events = <<>>
  /\ parsing = "open" =>
       Len(events) = Cardinality(Written(at)) /\ \A i \in 1..at : ~LineRaises(content[i])
  /\ LinesAccounted /\ AddressKept

(* The next line is one more, unless it is empty.                           *)
LEMMA OneLineMore ==
  ASSUME NEW n \in Nat
  PROVE  /\ Cardinality(Written(n)) \in Nat
         /\ Cardinality(Written(n + 1))
            = Cardinality(Written(n)) + IF content[n + 1].layout = "blank" THEN 0 ELSE 1
<1>1. IsFiniteSet(Written(n))
  <2>1. IsFiniteSet(1..n) /\ Written(n) \subseteq 1..n
    BY FS_Interval DEF Written
  <2> QED
    BY <2>1, FS_Subset
<1>2. n + 1 \notin Written(n)
  BY DEF Written
<1>3. Written(n + 1) = IF content[n + 1].layout = "blank" THEN Written(n) ELSE Written(n) \union {n + 1}
  <2>1. ASSUME NEW i
        PROVE  i \in 1..(n + 1) <=> i \in 1..n \/ i = n + 1
    OBVIOUS
  <2> QED
    BY <2>1 DEF Written
<1>4. PICK m \in Nat : m = Cardinality(Written(n))
  BY <1>1, FS_CardinalityType
<1>5. Cardinality(Written(n) \union {n + 1}) = m + 1
  BY <1>1, <1>2, <1>4, FS_AddElement
<1> QED
  BY <1>3, <1>4, <1>5

\* What AddressKept asks of an event
AddressOf(x) ==
  x.record.layout \in Layouts /\ Undisputed(x.record)
  /\ (x.record.layout = "ecs" => hint = "tpot" \/ IsTpotRecord(x.record)) => x.address

(* A record in its own sensor's place gets to a parser that finds its       *)
(* address.                                                                 *)
LEMMA RecordKeepsAddress ==
  ASSUME NEW r \in Records, Undisputed(r),
         r.layout = "ecs" => hint = "tpot" \/ IsTpotRecord(r)
  PROVE  r.layout \in AddressIn(Route(r))
<1>1. r.layout \in Layouts /\ r.type \in {"none", "own", "nginx"}
  BY DEF Records
<1>2. hint \in {"none", "tpot"} /\ folder \in {"none", SensorOf(r.layout)}
  BY DEF Undisputed
<1>3. TypeOf(r) \in {"none", "nginx", SensorOf(r.layout)}
  BY <1>1, <1>2 DEF TypeOf, SourceFromPath
<1>4. r.layout \in {"cowrie", "nested", "incident", "suricata", "zeek", "ebpf", "flat", "ecs"}
  BY <1>1 DEF Layouts, Unmarked
<1>5. CASE hint = "tpot"
  <2>1. Route(r) = TpotRoute(r)
    BY <1>5 DEF Route
  <2> QED
    BY <1>3, <1>4, <2>1 DEF SensorOf, TpotRoute, AddressIn
<1>6. CASE hint = "none"
  <2>1. Route(r) = IF DetectSource(r) = "tpot" THEN TpotRoute(r) ELSE DetectSource(r)
    BY <1>6 DEF Route
  <2>2. CASE r.layout \in Unmarked
    BY <1>3, <1>6, <2>1, <2>2 DEF DetectSource, IsTpotRecord, Unmarked, SensorOf, TpotRoute, AddressIn
  <2>3. CASE r.layout \notin Unmarked
    BY <1>4, <2>1, <2>3 DEF DetectSource, Unmarked, SensorOf, AddressIn
  <2> QED
    BY <2>2, <2>3
<1> QED
  BY <1>2, <1>5, <1>6

(* What is appended comes last.                                             *)
LEMMA AppendFacts ==
  ASSUME NEW S, NEW s \in Seq(S), NEW x
  PROVE  /\ Append(s, x) = s \o <<x>>
         /\ s \o <<x>> \in Seq(S \union {x})
         /\ Len(s) \in Nat /\ Len(s \o <<x>>) = Len(s) + 1
         /\ \A i \in DOMAIN (s \o <<x>>) : (s \o <<x>>)[i] = x \/ (i \in DOMAIN s /\ (s \o <<x>>)[i] = s[i])
<1>1. s \in Seq(S \union {x})
  OBVIOUS
<1>2. Append(s, x) = s \o <<x>>
  BY <1>1
<1>3. s \o <<x>> \in Seq(S \union {x}) /\ Len(s) \in Nat /\ Len(s \o <<x>>) = Len(s) + 1
  BY <1>1
<1>4. \A i \in DOMAIN (s \o <<x>>) : (s \o <<x>>)[i] = x \/ (i \in DOMAIN s /\ (s \o <<x>>)[i] = s[i])
  BY <1>1
<1> QED
  BY <1>2, <1>3, <1>4

(* A line that holds something gives one event, which has the address of    *)
(* its record where nothing disputes it.                                    *)
LEMMA LineGives ==
  ASSUME NEW line \in Lines, ~LineRaises(line)
  PROVE  IF line.layout = "blank" THEN LineEvents(line) = <<>>
         ELSE \E x : LineEvents(line) = <<x>> /\ AddressOf(x)
<1>1. CASE line \in Records
  <2>1. LineEvents(line) = <<ParseRecord(line)>> /\ line.layout # "blank"
    BY <1>1 DEF LineEvents, Records, Layouts, Unmarked
  <2>2. ParseRecord(line).record = line /\ ParseRecord(line).address = (line.layout \in AddressIn(Route(line)))
    BY DEF ParseRecord
  <2> QED
    BY <1>1, <2>1, <2>2, RecordKeepsAddress DEF AddressOf
<1>2. ASSUME NEW what \in {"blank", "text", "scalar"}, line = Bare(what)
      PROVE  IF line.layout = "blank" THEN LineEvents(line) = <<>>
             ELSE \E x : LineEvents(line) = <<x>> /\ AddressOf(x)
  <2>1. line.layout = what
    BY <1>2 DEF Bare
  <2>2. CASE what = "blank"
    BY <2>1, <2>2 DEF LineEvents
  <2>3. CASE what # "blank"
    <3>1. LineEvents(line) = <<Plain(what)>>
      BY <1>2, <2>1, <2>3 DEF LineEvents
    <3>2. Plain(what).record.layout = what /\ what \notin Layouts
      BY <1>2 DEF Plain, Bare, Layouts, Unmarked
    <3> QED
      BY <2>1, <2>3, <3>1, <3>2 DEF AddressOf
  <2> QED
    BY <2>2, <2>3
<1> QED
  BY <1>1, <1>2 DEF Lines, LineRaises

(* Reading a line keeps the invariant.                                      *)
LEMMA TakeKeeps ==
  ASSUME ParsingInv, NEW new, Take(new), ~LineRaises(content[at + 1]),
         IF content[at + 1].layout = "blank" THEN new = <<>> ELSE \E x : new = <<x>> /\ AddressOf(x)
  PROVE  ParsingInv'
<1>1. /\ UNCHANGED <<hint, folder, kind, damaged, content, files, parsing>> /\ parsing = "open"
      /\ at < Len(content) /\ at' = at + 1 /\ events' = events \o new
  BY DEF Take
<1>0. PICK S : events \in Seq(S)
  BY DEF ParsingInv
<1>2. PICK n \in Nat, m \in Nat :
        /\ n = at /\ m = Len(content) /\ n <= m /\ content \in Seq(ContentOf(kind)) /\ events \in Seq(S)
        /\ Len(events) = Cardinality(Written(n))
  BY <1>0, <1>1 DEF ParsingInv
<1>3. /\ at' \in Nat /\ at' <= Len(content') /\ (content \in Seq(ContentOf(kind)))'
      /\ (damaged => kind # "other")'
  BY <1>1, <1>2 DEF ContentOf, ParsingInv
<1>4. Written(n + 1)' = Written(n + 1)
  BY <1>1 DEF Written
<1>5. LinesAccounted'
  BY <1>1 DEF LinesAccounted
<1>6. /\ hint' = hint
      /\ \A r : (Undisputed(r)' <=> Undisputed(r)) /\ (IsTpotRecord(r)' <=> IsTpotRecord(r))
  BY <1>1 DEF Undisputed, IsTpotRecord, TypeOf, SourceFromPath
<1>9. (\A i \in 1..at : ~LineRaises(content[i]))'
  <2>1. \A i \in 1..(n + 1) : i \in 1..n \/ i = n + 1
    OBVIOUS
  <2>2. \A i \in 1..n : ~LineRaises(content[i])
    BY <1>1, <1>2 DEF ParsingInv
  <2>3. ~LineRaises(content[n + 1])
    BY <1>2
  <2>4. \A x : LineRaises(x)' <=> LineRaises(x)
    BY <1>1 DEF LineRaises
  <2>5. \A i \in 1..(n + 1) : ~LineRaises(content[i])
    BY <2>1, <2>2, <2>3
  <2> QED
    BY <1>1, <1>2, <2>4, <2>5
<1>7. CASE content[at + 1].layout = "blank"
  <2>1. events' = events
    <3>1. new = <<>>
      BY <1>7
    <3>2. events \o <<>> = events
      BY <1>2
    <3>3. events' = events \o new
      BY <1>1
    <3> QED
      BY <3>1, <3>2, <3>3
  <2>2. Cardinality(Written(n + 1)) = Cardinality(Written(n))
    <3>1. PICK c \in Nat : c = Cardinality(Written(n))
      BY OneLineMore
    <3>2. content[n + 1].layout = "blank"
      BY <1>2, <1>7
    <3>3. Cardinality(Written(n + 1)) = c + 0
      BY <3>1, <3>2, OneLineMore
    <3> QED
      BY <3>1, <3>3
  <2>3. AddressKept'
    BY <1>6, <2>1 DEF ParsingInv, AddressKept, AddressOf
  <2> QED
    BY <1>1, <1>2, <1>3, <1>4, <1>5, <1>9, <2>1, <2>2, <2>3 DEF ParsingInv
<1>8. CASE content[at + 1].layout # "blank"
  <2>1. PICK x : new = <<x>> /\ AddressOf(x)
    BY <1>8
  <2>2. /\ events' \in Seq(S \union {x}) /\ Len(events') = Len(events) + 1
        /\ \A i \in DOMAIN events' : events'[i] = x \/ (i \in DOMAIN events /\ events'[i] = events[i])
    BY <1>1, <1>2, <2>1, AppendFacts
  <2>3. Cardinality(Written(n + 1)) = Cardinality(Written(n)) + 1
    BY <1>2, <1>8, OneLineMore
  <2>4. AddressKept'
    <3>1. \A i \in DOMAIN events : AddressOf(events[i])
      BY DEF ParsingInv, AddressKept, AddressOf
    <3>2. \A i \in DOMAIN events' : AddressOf(events'[i])
      BY <2>1, <2>2, <3>1
    <3> QED
      BY <1>6, <3>2 DEF AddressKept, AddressOf
  <2> QED
    BY <1>1, <1>2, <1>3, <1>4, <1>5, <1>9, <2>2, <2>3, <2>4 DEF ParsingInv
<1> QED
  BY <1>7, <1>8

(* Files are opened, read to their end or as far as they can be, and        *)
(* closed.                                                                  *)
LEMMA ParsingStep ==
  ASSUME ParsingInv, ParsingNext \/ UNCHANGED parsingVars
  PROVE  ParsingInv'
<1>1. CASE OpenFile
  <2>1. UNCHANGED <<at, events, files>> /\ at = 0 /\ events = <<>> /\ parsing' = "open"
    BY <1>1 DEF OpenFile, ParsingInv
  <2>2. PICK n \in Nat : content' \in [1..n -> ContentOf(kind')]
    <3>1. PICK n \in 0..MaxLines : content' \in [1..n -> ContentOf(kind')]
      BY <1>1 DEF OpenFile
    <3>2. n \in Nat
      BY ParsingAssumption
    <3> QED
      BY <3>1, <3>2
  <2>3. content' \in Seq(ContentOf(kind')) /\ Len(content') \in Nat
    BY <2>2
  <2>4. (Len(events) = Cardinality(Written(at)))'
    <3>1. Written(at)' = {}
      BY <2>1 DEF Written
    <3>2. Len(<<>>) = 0
      OBVIOUS
    <3> QED
      BY <2>1, <3>1, <3>2, FS_EmptySet
  <2>5. LinesAccounted' /\ AddressKept'
    BY <2>1 DEF LinesAccounted, AddressKept
  <2>6. (\E S : events \in Seq(S))'
    BY <2>1 DEF ParsingInv
  <2>7. /\ (content \in Seq(ContentOf(kind)))' /\ (at \in Nat /\ at <= Len(content))'
        /\ (damaged => kind # "other")'
    BY <1>1, <2>1, <2>3 DEF ContentOf, OpenFile
  <2> QED
    BY <2>1, <2>4, <2>5, <2>6, <2>7 DEF ParsingInv
<1>2. CASE NextFile
  <2>1. parsing' = "idle" /\ at' = 0 /\ events' = <<>> /\ content' = <<>> /\ ~damaged'
    BY <1>2 DEF NextFile
  <2>2. <<>> \in Seq(ContentOf(kind')) /\ <<>> \in Seq({}) /\ Len(<<>>) = 0
    OBVIOUS
  <2>3. LinesAccounted' /\ AddressKept'
    BY <2>1 DEF LinesAccounted, AddressKept
  <2>4. (content \in Seq(ContentOf(kind)))'
    BY <2>1, <2>2 DEF ContentOf
  <2> QED
    BY <2>1, <2>2, <2>3, <2>4 DEF ParsingInv
<1>3. CASE ParseLine
  <2>1. /\ content[at + 1] \in Lines /\ ~LineRaises(content[at + 1])
        /\ Take(LineEvents(content[at + 1]))
    BY <1>3 DEF ParseLine, Take, ParsingInv, ContentOf
  <2> QED
    BY <2>1, LineGives, TakeKeeps
<1>4. CASE ParseRow
  <2>1. /\ content[at + 1] \in Records /\ ~LineRaises(content[at + 1])
        /\ Take(<<ParseRecord(content[at + 1])>>)
    BY <1>4 DEF ParseRow, Take, ParsingInv, ContentOf, LineRaises
  <2>2. PICK line \in Records : line = content[at + 1]
    BY <2>1
  <2>3. LineEvents(line) = <<ParseRecord(line)>> /\ line.layout # "blank"
    BY DEF LineEvents, Records, Layouts, Unmarked
  <2>4. line \in Lines
    BY DEF Lines
  <2> QED
    BY <2>1, <2>2, <2>3, <2>4, LineGives, TakeKeeps
<1>5. CASE ParseMember
  <2>1. kind = "archive" /\ content[at + 1] = Bare("member") /\ Take(<<Plain(content[at + 1].layout)>>)
    BY <1>5 DEF ParseMember, Take, ParsingInv, ContentOf
  <2>2. content[at + 1].layout = "member"
    BY <2>1 DEF Bare
  <2>3. PICK x : x = Plain("member")
    OBVIOUS
  <2>4. AddressOf(x)
    BY <2>3 DEF AddressOf, Plain, Bare, Layouts, Unmarked
  <2>5. Take(<<x>>)
    BY <2>1, <2>2, <2>3
  <2>6. ~LineRaises(content[at + 1])
    BY <2>1, <2>2 DEF LineRaises, Far, Bare
  <2> QED
    BY <2>2, <2>4, <2>5, <2>6, TakeKeeps
<1>7. CASE LineFails \/ FileFails
  <2>1. /\ events' = <<>> /\ parsing' = "failed" /\ UNCHANGED <<kind, damaged, content, at>>
    BY <1>7 DEF LineFails, FileFails, ReadingFails
  <2>5. damaged \/ \E i \in DOMAIN content : LineRaises(content[i])
    <3>1. CASE LineFails
      <4>1. at + 1 \in 1..Len(content) /\ 1..Len(content) = DOMAIN content
        BY <3>1 DEF LineFails, ParsingInv
      <4> QED
        BY <3>1, <4>1 DEF LineFails
    <3>2. CASE FileFails
      BY <3>2 DEF FileFails
    <3> QED
      BY <1>7, <3>1, <3>2
  <2>2. <<>> \in Seq({})
    OBVIOUS
  <2>3. LinesAccounted' /\ AddressKept'
    BY <2>1, <2>5 DEF LinesAccounted, AddressKept, LineRaises
  <2>4. (content \in Seq(ContentOf(kind)))'
    BY <2>1 DEF ParsingInv, ContentOf
  <2> QED
    BY <2>1, <2>2, <2>3, <2>4 DEF ParsingInv
<1>8. CASE CloseDamaged \/ Close
  <2>1. /\ UNCHANGED <<hint, folder, kind, damaged, content, at>>
        /\ parsing = "open" /\ parsing' = "closed"
        /\ events' = IF damaged \/ kind = "other" THEN Append(events, Plain("file")) ELSE events
        /\ IF damaged THEN kind \in {"sqlite", "archive"} ELSE kind # "other" => at = Len(content)
    BY <1>8 DEF CloseDamaged, Close, ParsingInv
  <2>2. PICK S, x : events \in Seq(S) /\ x = Plain("file")
    BY DEF ParsingInv
  <2>3. AddressOf(x)
    BY <2>2 DEF AddressOf, Plain, Bare, Layouts, Unmarked
  <2>4. /\ Append(events, x) \in Seq(S \union {x}) /\ Len(events) \in Nat
        /\ Len(Append(events, x)) = Len(events) + 1
        /\ \A i \in DOMAIN Append(events, x) :
             Append(events, x)[i] = x \/ (i \in DOMAIN events /\ Append(events, x)[i] = events[i])
    BY <2>2, AppendFacts
  <2>5. AddressKept'
    <3>1. /\ hint' = hint
          /\ \A r : (Undisputed(r)' <=> Undisputed(r)) /\ (IsTpotRecord(r)' <=> IsTpotRecord(r))
      BY <2>1 DEF Undisputed, IsTpotRecord, TypeOf, SourceFromPath
    <3>2. \A i \in DOMAIN events : AddressOf(events[i])
      BY DEF ParsingInv, AddressKept, AddressOf
    <3>3. \A i \in DOMAIN events' : AddressOf(events'[i])
      BY <2>1, <2>2, <2>3, <2>4, <3>2
    <3> QED
      BY <3>1, <3>3 DEF AddressKept, AddressOf
  <2>6. LinesAccounted'
    <3>1. Len(events) = Cardinality(Written(at))
      BY <2>1 DEF ParsingInv
    <3>2. Len(events') = Cardinality(Written(at)) + IF damaged \/ kind = "other" THEN 1 ELSE 0
      BY <2>1, <2>2, <2>4, <3>1
    <3>3. \A i \in 1..at : ~LineRaises(content[i])
      BY <2>1 DEF ParsingInv
    <3> QED
      BY <2>1, <3>2, <3>3 DEF LinesAccounted, Written, LineRaises
  <2>7. (\E T : events \in Seq(T))'
    BY <2>1, <2>2, <2>4
  <2>8. (content \in Seq(ContentOf(kind)))'
    BY <2>1 DEF ParsingInv, ContentOf
  <2> QED
    BY <2>1, <2>5, <2>6, <2>7, <2>8 DEF ParsingInv
<1>9. CASE UNCHANGED parsingVars
  <2>1. UNCHANGED <<hint, folder, kind, damaged, content, at, events, files, parsing>>
    BY <1>9 DEF parsingVars
  <2>2. /\ \A r : (Undisputed(r)' <=> Undisputed(r)) /\ (IsTpotRecord(r)' <=> IsTpotRecord(r))
        /\ \A x : LineRaises(x)' <=> LineRaises(x)
    BY <2>1 DEF Undisputed, IsTpotRecord, TypeOf, SourceFromPath, LineRaises
  <2>3. (content \in Seq(ContentOf(kind)))' /\ Written(at)' = Written(at)
    BY <2>1 DEF ParsingInv, ContentOf, Written
  <2>4. LinesAccounted' /\ AddressKept'
    BY <2>1, <2>2 DEF ParsingInv, LinesAccounted, AddressKept
  <2> QED
    BY <2>1, <2>2, <2>3, <2>4 DEF ParsingInv
<1> QED
  BY <1>1, <1>2, <1>3, <1>4, <1>5, <1>7, <1>8, <1>9 DEF ParsingNext

(* At first no file is open.                                                *)
LEMMA ParsingStart == Init => ParsingInv
<1> SUFFICES ASSUME ParsingInit
             PROVE  ParsingInv
  BY DEF Init
<1>1. <<>> \in Seq({}) /\ <<>> \in Seq(ContentOf(kind)) /\ Len(<<>>) = 0
  OBVIOUS
<1>2. at = 0 /\ events = <<>> /\ content = <<>> /\ parsing = "idle" /\ ~damaged
  BY DEF ParsingInit
<1> QED
  BY <1>1, <1>2 DEF ParsingInv, LinesAccounted, AddressKept

(* A file that is parsed to its end has an event for every line that is     *)
(* neither blank nor a comment, a damaged one says so or fails, and a       *)
(* reading fails only over a line that raises or over damage and then keeps *)
(* nothing (_parse_text_events, _parse_sqlite, parse_ndjson).               *)
THEOREM NoLineDisappears == Spec => []LinesAccounted
<1>1. ParsingInv /\ [Next]_vars => ParsingInv'
  BY OneComponent, ParsingStep
<1>2. ParsingInv => LinesAccounted
  BY DEF ParsingInv
<1> QED
  BY <1>1, <1>2, ParsingStart, PTL DEF Spec

(* A record keeps its source address whichever way it is read, one under a  *)
(* name of T-Pot's own if hint or type tie it to T-Pot (detect_source,      *)
(* _parse_tpot, _parse_generic, _parse_tpot_generic).                       *)
THEOREM NoAddressDisappears == Spec => []AddressKept
<1>1. ParsingInv /\ [Next]_vars => ParsingInv'
  BY OneComponent, ParsingStep
<1>2. ParsingInv => AddressKept
  BY DEF ParsingInv
<1> QED
  BY <1>1, <1>2, ParsingStart, PTL DEF Spec
=============================================================================
