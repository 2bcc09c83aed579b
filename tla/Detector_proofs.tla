---------------------------- MODULE Detector_proofs ----------------------------
(***************************************************************************)
(* Proofs about Detector, for every finite set of flow keys and every      *)
(* threshold.  The walk over the deltas is where the argument lies: what   *)
(* one delta does to the port set and the alerts of one source, and that   *)
(* no ring holds more than its source has sent.                            *)
(***************************************************************************)
EXTENDS Detector, SumLemmas

\* One more alert needs limit more deltas, and no alert needs none.
LEMMA OneMoreAlert ==
    ASSUME NEW n \in Nat, NEW l \in Nat
    PROVE  n * l \in Nat /\ (n + 1) * l = n * l + l /\ 0 * l = 0
BY SMT

\* Sets of keys are finite, and so are the sets of their ports.
LEMMA KeysFinite ==
    ASSUME NEW K \in SUBSET Key
    PROVE  IsFiniteSet(K) /\ Cardinality(K) \in Nat
BY FS_Subset, FS_CardinalityType, DetectorAssumption

LEMMA WalkedFinite ==
    ASSUME TypeOK, NEW s \in Source
    PROVE  IsFiniteSet(Walked(s)) /\ Cardinality(Walked(s)) \in Nat
<1>1. Walked(s) \in SUBSET Key
  BY DEF Walked, From
<1> QED
  BY <1>1, KeysFinite

LEMMA PortsFinite ==
    ASSUME NEW K \in SUBSET Key, NEW s \in Source
    PROVE  IsFiniteSet(PortsOf(K, s)) /\ Cardinality(PortsOf(K, s)) \in Nat
<1> DEFINE F == K \cap From(s)
<1>1. IsFiniteSet(F)
  BY KeysFinite
<1>2. PortsOf(K, s) = {k.port : k \in F}
  BY DEF PortsOf
<1> HIDE DEF F
<1>3. IsFiniteSet({k.port : k \in F})
  <2> DEFINE T == {k.port : k \in F}
  <2>1. [k \in F |-> k.port] \in Surjection(F, T)
    BY DEF Surjection
  <2> HIDE DEF T
  <2>2. IsFiniteSet(T)
    BY <1>1, <2>1, FS_Surjection
  <2> QED
    BY <2>2 DEF T
<1> QED
  BY <1>2, <1>3, FS_CardinalityType

\* More flows have at least as many ports.
LEMMA MorePorts ==
    ASSUME NEW L \in SUBSET Key, NEW K \in SUBSET L, NEW s \in Source
    PROVE  Cardinality(PortsOf(K, s)) <= Cardinality(PortsOf(L, s))
<1>1. PortsOf(K, s) \in SUBSET PortsOf(L, s)
  BY DEF PortsOf
<1> QED
  BY <1>1, PortsFinite, FS_Subset

\* A value that exceeds m times the mean of n, which is not below b, exceeds m * b.
LEMMA AboveBaseline ==
    ASSUME NEW v \in Nat, NEW t \in Nat, NEW n \in Nat, n > 0, NEW m \in Nat, NEW b \in Nat,
           t >= b * n, v * n > m * t
    PROVE  v > m * b
<1> SUFFICES ASSUME v <= m * b PROVE FALSE
  <2>1. m * b \in Nat
    BY SMT
  <2> QED
    BY <2>1
<1>1. PICK d \in Nat : m * b = v + d
  <2>1. m * b \in Nat
    BY SMT
  <2>2. m * b - v \in Nat /\ m * b = v + (m * b - v)
    BY <2>1
  <2> QED
    BY <2>2
<1>2. PICK e \in Nat : t = b * n + e
  <2>1. b * n \in Nat
    BY SMT
  <2>2. t - b * n \in Nat /\ t = b * n + (t - b * n)
    BY <2>1
  <2> QED
    BY <2>2
<1>3. m * t = (m * b) * n + m * e
  BY <1>2, SMT
<1>4. (m * b) * n = v * n + d * n
  BY <1>1, SMT
<1>5. v * n \in Nat /\ d * n \in Nat /\ m * e \in Nat
  BY SMT
<1> QED
  BY <1>3, <1>4, <1>5

\* So a ring that makes a spike ends in a value above Multiplier times MinBaseline.
LEMMA SpikeIsHigh ==
    ASSUME NEW ring \in Seq(Nat), Spike(ring)
    PROVE  /\ Len(ring) \in 1..Len(ring) /\ ring[Len(ring)] \in Nat
           /\ ring[Len(ring)] > Multiplier * MinBaseline
<1> DEFINE n == Len(ring)
<1>1. /\ n \in Nat /\ n > 0 /\ DOMAIN ring = 1..n
      /\ Total(ring) >= MinBaseline * n /\ ring[n] * n > Multiplier * Total(ring)
  BY DEF Spike
<1>2. \A i \in 1..n : ring[i] \in Nat
  OBVIOUS
<1> HIDE DEF n
<1>3. Total(ring) \in Nat
  <2>1. IsFiniteSet(1..n)
    BY <1>1, FS_Interval
  <2> QED
    BY <1>1, <1>2, <2>1, SumNat DEF Total
<1>4. n \in 1..n /\ ring[n] \in Nat
  BY <1>1, <1>2
<1>5. ring[n] > Multiplier * MinBaseline
  BY <1>1, <1>3, <1>4, AboveBaseline, DetectorAssumption
<1> QED
  BY <1>4, <1>5 DEF n

\* Before a walk no source has been seen.
LEMMA NothingWalked ==
    ASSUME DOMAIN deltas = todo, ports = [s \in Source |-> {}], scans = [s \in Source |-> 0],
           limit \in Nat
    PROVE  PortsBeforeAlert /\ DeltasUsedUp
<1> SUFFICES ASSUME NEW s \in Source
             PROVE  /\ ports[s] = WalkedPorts(s) /\ ports[s] = {}
                    /\ scans[s] = 0
                    /\ scans[s] * limit + Cardinality(ports[s]) <= Cardinality(Walked(s))
  BY DEF PortsBeforeAlert, DeltasUsedUp
<1>1. Walked(s) = {}
  BY DEF Walked
<1>2. WalkedPorts(s) = {}
  BY DEF WalkedPorts, PortsOf
<1>3. scans[s] * limit = 0
  BY OneMoreAlert
<1> QED
  BY <1>1, <1>2, <1>3, FS_EmptySet

\* The same of a walk that is about to begin.
LEMMA WalkBegins ==
    ASSUME DOMAIN deltas' = todo', ports' = [s \in Source |-> {}], scans' = [s \in Source |-> 0],
           limit' \in Nat
    PROVE  PortsBeforeAlert' /\ DeltasUsedUp'
<1> SUFFICES ASSUME NEW s \in Source
             PROVE  /\ ports'[s] = WalkedPorts(s)'
                    /\ ports'[s] = {} /\ scans'[s] = 0
                    /\ scans'[s] * limit' + Cardinality(ports'[s]) <= Cardinality(Walked(s)')
  BY DEF PortsBeforeAlert, DeltasUsedUp
<1>1. Walked(s)' = {}
  BY DEF Walked
<1>2. WalkedPorts(s)' = {}
  BY DEF WalkedPorts, PortsOf
<1>3. scans'[s] = 0
  OBVIOUS
<1>4. scans'[s] * limit' = 0
  BY <1>3, OneMoreAlert
<1> QED
  BY <1>1, <1>2, <1>3, <1>4, FS_EmptySet

\* The Detector starts with nothing seen and nothing announced.
LEMMA InvInit == Init => Inv
<1> SUFFICES ASSUME Init PROVE Inv
  OBVIOUS
<1>1. TypeOK
  <2>1. /\ deltas \in [DOMAIN deltas -> Nat] /\ DOMAIN deltas = {}
        /\ table \in [DOMAIN table -> Nat] /\ DOMAIN table = {}
    BY DEF Init, None
  <2>2. rates \in [Source -> Seq(Nat)] /\ \A s \in Source : Len(rates[s]) <= Window
    BY DetectorAssumption DEF Init
  <2>3. events \in Seq(Event) /\ Len(events) <= MaxEvents
    BY DetectorAssumption DEF Init
  <2> QED
    BY <2>1, <2>2, <2>3 DEF Init, TypeOK
<1>2. PortsBeforeAlert /\ DeltasUsedUp
  BY NothingWalked, DetectorAssumption DEF Init, None
<1>3. known = heard /\ AnnouncedOncePerSnapshot /\ WalkIsOver
  BY DEF Init, AnnouncedOncePerSnapshot, WalkIsOver
<1>4. FlowsAreOfSession /\ RingsAreOfSource
  BY DEF Init, None, FlowsAreOfSession, RingsAreOfSource
<1> QED
  BY <1>1, <1>2, <1>3, <1>4 DEF Inv

\* The predicates about the walk read only walkVars.
LEMMA WalkUnchanged ==
    ASSUME PortsBeforeAlert, DeltasUsedUp, UNCHANGED walkVars
    PROVE  PortsBeforeAlert' /\ DeltasUsedUp'
BY DEF PortsBeforeAlert, DeltasUsedUp, WalkedPorts, PortsOf, Walked, walkVars

\* Packets that come in: a flow has not sent more than its source.
LEMMA NewSnapshotSession ==
    ASSUME Inv, NewSnapshot
    PROVE  /\ DOMAIN table' \subseteq Key /\ table' \in [DOMAIN table' -> Nat]
           /\ fresh' \subseteq Key /\ contacted' \subseteq Key /\ sent' \in [Source -> Nat]
           /\ FlowsAreOfSession'
<1>1. PICK F \in SUBSET Key : \E out \in [F \cap Going -> Growths] :
          /\ table' = TableAfter(F, out) /\ fresh' = F /\ contacted' = contacted \cup F
          /\ sent' = [s \in Source |-> SentAfter(out, s)]
  BY DEF NewSnapshot
<1>2. PICK out \in [F \cap Going -> Growths] :
          /\ table' = TableAfter(F, out) /\ fresh' = F /\ contacted' = contacted \cup F
          /\ sent' = [s \in Source |-> SentAfter(out, s)]
  BY <1>1
<1>3. deltas' = table'
  BY DEF NewSnapshot
<1>4. /\ DOMAIN table \subseteq Key /\ \A k \in DOMAIN table : table[k] \in Nat
      /\ \A k \in DOMAIN table : k \in contacted /\ table[k] <= sent[k.src]
      /\ sent \in [Source -> Nat] /\ contacted \subseteq Key
  BY DEF Inv, TypeOK, FlowsAreOfSession
<1>5. DOMAIN out = F \cap Going /\ \A k \in DOMAIN out : out[k] \in Nat
  BY DetectorAssumption
<1>6. ASSUME NEW s \in Source
      PROVE  /\ SumFunctionOnSet(out, DOMAIN out \cap From(s)) \in Nat
             /\ \A k \in DOMAIN out \cap From(s) : out[k] <= SumFunctionOnSet(out, DOMAIN out \cap From(s))
  <2> DEFINE G == DOMAIN out \cap From(s)
  <2>1. IsFiniteSet(G) /\ \A k \in G : out[k] \in Nat
    BY <1>5, KeysFinite
  <2> HIDE DEF G
  <2>2. SumFunctionOnSet(out, G) \in Nat /\ \A k \in G : out[k] <= SumFunctionOnSet(out, G)
    BY <2>1, SumNat, SumMember
  <2> QED
    BY <2>2 DEF G
<1>7. sent' \in [Source -> Nat]
  <2>1. \A s \in Source : SentAfter(out, s) \in Nat
    BY <1>4, <1>5, <1>6 DEF SentAfter
  <2> QED
    BY <1>2, <2>1
<1>8. DOMAIN table' = DOMAIN table \cup F
  BY <1>2 DEF TableAfter
<1>9. ASSUME NEW k \in DOMAIN table'
      PROVE  table'[k] \in Nat /\ k \in contacted' /\ table'[k] <= sent'[k.src]
  <2>1. k \in Key /\ k.src \in Source
    BY <1>4, <1>8 DEF Source
  <2>2. sent'[k.src] = sent[k.src] + SumFunctionOnSet(out, DOMAIN out \cap From(k.src))
    BY <1>2, <1>5, <2>1 DEF SentAfter
  <2>3. table'[k] = (IF k \in DOMAIN table THEN table[k] ELSE 0) + (IF k \in DOMAIN out THEN out[k] ELSE 0)
    BY <1>2, <1>5, <1>8 DEF TableAfter
  <2>4. sent[k.src] \in Nat /\ SumFunctionOnSet(out, DOMAIN out \cap From(k.src)) \in Nat
    BY <1>4, <1>6, <2>1
  <2>5. (IF k \in DOMAIN table THEN table[k] ELSE 0) \in 0..sent[k.src]
    BY <1>4, <2>4
  <2>6. (IF k \in DOMAIN out THEN out[k] ELSE 0) \in 0..SumFunctionOnSet(out, DOMAIN out \cap From(k.src))
    <3>1. k \in DOMAIN out => k \in DOMAIN out \cap From(k.src)
      BY <2>1 DEF From
    <3> QED
      BY <1>5, <1>6, <2>1, <2>4, <3>1
  <2>7. k \in contacted'
    BY <1>2, <1>4, <1>8
  <2> QED
    BY <2>2, <2>3, <2>4, <2>5, <2>6, <2>7
<1>10. table' \in [DOMAIN table' -> Nat]
  <2>1. table' = [k \in DOMAIN table' |-> table'[k]]
    BY <1>2, <1>8 DEF TableAfter
  <2> QED
    BY <1>9, <2>1
<1>11. FlowsAreOfSession'
  BY <1>2, <1>3, <1>8, <1>9 DEF FlowsAreOfSession
<1> QED
  BY <1>2, <1>4, <1>7, <1>8, <1>10, <1>11

\* A new Detector has an empty memory.
LEMMA NewSnapshotInv == Inv /\ NewSnapshot => Inv'
<1> SUFFICES ASSUME Inv, NewSnapshot PROVE Inv'
  OBVIOUS
<1> USE DEF Inv
<1>1. deltas' = table' /\ todo' = DOMAIN deltas'
  BY DEF NewSnapshot
<1>2. rates' \in [Source -> Seq(Nat)] /\ \A s \in Source : Len(rates'[s]) <= Window
  BY DetectorAssumption DEF NewSnapshot
<1>3. TypeOK'
  BY <1>1, <1>2, NewSnapshotSession DEF NewSnapshot, TypeOK, hostVars
<1>4. PortsBeforeAlert' /\ DeltasUsedUp'
  BY <1>1, WalkBegins, DetectorAssumption DEF NewSnapshot
<1>5. (known = heard)' /\ AnnouncedOncePerSnapshot' /\ WalkIsOver'
  BY DEF NewSnapshot, hostVars, AnnouncedOncePerSnapshot, WalkIsOver
<1>6. RingsAreOfSource'
  BY DEF NewSnapshot, RingsAreOfSource
<1> QED
  BY <1>3, <1>4, <1>5, <1>6, NewSnapshotSession

\* What walking a delta does to the deltas and ports that count as walked.
LEMMA WalkedGrows ==
    ASSUME TypeOK, NEW k \in Key, WalkDelta(k), NEW s \in Source
    PROVE  /\ s # k.src => /\ Walked(s)' = Walked(s)
                           /\ WalkedPorts(s)' = WalkedPorts(s)
           /\ s = k.src => /\ k \notin Walked(s)
                           /\ Walked(s)' = Walked(s) \cup {k}
                           /\ WalkedPorts(s)'
                                = WalkedPorts(s) \cup {k.port}
<1>1. deltas' = deltas /\ todo' = todo \ {k} /\ k \in todo /\ k \in DOMAIN deltas
  BY DEF WalkDelta, TypeOK
<1>2. s # k.src => Walked(s)' = Walked(s)
  BY <1>1 DEF Walked, From
<1>3. s = k.src => k \notin Walked(s) /\ Walked(s)' = Walked(s) \cup {k}
  BY <1>1 DEF Walked, From
<1>4. WalkedPorts(s) = {j.port : j \in Walked(s)}
  BY DEF WalkedPorts, PortsOf, Walked
<1>5. WalkedPorts(s)' = {j.port : j \in Walked(s)'}
  BY DEF WalkedPorts, PortsOf, Walked
<1> QED
  BY <1>2, <1>3, <1>4, <1>5

\* One more port.
LEMMA OneMorePort ==
    ASSUME NEW S, IsFiniteSet(S), NEW p
    PROVE  /\ IsFiniteSet(S \cup {p}) /\ Cardinality(S \cup {p}) \in Nat
           /\ Cardinality(S \cup {p}) >= Cardinality(S)
           /\ Cardinality(S \cup {p}) <= Cardinality(S) + 1
<1>1. IsFiniteSet(S \cup {p})
  BY FS_AddElement
<1>2. Cardinality(S \cup {p}) = IF p \in S THEN Cardinality(S) ELSE Cardinality(S) + 1
  BY FS_AddElement
<1> QED
  BY <1>1, <1>2, FS_CardinalityType

\* The port set of a source and its alerts agree with what has been walked.
LEMMA WalkDeltaPorts ==
    ASSUME Inv, NEW k \in Key, WalkDelta(k)
    PROVE  PortsBeforeAlert' /\ DeltasUsedUp'
<1> DEFINE seen == ports[k.src] \cup {k.port}
<1> USE DEF Inv
<1> SUFFICES ASSUME NEW s \in Source
             PROVE  /\ ports'[s] \subseteq WalkedPorts(s)'
                    /\ ports'[s] # {} => Cardinality(ports'[s]) < limit
                    /\ scans'[s] = 0 => ports'[s] = WalkedPorts(s)'
                    /\ scans'[s] > 0 => Cardinality(WalkedPorts(s)') >= limit
                    /\ scans'[s] * limit + Cardinality(ports'[s]) <= Cardinality(Walked(s)')
  BY DEF PortsBeforeAlert, DeltasUsedUp, WalkDelta
<1>1. /\ ports[s] \subseteq WalkedPorts(s)
      /\ ports[s] # {} => Cardinality(ports[s]) < limit
      /\ scans[s] = 0 => ports[s] = WalkedPorts(s)
      /\ scans[s] > 0 => Cardinality(WalkedPorts(s)) >= limit
      /\ scans[s] * limit + Cardinality(ports[s]) <= Cardinality(Walked(s))
  BY DEF PortsBeforeAlert, DeltasUsedUp
<1>f. IsFiniteSet(WalkedPorts(s)) /\ Cardinality(WalkedPorts(s)) \in Nat
  <2>1. DOMAIN deltas \ todo \in SUBSET Key
    BY DEF TypeOK
  <2> QED
    BY <2>1, PortsFinite DEF WalkedPorts
<1>2. scans[s] \in Nat /\ limit \in Nat /\ limit' = limit
  BY DetectorAssumption DEF TypeOK, WalkDelta
<1>3. CASE s # k.src
  <2>1. ports'[s] = ports[s] /\ scans'[s] = scans[s]
    BY <1>3 DEF WalkDelta, TypeOK
  <2>2. Walked(s)' = Walked(s) /\ WalkedPorts(s)' = WalkedPorts(s)
    BY <1>3, WalkedGrows
  <2> QED
    BY <1>1, <2>1, <2>2
<1>4. CASE s = k.src
  <2>1. /\ k \notin Walked(s) /\ Walked(s)' = Walked(s) \cup {k}
        /\ WalkedPorts(s)' = WalkedPorts(s) \cup {k.port}
    BY <1>4, WalkedGrows
  <2>2. Cardinality(Walked(s)') = Cardinality(Walked(s)) + 1 /\ Cardinality(Walked(s)) \in Nat
    BY <2>1, WalkedFinite, FS_AddElement
  <2>3. IsFiniteSet(ports[s]) /\ Cardinality(ports[s]) \in Nat
    BY <1>1, <1>f, FS_Subset, FS_CardinalityType
  <2>4. /\ IsFiniteSet(WalkedPorts(s)') /\ Cardinality(WalkedPorts(s)') \in Nat
        /\ Cardinality(WalkedPorts(s)') >= Cardinality(WalkedPorts(s))
        /\ Cardinality(WalkedPorts(s)) \in Nat
    BY <1>f, <2>1, OneMorePort
  <2>5. /\ IsFiniteSet(seen) /\ Cardinality(seen) \in Nat
        /\ Cardinality(seen) <= Cardinality(ports[s]) + 1
    <3>1. seen = ports[s] \cup {k.port}
      BY <1>4
    <3> QED
      BY <2>3, <3>1, OneMorePort
  <2>6. seen \subseteq WalkedPorts(s)' /\ Cardinality(seen) <= Cardinality(WalkedPorts(s)')
    BY <1>1, <1>4, <2>1, <2>4, FS_Subset
  <2>7. scans[s] * limit \in Nat /\ (scans[s] + 1) * limit = scans[s] * limit + limit
    BY <1>2, OneMoreAlert
  <2>8. CASE EnoughPorts(seen)
    <3>1. ports'[s] = {} /\ scans'[s] = scans[s] + 1 /\ Cardinality(seen) >= limit
      BY <1>4, <2>8 DEF WalkDelta, TypeOK, PortsKept, EnoughPorts
    <3>2. Cardinality(ports'[s]) = 0
      BY <3>1, FS_EmptySet
    <3>3. scans'[s] * limit + Cardinality(ports'[s]) <= Cardinality(Walked(s)')
      BY <1>1, <1>2, <2>2, <2>3, <2>5, <2>7, <3>1, <3>2
    <3>4. Cardinality(WalkedPorts(s)') >= limit
      BY <1>2, <2>1, <2>4, <2>5, <2>6, <3>1
    <3> QED
      BY <1>2, <2>4, <3>1, <3>3, <3>4
  <2>9. CASE ~EnoughPorts(seen)
    <3>1. ports'[s] = seen /\ scans'[s] = scans[s] /\ Cardinality(seen) < limit
      BY <1>2, <1>4, <2>5, <2>9 DEF WalkDelta, TypeOK, PortsKept, EnoughPorts
    <3>2. scans'[s] * limit + Cardinality(ports'[s]) <= Cardinality(Walked(s)')
      BY <1>1, <2>2, <2>3, <2>5, <2>7, <3>1
    <3>3. scans'[s] > 0 => Cardinality(WalkedPorts(s)') >= limit
      BY <1>1, <1>2, <2>1, <2>4, <3>1
    <3>4. scans'[s] = 0 => ports'[s] = WalkedPorts(s)'
      BY <1>1, <1>4, <2>1, <3>1
    <3> QED
      BY <2>4, <2>6, <3>1, <3>2, <3>3, <3>4
  <2> QED
    BY <2>8, <2>9
<1> QED
  BY <1>3, <1>4

\* A ring never holds more than Window values, nor any that were not pushed.
LEMMA PushedInRing ==
    ASSUME NEW ring \in Seq(Nat), Len(ring) <= Window, NEW v \in Nat, NEW c \in Nat, v <= c,
           \A i \in 1..Len(ring) : ring[i] <= c
    PROVE  /\ Pushed(ring, v) \in Seq(Nat) /\ Len(Pushed(ring, v)) <= Window
           /\ \A i \in 1..Len(Pushed(ring, v)) : Pushed(ring, v)[i] <= c
<1>1. CASE Len(ring) < Window
  <2>1. Pushed(ring, v) = Append(ring, v)
    BY <1>1 DEF Pushed
  <2>2. Append(ring, v) \in Seq(Nat) /\ Len(Append(ring, v)) = Len(ring) + 1 /\ Len(ring) \in Nat
    OBVIOUS
  <2>3. \A i \in 1..Len(ring) + 1 : Append(ring, v)[i] <= c
    OBVIOUS
  <2> QED
    BY <1>1, <2>1, <2>2, <2>3, DetectorAssumption
<1>2. CASE ~(Len(ring) < Window)
  <2>1. ring # <<>> /\ Len(ring) = Window /\ Window \in Nat \ {0}
    BY <1>2, DetectorAssumption
  <2> DEFINE t == Tail(ring)
  <2>2. t \in Seq(Nat) /\ Len(t) = Len(ring) - 1 /\ \A i \in 1..Len(t) : t[i] = ring[i + 1]
    BY <2>1
  <2>3. Pushed(ring, v) = Append(t, v)
    BY <1>2 DEF Pushed
  <2> HIDE DEF t
  <2>4. \A i \in 1..Len(t) : t[i] <= c
    BY <2>1, <2>2
  <2> QED
    BY <2>1, <2>2, <2>3, <2>4
<1> QED
  BY <1>1, <1>2

\* What the walk pushes into the ring of a source is what one of its flows has sent.
LEMMA WalkDeltaRings ==
    ASSUME Inv, NEW k \in Key, WalkDelta(k)
    PROVE  /\ rates' \in [Source -> Seq(Nat)] /\ \A s \in Source : Len(rates'[s]) <= Window
           /\ RingsAreOfSource'
<1>1. /\ rates \in [Source -> Seq(Nat)] /\ sent \in [Source -> Nat] /\ sent' = sent
      /\ rates' = [rates EXCEPT ![k.src] = Pushed(@, deltas[k])]
  BY DEF WalkDelta, sessionVars, Inv, TypeOK
<1>2. /\ k.src \in Source /\ deltas[k] \in Nat /\ deltas[k] <= sent[k.src]
  BY DEF Source, WalkDelta, Inv, TypeOK, FlowsAreOfSession
<1>3. ASSUME NEW s \in Source
      PROVE  /\ rates'[s] \in Seq(Nat) /\ Len(rates'[s]) <= Window
             /\ \A i \in 1..Len(rates'[s]) : rates'[s][i] <= sent[s]
  <2>1. /\ rates[s] \in Seq(Nat) /\ Len(rates[s]) <= Window /\ sent[s] \in Nat
        /\ \A i \in 1..Len(rates[s]) : rates[s][i] <= sent[s]
    BY DEF Inv, TypeOK, RingsAreOfSource
  <2>2. CASE s = k.src
    BY <1>1, <1>2, <2>1, <2>2, PushedInRing
  <2>3. CASE s # k.src
    BY <1>1, <2>1, <2>3
  <2> QED
    BY <2>2, <2>3
<1>4. rates' \in [Source -> Seq(Nat)]
  BY <1>1, <1>3
<1>5. spikes' = {}
  BY DEF WalkDelta, Inv, RingsAreOfSource
<1>6. RingsAreOfSource'
  BY <1>1, <1>3, <1>5 DEF RingsAreOfSource
<1> QED
  BY <1>3, <1>4, <1>6

\* A step of the walk.
LEMMA WalkDeltaInv == ASSUME Inv, NEW k \in Key, WalkDelta(k) PROVE Inv'
<1> USE DEF Inv
<1>1. PortsBeforeAlert' /\ DeltasUsedUp'
  BY WalkDeltaPorts
<1>2. k.src \in Source /\ k.port \in Port
  BY DEF Source, Port
<1>3. ports' \in [Source -> SUBSET Port] /\ scans' \in [Source -> Nat]
  BY <1>2 DEF WalkDelta, TypeOK, PortsKept
<1>4. TypeOK'
  BY <1>3, WalkDeltaRings DEF WalkDelta, TypeOK, hostVars, sessionVars
<1>5. (known = heard)' /\ AnnouncedOncePerSnapshot' /\ WalkIsOver' /\ FlowsAreOfSession'
  BY DEF WalkDelta, hostVars, sessionVars, AnnouncedOncePerSnapshot, WalkIsOver, FlowsAreOfSession
<1> QED
  BY <1>1, <1>4, <1>5, WalkDeltaRings

\* The end of the walk.
LEMMA CheckRateSpikesInv == Inv /\ CheckRateSpikes => Inv'
<1> SUFFICES ASSUME Inv, CheckRateSpikes PROVE Inv'
  OBVIOUS
<1> USE DEF Inv
<1>1. PortsBeforeAlert' /\ DeltasUsedUp'
  BY WalkUnchanged DEF CheckRateSpikes
<1>2. events' \in Seq(Event) /\ Len(events') <= MaxEvents
  BY DetectorAssumption DEF CheckRateSpikes
<1>3. TypeOK'
  BY <1>2 DEF CheckRateSpikes, TypeOK, walkVars, sessionVars
<1>4. (known = heard)' /\ AnnouncedOncePerSnapshot' /\ WalkIsOver' /\ FlowsAreOfSession'
  BY DEF CheckRateSpikes, AnnouncedOncePerSnapshot, WalkIsOver, FlowsAreOfSession, walkVars,
         sessionVars
<1>5. RingsAreOfSource'
  BY DEF CheckRateSpikes, RingsAreOfSource, walkVars, sessionVars
<1> QED
  BY <1>1, <1>3, <1>4, <1>5

\* An event announces its device if it is not known.
LEMMA CheckNewHostInv == Inv /\ CheckNewHost => Inv'
<1> SUFFICES ASSUME Inv, CheckNewHost PROVE Inv'
  OBVIOUS
<1> USE DEF Inv
<1> DEFINE m == Head(events).mac
<1>1. PortsBeforeAlert' /\ DeltasUsedUp'
  BY WalkUnchanged DEF CheckNewHost
<1>2. events' \in Seq(Event) /\ Len(events') <= MaxEvents /\ m \in MAC
  <2>1. events \in Seq(Event) /\ events # <<>> /\ Len(events) <= MaxEvents
    BY DEF CheckNewHost, TypeOK
  <2>2. Head(events) \in Event /\ Tail(events) \in Seq(Event) /\ Len(Tail(events)) = Len(events) - 1
    BY <2>1
  <2>3. Len(events) \in Nat
    BY <2>1
  <2> QED
    BY <2>1, <2>2, <2>3, DetectorAssumption DEF CheckNewHost, Event
<1>r. RingsAreOfSource' /\ FlowsAreOfSession'
  BY DEF CheckNewHost, RingsAreOfSource, FlowsAreOfSession, walkVars, sessionVars
<1>3. CASE Head(events).useless
  BY <1>1, <1>2, <1>r, <1>3 DEF CheckNewHost, TypeOK, walkVars, sessionVars,
         AnnouncedOncePerSnapshot, WalkIsOver
<1>4. CASE ~Head(events).useless
  <2>1. /\ heard' = heard \cup {m} /\ known' = known \cup {m}
        /\ hosts' = IF m \in known THEN hosts ELSE [hosts EXCEPT ![m] = @ + 1]
    BY <1>4 DEF CheckNewHost, KnownWith
  <2>2. hosts' \in [MAC -> Nat]
    BY <1>2, <2>1 DEF TypeOK
  <2>3. TypeOK'
    BY <1>2, <2>1, <2>2 DEF CheckNewHost, TypeOK, walkVars, sessionVars
  <2>4. AnnouncedOncePerSnapshot'
    BY <1>2, <2>1 DEF AnnouncedOncePerSnapshot, TypeOK
  <2> QED
    BY <1>1, <1>r, <2>1, <2>3, <2>4 DEF CheckNewHost, WalkIsOver, walkVars
<1> QED
  BY <1>3, <1>4

\* The memory is gone when Analyse has returned.
LEMMA AnalyseReturnsInv == Inv /\ AnalyseReturns => Inv'
<1> SUFFICES ASSUME Inv, AnalyseReturns PROVE Inv'
  OBVIOUS
<1> USE DEF Inv
<1>1. /\ DOMAIN deltas' = {} /\ deltas' \in [DOMAIN deltas' -> Nat] /\ todo' = {}
  BY DEF AnalyseReturns, None, WalkIsOver
<1>2. rates' \in [Source -> Seq(Nat)] /\ \A s \in Source : Len(rates'[s]) <= Window
  BY DetectorAssumption DEF AnalyseReturns
<1>t. PICK kept \in SUBSET DOMAIN table : table' = [k \in kept |-> table[k]]
  BY DEF AnalyseReturns
<1>3. TypeOK'
  <2>1. DOMAIN table' = kept /\ table' \in [kept -> Nat] /\ kept \subseteq Key
    BY <1>t DEF TypeOK
  <2>2. limit' \in PortLimits /\ events' \in Seq(Event) /\ Len(events') <= MaxEvents
    BY DEF AnalyseReturns, TypeOK
  <2>3. /\ contacted' \subseteq Key /\ sent' \in [Source -> Nat] /\ fresh' \subseteq Key
        /\ before' \subseteq MAC /\ hosts' \in [MAC -> Nat]
    BY DEF AnalyseReturns, TypeOK
  <2>4. known' \subseteq MAC /\ heard' \subseteq MAC /\ spikes' \subseteq Source
        /\ ports' \in [Source -> SUBSET Port] /\ scans' \in [Source -> Nat]
        /\ phase' \in {"none", "walk", "hosts"}
    BY DEF AnalyseReturns
  <2> QED
    BY <1>1, <1>2, <2>1, <2>2, <2>3, <2>4 DEF TypeOK
<1>4. PortsBeforeAlert' /\ DeltasUsedUp'
  BY <1>1, WalkBegins, DetectorAssumption DEF AnalyseReturns, TypeOK
<1>5. (known = heard)' /\ AnnouncedOncePerSnapshot' /\ WalkIsOver'
  BY <1>1 DEF AnalyseReturns, AnnouncedOncePerSnapshot, WalkIsOver
<1>6. RingsAreOfSource'
  BY DEF AnalyseReturns, RingsAreOfSource
<1>7. FlowsAreOfSession'
  BY <1>1, <1>t DEF AnalyseReturns, FlowsAreOfSession
<1> QED
  BY <1>3, <1>4, <1>5, <1>6, <1>7

-------------------------------------------------------------------------------
(* The theorems *)

\* Inv is an invariant of Analyse: it holds when a Detector is created and is kept
\* by every round of the loops and by the return.
THEOREM DetectorInvariant == Spec => []Inv
<1>1. Inv /\ UNCHANGED vars => Inv'
  <2> SUFFICES ASSUME Inv, UNCHANGED vars PROVE Inv'
    OBVIOUS
  <2> USE DEF Inv, vars, hostVars, sessionVars
  <2>1. PortsBeforeAlert' /\ DeltasUsedUp'
    BY WalkUnchanged
  <2>2. TypeOK'
    BY DEF TypeOK, walkVars
  <2>3. RingsAreOfSource' /\ FlowsAreOfSession'
    BY DEF RingsAreOfSource, FlowsAreOfSession, walkVars
  <2> QED
    BY <2>1, <2>2, <2>3 DEF AnnouncedOncePerSnapshot, WalkIsOver, walkVars
<1>2. Inv /\ [Next]_vars => Inv'
  BY <1>1, NewSnapshotInv, WalkDeltaInv, CheckRateSpikesInv, CheckNewHostInv, AnalyseReturnsInv
     DEF Next
<1> QED
  BY InvInit, <1>2, PTL DEF Spec

\* A source is reported for a port scan only if the ports it has contacted in the session
\* reach the threshold, and it is reported if the ports it contacted in the last second
\* exceed it, whatever the order of the Go map, whatever flows are in the table from
\* before, and although every alert of updatePortScan forgets the ports seen so far.
THEOREM ScansAreOfContacts == Spec => []ScansMatchContacts
<1>1. Inv => ScansMatchContacts
  <2> SUFFICES ASSUME Inv, NEW s \in Source
               PROVE  /\ scans[s] > 0 => Cardinality(PortsOf(contacted, s)) >= limit
                      /\ phase = "hosts" /\ Cardinality(PortsOf(fresh, s)) > limit => scans[s] > 0
    BY DEF ScansMatchContacts
  <2> DEFINE walked == DOMAIN deltas \ todo
  <2>1. /\ scans[s] \in Nat /\ limit \in Nat
        /\ walked \in SUBSET contacted /\ walked \in SUBSET Key /\ contacted \in SUBSET Key
        /\ fresh \in SUBSET DOMAIN deltas /\ fresh \in SUBSET Key
    BY DetectorAssumption DEF Inv, TypeOK, FlowsAreOfSession
  <2>2. /\ scans[s] > 0 => Cardinality(PortsOf(walked, s)) >= limit
        /\ scans[s] = 0 => ports[s] = PortsOf(walked, s)
        /\ ports[s] # {} => Cardinality(ports[s]) < limit
    BY DEF Inv, PortsBeforeAlert, WalkedPorts
  <2>3. phase = "hosts" => fresh \in SUBSET walked
    BY <2>1 DEF Inv, WalkIsOver
  <2> HIDE DEF walked
  <2>4. /\ Cardinality(PortsOf(walked, s)) \in Nat /\ Cardinality(PortsOf(contacted, s)) \in Nat
        /\ Cardinality(PortsOf(fresh, s)) \in Nat
    BY <2>1, PortsFinite
  <2>5. Cardinality(PortsOf(walked, s)) <= Cardinality(PortsOf(contacted, s))
    BY <2>1, MorePorts
  <2>6. phase = "hosts" => Cardinality(PortsOf(fresh, s)) <= Cardinality(PortsOf(walked, s))
    BY <2>1, <2>3, MorePorts
  <2>7. ASSUME phase = "hosts", Cardinality(PortsOf(fresh, s)) > limit, scans[s] = 0 PROVE FALSE
    <3>1. Cardinality(PortsOf(walked, s)) > limit /\ ports[s] = PortsOf(walked, s)
      BY <2>1, <2>2, <2>4, <2>6, <2>7
    <3>2. ports[s] # {}
      BY <2>1, <3>1, FS_EmptySet
    <3> QED
      BY <2>1, <2>2, <2>4, <3>1, <3>2
  <2> QED
    BY <2>1, <2>2, <2>4, <2>5, <2>7
<1> QED
  BY <1>1, DetectorInvariant, PTL

\* Every port scan alert has used up as many deltas of its source as the threshold
\* says, so the flows of a source bound its alerts in one snapshot.
THEOREM ScansAreBounded == Spec => []ScansUseUpFlows
<1>1. Inv => ScansUseUpFlows
  <2> SUFFICES ASSUME Inv, NEW s \in Source PROVE scans[s] * limit <= Cardinality(Walked(s))
    BY DEF ScansUseUpFlows
  <2>1. scans[s] * limit + Cardinality(ports[s]) <= Cardinality(Walked(s))
    BY DEF Inv, DeltasUsedUp
  <2>2. IsFiniteSet(ports[s])
    <3>1. DOMAIN deltas \ todo \in SUBSET Key /\ ports[s] \subseteq PortsOf(DOMAIN deltas \ todo, s)
      BY DEF Inv, TypeOK, PortsBeforeAlert, WalkedPorts
    <3> QED
      BY <3>1, PortsFinite, FS_Subset
  <2>3. Cardinality(ports[s]) \in Nat /\ Cardinality(Walked(s)) \in Nat
    BY <2>2, FS_CardinalityType, WalkedFinite DEF Inv
  <2>4. scans[s] * limit \in Nat
    BY OneMoreAlert, DetectorAssumption DEF Inv, TypeOK
  <2> QED
    BY <2>1, <2>3, <2>4
<1> QED
  BY <1>1, DetectorInvariant, PTL

\* A source that checkRateSpikes reports has sent more than RateSpikeMultiplier times
\* RateSpikeMinBaseline packets, for any traffic, window and order of the Go map.
THEOREM SpikesAreOfTraffic == Spec => []SpikesNeedTraffic
<1>1. Inv => SpikesNeedTraffic
  <2> SUFFICES ASSUME Inv, NEW s \in spikes PROVE sent[s] > Multiplier * MinBaseline
    BY DEF SpikesNeedTraffic
  <2>1. s \in Source /\ rates[s] \in Seq(Nat) /\ sent[s] \in Nat
    BY DEF Inv, TypeOK
  <2>2. Spike(rates[s]) /\ \A i \in 1..Len(rates[s]) : rates[s][i] <= sent[s]
    BY <2>1 DEF Inv, RingsAreOfSource
  <2> DEFINE last == rates[s][Len(rates[s])]
  <2>3. last \in Nat /\ last <= sent[s] /\ last > Multiplier * MinBaseline
    BY <2>1, <2>2, SpikeIsHigh
  <2>4. Multiplier * MinBaseline \in Nat
    BY DetectorAssumption, SMT
  <2> HIDE DEF last
  <2> QED
    BY <2>1, <2>3, <2>4
<1> QED
  BY <1>1, DetectorInvariant, PTL

\* Within a snapshot checkNewHosts announces every device it hears of exactly once.
THEOREM DevicesAreAnnouncedOnce == Spec => []AnnouncedOncePerSnapshot
BY DetectorInvariant, PTL DEF Inv
===============================================================================
