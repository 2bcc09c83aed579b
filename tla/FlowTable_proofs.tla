--------------------------- MODULE FlowTable_proofs ---------------------------
(***************************************************************************)
(* Proofs about FlowTable, for every set of addresses and every timeout.   *)
(* What happens to one key is independent of the others, so that every     *)
(* step is proved for an arbitrary key.                                    *)
(***************************************************************************)
EXTENDS FlowTable, SumLemmas

-------------------------------------------------------------------------------
(* The decoder *)

\* Whatever combination of layers gopacket found, what a worker sends on has addresses,
\* FIN or RST in TCP only, and no DNS event but one that names the packet's own sender
\* and receiver: no address of an outer or inner level gets into it (processor.go:100-252).
THEOREM DecodedPackets ==
    ASSUME NEW p \in Packets
    PROVE  /\ p \in Packet
           /\ \A e \in p.dns : /\ p.proto # "ARP"
                               /\ p.src = IF e.response THEN e.server ELSE e.client
                               /\ p.dst = IF e.response THEN e.client ELSE e.server
<1>1. PICK f \in Frame : Decodable(f) /\ p = Decode(f)
  BY FlowTableAssumption DEF Packets, Decoded
<1>2. CASE IsARP(f)
  <2>1. f.arp \in Ends
    BY <1>1, <1>2 DEF IsARP, Frame, Layer
  <2> QED
    BY <1>1, <1>2, <2>1 DEF Decode, Packet, Proto, Ends
<1>3. CASE ~IsARP(f)
  <2>1. Network(f) \in Ends
    BY <1>1, <1>3 DEF Decodable, Network, Frame, Layer
  <2>2. Transport(f) \in Proto \ {"ARP"} /\ (f.tcp = "ended" => Transport(f) = "TCP")
    BY DEF Transport, Proto
  <2>3. p = [src |-> Network(f).src, dst |-> Network(f).dst, proto |-> Transport(f),
             fin |-> f.tcp = "ended", dns |-> p.dns]
    BY <1>1, <1>3 DEF Decode
  <2>4. p.dns \subseteq DecodeDNS(f)
    BY <1>1, <1>3 DEF Decode
  <2>5. /\ DecodeDNS(f) \subseteq Lookup
        /\ \A e \in DecodeDNS(f) :
              /\ Network(f).src = IF e.response THEN e.server ELSE e.client
              /\ Network(f).dst = IF e.response THEN e.client ELSE e.server
    <3>1. Network(f).src \in Host /\ Network(f).dst \in Host
      BY <2>1 DEF Ends
    <3>2. CASE f.dns = "response"
      BY <3>1, <3>2 DEF DecodeDNS, Lookup
    <3>3. CASE f.dns # "response"
      BY <3>1, <3>3 DEF DecodeDNS, Lookup
    <3> QED
      BY <3>2, <3>3
  <2>6. /\ p.src = Network(f).src /\ p.dst = Network(f).dst
        /\ p.proto = Transport(f) /\ p.fin = (f.tcp = "ended")
    BY <2>3
  <2>7. p \in [src : Host, dst : Host, proto : Proto, fin : BOOLEAN, dns : SUBSET Lookup]
    <3>1. /\ Network(f).src \in Host /\ Network(f).dst \in Host
          /\ Transport(f) \in Proto /\ (f.tcp = "ended") \in BOOLEAN
          /\ p.dns \in SUBSET Lookup
      BY <2>1, <2>2, <2>4, <2>5 DEF Ends
    <3>2. [src |-> Network(f).src, dst |-> Network(f).dst, proto |-> Transport(f),
           fin |-> f.tcp = "ended", dns |-> p.dns]
              \in [src : Host, dst : Host, proto : Proto, fin : BOOLEAN, dns : SUBSET Lookup]
      <4> DEFINE fin == f.tcp = "ended"
      <4>1. fin \in BOOLEAN
        OBVIOUS
      <4> HIDE DEF fin
      <4> QED
        BY <3>1, <4>1
    <3> QED
      BY <2>3, <3>2, Zenon
  <2>8. p.fin => p.proto = "TCP"
    BY <2>2, <2>6
  <2> QED
    BY <2>2, <2>4, <2>5, <2>6, <2>7, <2>8 DEF Packet
<1> QED
  BY <1>2, <1>3

-------------------------------------------------------------------------------
(* The operators on one flow *)

\* One more packet adds one to exactly one of the two directions.
LEMMA CountedAddsOne ==
    ASSUME NEW c, NEW p
    PROVE  /\ c \in Counters => /\ Counted(c, p) \in Counters
                                /\ Total(Counted(c, p)) = Total(c) + 1
           /\ c \in Flow => /\ Counted(c, p) \in Flow
                            /\ Total(Counted(c, p)) = Total(c) + 1
BY DEF Counted, Counters, Flow, Total

\* A packet adds one to its flow, dates it, and never reopens it.
LEMMA TouchedAddsOne ==
    ASSUME NEW f \in Flow, NEW p \in Packet, NEW lag \in 0..IdleTimeout + 1
    PROVE  /\ Touched(f, p, lag) \in Flow
           /\ Total(Touched(f, p, lag)) = Total(f) + 1
           /\ f.closed => Touched(f, p, lag).closed
<1>1. Counted(f, p) \in Flow /\ Total(Counted(f, p)) = Total(f) + 1
  BY CountedAddsOne
<1>2. Counted(f, p).closed = f.closed
  BY DEF Counted, Flow
<1>3. p.fin \in BOOLEAN
  BY DEF Packet
<1> QED
  BY <1>1, <1>2, <1>3 DEF Touched, Flow, Total

\* Time changes the age of a flow and nothing else.
LEMMA AgedKeepsCounts ==
    ASSUME TypeOK, NEW d \in Nat, NEW k \in Key
    PROVE  /\ Aged(flows[k], d) \in Flow
           /\ Aged(flows[k], d).in = flows[k].in /\ Aged(flows[k], d).out = flows[k].out
           /\ Aged(flows[k], d).closed = flows[k].closed
BY FlowTableAssumption DEF TypeOK, Aged, Flow

\* flush keeps a flow as it is or removes it.
LEMMA KeptIsAllOrNothing ==
    ASSUME NEW f \in Flow
    PROVE  /\ Kept(f) \in Flow /\ ~Kept(f).closed
           /\ Expired(f) => Kept(f) = NoFlow /\ Total(Kept(f)) = 0
           /\ ~Expired(f) => Kept(f) = f
           /\ Total(f) \in Nat /\ Total(Kept(f)) \in Nat /\ Total(Kept(f)) <= Total(f)
           /\ Expired(f) \in BOOLEAN
BY FlowTableAssumption DEF Kept, Expired, NoFlow, Flow, Total

-------------------------------------------------------------------------------
(* The sums *)

\* Finitely many hosts have finitely many keys.
LEMMA KeyIsFinite == IsFiniteSet(Key)
<1> DEFINE Triple == Host \X (Host \X Proto)
           f == [k \in Key |-> <<k.src, <<k.dst, k.proto>>>>]
<1>1. IsFiniteSet(Proto)
  <2>1. IsFiniteSet({"TCP"} \cup {"Rest"} \cup {"ARP"})
    BY FS_Singleton, FS_Union
  <2>2. Proto = {"TCP"} \cup {"Rest"} \cup {"ARP"}
    BY DEF Proto
  <2> QED
    BY <2>1, <2>2
<1>2. IsFiniteSet(Triple)
  BY <1>1, FS_Product, FlowTableAssumption
<1>3. f \in Injection(Key, Triple)
  BY DEF Injection, IsInjective, Key
<1> QED
  BY <1>2, <1>3, FS_Injection

\* The keys of the flows that a host receives in, and of those it sends in.
LEMMA KeysOfHost ==
    ASSUME NEW h \in Host
    PROVE  IsFiniteSet({k \in Key : k.dst = h}) /\ IsFiniteSet({k \in Key : k.src = h})
BY KeyIsFinite, FS_Subset

\* The sums over an empty table agree.
LEMMA InitAddsUp == Init => IntervalAddsUp
<1> SUFFICES ASSUME Init PROVE IntervalAddsUp
  OBVIOUS
<1>1. SumFunctionOnSet([k \in Key |-> Base(k)], Key)
         = SumFunctionOnSet([k \in Key |-> Total(flows[k])], Key)
  <2>1. \A k \in Key : Base(k) = Total(flows[k])
    BY DEF Init, Base, NoFlow, NoDelta, Total
  <2> QED
    BY <2>1, KeyIsFinite, SumSame
<1>2. Total(interval) = 0 /\ \A q \in Proto : protocols[q] = 0
  BY DEF Init, NoCount, Total
<1> QED
  BY <1>1, <1>2 DEF IntervalAddsUp, Proto

\* Nobody has been heard of, and no sum is negative.
LEMMA InitRowsHonest == Init => HostRowsAreHonest
<1> SUFFICES ASSUME Init, NEW h \in Host, NEW K \in SUBSET Key
             PROVE  0 <= SumFunctionOnSet(seen, K)
  BY DEF Init, HostRowsAreHonest
<1>1. IsFiniteSet(K) /\ \A k \in K : seen[k] \in Nat
  BY KeyIsFinite, FS_Subset DEF Init
<1>2. SumFunctionOnSet(seen, K) \in Nat
  BY <1>1, SumNat
<1> QED
  BY <1>2

-------------------------------------------------------------------------------
(* The steps *)

\* An empty table satisfies Inv.
LEMMA InvInit == Init => Inv
<1> SUFFICES ASSUME Init PROVE Inv
  OBVIOUS
<1>1. /\ running \in BOOLEAN /\ received \in 0..MaxPackets
      /\ interval \in Counters /\ protocols \in [Proto -> Nat]
      /\ arps \subseteq Host /\ lookups \subseteq Lookup
  BY FlowTableAssumption DEF Init, NoCount, Counters
<1>2. flows \in [Key -> Flow]
  BY FlowTableAssumption DEF Init, NoFlow, Flow
<1>3. snap \in [in : Nat, out : Nat, protocols : [Proto -> Nat], arps : SUBSET Host,
                lookups : SUBSET Lookup, deltas : [Key -> Delta]]
  BY <1>1 DEF Init, NoDelta, Delta
<1>4. flowRows \in [Key -> Delta]
  BY DEF Init, NoDelta, Delta
<1>5. seen \in [Key -> Nat] /\ retired \in [Key -> Nat] /\ hostRows \in [Host -> HostRow]
  BY DEF Init, HostRow
<1>6. TypeOK
  BY <1>1, <1>2, <1>3, <1>4, <1>5 DEF TypeOK
<1>7. NothingMiscounted /\ FlowRowsAreHonest /\ ClosedThisInterval /\ EventsHaveFlows
  BY DEF Init, NothingMiscounted, FlowRowsAreHonest, ClosedThisInterval, EventsHaveFlows,
         NoFlow, NoDelta, Total
<1> QED
  BY <1>6, <1>7, InitAddsUp, InitRowsHonest DEF Inv

\* What accumulating a packet does to each flow.
LEMMA AccumulateFlow ==
    ASSUME TypeOK, NEW p \in Packets, NEW lag \in 0..MaxLag, Accumulate(p, lag), NEW k \in Key
    PROVE  /\ flows'[k] \in Flow
           /\ flows[k].closed => flows'[k].closed
           /\ IF p.proto # "ARP" /\ k = KeyOf(p)
              THEN Total(flows'[k]) = Total(flows[k]) + 1 /\ seen'[k] = seen[k] + 1
              ELSE flows'[k] = flows[k] /\ seen'[k] = seen[k]
           /\ p.proto # "ARP" /\ k = KeyOf(p) => Total(flows'[k]) > 0
<1>p. p \in Packet
  BY DecodedPackets
<1>1. CASE p.proto = "ARP" \/ k # KeyOf(p)
  <2>1. flows'[k] = flows[k] /\ seen'[k] = seen[k]
    <3>1. CASE p.proto = "ARP" \/ Nobody \in {p.src, p.dst}
      BY <3>1 DEF Accumulate
    <3>2. CASE ~(p.proto = "ARP" \/ Nobody \in {p.src, p.dst})
      <4>1. /\ flows' = [flows EXCEPT ![KeyOf(p)] = Touched(@, p, lag)]
            /\ seen' = [seen EXCEPT ![KeyOf(p)] = @ + 1]
        BY <3>2 DEF Accumulate
      <4> QED
        BY <1>1, <3>2, <4>1 DEF TypeOK
    <3> QED
      BY <3>1, <3>2
  <2> QED
    BY <1>1, <2>1 DEF TypeOK
<1>2. CASE p.proto # "ARP" /\ k = KeyOf(p)
  <2>1. flows'[k] = Touched(flows[k], p, lag) /\ seen'[k] = seen[k] + 1
    <3>1. Nobody \notin {p.src, p.dst}
      BY <1>p, DecoderAssumption DEF Packet
    <3> QED
      BY <1>2, <3>1 DEF Accumulate, TypeOK
  <2>2. flows[k] \in Flow /\ lag \in 0..IdleTimeout + 1
    BY FlowTableAssumption DEF TypeOK
  <2>3. /\ Touched(flows[k], p, lag) \in Flow
        /\ Total(Touched(flows[k], p, lag)) = Total(flows[k]) + 1
        /\ flows[k].closed => Touched(flows[k], p, lag).closed
    BY <1>p, <2>2, TouchedAddsOne
  <2>4. Total(flows[k]) \in Nat
    BY <2>2 DEF Total, Flow
  <2> QED
    BY <1>2, <2>1, <2>3, <2>4
<1> QED
  BY <1>1, <1>2

\* A table in which no flow of another one is missing carries the same DNS events.
LEMMA CarriedFurther ==
    ASSUME NEW t, NEW u, NEW e, Carried(e, t),
           \A k \in Key : Total(t[k]) > 0 => Total(u[k]) > 0
    PROVE  Carried(e, u)
BY DEF Carried

\* A packet is added to the interval, to its protocol and, if it has a key, to one flow.
LEMMA AccumulateAddsUp ==
    ASSUME Inv, NEW p \in Packets, NEW lag \in 0..MaxLag, Accumulate(p, lag)
    PROVE  IntervalAddsUp'
<1> DEFINE before == [k \in Key |-> Base(k)]
           grown  == [k \in Key |-> Total(flows[k])]
<1>1. /\ Total(interval) = protocols["TCP"] + protocols["Rest"] + protocols["ARP"]
      /\ Total(interval) + SumFunctionOnSet(before, Key)
             = protocols["ARP"] + SumFunctionOnSet(grown, Key)
  BY DEF Inv, IntervalAddsUp
<1>2. Total(interval') = Total(interval) + 1 /\ Total(interval) \in Nat
  BY CountedAddsOne DEF Inv, TypeOK, Accumulate, Counters, Total
<1>3. /\ \A q \in Proto : protocols[q] \in Nat
      /\ p.proto \in Proto /\ protocols' = [protocols EXCEPT ![p.proto] = @ + 1]
  BY DecodedPackets DEF Inv, TypeOK, Accumulate, Packet
<1>4. SumFunctionOnSet(before', Key) = SumFunctionOnSet(before, Key)
  <2>1. snap' = snap
    BY DEF Accumulate
  <2> QED
    BY <2>1 DEF Base
<1>5. \A k \in Key : grown[k] \in Nat /\ before[k] \in Nat
  BY DEF Inv, TypeOK, Flow, Delta, Base, Total
<1>6. SumFunctionOnSet(grown, Key) \in Nat /\ SumFunctionOnSet(before, Key) \in Nat
  BY <1>5, KeyIsFinite, SumNat
<1>7. SumFunctionOnSet(grown', Key) = IF p.proto = "ARP" THEN SumFunctionOnSet(grown, Key)
                                                         ELSE SumFunctionOnSet(grown, Key) + 1
  <2>1. CASE p.proto = "ARP"
    <3>1. flows' = flows
      BY <2>1 DEF Accumulate
    <3> QED
      BY <2>1, <3>1
  <2>2. CASE p.proto # "ARP"
    <3>1. KeyOf(p) \in Key
      BY <1>3, <2>2, DecodedPackets DEF KeyOf, Key, Packet
    <3>2. \A k \in Key : grown'[k] = IF k = KeyOf(p) THEN grown[k] + 1 ELSE grown[k]
      <4> SUFFICES ASSUME NEW k \in Key
                   PROVE  Total(flows'[k]) = IF k = KeyOf(p) THEN Total(flows[k]) + 1
                                                             ELSE Total(flows[k])
        OBVIOUS
      <4> QED
        BY <2>2, AccumulateFlow DEF Inv
    <3> HIDE DEF grown
    <3> QED
      BY <1>5, <2>2, <3>1, <3>2, KeyIsFinite, SumIncrement
  <2> QED
    BY <2>1, <2>2
<1> HIDE DEF before, grown
<1>8. /\ Total(interval') = protocols'["TCP"] + protocols'["Rest"] + protocols'["ARP"]
      /\ Total(interval') + SumFunctionOnSet(before', Key)
             = protocols'["ARP"] + SumFunctionOnSet(grown', Key)
  <2>1. protocols \in [Proto -> Nat]
    BY DEF Inv, TypeOK
  <2>2. CASE p.proto = "ARP"
    BY <1>1, <1>2, <1>3, <1>4, <1>6, <1>7, <2>1, <2>2 DEF Proto
  <2>3. CASE p.proto # "ARP"
    BY <1>1, <1>2, <1>3, <1>4, <1>6, <1>7, <2>1, <2>3 DEF Proto
  <2> QED
    BY <2>2, <2>3
<1> QED
  BY <1>8 DEF IntervalAddsUp, before, grown

\* What was seen only grows, and the rows are not written.
LEMMA AccumulateRowsHonest ==
    ASSUME Inv, NEW p \in Packets, NEW lag \in 0..MaxLag, Accumulate(p, lag)
    PROVE  HostRowsAreHonest'
<1> SUFFICES ASSUME NEW h \in Host
             PROVE  /\ hostRows'[h].in <= SumFunctionOnSet(seen', {k \in Key : k.dst = h})
                    /\ hostRows'[h].out <= SumFunctionOnSet(seen', {k \in Key : k.src = h})
  BY DEF HostRowsAreHonest
<1>1. /\ hostRows[h].in <= SumFunctionOnSet(seen, {k \in Key : k.dst = h})
      /\ hostRows[h].out <= SumFunctionOnSet(seen, {k \in Key : k.src = h})
      /\ hostRows[h].in \in Nat /\ hostRows[h].out \in Nat /\ hostRows' = hostRows
  BY DEF Inv, HostRowsAreHonest, TypeOK, HostRow, Accumulate, dbVars
<1>2. ASSUME NEW k \in Key PROVE seen[k] \in Nat /\ seen'[k] \in Nat /\ seen[k] <= seen'[k]
  <2>1. seen[k] \in Nat
    BY DEF Inv, TypeOK
  <2> QED
    BY <2>1, AccumulateFlow DEF Inv
<1>3. ASSUME NEW K \in SUBSET Key
      PROVE  /\ SumFunctionOnSet(seen, K) \in Nat /\ SumFunctionOnSet(seen', K) \in Nat
             /\ SumFunctionOnSet(seen, K) <= SumFunctionOnSet(seen', K)
  <2>1. IsFiniteSet(K)
    BY KeyIsFinite, FS_Subset
  <2> QED
    BY <1>2, <2>1, SumNat, SumMonotone
<1> DEFINE to   == {k \in Key : k.dst = h}
           from == {k \in Key : k.src = h}
<1>4. to \in SUBSET Key /\ from \in SUBSET Key
  OBVIOUS
<1> HIDE DEF to, from
<1>5. /\ SumFunctionOnSet(seen, to) <= SumFunctionOnSet(seen', to)
      /\ SumFunctionOnSet(seen, from) <= SumFunctionOnSet(seen', from)
      /\ SumFunctionOnSet(seen, to) \in Nat /\ SumFunctionOnSet(seen', to) \in Nat
      /\ SumFunctionOnSet(seen, from) \in Nat /\ SumFunctionOnSet(seen', from) \in Nat
  BY <1>3, <1>4
<1>6. /\ hostRows[h].in <= SumFunctionOnSet(seen, to)
      /\ hostRows[h].out <= SumFunctionOnSet(seen, from)
  BY <1>1 DEF to, from
<1>7. /\ hostRows'[h].in <= SumFunctionOnSet(seen', to)
      /\ hostRows'[h].out <= SumFunctionOnSet(seen', from)
  BY <1>1, <1>5, <1>6
<1> QED
  BY <1>7 DEF to, from

\* accumulate keeps Inv.
LEMMA AccumulateInv ==
    ASSUME Inv, NEW p \in Packets, NEW lag \in 0..MaxLag, Accumulate(p, lag)
    PROVE  Inv'
<1>1. interval' \in Counters /\ interval' # NoCount
  BY CountedAddsOne DEF Inv, TypeOK, Accumulate, NoCount, Total, Counters
<1>2. p.proto \in Proto /\ p.src \in Host /\ p.dst \in Host /\ p.dns \subseteq Lookup
  BY DecodedPackets DEF Packet
<1>3. seen' \in [Key -> Nat]
  BY DEF Inv, TypeOK, Accumulate
<1>4. flows' \in [Key -> Flow]
  <2>1. flows' = [k \in Key |-> flows'[k]]
    BY DEF Inv, TypeOK, Accumulate
  <2> QED
    BY <2>1, AccumulateFlow DEF Inv
<1>5. TypeOK'
  <2>1. /\ protocols' \in [Proto -> Nat] /\ received' \in 0..MaxPackets
        /\ arps' \subseteq Host /\ lookups' \subseteq Lookup
    BY <1>2, FlowTableAssumption DEF Inv, TypeOK, Accumulate
  <2> QED
    BY <1>1, <1>3, <1>4, <2>1 DEF Inv, TypeOK, Accumulate, dbVars
<1>6. NothingMiscounted'
  <2> SUFFICES ASSUME NEW k \in Key PROVE seen'[k] = Total(flows'[k]) + retired'[k]
    BY DEF NothingMiscounted
  <2>1. retired'[k] = retired[k] /\ retired[k] \in Nat /\ Total(flows[k]) \in Nat
    BY DEF Inv, TypeOK, Accumulate, Total, Flow
  <2> QED
    BY <2>1, AccumulateFlow DEF Inv, NothingMiscounted
<1>7. FlowRowsAreHonest'
  <2> SUFFICES ASSUME NEW k \in Key PROVE Total(flowRows'[k]) <= seen'[k]
    BY DEF FlowRowsAreHonest
  <2>1. flowRows' = flowRows /\ Total(flowRows[k]) \in Nat /\ seen[k] \in Nat
    BY DEF Inv, TypeOK, Accumulate, dbVars, Delta, Total
  <2> QED
    BY <2>1, AccumulateFlow DEF Inv, FlowRowsAreHonest
<1>8. ClosedThisInterval'
  BY <1>1 DEF ClosedThisInterval
<1>9. EventsHaveFlows'
  <2>1. lookups' = lookups \cup p.dns /\ snap' = snap
    BY DEF Accumulate
  <2>2. \A k \in Key : Total(flows[k]) > 0 => Total(flows'[k]) > 0
    <3> SUFFICES ASSUME NEW k \in Key, Total(flows[k]) > 0 PROVE Total(flows'[k]) > 0
      OBVIOUS
    <3>1. Total(flows[k]) \in Nat
      BY DEF Inv, TypeOK, Total, Flow
    <3> QED
      BY <3>1, AccumulateFlow DEF Inv
  <2>3. ASSUME NEW e \in lookups PROVE Carried(e, flows')
    BY <2>2, <2>3, CarriedFurther DEF Inv, EventsHaveFlows
  <2>4. ASSUME NEW e \in p.dns PROVE Carried(e, flows')
    <3>1. /\ p.proto # "ARP"
          /\ p.src = IF e.response THEN e.server ELSE e.client
          /\ p.dst = IF e.response THEN e.client ELSE e.server
      BY <2>4, DecodedPackets
    <3>2. KeyOf(p) \in Key /\ KeyOf(p).src = p.src /\ KeyOf(p).dst = p.dst
      BY <1>2, <3>1 DEF KeyOf, Key
    <3>3. Total(flows'[KeyOf(p)]) > 0
      BY <3>1, <3>2, AccumulateFlow DEF Inv
    <3> QED
      BY <3>1, <3>2, <3>3 DEF Carried
  <2> QED
    BY <2>1, <2>3, <2>4 DEF Inv, EventsHaveFlows
<1> QED
  BY <1>5, <1>6, <1>7, <1>8, <1>9, AccumulateAddsUp, AccumulateRowsHonest DEF Inv

\* What flush does to each flow.
LEMMA FlushFlow ==
    ASSUME TypeOK, NEW d \in Nat, Flush(d), NEW k \in Key
    PROVE  /\ flows'[k] \in Flow /\ ~flows'[k].closed
           /\ flows[k].closed => flows'[k] = NoFlow
           /\ \/ Total(flows'[k]) = Total(flows[k]) /\ retired'[k] = retired[k]
              \/ /\ flows'[k] = NoFlow /\ Total(flows'[k]) = 0
                 /\ retired'[k] = retired[k] + Total(flows[k])
                 /\ snap'.deltas[k] = [in |-> flows[k].in, out |-> flows[k].out,
                                       closed |-> TRUE]
<1> DEFINE f == Aged(flows[k], d)
<1>1. /\ flows'[k] = Kept(f) /\ retired'[k] = retired[k] + Total(f) - Total(Kept(f))
      /\ snap'.deltas[k] = [in |-> f.in, out |-> f.out, closed |-> Expired(f)]
  BY DEF Flush
<1>2. /\ f \in Flow /\ f.in = flows[k].in /\ f.out = flows[k].out
      /\ f.closed = flows[k].closed /\ Total(f) = Total(flows[k])
  BY AgedKeepsCounts DEF Total
<1>3. retired[k] \in Nat
  BY DEF TypeOK
<1> HIDE DEF f
<1>4. CASE Expired(f)
  BY <1>1, <1>2, <1>3, <1>4, KeptIsAllOrNothing
<1>5. CASE ~Expired(f)
  <2>1. ~f.closed
    BY <1>5 DEF Expired
  <2> QED
    BY <1>1, <1>2, <1>3, <1>5, <2>1, KeptIsAllOrNothing
<1> QED
  BY <1>4, <1>5

\* What flush keeps is what the next interval's counters are measured from.
LEMMA FlushAddsUp ==
    ASSUME TypeOK, NEW d \in Nat, Flush(d)
    PROVE  IntervalAddsUp'
<1>1. Total(interval') = 0 /\ \A q \in Proto : protocols'[q] = 0
  BY DEF Flush, NoCount, Total, ProtocolsReset
<1>2. ASSUME NEW k \in Key PROVE Base(k)' = Total(flows'[k])
  <2> DEFINE f == Aged(flows[k], d)
  <2>1. /\ flows'[k] = Kept(f)
        /\ snap'.deltas[k] = [in |-> f.in, out |-> f.out, closed |-> Expired(f)]
    BY DEF Flush
  <2>2. f \in Flow
    BY AgedKeepsCounts
  <2> HIDE DEF f
  <2> QED
    BY <2>1, <2>2, KeptIsAllOrNothing DEF Base, Total
<1> DEFINE before == [k \in Key |-> Base(k)']
           grown  == [k \in Key |-> Total(flows'[k])]
<1>3. SumFunctionOnSet(before, Key) = SumFunctionOnSet(grown, Key)
  BY <1>2, KeyIsFinite, SumSame
<1> QED
  BY <1>1, <1>3 DEF IntervalAddsUp, Proto

\* A host is credited with flows that have not counted more than was seen.
LEMMA PersistRowsHonest ==
    ASSUME Inv, Persist(flows', arps), seen' = seen,
           \A k \in Key : /\ flows'[k] \in Flow /\ retired'[k] \in Nat
                         /\ seen'[k] = Total(flows'[k]) + retired'[k]
    PROVE  HostRowsAreHonest'
<1> SUFFICES ASSUME NEW h \in Host
             PROVE  /\ hostRows'[h].in <= SumFunctionOnSet(seen', {k \in Key : k.dst = h})
                    /\ hostRows'[h].out <= SumFunctionOnSet(seen', {k \in Key : k.src = h})
  BY DEF HostRowsAreHonest
<1> DEFINE in  == [k \in Key |-> flows'[k].in]
           out == [k \in Key |-> flows'[k].out]
<1>1. CASE hostRows'[h] = hostRows[h]
  BY <1>1 DEF Inv, HostRowsAreHonest
<1>2. CASE hostRows'[h] = HostRowOf(hostRows[h], HostSum(flows', h), h \in arps)
  <2>1. \A k \in Key : /\ in[k] \in Nat /\ out[k] \in Nat /\ seen'[k] \in Nat
                       /\ in[k] <= seen'[k] /\ out[k] <= seen'[k]
    BY DEF Flow, Total
  <2> HIDE DEF in, out
  <2>2. /\ SumFunctionOnSet(in, {k \in Key : k.dst = h})
               <= SumFunctionOnSet(seen', {k \in Key : k.dst = h})
        /\ SumFunctionOnSet(out, {k \in Key : k.src = h})
               <= SumFunctionOnSet(seen', {k \in Key : k.src = h})
    BY <2>1, KeysOfHost, SumMonotone
  <2>3. /\ hostRows'[h].in = SumFunctionOnSet(in, {k \in Key : k.dst = h})
        /\ hostRows'[h].out = SumFunctionOnSet(out, {k \in Key : k.src = h})
    BY <1>2 DEF HostRowOf, HostSum, in, out
  <2> QED
    BY <2>2, <2>3
<1>3. hostRows'[h] \in {hostRows[h], HostRowOf(hostRows[h], HostSum(flows', h), h \in arps)}
  BY DEF Persist
<1> QED
  BY <1>1, <1>2, <1>3

\* What a host is credited with is of the type its row declares.
LEMMA PersistRowsTyped ==
    ASSUME TypeOK, Persist(flows', arps), \A k \in Key : flows'[k] \in Flow
    PROVE  hostRows' \in [Host -> HostRow]
<1>1. ASSUME NEW h \in Host
      PROVE  HostRowOf(hostRows[h], HostSum(flows', h), h \in arps) \in HostRow
  <2> DEFINE in  == [k \in Key |-> flows'[k].in]
             out == [k \in Key |-> flows'[k].out]
  <2>1. \A k \in Key : in[k] \in Nat /\ out[k] \in Nat
    BY DEF Flow
  <2> HIDE DEF in, out
  <2>2. /\ SumFunctionOnSet(in, {k \in Key : k.dst = h}) \in Nat
        /\ SumFunctionOnSet(out, {k \in Key : k.src = h}) \in Nat
    BY <2>1, KeysOfHost, SumNat
  <2>3. HostSum(flows', h) \in Counters
    BY <2>2 DEF HostSum, Counters, in, out
  <2>4. hostRows[h].mac \in BOOLEAN
    BY DEF TypeOK, HostRow
  <2> DEFINE arp == h \in arps
  <2>5. arp \in BOOLEAN
    OBVIOUS
  <2> HIDE DEF arp
  <2>6. HostRowOf(hostRows[h], HostSum(flows', h), arp) \in HostRow
    BY <2>3, <2>4, <2>5 DEF HostRowOf, HostRow, Counters
  <2> QED
    BY <2>6 DEF arp
<1> QED
  BY <1>1 DEF Persist, TypeOK

\* flush and the writes that follow it, with any of them failing, keep Inv.
LEMMA FlushInv ==
    ASSUME Inv, NEW d \in Nat, Flush(d), Persist(flows', arps),
           running' \in BOOLEAN, UNCHANGED <<received, seen>>
    PROVE  Inv'
<1> USE DEF Inv
<1>1. \A k \in Key : /\ flows'[k] \in Flow /\ ~flows'[k].closed
                     /\ Total(flows[k]) \in Nat /\ Total(flows'[k]) \in Nat
                     /\ retired'[k] \in Nat
                     /\ Total(flows'[k]) + retired'[k] = Total(flows[k]) + retired[k]
  <2> SUFFICES ASSUME NEW k \in Key
               PROVE  /\ flows'[k] \in Flow /\ ~flows'[k].closed
                      /\ Total(flows[k]) \in Nat /\ Total(flows'[k]) \in Nat
                      /\ retired'[k] \in Nat
                      /\ Total(flows'[k]) + retired'[k] = Total(flows[k]) + retired[k]
    OBVIOUS
  <2>1. Total(flows[k]) \in Nat /\ retired[k] \in Nat
    BY DEF TypeOK, Flow, Total
  <2>2. flows'[k] \in Flow /\ ~flows'[k].closed
    BY FlushFlow
  <2>3. \/ Total(flows'[k]) = Total(flows[k]) /\ retired'[k] = retired[k]
        \/ Total(flows'[k]) = 0 /\ retired'[k] = retired[k] + Total(flows[k])
    BY FlushFlow
  <2> HIDE DEF Inv
  <2> QED
    BY <2>1, <2>2, <2>3
<1>2. TypeOK'
  <2>1. flows' \in [Key -> Flow] /\ retired' \in [Key -> Nat]
    <3>1. /\ flows' = [k \in Key |-> flows'[k]]
          /\ retired' = [k \in Key |-> retired'[k]]
      BY DEF Flush
    <3> QED
      BY <1>1, <3>1
  <2>2. /\ interval' \in Counters /\ protocols' \in [Proto -> Nat]
        /\ arps' \subseteq Host /\ lookups' \subseteq Lookup
    BY DEF Flush, NoCount, Counters, ProtocolsReset
  <2>3. [k \in Key |-> [in |-> Aged(flows[k], d).in, out |-> Aged(flows[k], d).out,
                        closed |-> Expired(Aged(flows[k], d))]] \in [Key -> Delta]
    <3> SUFFICES ASSUME NEW k \in Key
                 PROVE  [in |-> Aged(flows[k], d).in, out |-> Aged(flows[k], d).out,
                         closed |-> Expired(Aged(flows[k], d))] \in Delta
      OBVIOUS
    <3>1. Aged(flows[k], d) \in Flow
      BY AgedKeepsCounts
    <3>2. Expired(Aged(flows[k], d)) \in BOOLEAN
      BY <3>1, KeptIsAllOrNothing
    <3> HIDE DEF Aged
    <3> QED
      BY <3>1, <3>2 DEF Delta, Flow
  <2>4. snap' \in [in : Nat, out : Nat, protocols : [Proto -> Nat], arps : SUBSET Host,
                   lookups : SUBSET Lookup, deltas : [Key -> Delta]]
    <3>1. /\ interval \in Counters /\ protocols \in [Proto -> Nat]
          /\ arps \in SUBSET Host /\ lookups \in SUBSET Lookup
      BY DEF TypeOK
    <3> QED
      BY <2>3, <3>1 DEF Flush, Counters
  <2>5. flowRows' \in [Key -> Delta]
    <3>1. \A k \in Key : FlowRow(flowRows[k], flows'[k]) \in Delta /\ flowRows[k] \in Delta
      BY <1>1 DEF FlowRow, Flow, Delta, TypeOK
    <3> QED
      BY <3>1 DEF Persist
  <2>6. hostRows' \in [Host -> HostRow]
    BY <1>1, PersistRowsTyped
  <2> QED
    BY <2>1, <2>2, <2>4, <2>5, <2>6 DEF TypeOK
<1>3. NothingMiscounted'
  BY <1>1 DEF NothingMiscounted
<1>4. FlowRowsAreHonest'
  <2> SUFFICES ASSUME NEW k \in Key PROVE Total(flowRows'[k]) <= seen'[k]
    BY DEF FlowRowsAreHonest
  <2>1. \/ flowRows'[k] = flowRows[k]
        \/ flowRows'[k] = FlowRow(flowRows[k], flows'[k])
    BY DEF Persist
  <2>2. Total(FlowRow(flowRows[k], flows'[k])) = Total(flows'[k])
    BY DEF FlowRow, Total
  <2>3. seen'[k] = Total(flows'[k]) + retired'[k]
    BY <1>3 DEF NothingMiscounted
  <2>4. Total(flowRows[k]) <= seen[k]
    BY DEF FlowRowsAreHonest
  <2> QED
    BY <1>1, <2>1, <2>2, <2>3, <2>4
<1>5. ClosedThisInterval'
  BY <1>1 DEF ClosedThisInterval
<1>6. EventsHaveFlows'
  <2>1. lookups' = {} /\ snap'.lookups = lookups
    BY DEF Flush
  <2>2. \A k \in Key : Total(flows[k]) > 0 => Total(snap'.deltas[k]) > 0
    <3> SUFFICES ASSUME NEW k \in Key PROVE Total(snap'.deltas[k]) = Total(flows[k])
      OBVIOUS
    <3>1. /\ snap'.deltas[k].in = Aged(flows[k], d).in
          /\ snap'.deltas[k].out = Aged(flows[k], d).out
      BY DEF Flush
    <3> QED
      BY <3>1, AgedKeepsCounts DEF Total
  <2>3. ASSUME NEW e \in lookups PROVE Carried(e, snap'.deltas)
    BY <2>2, <2>3, CarriedFurther DEF EventsHaveFlows
  <2> QED
    BY <2>1, <2>3 DEF EventsHaveFlows
<1>7. IntervalAddsUp'
  BY FlushAddsUp
<1>8. HostRowsAreHonest'
  BY <1>1, <1>3, PersistRowsHonest DEF NothingMiscounted
<1> QED
  BY <1>2, <1>3, <1>4, <1>5, <1>6, <1>7, <1>8

\* Every step of Run keeps Inv.
LEMMA InvNext == Inv /\ [Next]_vars => Inv'
<1> SUFFICES ASSUME Inv, [Next]_vars PROVE Inv'
  OBVIOUS
<1>1. ASSUME NEW p \in Packets, NEW lag \in 0..MaxLag, Accumulate(p, lag) PROVE Inv'
  BY <1>1, AccumulateInv
<1>2. ASSUME NEW d \in 1..MaxGap, Tick(d) PROVE Inv'
  <2>1. d \in Nat
    BY FlowTableAssumption
  <2>2. running' \in BOOLEAN
    BY <1>2 DEF Tick, Ticks, Inv, TypeOK
  <2> QED
    BY <1>2, <2>1, <2>2, FlushInv DEF Tick, Ticks
<1>3. ASSUME NEW d \in 0..MaxGap, Final(d) PROVE Inv'
  <2>1. d \in Nat
    BY FlowTableAssumption
  <2> QED
    BY <1>3, <2>1, FlushInv DEF Final
<1>4. CASE Cancelled \/ Returned \/ UNCHANGED vars
  <2>1. /\ running' \in BOOLEAN
        /\ UNCHANGED <<received, interval, protocols, arps, lookups, flows, snap, dbVars,
                       seen, retired>>
    BY <1>4 DEF Cancelled, Returned, vars, Inv, TypeOK
  <2>2. IntervalAddsUp' /\ HostRowsAreHonest'
    BY <2>1 DEF Inv, IntervalAddsUp, HostRowsAreHonest, Base, dbVars
  <2> QED
    BY <2>1, <2>2 DEF Inv, TypeOK, NothingMiscounted, FlowRowsAreHonest, ClosedThisInterval,
                      EventsHaveFlows, Carried, dbVars
<1> QED
  BY <1>1, <1>2, <1>3, <1>4 DEF Next

-------------------------------------------------------------------------------
(* The results *)

\* Inv, which TLC checks on two hosts, holds for every set of hosts: no packet is
\* lost or counted twice by the flow table, and no flow's row overstates it.
THEOREM TableInvariant == Spec => []Inv
<1>1. Init => Inv
  BY InvInit
<1>2. Inv /\ [Next]_vars => Inv'
  BY InvNext
<1> QED
  BY <1>1, <1>2, PTL DEF Spec

\* What accumulate and flush do to a flow (aggregator.go:224-264, 312-331) loses
\* no packet and counts none twice.
THEOREM FlowsCountEveryPacket == Spec => []NothingMiscounted
<1>1. Inv => NothingMiscounted
  BY DEF Inv
<1> QED
  BY <1>1, TableInvariant, PTL

\* The row of a flow never claims more packets than were seen under its key,
\* whichever writes fail (queries.go:183-218).
THEOREM RowsAreHonest == Spec => []FlowRowsAreHonest
<1>1. Inv => FlowRowsAreHonest
  BY DEF Inv
<1> QED
  BY <1>1, TableInvariant, PTL

\* In every interval and after every flush the protocol counts, the interval's counters
\* and the growth of the flows are the same packets, for any number of flows
\* (aggregator.go:177-264, 280-356).
THEOREM IntervalsAddUp == Spec => []IntervalAddsUp
<1>1. Inv => IntervalAddsUp
  BY DEF Inv
<1> QED
  BY <1>1, TableInvariant, PTL

\* The row of a host never claims more than was seen in all the flows it is an
\* endpoint of, however many they are and whichever writes fail
\* (capture_service.go:255-334, queries.go:323-353).
THEOREM HostRowsStayHonest == Spec => []HostRowsAreHonest
<1>1. Inv => HostRowsAreHonest
  BY DEF Inv
<1> QED
  BY <1>1, TableInvariant, PTL

\* What the workers decode, the Aggregator counts and flush reports fits together: a
\* DNS event is never without the flow its client and server belong to
\* (processor.go:215-236, aggregator.go:200-246, 312-351).
THEOREM EventsAreCarried == Spec => []EventsHaveFlows
<1>1. Inv => EventsHaveFlows
  BY DEF Inv
<1> QED
  BY <1>1, TableInvariant, PTL

\* In a step from a state of Inv, a flow whose counters fall is removed and reported.
LEMMA RemovalStep ==
    ASSUME Inv, [Next]_vars, NEW k \in Key, Total(flows'[k]) < Total(flows[k])
    PROVE  /\ flows'[k] = NoFlow
           /\ snap'.deltas[k] = [in |-> flows[k].in, out |-> flows[k].out, closed |-> TRUE]
<1>1. TypeOK /\ Total(flows[k]) \in Nat
  BY DEF Inv, TypeOK, Total, Flow
<1>2. ASSUME NEW p \in Packets, NEW lag \in 0..MaxLag, Accumulate(p, lag) PROVE FALSE
  BY <1>1, <1>2, AccumulateFlow
<1>3. ASSUME NEW d \in Nat, Flush(d)
      PROVE  /\ flows'[k] = NoFlow
             /\ snap'.deltas[k] = [in |-> flows[k].in, out |-> flows[k].out, closed |-> TRUE]
  BY <1>1, <1>3, FlushFlow
<1>4. CASE Cancelled \/ Returned \/ UNCHANGED vars
  BY <1>1, <1>4 DEF Cancelled, Returned, vars
<1>5. ASSUME NEW d \in 0..MaxGap, Tick(d) \/ Final(d)
      PROVE  Flush(d) /\ d \in Nat
  BY <1>5, FlowTableAssumption DEF Tick, Ticks, Final
<1>6. 1..MaxGap \subseteq 0..MaxGap
  BY FlowTableAssumption
<1> QED
  BY <1>2, <1>3, <1>4, <1>5, <1>6 DEF Next

\* In a step from a state of Inv, a closed flow stays closed until flush removes it.
LEMMA ClosedStep ==
    ASSUME Inv, [Next]_vars, NEW k \in Key, flows[k].closed
    PROVE  IF interval' = NoCount THEN flows'[k] = NoFlow ELSE flows'[k].closed
<1>1. TypeOK /\ interval # NoCount
  BY DEF Inv, ClosedThisInterval
<1>2. ASSUME NEW p \in Packets, NEW lag \in 0..MaxLag, Accumulate(p, lag)
      PROVE  interval' # NoCount /\ flows'[k].closed
  <2>1. interval' # NoCount
    BY <1>1, <1>2, CountedAddsOne DEF TypeOK, Accumulate, NoCount, Total, Counters
  <2> QED
    BY <1>1, <1>2, <2>1, AccumulateFlow
<1>3. ASSUME NEW d \in Nat, Flush(d) PROVE interval' = NoCount /\ flows'[k] = NoFlow
  BY <1>1, <1>3, FlushFlow DEF Flush
<1>4. CASE Cancelled \/ Returned \/ UNCHANGED vars
  BY <1>1, <1>4 DEF Cancelled, Returned, vars
<1>5. ASSUME NEW d \in 0..MaxGap, Tick(d) \/ Final(d)
      PROVE  Flush(d) /\ d \in Nat
  BY <1>5, FlowTableAssumption DEF Tick, Ticks, Final
<1>6. 1..MaxGap \subseteq 0..MaxGap
  BY FlowTableAssumption
<1> QED
  BY <1>2, <1>3, <1>4, <1>5, <1>6 DEF Next

\* flush removes a flow once, whole, and reports it closed with all it has counted
\* (aggregator.go:312-331).
THEOREM FlowsLeaveWhole == Spec => RemovalIsReported
<1>1. Inv /\ [Next]_vars =>
        [\A k \in Key : Total(flows'[k]) < Total(flows[k]) =>
           /\ flows'[k] = NoFlow
           /\ snap'.deltas[k] = [in |-> flows[k].in, out |-> flows[k].out, closed |-> TRUE]]_vars
  BY RemovalStep
<1> QED
  BY <1>1, TableInvariant, PTL DEF Spec, RemovalIsReported

\* FIN or RST is never forgotten: the flow is gone after the next flush, whatever
\* is still sent on it (aggregator.go:256-263, 320-328).
THEOREM ClosedFlowsAreRemoved == Spec => ClosedFlowsLeave
<1>1. Inv /\ [Next]_vars =>
        [\A k \in Key : flows[k].closed =>
           IF interval' = NoCount THEN flows'[k] = NoFlow ELSE flows'[k].closed]_vars
  BY ClosedStep
<1> QED
  BY <1>1, TableInvariant, PTL DEF Spec, ClosedFlowsLeave
===============================================================================
