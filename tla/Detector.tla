-------------------------------- MODULE Detector --------------------------------
(***************************************************************************)
(* The Detector as onSnapshot uses it: an instance is created with the     *)
(* thresholds read from the settings, analyses one snapshot and is thrown  *)
(* away.  Everything happens in the Aggregator goroutine; what is left     *)
(* open is what a session sends, when the flows leave the table, and the   *)
(* order of the flow deltas, which come out of a Go map.                   *)
(*                                                                         *)
(* The buckets of the port scan check never rotate: the current one starts *)
(* when the Detector is created, which is after the snapshot's IntervalEnd *)
(* (PortScanWindowSecs is not negative), and there is no previous one.     *)
(* The SYN flood check is left out: it counts deltas with NewFlow, which   *)
(* nothing sets.  Every alert is emitted whether or not InsertAlert fails. *)
(* Rates and thresholds are natural numbers and their mean is exact.       *)
(***************************************************************************)
EXTENDS Naturals, Sequences, FiniteSets, FiniteSetsExt

CONSTANTS Key,          \* flow keys: records with the fields src and port
          MAC,          \* hardware addresses
          Private,      \* sources in isPrivateIP's ranges: their packets go out
          Growths,      \* how many packets a flow may have in an interval
          PortLimits,   \* the values PortScanDistinctPorts takes
          MinBaseline,  \* RateSpikeMinBaseline
          Multiplier,   \* RateSpikeMultiplier
          Window,       \* RollingWindowSize
          MaxSent,      \* bound: packets that go out from one source
          MaxEvents     \* bound: ARP and DHCP events in one snapshot

Source == {k.src : k \in Key}
Port   == {k.port : k \in Key}

ASSUME DetectorAssumption ==
    /\ IsFiniteSet(Key) /\ \A k \in Key : {"src", "port"} \subseteq DOMAIN k
    /\ Private \subseteq Source /\ Growths \subseteq Nat \ {0} /\ MaxSent \in Nat
    /\ PortLimits \subseteq Nat
    /\ MinBaseline \in Nat /\ Multiplier \in Nat /\ Window \in Nat \ {0} /\ MaxEvents \in Nat

\* The keys of a source's flows, and the keys whose packets count as going out.
From(s) == {k \in Key : k.src = s}
Going   == {k \in Key : k.src \in Private}

\* An ARP event or a DHCP event; useless without a MAC address of six bytes, and
\* if it is a DHCP message other than an acknowledgement.
Event  == [mac : MAC, useless : BOOLEAN]

VARIABLES
    phase,     \* where Analyse is: "none", "walk", "hosts"
    table,     \* the flows the Aggregator has kept, with their PacketsOut
    limit,     \* thresholds.PortScanDistinctPorts
    deltas,    \* PacketsOut of the snapshot's flow deltas
    todo,      \* the keys of the deltas still to be walked
    ports,     \* portScanBuckets[0].ports
    rates,     \* rateHistory: the values in each source's ring, the oldest first
    known,     \* knownMACs
    events,    \* the events still to be looked at, ARP before DHCP
    scans,     \* PortScan alerts of the snapshot, per source
    spikes,    \* sources with a RateSpike alert in the snapshot
    hosts,     \* NewHost alerts of the snapshot, per MAC address
    fresh,     \* history: flows with a packet in the snapshot's interval
    contacted, \* history: flows with a packet in this session
    sent,      \* history: packets that went out from each source in this session
    heard,     \* history: MAC addresses in the events looked at
    before     \* history: MAC addresses with a NewHost alert in an earlier snapshot

sessionVars == <<table, fresh, contacted, sent>>
walkVars == <<limit, deltas, todo, ports, rates, scans>>
hostVars == <<known, events, hosts, heard, before>>
vars == <<phase, sessionVars, walkVars, spikes, hostVars>>

None == [k \in {} |-> 0]

Init ==
    /\ phase = "none" /\ limit \in PortLimits
    /\ table = None /\ deltas = None /\ todo = {}
    /\ ports = [s \in Source |-> {}] /\ rates = [s \in Source |-> <<>>]
    /\ known = {} /\ events = <<>>
    /\ scans = [s \in Source |-> 0] /\ spikes = {} /\ hosts = [m \in MAC |-> 0]
    /\ fresh = {} /\ contacted = {} /\ sent = [s \in Source |-> 0]
    /\ heard = {} /\ before = {}

\* What has gone out from source s when flows have sent out[k] each.
SentAfter(out, s) == sent[s] + SumFunctionOnSet(out, DOMAIN out \cap From(s))

\* The table after that: the flows in it and those in F, each with all that it has sent
\* since it was created.
TableAfter(F, out) ==
    [k \in DOMAIN table \cup F |-> (IF k \in DOMAIN table THEN table[k] ELSE 0)
                                 + (IF k \in DOMAIN out THEN out[k] ELSE 0)]

\* Packets come in until the next snapshot, which has a delta of every flow in the table;
\* GetSettings, detector.New and Analyse.
NewSnapshot ==
    /\ phase = "none"
    /\ phase' = "walk"
    /\ limit' \in PortLimits
    /\ \E F \in SUBSET Key : \E out \in [F \cap Going -> Growths] :
           /\ \A s \in Source : SentAfter(out, s) <= MaxSent
           /\ table' = TableAfter(F, out)
           /\ fresh' = F /\ contacted' = contacted \cup F
           /\ sent' = [s \in Source |-> SentAfter(out, s)]
    /\ deltas' = table' /\ todo' = DOMAIN table'
    /\ ports' = [s \in Source |-> {}]
    /\ rates' = [s \in Source |-> <<>>]
    /\ scans' = [s \in Source |-> 0]
    /\ UNCHANGED <<spikes, hostVars>>

-------------------------------------------------------------------------------
(* updatePortScan and updateRateHistory *)

\* Distinct ports reach the threshold.
EnoughPorts(S) == Cardinality(S) >= limit

\* Mutant: the port set goes on growing after an alert.
PortsKeptGrowing(S) == S

\* Mutant: the port set starts again after every delta.
PortsKeptNever(S) == {}

\* The port set of a source after a delta: it starts again after an alert.
PortsKept(S) == IF EnoughPorts(S) THEN {} ELSE S

\* push: the ring holds the last Window values.
Pushed(ring, v) == IF Len(ring) < Window THEN Append(ring, v) ELSE Append(Tail(ring), v)

\* One round of the loop over the flow deltas.
WalkDelta(k) ==
    /\ phase = "walk"
    /\ k \in todo
    /\ todo' = todo \ {k}
    /\ LET seen == ports[k.src] \cup {k.port}
       IN /\ ports' = [ports EXCEPT ![k.src] = PortsKept(seen)]
          /\ scans' = IF EnoughPorts(seen) THEN [scans EXCEPT ![k.src] = @ + 1] ELSE scans
    /\ rates' = [rates EXCEPT ![k.src] = Pushed(@, deltas[k])]
    /\ UNCHANGED <<phase, sessionVars, limit, deltas, spikes, hostVars>>

-------------------------------------------------------------------------------
(* checkRateSpikes *)

Total(ring) == SumFunctionOnSet(ring, DOMAIN ring)

\* Mutant: a mean below MinBaseline is as good as another.
SpikeOfAnyBaseline(ring) ==
    LET n == Len(ring) IN n > 0 /\ ring[n] * n > Multiplier * Total(ring)

\* The value pushed last is more than Multiplier times the mean of the ring, which
\* is not below MinBaseline.
Spike(ring) ==
    LET n == Len(ring) IN
    /\ n > 0
    /\ Total(ring) >= MinBaseline * n
    /\ ring[n] * n > Multiplier * Total(ring)

\* Every source is compared with its own history; the events are next.
CheckRateSpikes ==
    /\ phase = "walk"
    /\ todo = {}
    /\ phase' = "hosts"
    /\ spikes' = {s \in Source : Spike(rates[s])}
    /\ \E n \in 0..MaxEvents : events' \in [1..n -> Event]
    /\ known' = {} /\ heard' = {} /\ hosts' = [m \in MAC |-> 0]
    /\ UNCHANGED <<sessionVars, walkVars, before>>

-------------------------------------------------------------------------------
(* checkNewHosts *)

\* Mutant: the address is not entered.
KnownForgotten(m) == known

\* knownMACs[mac] = true.
KnownWith(m) == known \cup {m}

\* One round of the loops over the ARP and the DHCP events.
CheckNewHost ==
    /\ phase = "hosts"
    /\ events # <<>>
    /\ events' = Tail(events)
    /\ LET m == Head(events).mac IN
       IF Head(events).useless
       THEN UNCHANGED <<known, hosts, heard>>
       ELSE /\ heard' = heard \cup {m}
            /\ known' = KnownWith(m)
            /\ hosts' = IF m \in known THEN hosts ELSE [hosts EXCEPT ![m] = @ + 1]
    /\ UNCHANGED <<phase, sessionVars, walkVars, spikes, before>>

\* Analyse returns and the Detector is garbage.  Any flows may have left the table with
\* the snapshot, closed or idle.
AnalyseReturns ==
    /\ phase = "hosts"
    /\ events = <<>>
    /\ phase' = "none"
    /\ \E kept \in SUBSET DOMAIN table : table' = [k \in kept |-> table[k]]
    /\ deltas' = None /\ fresh' = {} /\ spikes' = {}
    /\ ports' = [s \in Source |-> {}] /\ rates' = [s \in Source |-> <<>>]
    /\ scans' = [s \in Source |-> 0]
    /\ known' = {} /\ heard' = {} /\ hosts' = [m \in MAC |-> 0]
    /\ before' = before \cup {m \in MAC : hosts[m] > 0}
    /\ UNCHANGED <<contacted, sent, limit, todo, events>>

Next == \/ NewSnapshot
        \/ \E k \in Key : WalkDelta(k)
        \/ CheckRateSpikes
        \/ CheckNewHost
        \/ AnalyseReturns

Spec == Init /\ [][Next]_vars

-------------------------------------------------------------------------------
(* Properties *)

\* The deltas of source s that have been walked; the ports of some flows of s, and of those.
Walked(s)      == From(s) \cap (DOMAIN deltas \ todo)
PortsOf(K, s)  == {k.port : k \in K \cap From(s)}
WalkedPorts(s) == PortsOf(DOMAIN deltas \ todo, s)

\* Every variable has the values its declaration promises.
TypeOK ==
    /\ phase \in {"none", "walk", "hosts"} /\ limit \in PortLimits
    /\ DOMAIN table \subseteq Key /\ table \in [DOMAIN table -> Nat]
    /\ DOMAIN deltas \subseteq Key /\ deltas \in [DOMAIN deltas -> Nat]
    /\ todo \subseteq DOMAIN deltas
    /\ ports \in [Source -> SUBSET Port]
    /\ rates \in [Source -> Seq(Nat)] /\ \A s \in Source : Len(rates[s]) <= Window
    /\ known \subseteq MAC /\ events \in Seq(Event) /\ Len(events) <= MaxEvents
    /\ scans \in [Source -> Nat] /\ spikes \subseteq Source /\ hosts \in [MAC -> Nat]
    /\ fresh \subseteq Key /\ contacted \subseteq Key /\ sent \in [Source -> Nat]
    /\ heard \subseteq MAC /\ before \subseteq MAC

\* A source is reported for a port scan only if the ports it has contacted in the session
\* reach the threshold, and it is reported if those of the last second alone exceed it:
\* in whatever order the deltas are walked, whatever flows are left from before, and
\* although an alert throws away the ports seen so far.  What happens in between depends
\* on which flows are in the table, and not on the window (README, section 5).
ScansMatchContacts ==
    \A s \in Source :
        /\ scans[s] > 0 => Cardinality(PortsOf(contacted, s)) >= limit
        /\ phase = "hosts" /\ Cardinality(PortsOf(fresh, s)) > limit => scans[s] > 0

\* The number of alerts in one snapshot is bounded by the flows in it: each alert uses up
\* as many deltas of its source as the threshold says.  They may be deltas of ports
\* that another alert was for, through another peer or in the second before.
ScansUseUpFlows == \A s \in Source : scans[s] * limit <= Cardinality(Walked(s))

\* types.go:409-412: the baseline keeps hosts with little traffic from being reported for
\* a small change.  A source that is reported for a spike has sent more than Multiplier
\* times MinBaseline packets, however few flows it is compared by and whatever their
\* counters have grown to.
SpikesNeedTraffic == \A s \in spikes : sent[s] > Multiplier * MinBaseline

\* Within a snapshot every device that was heard of is announced once, whether it
\* shows up in ARP events, DHCP events or both.
AnnouncedOncePerSnapshot == \A m \in MAC : hosts[m] = IF m \in heard THEN 1 ELSE 0

-------------------------------------------------------------------------------
(* The inductive invariant *)

\* Before its first alert a source's port set holds every port it was seen with,
\* and less of them than the threshold.
PortsBeforeAlert ==
    \A s \in Source :
        /\ ports[s] \subseteq WalkedPorts(s)
        /\ ports[s] # {} => Cardinality(ports[s]) < limit
        /\ scans[s] = 0 => ports[s] = WalkedPorts(s)
        /\ scans[s] > 0 => Cardinality(WalkedPorts(s)) >= limit

\* The ports in the set stand for deltas that no alert has used up.
DeltasUsedUp ==
    \A s \in Source : scans[s] * limit + Cardinality(ports[s]) <= Cardinality(Walked(s))

\* The flows of the table and of a snapshot are of this session, and none of them has
\* sent more than their source.
FlowsAreOfSession ==
    /\ \A k \in DOMAIN table : k \in contacted /\ table[k] <= sent[k.src]
    /\ \A k \in DOMAIN deltas : k \in contacted /\ deltas[k] <= sent[k.src]
    /\ fresh \subseteq DOMAIN deltas

\* What a ring holds was sent by its source, and it is by its ring, as the walk has left
\* it, that a source is reported.
RingsAreOfSource ==
    /\ \A s \in Source : \A i \in 1..Len(rates[s]) : rates[s][i] <= sent[s]
    /\ \A s \in spikes : phase = "hosts" /\ Spike(rates[s])

\* The checks after the loop start when it is over.
WalkIsOver == phase # "walk" => todo = {}

Inv == /\ TypeOK /\ PortsBeforeAlert /\ DeltasUsedUp /\ FlowsAreOfSession /\ RingsAreOfSource
       /\ WalkIsOver /\ known = heard /\ AnnouncedOncePerSnapshot

-------------------------------------------------------------------------------
(* What the repository says of the Detector, and the code does not do *)

\* detector.go:37-38: knownMACs is the "set of all MAC addresses observed since
\* session start", and ARCHITECTURE.md:98 emits NewHost "if a MAC is seen for the
\* first time": no device is announced in two snapshots of a session.
NewHostAlertedOnce == \A m \in MAC : hosts[m] > 0 => m \notin before
===============================================================================
