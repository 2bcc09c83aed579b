------------------------------- MODULE FlowTable -------------------------------
(***************************************************************************)
(* What the Aggregator goroutine of a session does to its data: accumulate *)
(* counts a parsed packet, flush turns the counters into a snapshot and    *)
(* expires flows, and onSnapshot, called by flush's caller before the next *)
(* packet, writes the flows that are left and the hosts to the database.   *)
(*                                                                         *)
(* Bytes follow the same assignments as packets and are left out.  Times   *)
(* are kept as ages in seconds, an age above IdleTimeout being as good as  *)
(* any other.  Ports are left out: a key is the two addresses and the      *)
(* protocol.  The packets are those that Decoder makes of the frames.      *)
(* A flow, delta or row that is absent has counted no packet.              *)
(***************************************************************************)
EXTENDS Naturals, FiniteSets, FiniteSetsExt, Decoder

CONSTANTS Frames,       \* the frames on the wire
          Private,      \* those in isPrivateIP's ranges
          IdleTimeout,  \* FlowIdleTimeout
          MaxLag,       \* bound: age of a packet when it is accumulated
          MaxGap,       \* bound: seconds between two ticks
          MaxPackets,   \* bound: packets accumulated
          WritesFail    \* the database may refuse a write, which is ignored

ASSUME FlowTableAssumption ==
    /\ IsFiniteSet(Host) /\ Private \subseteq Host /\ Frames \subseteq Frame
    /\ IdleTimeout \in Nat /\ MaxLag \in 0..IdleTimeout + 1 /\ MaxGap \in Nat \ {0} /\ MaxPackets \in Nat
    /\ WritesFail \in BOOLEAN

Key == [src : Host, dst : Host, proto : Proto \ {"ARP"}]
Packets == Decoded(Frames)

VARIABLES
    running,    \* Run has not returned
    received,   \* packets accumulated so far
    interval,   \* currentPacketsIn and currentPacketsOut
    protocols,  \* protocolCounts
    arps,       \* senders of the interval's arpEvents
    lookups,    \* the interval's dnsEvents
    flows,      \* the flow table
    snap,       \* the latest snapshot
    flowRows,   \* the session's rows in table flows
    hostRows,   \* the session's rows in table hosts
    seen,       \* history: packets accumulated under each key
    retired     \* history: packets counted by the flows of a key that were removed

dbVars == <<flowRows, hostRows>>
vars == <<running, received, interval, protocols, arps, lookups, flows, snap, dbVars, seen, retired>>

Counters == [in : Nat, out : Nat]
Flow     == [in : Nat, out : Nat, age : 0..IdleTimeout + 1, closed : BOOLEAN]
Delta    == [in : Nat, out : Nat, closed : BOOLEAN]
HostRow  == [known : BOOLEAN, mac : BOOLEAN, in : Nat, out : Nat]

NoCount == [in |-> 0, out |-> 0]
NoFlow  == [in |-> 0, out |-> 0, age |-> 0, closed |-> FALSE]
NoDelta == [in |-> 0, out |-> 0, closed |-> FALSE]

Total(f) == f.in + f.out
Active   == {k \in Key : Total(flows[k]) > 0}
KeyOf(p) == [src |-> p.src, dst |-> p.dst, proto |-> p.proto]

Init ==
    /\ running = TRUE /\ received = 0
    /\ interval = NoCount /\ protocols = [q \in Proto |-> 0]
    /\ arps = {} /\ lookups = {}
    /\ flows = [k \in Key |-> NoFlow]
    /\ snap = [in |-> 0, out |-> 0, protocols |-> protocols, arps |-> {}, lookups |-> {},
               deltas |-> [k \in Key |-> NoDelta]]
    /\ flowRows = [k \in Key |-> NoDelta]
    /\ hostRows = [h \in Host |-> [known |-> FALSE, mac |-> FALSE, in |-> 0, out |-> 0]]
    /\ seen = [k \in Key |-> 0] /\ retired = [k \in Key |-> 0]

-------------------------------------------------------------------------------
(* accumulate *)

\* One more packet, outbound when its source is private.
Counted(c, p) == IF p.src \in Private THEN [c EXCEPT !.out = @ + 1]
                                      ELSE [c EXCEPT !.in = @ + 1]

\* Mutant: a packet that closes the flow hides that an earlier one did.
TouchedLastFlag(f, p, lag) == [Counted(f, p) EXCEPT !.age = lag, !.closed = p.fin]

\* Mutant: the table is asked for the flow of the other direction, and finds none.
TouchedAnew(f, p, lag) == [Counted(NoFlow, p) EXCEPT !.age = lag, !.closed = p.fin]

\* The flow after a packet that is lag seconds old: workers may hand over packets
\* out of order, and the age goes back and forth with them.
Touched(f, p, lag) == [Counted(f, p) EXCEPT !.age = lag, !.closed = @ \/ p.fin]

\* A packet is accumulated: the interval's counters and events first, then
\* its flow, which is created when the table has none.
Accumulate(p, lag) ==
    /\ running
    /\ received < MaxPackets
    /\ received' = received + 1
    /\ interval' = Counted(interval, p)
    /\ protocols' = [protocols EXCEPT ![p.proto] = @ + 1]
    /\ lookups' = lookups \cup p.dns
    /\ arps' = IF p.proto = "ARP" THEN arps \cup {p.src} ELSE arps
    /\ IF p.proto = "ARP" \/ Nobody \in {p.src, p.dst}
       THEN UNCHANGED <<flows, seen>>
       ELSE /\ flows' = [flows EXCEPT ![KeyOf(p)] = Touched(@, p, lag)]
            /\ seen' = [seen EXCEPT ![KeyOf(p)] = @ + 1]
    /\ UNCHANGED <<running, snap, dbVars, retired>>

-------------------------------------------------------------------------------
(* flush *)

\* Mutant: now is the time of the last packet, and stands still while none comes.
AgedByPackets(f, d) == f

\* A flow when d seconds have passed.
Aged(f, d) == IF Total(f) = 0 THEN f
              ELSE [f EXCEPT !.age = IF @ + d > IdleTimeout THEN IdleTimeout + 1 ELSE @ + d]

\* Closed by FIN or RST, or silent for too long.
Expired(f) == f.closed \/ f.age > IdleTimeout

\* Mutant: the table is emptied with the counters.
KeptNever(f) == NoFlow

\* What the table keeps of a flow.
Kept(f) == IF Expired(f) THEN NoFlow ELSE f

\* Mutant: the protocol counts go on.
ProtocolsGoOn == protocols

\* The protocol counts the next interval starts with.
ProtocolsReset == [q \in Proto |-> 0]

\* A snapshot d seconds after the last, and what is left of the table.  A delta holds
\* the flow's counters, which have grown since the flow was created.
Flush(d) ==
    LET t(k) == Aged(flows[k], d) IN
    /\ snap' = [in |-> interval.in, out |-> interval.out,
                protocols |-> protocols, arps |-> arps, lookups |-> lookups,
                deltas |-> [k \in Key |-> [in |-> t(k).in, out |-> t(k).out,
                                           closed |-> Expired(t(k))]]]
    /\ flows' = [k \in Key |-> Kept(t(k))]
    /\ retired' = [k \in Key |-> retired[k] + Total(t(k)) - Total(Kept(t(k)))]
    /\ interval' = NoCount
    /\ protocols' = ProtocolsReset
    /\ arps' = {} /\ lookups' = {}

-------------------------------------------------------------------------------
(* onSnapshot: the writes *)

\* Mutant: the counters are added to those of the row.
FlowRowAdded(row, f) == [in |-> row.in + f.in, out |-> row.out + f.out, closed |-> f.closed]

\* UpsertFlow: the flow's counters replace those of its row.
FlowRow(row, f) == [in |-> f.in, out |-> f.out, closed |-> f.closed]

\* Mutant: both endpoints are credited with both directions.
HostSumBoth(t, h) ==
    LET sum(c) == SumFunctionOnSet([k \in Key |-> t[k][c]], {k \in Key : h \in {k.src, k.dst}})
    IN [in |-> sum("in") + sum("out"), out |-> sum("in") + sum("out")]

\* hostMap: what h sent in flows it is the source of, and received in flows it is
\* the destination of.
HostSum(t, h) ==
    [in  |-> SumFunctionOnSet([k \in Key |-> t[k].in],  {k \in Key : k.dst = h}),
     out |-> SumFunctionOnSet([k \in Key |-> t[k].out], {k \in Key : k.src = h})]

\* UpsertHost: the sums replace those of the row, the MAC address stays.
HostRowOf(row, sum, arp) ==
    [known |-> TRUE, mac |-> row.mac \/ arp, in |-> sum.in, out |-> sum.out]

\* What is written: every flow that flush has left in the table t, and every host in
\* one of them or in an ARP event of as.
Left(t)      == {k \in Key : Total(t[k]) > 0}
Hosts(t, as) == as \cup {k.src : k \in Left(t)} \cup {k.dst : k \in Left(t)}

\* Each of the writes ws may fail on its own.
Losses(ws) == IF WritesFail THEN SUBSET ws ELSE {{}}

\* Every write but those that fail replaces its row.
Persist(t, as) ==
    /\ \E lost \in Losses(Left(t)) :
           flowRows' = [k \in Key |-> IF Total(t[k]) > 0 /\ k \notin lost
                                      THEN FlowRow(flowRows[k], t[k]) ELSE flowRows[k]]
    /\ \E lost \in Losses(Hosts(t, as)) :
           hostRows' = [h \in Host |-> IF h \in Hosts(t, as) \ lost
                                       THEN HostRowOf(hostRows[h], HostSum(t, h), h \in as)
                                       ELSE hostRows[h]]

-------------------------------------------------------------------------------
(* Run *)

\* The ticker fires d seconds after it last did: more than one when onSnapshot
\* has kept the Aggregator busy and ticks were dropped.
Ticks(d) ==
    /\ running
    /\ UNCHANGED <<running, received, seen>>
    /\ Flush(d)

Tick(d) == Ticks(d) /\ Persist(flows', arps)

\* The channel is closed and empty: a final snapshot.
Final(d) ==
    /\ running
    /\ running' = FALSE
    /\ Flush(d)
    /\ Persist(flows', arps)
    /\ UNCHANGED <<received, seen>>

\* The context is cancelled: the interval and the table are forgotten with Run.
Cancelled ==
    /\ running
    /\ running' = FALSE
    /\ UNCHANGED <<received, interval, protocols, arps, lookups, flows, snap, dbVars, seen, retired>>

\* Run has returned.
Returned == ~running /\ UNCHANGED vars

Next == \/ \E p \in Packets, lag \in 0..MaxLag : Accumulate(p, lag)
        \/ \E d \in 1..MaxGap : Tick(d)
        \/ \E d \in 0..MaxGap : Final(d)
        \/ Cancelled
        \/ Returned

\* The ticker keeps firing, whatever becomes of the writes; packets need not arrive and
\* nobody has to stop.
Fairness == WF_<<flows, snap>>(\E d \in 1..MaxGap : Ticks(d))

Spec == Init /\ [][Next]_vars
FairSpec == Spec /\ Fairness

-------------------------------------------------------------------------------
(* Properties *)

\* Every variable has the values its declaration promises.
TypeOK ==
    /\ running \in BOOLEAN /\ received \in 0..MaxPackets
    /\ interval \in Counters /\ protocols \in [Proto -> Nat]
    /\ arps \subseteq Host /\ lookups \subseteq Lookup
    /\ flows \in [Key -> Flow]
    /\ snap \in [in : Nat, out : Nat, protocols : [Proto -> Nat], arps : SUBSET Host,
                 lookups : SUBSET Lookup, deltas : [Key -> Delta]]
    /\ flowRows \in [Key -> Delta] /\ hostRows \in [Host -> HostRow]
    /\ seen \in [Key -> Nat] /\ retired \in [Key -> Nat]

\* No packet is lost or counted twice over the lives of a key's flows: what was
\* accumulated under it is what its flow counts now and what its removed flows
\* had counted when they were removed.
NothingMiscounted == \A k \in Key : seen[k] = Total(flows[k]) + retired[k]

\* What the flow of k had counted at the latest snapshot.
Base(k) == IF snap.deltas[k].closed THEN 0 ELSE Total(snap.deltas[k])

\* The counters of an interval agree with each other and with the table: the
\* packets of the interval are those filed under a protocol, and they are the ARP
\* packets and those by which the flows have grown since the snapshot.
IntervalAddsUp ==
    /\ Total(interval) = protocols["TCP"] + protocols["Rest"] + protocols["ARP"]
    /\ Total(interval) + SumFunctionOnSet([k \in Key |-> Base(k)], Key)
           = protocols["ARP"] + SumFunctionOnSet([k \in Key |-> Total(flows[k])], Key)

\* No flow's row claims more traffic than was seen, however often it was written
\* and however many flows its key has had.
FlowRowsAreHonest == \A k \in Key : Total(flowRows[k]) <= seen[k]

\* Nor does the row of a host, however many flows it is an endpoint of.
HostRowsAreHonest ==
    \A h \in Host :
        /\ hostRows[h].in <= SumFunctionOnSet(seen, {k \in Key : k.dst = h})
        /\ hostRows[h].out <= SumFunctionOnSet(seen, {k \in Key : k.src = h})

\* A flow leaves the table only at a tick, at most once a life, and is then
\* reported closed with everything it has counted.
RemovalIsReported ==
    [][\A k \in Key : Total(flows'[k]) < Total(flows[k]) =>
           /\ flows'[k] = NoFlow
           /\ snap'.deltas[k] = [in |-> flows[k].in, out |-> flows[k].out, closed |-> TRUE]]_vars

\* A flow that has seen FIN or RST is gone after the next snapshot, whatever is
\* still sent on it until then.
ClosedFlowsLeave ==
    [][\A k \in Key : flows[k].closed =>
           IF interval' = NoCount THEN flows'[k] = NoFlow ELSE flows'[k].closed]_vars

\* The table does not keep flows on which nothing is sent any more.
SilentFlowsLeave == received = MaxPackets ~> (Active = {} \/ ~running)

-------------------------------------------------------------------------------
(* The inductive invariant *)

\* A flow that is closed was closed in the interval that is not over yet.
ClosedThisInterval == \A k \in Key : flows[k].closed => interval # NoCount

\* A flow of the table t, or of the deltas t, from the sender of e to its receiver.
Carried(e, t) ==
    \E k \in Key : /\ Total(t[k]) > 0
                   /\ k.src = IF e.response THEN e.server ELSE e.client
                   /\ k.dst = IF e.response THEN e.client ELSE e.server

\* Every DNS event of an interval or a snapshot has its flow there, in the direction
\* that its client and server say: decoding, counting and expiring agree on it.
EventsHaveFlows == /\ \A e \in lookups : Carried(e, flows)
                   /\ \A e \in snap.lookups : Carried(e, snap.deltas)

Inv == /\ TypeOK /\ NothingMiscounted /\ FlowRowsAreHonest /\ ClosedThisInterval /\ EventsHaveFlows
       /\ IntervalAddsUp /\ HostRowsAreHonest

-------------------------------------------------------------------------------
(* What the repository says of the flows, and the code does not do *)

\* ARCHITECTURE.md:170: "Completed flows are persisted."
CompletedFlowsArePersisted ==
    \A k \in Key : snap.deltas[k].closed /\ k \notin Active => flowRows[k] = snap.deltas[k]
===============================================================================
