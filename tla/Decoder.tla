-------------------------------- MODULE Decoder --------------------------------
(***************************************************************************)
(* decode, which a worker of the Processor pool applies to every frame.    *)
(*                                                                         *)
(* A frame is what gopacket has found in it: for each type of layer the    *)
(* first one, wherever it is.  Two layers may so come from different       *)
(* levels of a tunnel, and every combination is allowed.  Of the layers    *)
(* only what the Aggregator tells apart is kept: the addresses, whether    *)
(* TCP ends the connection and what DNS carries.  Of the protocols "Rest"  *)
(* stands for UDP, ICMP, ICMPv6 and the others, which FIN and RST do not   *)
(* close.  Sender and receiver may be the same host: on the loopback       *)
(* interface, and in a gratuitous ARP.                                     *)
(***************************************************************************)

CONSTANTS Host,   \* addresses
          Nobody  \* no address

ASSUME DecoderAssumption == Nobody \notin Host

Proto  == {"TCP", "Rest", "ARP"}
Ends   == [src : Host, dst : Host]
Absent == [src |-> Nobody, dst |-> Nobody]
Layer  == Ends \cup {Absent}
Frame  == [eth : BOOLEAN, arp : Layer, ip4 : Layer, ip6 : Layer,
           tcp : {"absent", "open", "ended"}, udp : BOOLEAN,
           port53 : BOOLEAN, dns : {"absent", "query", "response"}]

\* A DNSEvent.
Lookup == [client : Host, server : Host, response : BOOLEAN]

\* A ParsedPacket; dns holds its DNSEvent if there is one.
Packet == {p \in [src : Host, dst : Host, proto : Proto, fin : BOOLEAN, dns : SUBSET Lookup] :
              p.fin => p.proto = "TCP"}

\* ARP is looked for on Ethernet only.
IsARP(f) == f.eth /\ f.arp # Absent

\* The addresses of the network layer, of IPv4's if there are both.
Network(f) == IF f.ip4 # Absent THEN f.ip4 ELSE f.ip6

\* The transport protocol; a TCP layer goes before a UDP one.
Transport(f) == IF f.tcp # "absent" THEN "TCP" ELSE "Rest"

\* Mutant: the sender of a DNS message is taken for the client.
DecodeDNSBySender(f) ==
    {[client |-> Network(f).src, server |-> Network(f).dst, response |-> f.dns = "response"]}

\* The event of a DNS message: the sender of a response is the server.
DecodeDNS(f) ==
    IF f.dns = "response"
    THEN {[client |-> Network(f).dst, server |-> Network(f).src, response |-> TRUE]}
    ELSE {[client |-> Network(f).src, server |-> Network(f).dst, response |-> FALSE]}

\* DNS is looked for behind TCP and UDP with port 53.
MayCarryDNS(f) == f.port53 /\ f.dns # "absent" /\ (f.tcp # "absent" \/ f.udp)

Decode(f) ==
    IF IsARP(f)
    THEN [src |-> f.arp.src, dst |-> f.arp.dst, proto |-> "ARP", fin |-> FALSE, dns |-> {}]
    ELSE [src |-> Network(f).src, dst |-> Network(f).dst, proto |-> Transport(f),
          fin |-> f.tcp = "ended", dns |-> IF MayCarryDNS(f) THEN DecodeDNS(f) ELSE {}]

\* decode returns nil for a frame in which there is nothing to aggregate.
Decodable(f) == IsARP(f) \/ Network(f) # Absent

\* What the worker sends on, out of the frames fs.
Decoded(fs) == {Decode(f) : f \in {g \in fs : Decodable(g)}}
===============================================================================
