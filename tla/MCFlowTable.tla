----------------------------- MODULE MCFlowTable -----------------------------
(***************************************************************************)
(* FlowTable for TLC.                                                      *)
(***************************************************************************)
EXTENDS FlowTable

\* Every combination of layers, but what two hosts say to each other is TCP without
\* DNS or a name that a private host asks for and gets over UDP, and a private host
\* alone sends ARP and talks to itself, over UDP or ICMP and not of names.
MCFrames == {f \in Frame :
                LET n == Network(f) IN
                /\ f.arp.src \in Private \cup {Nobody}
                /\ f.dns # "absent" => /\ f.udp /\ f.port53 /\ n.src # n.dst
                                       /\ (IF f.dns = "query" THEN n.src ELSE n.dst) \in Private
                /\ n.src # n.dst => (f.tcp # "absent" <=> f.dns = "absent")
                /\ n.src = n.dst => f.tcp = "absent" /\ n.src \in Private \cup {Nobody}}
==============================================================================
