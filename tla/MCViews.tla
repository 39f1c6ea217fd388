------------------------------ MODULE MCViews ------------------------------
(* Small instances of Views for TLC. *)
EXTENDS Views

CONSTANTS Flows4,           \* connections a capture may hold, IPv4
          Flows6,           \* and IPv6
          Lens,             \* IP payload lengths
          MaxPackets

\* Two hosts behind the edge with one source port, a server on each side, the
\* instance metadata service, and two IPv6 hosts.
MCFlow(src, sport, dst, dport, ver) ==
  [src |-> src, sport |-> sport, dst |-> dst, dport |-> dport, ver |-> ver]

MCFlows4 == {MCFlow("h1", 1, "srv", 80, 4), MCFlow("h2", 1, "srv", 80, 4),
             MCFlow("h1", 2, "h2", 80, 4), MCFlow("h1", 3, "imds", 80, 4)}
MCFlows6 == {MCFlow("x1", 1, "x2", 443, 6)}

\* A packet of flow f, in one of its directions; h1 sends IP id 0, the others id 1.
MCPacket(f, d, len, n) ==
  [n |-> n, ver |-> f.ver, src |-> IF d = 1 THEN f.src ELSE f.dst,
   dst |-> IF d = 1 THEN f.dst ELSE f.src, sport |-> IF d = 1 THEN f.sport ELSE f.dport,
   dport |-> IF d = 1 THEN f.dport ELSE f.sport,
   id |-> IF (d = 1 /\ f.src = "h1") \/ (d = 2 /\ f.dst = "h1") THEN 0 ELSE 1,
   ttl |-> IF d = 1 THEN 2 ELSE 1, len |-> len, off |-> 0, more |-> FALSE, df |-> TRUE,
   vlan |-> None, link |-> "ethernet"]

MCCaptures ==
  UNION {{[k \in 1..n |-> MCPacket(c[k][1], c[k][2], c[k][3], k)] :
            c \in [1..n -> (Flows4 \cup Flows6) \X {1, 2} \X Lens]} : n \in 0..MaxPackets}

MCVantage == [sees_host |-> None, vni |-> None, nat |-> FALSE, public |-> "pub",
              hops |-> 0, vlan |-> None, sll |-> FALSE]
MCEdge == [MCVantage EXCEPT !.nat = TRUE, !.hops = 1]
MCCore == [MCVantage EXCEPT !.vlan = 10]
MCHost == [MCVantage EXCEPT !.sees_host = "h1", !.sll = TRUE]
MCMirror == [MCVantage EXCEPT !.vni = 5001]

MCOrders == {<<MCEdge, MCCore, MCHost>>, <<MCMirror, MCEdge, MCHost>>}
=============================================================================
