------------------------------- MODULE Views -------------------------------
(***************************************************************************)
(* One compiled capture, seen again: render_vantages projects it through   *)
(* each sensor in turn (compile/vantage.py), or fragment_packets splits    *)
(* its oversized packets (compile/fragment.py) and a sensor reassembles    *)
(* them.  The packets are shared objects: a projection works on a copy.    *)
(***************************************************************************)
EXTENDS Vantage, FiniteSets

CONSTANTS Captures,         \* compiled captures
          Sensors,          \* lists of vantages
          FragSizes         \* --fragment arguments

\* A packet knows its place; one address family to a pair of endpoints.
Fields == {"n", "ver", "src", "dst", "sport", "dport", "id", "ttl", "len", "off", "more", "df",
           "vlan", "link"}
Ends(q) == {<<q.src, q.sport>>, <<q.dst, q.dport>>}
ASSUME ViewsAssumption ==
  /\ \A c \in Captures :
       /\ Len(c) \in Nat /\ DOMAIN c = 1..Len(c)
       /\ \A k \in DOMAIN c : /\ c[k] = [x \in Fields |-> c[k][x]] /\ c[k].n = k
                             /\ c[k].off = 0 /\ c[k].more = FALSE /\ c[k].len \in Nat \ {0}
       /\ \A j, k \in DOMAIN c : Ends(c[j]) = Ends(c[k]) => c[j].ver = c[k].ver
  /\ \A s \in Sensors : Len(s) \in Nat /\ DOMAIN s = 1..Len(s)
  /\ FragSizes \subseteq Int

VARIABLES capture,          \* the capture as compiled, for the properties
          packets,          \* the list of packet objects handed around
          sensors,          \* the vantages to render; empty for a fragmenter
          fragsize,         \* the fragmenter's argument
          pc, v, i,         \* the statement, the vantage, the packet
          out,              \* the list being built
          views,            \* one finished list per vantage
          buffer,           \* external: fragments a sensor holds, per key
          whole             \* external: the datagrams it has put together

vars == <<capture, packets, sensors, fragsize, pc, v, i, out, views, buffer, whole>>

Init == /\ capture \in Captures
        /\ packets = capture
        /\ \/ pc = "project" /\ sensors \in Sensors /\ fragsize = 0
           \/ pc = "fragment" /\ sensors = <<>> /\ fragsize \in FragSizes
        /\ v = 1 /\ i = 1 /\ out = <<>> /\ views = <<>>
        /\ buffer = {} /\ whole = <<>>

p == packets[i]
sensor == sensors[v]

-----------------------------------------------------------------------------
(* render_vantages. *)

Projecting == pc = "project" /\ v <= Len(sensors) /\ i <= Len(packets)

Skip == /\ Projecting
        /\ ~Shown(p, sensor)
        /\ i' = i + 1
        /\ UNCHANGED <<capture, packets, sensors, fragsize, pc, v, out, views, buffer, whole>>

\* Mutant of Show: the packet is projected in place, not copied.
ShowInPlace == /\ Projecting
               /\ Shown(p, sensor)
               /\ packets' = [packets EXCEPT ![i] = Projected(@, sensor)]
               /\ out' = Append(out, Projection(p, sensor))
               /\ i' = i + 1
               /\ UNCHANGED <<capture, sensors, fragsize, pc, v, views, buffer, whole>>

Show == /\ Projecting
        /\ Shown(p, sensor)
        /\ out' = Append(out, Projection(p, sensor))
        /\ i' = i + 1
        /\ UNCHANGED <<capture, packets, sensors, fragsize, pc, v, views, buffer, whole>>

\* Mutant of NextVantage: the vantages share one output list.
NextVantageShared == /\ pc = "project"
                     /\ v <= Len(sensors)
                     /\ i > Len(packets)
                     /\ views' = Append(views, out)
                     /\ i' = 1 /\ v' = v + 1
                     /\ UNCHANGED <<capture, packets, sensors, fragsize, pc, out, buffer, whole>>

NextVantage == /\ pc = "project"
               /\ v <= Len(sensors)
               /\ i > Len(packets)
               /\ views' = Append(views, out)
               /\ out' = <<>> /\ i' = 1 /\ v' = v + 1
               /\ UNCHANGED <<capture, packets, sensors, fragsize, pc, buffer, whole>>

-----------------------------------------------------------------------------
(* fragment_packets. *)

frag == FragSize(fragsize)

Split == /\ pc = "fragment"
         /\ i <= Len(packets)
         /\ out' = out \o (IF Oversized(p, frag) THEN Pieces(p, frag) ELSE <<p>>)
         /\ i' = i + 1
         /\ UNCHANGED <<capture, packets, sensors, fragsize, pc, v, views, buffer, whole>>

Written == /\ pc = "fragment"
           /\ i > Len(packets)
           /\ pc' = "read" /\ i' = 1
           /\ UNCHANGED <<capture, packets, sensors, fragsize, v, out, views, buffer, whole>>

\* External: a sensor that reassembles by source, destination and IP id, in the
\* order of the capture.
SameDatagram(q) == {b \in buffer : b.src = q.src /\ b.dst = q.dst /\ b.id = q.id}

Complete(held) == /\ \E b \in held : ~b.more
                  /\ \A b \in held : b.off = 0 \/ \E c \in held : c.off + c.len = b.off

Assembled(held, q) ==
  LET last == CHOOSE b \in held : ~b.more
  IN  [q EXCEPT !.off = 0, !.len = last.off + last.len, !.more = FALSE]

Reassemble ==
  /\ pc = "read"
  /\ i <= Len(out)
  /\ LET q == out[i]
         held == SameDatagram(q) \cup {q}
     IN  IF Complete(held)
         THEN /\ whole' = Append(whole, Assembled(held, q))
              /\ buffer' = buffer \ held
         ELSE buffer' = buffer \cup {q} /\ UNCHANGED whole
  /\ i' = i + 1
  /\ UNCHANGED <<capture, packets, sensors, fragsize, pc, v, out, views>>

Next == Skip \/ Show \/ NextVantage \/ Split \/ Written \/ Reassemble

Spec == Init /\ [][Next]_vars

-----------------------------------------------------------------------------
(* Properties. *)

\* The loops stay inside their lists, and the list being built holds packets the
\* loop has passed, no others.
TypeOK == /\ \A k \in DOMAIN capture : capture[k].n = k
          /\ pc \in {"project", "fragment", "read"}
          /\ v \in 1..(Len(sensors) + 1) /\ Len(views) = v - 1
          /\ i >= 1
          /\ pc # "read" => /\ i <= Len(packets) + 1
                            /\ \A k \in DOMAIN out : out[k].n < i

\* What a sensor s should show of the capture.
View(view, s) ==
  /\ \A j \in DOMAIN view : LET m == view[j].n
                            IN  /\ m \in DOMAIN capture /\ Shown(capture[m], s)
                                /\ view[j] = Projection(capture[m], s)
  /\ \A j, l \in DOMAIN view : j < l => view[j].n < view[l].n
  /\ \A m \in DOMAIN capture : Shown(capture[m], s) => \E j \in DOMAIN view : view[j].n = m

\* "A pure, deterministic packet transform" (vantage.py:13-14): what a sensor shows
\* depends on the capture as compiled and on that sensor, not on the sensors
\* projected before it; nothing visible is missing, repeated or out of order.
ViewsArePure == \A k \in DOMAIN views : View(views[k], sensors[k])

Together(q, r) == Ends(capture[q.n]) = Ends(capture[r.n])

\* A sensor shows both directions of a connection or neither, and what it shows of
\* one connection still reads as one: half a conversation, or one whose two
\* directions no longer match, is never a clean capture.
ConnectionsStayWhole ==
  \A k \in DOMAIN views : \A j \in DOMAIN views[k] :
    LET q == views[k][j]
    IN  /\ \A m \in DOMAIN capture : Together(q, capture[m])
             => \E l \in DOMAIN views[k] : views[k][l].n = m
        /\ \A l \in DOMAIN views[k] : Together(q, views[k][l])
             => Ends(q) = Ends(views[k][l])

\* A sensor that reassembles gets the capture's datagrams back, in order and with
\* nothing left over, even when datagrams share an IP id, as those of a host that
\* sends id 0 do (fragment.py:5-10).
Reassembles ==
  pc = "read" /\ i > Len(out) =>
    /\ buffer = {}
    /\ Len(whole) = Len(capture)
    /\ \A k \in DOMAIN whole : whole[k] = [capture[k] EXCEPT !.df = whole[k].df]

\* "A host tcpdump sees only that host's own packets" (vantage.py:7-9).
HostSeesOnlyItsOwn ==
  \A k \in DOMAIN views : sensors[k].sees_host # None =>
    \A j \in DOMAIN views[k] :
      sensors[k].sees_host \in {views[k][j].src, views[k][j].dst}

\* "Every vantage's output is an independent, Zeek-clean pcap of the same event"
\* (vantage.py:13-14): two connections never become one.
ConnectionsStayApart ==
  \A k \in DOMAIN views : \A j, l \in DOMAIN views[k] :
    Ends(views[k][j]) = Ends(views[k][l]) => Together(views[k][j], views[k][l])
=============================================================================
