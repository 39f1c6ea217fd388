------------------------------- MODULE Dialogues -------------------------------
(***************************************************************************)
(* One flow of a document, from the IR to the gate: FlowSpec says whether  *)
(* it loads, Renderers what it says on the wire, Analyzers what Zeek reads *)
(* from that; validate_flowset compares the two.  An FTP transfer is a     *)
(* second connection whose packets are merged by time with the first.      *)
(* A flow is [transport, sport, dport, v6, state, rtt, texture, kind,      *)
(* given], with times in milliseconds; the texture is its capture's.       *)
(***************************************************************************)
EXTENDS Renderers

CONSTANTS Documents,   \* the flows a document may hold
          Gaps,        \* how long a message may take to be out
          Delays       \* how long it may take from there to the end of its confirmation

\* How a texture paces a message of flow f: its last byte is out g after the message before,
\* and the exchange is over d later.  Clean, the pause is uniform(1, 10) and the confirmation
\* takes the round trip.  Realistic, both are jittered by 45%, one resend adds up to a jittered
\* round trip to either, and a duplicate ACK 15% of it to the second; bounds are rounded up, and
\* a message may always be resent where the code does it once per side.  Conditioned, every gap
\* is lognormal around the round trip (up to 90 s), and there is one before each segment.
Paced(f, g, d) ==
  CASE f.texture = "clean"     -> g \in 1..10 /\ d = f.rtt
    [] f.texture = "realistic" -> /\ 100 * g <= 145 * f.rtt + 1500
                                  /\ 55 * f.rtt <= 100 * d
                                  /\ 100 * (g + d) <= 312 * f.rtt + 1500
    [] OTHER                   -> f.rtt = 0 => g = 0 /\ d = 0

ASSUME PacesAssumption ==
  /\ Gaps \subseteq Nat /\ Delays \subseteq Nat
  /\ \A f \in Documents : \E g \in Gaps, d \in Delays : Paced(f, g, d)

\* A round trip takes time, and there are three textures (CaptureMeta.texture).
ASSUME DocumentsAssumption ==
  \A f \in Documents : f.rtt \in Nat /\ f.texture \in {"clean", "realistic", "conditioned"}

VARIABLES flow,        \* the flow chosen
          phase,       \* "choose", "refused", "raised", "wire", "passed" or "failed"
          todo,        \* the messages not yet delivered
          clock,       \* the time on the flow's own connection
          data,        \* the file of the FTP data connection, <<>> once it is sent
          parser       \* what Zeek has read

vars == <<flow, phase, todo, clock, data, parser>>

Zeek == INSTANCE Analyzers

-----------------------------------------------------------------------------
Init == /\ flow = None /\ phase = "choose" /\ todo = <<>> /\ clock = 0 /\ data = <<>>
        /\ parser = Zeek!Fresh

\* Pydantic rejects the document.
Refuse(f) == /\ phase = "choose" /\ ~IsFlow(f)
             /\ flow' = f /\ phase' = "refused"
             /\ UNCHANGED <<todo, clock, data, parser>>

\* RENDERERS[kind] raises and so does compile_flowset.
Raise(f) == /\ phase = "choose" /\ IsFlow(f) /\ Raises(f)
            /\ flow' = f /\ phase' = "raised"
            /\ UNCHANGED <<todo, clock, data, parser>>

\* The handshake takes one round trip, of the network alone when that is conditioned.
Handshake(f) == IF f.texture = "conditioned" /\ f.rtt > 50 THEN 50 ELSE f.rtt

\* compile_flowset starts the renderer of the flow's kind.
Render(f) == /\ phase = "choose" /\ IsFlow(f) /\ ~Raises(f)
             /\ flow' = f /\ phase' = "wire"
             /\ todo' = IF Delivers(f) THEN Script(f) ELSE <<>>
             /\ clock' = Handshake(f)
             /\ data' = IF f.kind = "ftp" THEN FtpData(Loaded(f)) ELSE <<>>
             /\ UNCHANGED parser

\* The packets of both connections are sorted by time.
Deliver(g, d) == /\ phase = "wire" /\ todo # <<>>
                 /\ Paced(flow, g, d)
                 /\ data = <<>> \/ clock + g <= DataStart
                 /\ parser' = Zeek!Read(flow.kind, parser, Head(todo))
                 /\ todo' = Tail(todo)
                 /\ clock' = clock + g + d
                 /\ UNCHANGED <<flow, phase, data>>

\* The data connection opens: Zeek knows whose it is only if a reply announced its port.
Transfers(g, d) == /\ phase = "wire" /\ data # <<>>
                   /\ todo = <<>> \/ (Paced(flow, g, d) /\ clock + g > DataStart)
                   /\ parser' = [parser EXCEPT
                                   !.files = <<[announced |-> IF @ = <<>> /\ parser.port
                                                              THEN data[1] ELSE 0,
                                                got |-> data[1]]>>]
                   /\ data' = <<>>
                   /\ UNCHANGED <<flow, phase, todo, clock>>

-----------------------------------------------------------------------------
\* The row _find_conn looks for: the transport and ports of the flow, its side speaking first.
ConnFound(f) ==
  LET script == Script(f)
  IN  CASE f.kind = "dhcp" -> TRUE
        [] f.kind = "dns" -> f.transport = "udp"
        [] f.kind = "namequery" -> f.dport = PortOf(Loaded(f))
        [] f.kind \in {"icmp", "ntp", "snmp", "opaque_udp"} ->
             script # <<>> /\ Head(script).from = "orig"
        [] OTHER -> TRUE

\* validate_flowset's comparisons for this flow, and a capture with nothing weird in it.
Passes(f, z) ==
  /\ ConnFound(f)
  /\ ServiceOf(f) # {} => z.services = ServiceOf(f)
  /\ RowOf(f) # <<>> => RowOf(f) \in z.logs
  /\ Produces(f) \subseteq {row[1] : row \in z.logs}
  /\ ~z.odd

Verdict == /\ phase = "wire" /\ todo = <<>> /\ data = <<>>
           /\ phase' = IF Passes(flow, parser) THEN "passed" ELSE "failed"
           /\ UNCHANGED <<flow, todo, clock, data, parser>>

Concluded == /\ phase \in {"refused", "raised", "passed", "failed"}
             /\ UNCHANGED vars

Next == \/ \E f \in Documents : Refuse(f) \/ Raise(f) \/ Render(f)
        \/ \E g \in Gaps, d \in Delays : Deliver(g, d) \/ Transfers(g, d)
        \/ Verdict \/ Concluded

Spec == Init /\ [][Next]_vars

-----------------------------------------------------------------------------
\* What reaches a renderer is a flow of its kind: complete, over a transport of that kind and
\* with values the fields allow (flowspec.py: Flow and its validators); sizes and times are
\* natural numbers.
TypeOK ==
  /\ phase \in {"choose", "refused", "raised", "wire", "passed", "failed"}
  /\ phase \in {"raised", "wire", "passed", "failed"} =>
       /\ flow.transport \in Transports(flow.kind)
       /\ \A x \in DOMAIN L7Spec[flow.kind] :
            L7Spec[flow.kind][x] = Required => x \in DOMAIN flow.given
  /\ clock \in Nat /\ data \in Seq(Nat)
  /\ \A i \in DOMAIN todo : todo[i].from \in {"orig", "resp"}
  /\ \A h \in DOMAIN parser.files :
       parser.files[h].announced \in Nat /\ parser.files[h].got \in Nat

\* "agreement proves the packets are both valid and correctly interpreted"
\* (renderers/__init__.py:8): a flow that loads passes the gate if its capture can say what it
\* asks for, and only then.  The flows that load and can never pass are those Sayable leaves out:
\* a name over tcp, which is rendered over udp; a query nobody answers, which still expects a
\* code; a code without a number; a count of 0; a datagram conversation of replies only; a name
\* query to a port that is not its protocol's; a page with a body after HEAD; and any protocol
\* on a connection that is refused or never answered.
ReadsBack == /\ phase = "passed" => Sayable(flow)
             /\ phase = "failed" => ~Sayable(flow)

\* A file arrives whole: as many bytes as were announced under its handle, and as many as the
\* flow asked for unless it asked for fewer than its format takes (file_bodies.py: "exactly-sized
\* file bodies"; render_http, render_smb).
FilesArriveWhole ==
  phase = "passed" /\ flow.kind \in {"http", "smb"} =>
    LET files == parser.files
    IN  /\ \A h \in DOMAIN files : files[h].got = files[h].announced
        /\ \A x \in FilesAsked(flow) :
             \/ \E h \in DOMAIN files : files[h].got = x[2] \/ (x[2] < 312 /\ files[h].got < 313)
             \/ flow.kind = "http" /\ Loaded(flow).status \in {204, 304}

\* The messages of the control connection up to the reply that announces the data port.
UpToPort(s) == 2 * Len(s.commands) + 7

\* The longest a message may take, in hundredths of a millisecond, where there is a limit.
Slowest(f) == CASE f.texture = "clean"     -> 100 * f.rtt + 1000
                [] f.texture = "realistic" -> 312 * f.rtt + 1500
                [] OTHER                   -> 0

\* The port is announced in time for sure.
InTime(f) == /\ f.texture = "conditioned" => f.rtt = 0
             /\ UpToPort(Loaded(f)) * Slowest(f) <= 100 * DataStart

\* An FTP data connection opens after its port was announced, if the control connection carries
\* data, the address is IPv4 and the round trip is short for the number of commands and the
\* texture: the data connection starts 1.5 s after the flow whatever has been said by then
\* (render_ftp).  In a conditioned capture nothing is sure unless the round trip is 0.
PortAnnounced ==
  /\ phase = "wire" /\ flow.kind = "ftp" /\ parser.files # <<>>
  /\ Delivers(flow) /\ ~flow.v6 /\ InTime(flow)
  => parser.files[1].announced = parser.files[1].got
=============================================================================
