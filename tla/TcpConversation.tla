--------------------------- MODULE TcpConversation ---------------------------
(***************************************************************************)
(* The builder of TcpFlow with the reader of ZeekConn on the wire: the     *)
(* reader observes every packet as it is emitted.  States what the module  *)
(* docstring of compile/tcp.py promises -- a reassembly-valid series, read *)
(* without `weird` events, whose summary is what Zeek will log -- and that *)
(* the series implements ByteStream.                                       *)
(***************************************************************************)
EXTENDS TcpFlow

VARIABLE zeek               \* the reader's view of the packets so far

vars == <<flow, pc, pkts, hist, seq, next, cuts, off, retransmitted, dataBytes, zeek>>

Read == zeek' = IF pkts' = pkts THEN zeek ELSE Observe(zeek, pkts'[Len(pkts')])

Init == FlowInit /\ zeek = Unseen
Next == FlowNext /\ Read

\* build_tcp_flow is straight-line code that runs to its return.
Spec == Init /\ [][Next]_vars /\ WF_vars(Next)

-----------------------------------------------------------------------------
PCs == {"syn", "reject", "synack", "estab", "message", "segment", "retransmit",
        "dupack", "fin", "lastack", "summary", "done", "raised"}
Letters == {"S", "H", "A", "D", "T", "F", "R"} \X Dir
Flags == {"S", "SA", "RA", "A", "PA", "FA", "R"}
Packets == [from : Dir, flags : Flags, seq : Nat, ack : Nat, len : Nat]

\* The program counter, the packets, the counters and the segment cursor of
\* build_tcp_flow stay in their types, and the cursor inside its message.
TypeOK == /\ flow \in [script : Scripts, connState : ConnStates, texture : TextureNames,
                       segBytes : SegSizes, minSegments : MinSegments, isn : [Dir -> ISNs]]
          /\ pc \in PCs
          /\ pkts \in Seq(Packets)
          /\ hist \in Seq(Letters)
          /\ seq \in [Dir -> Nat]
          /\ next \in 1..(Len(flow.script) + 1)
          /\ cuts \in SUBSET Nat
          /\ off \in Nat
          /\ pc \in {"segment", "retransmit"} => off \in cuts /\ off <= msg.size
          /\ retransmitted \in [Dir -> BOOLEAN]
          /\ dataBytes \in [Dir -> Nat]

\* Zeek reads the whole series without a weird: the SEQ/ACK arithmetic of the
\* builder leaves no hole, no partial overlap, no acknowledgment of bytes never
\* sent, and nothing after a FIN or a reset (module docstring, tcp.py:5-9).
SensorClean == ~zeek.weird

\* The summary the builder returns is what the reader logs: conn_state, history,
\* packet and byte counts, which roundtrip.py compares field by field.  Retransmitted
\* and duplicated packets must not make the two drift apart (tcp.py:158-163).
SummaryIsTheLog ==
  pc = "done" => Summary = [conn_state |-> zeek.state, history |-> zeek.hist,
                            pkts |-> zeek.pkts, bytes |-> zeek.bytes]

\* A side starts sending only when every byte of its peer has been acknowledged:
\* requests and responses never overlap on the wire (tcp.py:262-292).
HalfDuplex ==
  [][\A d \in Dir : zeek'.bytes[d] > zeek.bytes[d]
                      => zeek.acked[Peer(d)] = zeek.nxt[Peer(d)]]_vars

\* A conversation that ends leaves nothing in flight: after a clean close both
\* FINs are acknowledged, and a reset sits exactly at the next sequence number
\* of its sender, where a receiver accepts it (tcp.py:304-311).
ClosedInStep ==
  pc = "done" /\ flow.connState \in Established =>
    /\ \A d \in Dir : zeek.acked[d] = zeek.nxt[d]
    /\ zeek.fin = [d \in Dir |-> flow.connState = "SF"]
    /\ LET last == pkts[Len(pkts)] IN last.seq = zeek.nxt[last.from]

\* The builder always returns or raises: no texture, segment size or minimum
\* number of segments makes the segment loop of _segment run forever.
Termination == <>(pc \in {"done", "raised"})

\* A conversation the builder supports is rendered, whatever the rng draws: the
\* module docstring of compile/tcp.py (lines 5-9) promises a packet series for any
\* list of messages.
AlwaysRenders == pc = "raised" => flow.connState \notin Supported

-----------------------------------------------------------------------------
(* The refinement: the abstract state is what the reader has seen. *)

\* Payload bytes of d that its peer acknowledged; a FIN takes a number of its own.
Confirmed(d) ==
  IF zeek.acked[d] = 0 THEN 0
  ELSE LET top == zeek.nxt[d] - (IF zeek.fin[d] THEN 1 ELSE 0)
       IN  (IF zeek.acked[d] < top THEN zeek.acked[d] ELSE top) - (isn[d] + 1)

Stage == CASE zeek.state = "none" -> "idle"
           [] zeek.state = "S0" -> IF flow.connState = "S0" THEN "S0" ELSE "idle"
           [] zeek.state \in {"S1", "S2", "S3"} -> "open"
           [] OTHER -> zeek.state

Stream == INSTANCE ByteStream WITH
            script <- flow.script, fate <- flow.connState,
            delivered <- next - 1, got <- [d \in Dir |-> Confirmed(d)],
            status <- Stage

\* The packet series is a byte stream: messages arrive whole, in script order,
\* each confirmed before the next, and the connection ends as its conn_state says.
ImplementsByteStream == Stream!Spec
=============================================================================
