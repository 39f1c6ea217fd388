------------------------------- MODULE TcpFlow -------------------------------
(***************************************************************************)
(* compile/tcp.py: build_tcp_flow, the builder every TCP renderer hands    *)
(* its list of messages to.  One action emits one packet, in the order of  *)
(* the function's statements; what the function draws from its rng (the    *)
(* initial sequence numbers, whether a segment is retransmitted and an ACK *)
(* duplicated) is a nondeterministic choice.  The clock, the MAC, TTL, IP  *)
(* id and options of a packet are left out; the two endpoints have         *)
(* different addresses, so a packet's direction is its source address.     *)
(***************************************************************************)
EXTENDS ZeekConn, FiniteSets

CONSTANTS MSS,              \* bytes per segment when the flow sets none
          MaxSeg,           \* the largest segment one IP packet can hold
          SeqMod,           \* 2^32 in the code: what the header field can hold
          ISNs,             \* initial sequence numbers the rng may draw
          Scripts,          \* message lists the renderers pass
          ConnStates,       \* conn_state strings a flow may carry
          TextureNames,     \* capture textures
          SegSizes,         \* a flow's seg_bytes, 0 when it sets none
          MinSegments       \* least number of segments of a message

Message == [from : Dir, size : Nat]
Supported == {"S0", "REJ", "SF", "RSTO", "RSTR"}
Established == {"SF", "RSTO", "RSTR"}

\* Whether a texture may retransmit a segment and duplicate an ACK.
TEXTURES == [clean       |-> FALSE,
             realistic   |-> TRUE,
             conditioned |-> FALSE]

ASSUME SegmentAssumption == /\ MSS \in Nat \ {0}
                            /\ MaxSeg \in Nat \ {0}
                            /\ SegSizes \subseteq Nat
                            /\ MinSegments \subseteq Int
ASSUME SequenceAssumption == /\ SeqMod \in Nat \ {0}
                             /\ ISNs \subseteq 0..(SeqMod - 1)
ASSUME ScriptAssumption == /\ Scripts \subseteq Seq(Message)
                           /\ TextureNames \subseteq DOMAIN TEXTURES

VARIABLES flow,             \* the arguments of the call, which never change
          pc,               \* the next statement
          pkts,             \* the packets emitted so far
          hist,             \* the history recorder
          seq,              \* c_seq and s_seq
          next,             \* the message being sent
          cuts, off,        \* its segment boundaries, the bytes already sent
          retransmitted,    \* one retransmission per direction
          dataBytes         \* payload bytes of original segments

fvars == <<flow, pc, pkts, hist, seq, next, cuts, off, retransmitted, dataBytes>>

msg == flow.script[next]
snd == msg.from
rcv == Peer(snd)
isn == flow.isn

Packet(d, flags, s, a, n) ==
  [from |-> d, flags |-> flags, seq |-> s, ack |-> a, len |-> n]

Emit(p, letter) == /\ pkts' = Append(pkts, p)
                   /\ hist' = RecordOnce(hist, letter, p.from)

FlowInit ==
  /\ flow \in [script : Scripts, connState : ConnStates, texture : TextureNames,
               segBytes : SegSizes, minSegments : MinSegments, isn : [Dir -> ISNs]]
  /\ pc = "syn"
  /\ pkts = <<>>
  /\ hist = <<>>
  /\ seq = [d \in Dir |-> flow.isn[d] + 1]
  /\ next = 1
  /\ cuts = {}
  /\ off = 0
  /\ retransmitted = [d \in Dir |-> FALSE]
  /\ dataBytes = [d \in Dir |-> 0]

-----------------------------------------------------------------------------
(* Handshake. *)

Unsupported == /\ pc = "syn"
               /\ flow.connState \notin Supported
               /\ pc' = "raised"
               /\ UNCHANGED <<flow, pkts, hist, seq, next, cuts, off, retransmitted, dataBytes>>

Syn == /\ pc = "syn"
       /\ flow.connState \in Supported
       /\ Emit(Packet(Orig, "S", isn[Orig], 0, 0), "S")
       /\ pc' = CASE flow.connState = "S0"  -> "summary"
                  [] flow.connState = "REJ" -> "reject"
                  [] OTHER -> "synack"
       /\ UNCHANGED <<flow, seq, next, cuts, off, retransmitted, dataBytes>>

Reject == /\ pc = "reject"
          /\ Emit(Packet(Resp, "RA", 0, isn[Orig] + 1, 0), "R")
          /\ pc' = "summary"
          /\ UNCHANGED <<flow, seq, next, cuts, off, retransmitted, dataBytes>>

SynAck == /\ pc = "synack"
          /\ Emit(Packet(Resp, "SA", isn[Resp], isn[Orig] + 1, 0), "H")
          /\ pc' = "estab"
          /\ UNCHANGED <<flow, seq, next, cuts, off, retransmitted, dataBytes>>

HandshakeAck == /\ pc = "estab"
                /\ Emit(Packet(Orig, "A", isn[Orig] + 1, isn[Resp] + 1, 0), "A")
                /\ pc' = "message"
                /\ UNCHANGED <<flow, seq, next, cuts, off, retransmitted, dataBytes>>

-----------------------------------------------------------------------------
(* Data exchange.  A segmentation is the set of its boundaries.            *)

SegmentSize == LET asked == IF flow.segBytes = 0 THEN MSS ELSE flow.segBytes
               IN  IF asked < MaxSeg THEN asked ELSE MaxSeg

Boundaries(n, mss) == {k \in 0..n : k % mss = 0} \cup {n}

\* Mutant of EndOf: every segment is a full one.
EndOfFull(B, a) == a + SegmentSize

\* The segment that starts at boundary a ends at the next boundary.
EndOf(B, a) == CHOOSE b \in B : b > a /\ \A c \in B : c > a => b <= c
Starts(B) == {a \in B : \E b \in B : b > a}
SizeAt(B, a) == EndOf(B, a) - a

\* The first of the largest segments.
LargestStart(B) ==
  CHOOSE a \in Starts(B) : \A c \in Starts(B) :
    \/ SizeAt(B, c) < SizeAt(B, a)
    \/ SizeAt(B, c) = SizeAt(B, a) /\ a <= c

\* Mutant of Splittable: a segment of one byte still counts as splittable.
SplittableByte == /\ Cardinality(Starts(cuts)) < flow.minSegments
                  /\ \E a \in Starts(cuts) : SizeAt(cuts, a) > 0

Splittable == /\ Cardinality(Starts(cuts)) < flow.minSegments
              /\ \E a \in Starts(cuts) : SizeAt(cuts, a) > 1

StartMessage == /\ pc = "message"
                /\ next <= Len(flow.script)
                /\ cuts' = Boundaries(msg.size, SegmentSize)
                /\ off' = 0
                /\ pc' = "segment"
                /\ UNCHANGED <<flow, pkts, hist, seq, next, retransmitted, dataBytes>>

\* Half of the largest segment, at least one byte of it, becomes its own.
SplitLargest ==
  /\ pc = "segment"
  /\ Splittable
  /\ LET a == LargestStart(cuts)
         half == SizeAt(cuts, a) \div 2
     IN  cuts' = cuts \cup {a + (IF half < 1 THEN 1 ELSE half)}
  /\ UNCHANGED <<flow, pc, pkts, hist, seq, next, off, retransmitted, dataBytes>>

\* Mutant of DataPacket: seq is not advanced between the segments.
DataPacketStill == Packet(snd, "PA", seq[snd], seq[rcv], SizeAt(cuts, off))

DataPacket == Packet(snd, "PA", seq[snd] + off, seq[rcv], SizeAt(cuts, off))

\* Mutant of MayRetransmit: no cap of one retransmission per direction.
MayRetransmitAgain == TEXTURES[flow.texture]

\* The rng may decide so under a retransmitting texture, once per direction.
MayRetransmit == TEXTURES[flow.texture] /\ ~retransmitted[snd]

SendSegment ==
  /\ pc = "segment"
  /\ ~Splittable
  /\ off < msg.size
  /\ Emit(DataPacket, "D")
  /\ dataBytes' = [dataBytes EXCEPT ![snd] = @ + SizeAt(cuts, off)]
  /\ \/ /\ off' = EndOf(cuts, off)
        /\ UNCHANGED <<pc, retransmitted>>
     \/ /\ MayRetransmit
        /\ retransmitted' = [retransmitted EXCEPT ![snd] = TRUE]
        /\ pc' = "retransmit"
        /\ UNCHANGED off
  /\ UNCHANGED <<flow, seq, next, cuts>>

Retransmit == /\ pc = "retransmit"
              /\ Emit(DataPacket, "T")
              /\ off' = EndOf(cuts, off)
              /\ pc' = "segment"
              /\ UNCHANGED <<flow, seq, next, cuts, retransmitted, dataBytes>>

\* Mutant of MessageAck: acknowledges what was sent before this message.
MessageAckStale == Packet(rcv, "A", seq[rcv], seq[snd], 0)

MessageAck == Packet(rcv, "A", seq[rcv], seq[snd] + off, 0)

\* The peer acknowledges the whole message, once or twice.
AckMessage ==
  /\ pc = "segment"
  /\ ~Splittable
  /\ off = msg.size
  /\ seq' = [seq EXCEPT ![snd] = @ + off]
  /\ Emit(MessageAck, "A")
  /\ next' = next + 1
  /\ \/ pc' = "message"
     \/ TEXTURES[flow.texture] /\ pc' = "dupack"
  /\ UNCHANGED <<flow, cuts, off, retransmitted, dataBytes>>

DuplicateAck == /\ pc = "dupack"
                /\ Emit(pkts[Len(pkts)], "A")
                /\ pc' = "message"
                /\ UNCHANGED <<flow, seq, next, cuts, off, retransmitted, dataBytes>>

-----------------------------------------------------------------------------
(* Teardown and summary. *)

\* Mutant of Sent: the teardown does not wait for the last message.
SentEarly == pc = "message"

Sent == pc = "message" /\ next > Len(flow.script)

FinOrig == /\ Sent
           /\ flow.connState = "SF"
           /\ Emit(Packet(Orig, "FA", seq[Orig], seq[Resp], 0), "F")
           /\ pc' = "fin"
           /\ UNCHANGED <<flow, seq, next, cuts, off, retransmitted, dataBytes>>

FinResp == /\ pc = "fin"
           /\ Emit(Packet(Resp, "FA", seq[Resp], seq[Orig] + 1, 0), "F")
           /\ pc' = "lastack"
           /\ UNCHANGED <<flow, seq, next, cuts, off, retransmitted, dataBytes>>

\* Mutant of LastAck: the responder's FIN is not counted in the acknowledgment.
LastAckShort == /\ pc = "lastack"
                /\ Emit(Packet(Orig, "A", seq[Orig] + 1, seq[Resp], 0), "A")
                /\ pc' = "summary"
                /\ UNCHANGED <<flow, seq, next, cuts, off, retransmitted, dataBytes>>

LastAck == /\ pc = "lastack"
           /\ Emit(Packet(Orig, "A", seq[Orig] + 1, seq[Resp] + 1, 0), "A")
           /\ pc' = "summary"
           /\ UNCHANGED <<flow, seq, next, cuts, off, retransmitted, dataBytes>>

Reset(d) == /\ Sent
            /\ flow.connState = IF d = Orig THEN "RSTO" ELSE "RSTR"
            /\ Emit(Packet(d, "R", seq[d], seq[Peer(d)], 0), "R")
            /\ pc' = "summary"
            /\ UNCHANGED <<flow, seq, next, cuts, off, retransmitted, dataBytes>>

\* Measuring the IP bytes serialises every packet: a sequence or acknowledgment
\* number that does not fit its header field raises there.
Serialisable(p) == p.seq < SeqMod /\ p.ack < SeqMod

Summarise == /\ pc = "summary"
             /\ pc' = IF \A i \in DOMAIN pkts : Serialisable(pkts[i])
                      THEN "done" ELSE "raised"
             /\ UNCHANGED <<flow, pkts, hist, seq, next, cuts, off, retransmitted, dataBytes>>

\* The prediction handed to the round-trip gate.
CountFrom(s, d) == Cardinality({i \in DOMAIN s : s[i].from = d})
PacketsFrom(d) == CountFrom(pkts, d)
Summary == [conn_state |-> flow.connState,
            history    |-> hist,
            pkts       |-> [d \in Dir |-> PacketsFrom(d)],
            bytes      |-> dataBytes]

FlowNext == \/ Unsupported \/ Syn \/ Reject \/ SynAck \/ HandshakeAck
            \/ StartMessage \/ SplitLargest \/ SendSegment \/ Retransmit
            \/ AckMessage \/ DuplicateAck
            \/ FinOrig \/ FinResp \/ LastAck \/ (\E d \in Dir : Reset(d))
            \/ Summarise
=============================================================================
