------------------------ MODULE TcpConversationProofs ------------------------
(***************************************************************************)
(* Proofs about TcpConversation, for every script, segment size, initial   *)
(* sequence number and texture.  The inductive invariant IInv says, for    *)
(* every statement of build_tcp_flow, what the reader has seen so far.     *)
(***************************************************************************)
EXTENDS TcpConversation, TLAPS, FiniteSetTheorems, SequenceTheorems

-----------------------------------------------------------------------------
(* The inductive invariant. *)

\* The reader's view has its type.
View == [state : {"none", "S0", "S1", "S2", "S3", "REJ", "SF", "RSTO", "RSTR"},
         hist : Seq(Letters), weird : BOOLEAN,
         nxt : [Dir -> Nat], acked : [Dir -> Nat], bytes : [Dir -> Nat],
         pkts : [Dir -> Nat], fin : [Dir -> BOOLEAN], armed : [Dir -> BOOLEAN]]
ViewOK == zeek \in View

\* The segment cursor stands on a boundary of a message of the script.
CursorOK == pc \in {"segment", "retransmit"} =>
              /\ next <= Len(flow.script)
              /\ cuts \subseteq 0..msg.size
              /\ msg.size \in cuts
              /\ off \in cuts
              /\ pc = "retransmit" => off < msg.size

\* Bytes of the current message that d has put on the wire.
InFlight(d) == IF pc \in {"segment", "retransmit"} /\ d = snd
               THEN IF pc = "retransmit" THEN EndOf(cuts, off) ELSE off
               ELSE 0

Conversing == {"message", "segment", "retransmit", "dupack"}

\* What the reader expects next, and what it saw acknowledged, at every statement.
WireOK ==
  /\ pc = "syn" => zeek = Unseen /\ pkts = <<>> /\ hist = <<>>
  /\ pc \in {"reject", "synack"} =>
       /\ flow.connState = "REJ" \/ flow.connState \in Established
       /\ pc = "reject" <=> flow.connState = "REJ"
       /\ zeek.state = "S0"
       /\ zeek.nxt[Orig] = seq[Orig]
       /\ zeek.nxt[Resp] = 0
  /\ pc = "estab" => zeek.state = "S1" /\ zeek.nxt = seq
                     /\ zeek.acked[Orig] = seq[Orig] /\ zeek.acked[Resp] = 0
  /\ pc \in Conversing => /\ zeek.state = "S1"
                          /\ zeek.acked = seq
                          /\ \A d \in Dir : zeek.nxt[d] = seq[d] + InFlight(d)
  /\ pc \in {"estab", "fin", "lastack"} \cup Conversing => flow.connState \in Established
  /\ pc \in {"syn", "reject", "synack", "estab"} \cup Conversing
       => zeek.fin = [d \in Dir |-> FALSE]
  /\ pc \in {"syn", "reject", "synack", "estab"}
       => seq = [d \in Dir |-> isn[d] + 1] /\ next = 1
  /\ pc \in {"syn", "reject", "synack"} => zeek.acked = [d \in Dir |-> 0]
  /\ pc = "dupack" => LET d == flow.script[next - 1].from
                      IN  /\ next > 1
                          /\ Len(pkts) > 0
                          /\ pkts[Len(pkts)] = Packet(Peer(d), "A", seq[Peer(d)], seq[d], 0)
  /\ pc \in {"fin", "lastack"} => flow.connState = "SF" /\ next = Len(flow.script) + 1
  /\ pc = "fin" => /\ zeek.state = "S2"
                   /\ zeek.nxt = [d \in Dir |-> seq[d] + (IF d = Orig THEN 1 ELSE 0)]
                   /\ zeek.acked = seq
                   /\ zeek.fin = [d \in Dir |-> d = Orig]
  /\ pc = "lastack" => /\ zeek.state = "SF"
                       /\ zeek.nxt = [d \in Dir |-> seq[d] + 1]
                       /\ zeek.acked = [d \in Dir |-> seq[d] + (IF d = Orig THEN 1 ELSE 0)]
                       /\ zeek.fin = [d \in Dir |-> TRUE]

\* What the reader logged once the last packet is out.
ClosedOK == pc \in {"summary", "done"} =>
              /\ zeek.state = flow.connState
              /\ flow.connState \in Established =>
                   /\ zeek.acked = zeek.nxt
                   /\ zeek.fin = [d \in Dir |-> flow.connState = "SF"]
                   /\ zeek.nxt = [d \in Dir |-> seq[d] + (IF flow.connState = "SF" THEN 1 ELSE 0)]
                   /\ Len(pkts) > 0
                   /\ LET last == pkts[Len(pkts)] IN last.seq = zeek.nxt[last.from]

\* The summary's counters are the reader's.
CountsOK == /\ zeek.hist = hist
            /\ zeek.bytes = dataBytes
            /\ \A d \in Dir : zeek.pkts[d] = PacketsFrom(d)

\* A direction that may still retransmit has no retransmission letter yet.
LetterOK ==
  /\ pc = "retransmit" => retransmitted[snd]
  /\ \A d \in Dir : ~retransmitted[d] \/ (pc = "retransmit" /\ d = snd)
                      => zeek.armed[d] /\ <<"T", d>> \notin Range(hist)

IInv == TypeOK /\ ViewOK /\ CursorOK /\ SensorClean /\ WireOK /\ ClosedOK
        /\ CountsOK /\ LetterOK
-----------------------------------------------------------------------------
(* Lemmas about the operators. *)

LEMMA LeastNatural ==
  ASSUME NEW T, T \subseteq Nat, T # {}
  PROVE  \E x \in T : \A y \in T : x <= y
<1>1. PICK x \in T : \A y \in T : ~(<<y, x>> \in OpToRel(<, Nat))
  BY WFMin, NatLessThanWellFounded
<1>2. ASSUME NEW y \in T, ~(x <= y)
      PROVE  FALSE
  <2>1. <<y, x>> \in Nat \X Nat /\ <<y, x>>[1] < <<y, x>>[2]
    BY <1>2
  <2>2. <<y, x>> \in OpToRel(<, Nat)
    BY <2>1 DEF OpToRel
  <2> QED
    BY <1>1, <1>2, <2>2
<1> QED
  BY <1>2

\* A boundary before the end of the message has a next one.
LEMMA NextBoundary ==
  ASSUME NEW n \in Nat, NEW B, B \subseteq 0..n, n \in B,
         NEW a \in B, a < n
  PROVE  /\ a \in Nat /\ EndOf(B, a) \in Nat
         /\ EndOf(B, a) \in B /\ EndOf(B, a) > a /\ EndOf(B, a) <= n
<1> DEFINE T == {b \in B : b > a}
<1>1. \A b \in B : b \in Nat /\ b <= n
  OBVIOUS
<1>2. T \subseteq Nat /\ n \in T
  BY <1>1
<1>3. PICK x \in T : \A y \in T : x <= y
  BY <1>2, LeastNatural
<1>4. x \in B /\ x > a /\ \A c \in B : c > a => x <= c
  BY <1>3
<1>5. EndOf(B, a) \in B /\ EndOf(B, a) > a
  BY <1>4 DEF EndOf
<1> QED
  BY <1>1, <1>5

\* _segment finds a largest segment to split whenever there is a segment.
LEMMA LargestSegment ==
  ASSUME NEW n \in Nat, NEW B, B \subseteq 0..n, n \in B, Starts(B) # {}
  PROVE  LargestStart(B) \in B /\ LargestStart(B) < n
<1>1. \A b \in B : b \in Nat /\ b <= n
  OBVIOUS
<1>2. ASSUME NEW c \in Starts(B)
      PROVE  c \in B /\ c < n /\ SizeAt(B, c) \in Nat /\ SizeAt(B, c) <= n
  <2>1. c \in B /\ c < n
    BY <1>1 DEF Starts
  <2>2. /\ c \in Nat /\ EndOf(B, c) \in Nat
        /\ EndOf(B, c) > c /\ EndOf(B, c) <= n
    BY <2>1, NextBoundary
  <2> QED
    BY <2>1, <2>2 DEF SizeAt
<1> DEFINE K == {n - SizeAt(B, c) : c \in Starts(B)}
<1>3. K \subseteq Nat /\ K # {}
  BY <1>2
<1>4. PICK k \in K : \A y \in K : k <= y
  BY <1>3, LeastNatural
<1> DEFINE A == {c \in Starts(B) : n - SizeAt(B, c) = k}
<1>5. A \subseteq Nat /\ A # {}
  BY <1>1, <1>2
<1>6. PICK a \in A : \A y \in A : a <= y
  BY <1>5, LeastNatural
<1>7. \A c \in Starts(B) :
        \/ SizeAt(B, c) < SizeAt(B, a)
        \/ SizeAt(B, c) = SizeAt(B, a) /\ a <= c
  <2>1. TAKE c \in Starts(B)
  <2>2. a \in Starts(B) /\ n - SizeAt(B, a) = k /\ k <= n - SizeAt(B, c)
    BY <1>4, <1>6
  <2>3. SizeAt(B, c) <= SizeAt(B, a)
    BY <1>2, <2>2
  <2>4. SizeAt(B, c) = SizeAt(B, a) => a <= c
    BY <1>6, <2>2
  <2>5. SizeAt(B, c) \in Nat /\ SizeAt(B, a) \in Nat
    BY <1>2, <2>2
  <2> QED
    BY <2>3, <2>4, <2>5
<1>8. LargestStart(B) \in Starts(B)
  BY <1>6, <1>7 DEF LargestStart
<1> QED
  BY <1>2, <1>8

\* Appending a packet to the list counts it for its sender only.
LEMMA CountAppend ==
  ASSUME NEW s \in Seq(Packets), NEW p \in Packets, NEW d \in Dir
  PROVE  CountFrom(Append(s, p), d) = CountFrom(s, d) + (IF p.from = d THEN 1 ELSE 0)
<1> DEFINE t == Append(s, p)
           S == {i \in DOMAIN s : s[i].from = d}
           T == {i \in DOMAIN t : t[i].from = d}
           n == Len(s) + 1
<1>1. /\ n \in Nat
      /\ DOMAIN s = 1..Len(s)
      /\ DOMAIN t = 1..n
      /\ t[n] = p
      /\ \A i \in 1..Len(s) : t[i] = s[i]
  OBVIOUS
<1>2. IsFiniteSet(S) /\ n \notin S
  <2>1. S \subseteq 1..Len(s) /\ IsFiniteSet(1..Len(s))
    BY <1>1, FS_Interval
  <2> QED
    BY <2>1, <1>1, FS_Subset
<1>3. T = IF p.from = d THEN S \cup {n} ELSE S
  BY <1>1
<1>4. Cardinality(S \cup {n}) = Cardinality(S) + 1
  BY <1>2, FS_AddElement
<1>5. Cardinality(S) \in Nat
  BY <1>2, FS_CardinalityType
<1> HIDE DEF S, T
<1>6. Cardinality(T) = Cardinality(S) + (IF p.from = d THEN 1 ELSE 0)
  BY <1>3, <1>4, <1>5
<1> QED
  BY <1>6 DEF S, T, CountFrom

\* Appending an element adds it to the range.
LEMMA RangeAppend ==
  ASSUME NEW S, NEW s \in Seq(S), NEW e \in S, NEW x
  PROVE  x \in Range(Append(s, e)) <=> x \in Range(s) \/ x = e
<1> DEFINE t == Append(s, e)
<1>1. /\ DOMAIN s = 1..Len(s) /\ Len(s) \in Nat
      /\ DOMAIN t = 1..(Len(s) + 1)
      /\ t[Len(s) + 1] = e
      /\ \A i \in 1..Len(s) : t[i] = s[i]
  OBVIOUS
<1> HIDE DEF t
<1>2. ASSUME x \in Range(t) PROVE x \in Range(s) \/ x = e
  <2>1. PICK i \in DOMAIN t : x = t[i]
    BY <1>2 DEF Range
  <2> QED
    BY <1>1, <2>1 DEF Range
<1>3. ASSUME x \in Range(s) PROVE x \in Range(t)
  <2>1. PICK i \in DOMAIN s : x = s[i]
    BY <1>3 DEF Range
  <2> QED
    BY <1>1, <2>1 DEF Range
<1>4. e \in Range(t)
  BY <1>1 DEF Range
<1> QED
  BY <1>2, <1>3, <1>4 DEF t

\* The fields of the view after one more packet.
LEMMA ObserveFields ==
  ASSUME NEW z, NEW p
  PROVE  /\ Observe(z, p).state = StateAfter(z, p)
         /\ Observe(z, p).hist  = History(z, p)
         /\ Observe(z, p).nxt   = NxtAfter(z, p)
         /\ Observe(z, p).acked = AckedAfter(z, p)
         /\ Observe(z, p).bytes = BytesAfter(z, p)
         /\ Observe(z, p).pkts  = [z.pkts EXCEPT ![p.from] = @ + 1]
         /\ Observe(z, p).fin   = FinAfter(z, p)
         /\ Observe(z, p).armed = ArmedAfter(z, p)
BY DEF Observe

LEMMA ObserveWeird ==
  ASSUME NEW z, NEW p, ~z.weird, ~Odd(z, p)
  PROVE  ~Observe(z, p).weird
BY DEF Observe

\* The reader's view keeps its type.
LEMMA ObserveType ==
  ASSUME NEW z \in View, NEW p \in Packets
  PROVE  Observe(z, p) \in View
<1>1. StateAfter(z, p) \in {"none", "S0", "S1", "S2", "S3", "REJ", "SF", "RSTO", "RSTR"}
  BY DEF View, StateAfter
<1>2. LetterOf(z, p) \in {"S", "H", "A", "D", "T", "F", "R"}
  BY DEF LetterOf
<1>3. History(z, p) \in Seq(Letters)
  BY <1>2 DEF History, RecordOnce, View, Packets, Letters
<1>4. Advance(z, p) \in Nat
  BY DEF Advance, View, Packets
<1>5. Odd(z, p) \in BOOLEAN
  BY DEF Odd
<1>6. p.from \in Dir /\ Peer(p.from) \in Dir
  BY DEF Packets, Peer, Dir
<1>7. NxtAfter(z, p) \in [Dir -> Nat] /\ AckedAfter(z, p) \in [Dir -> Nat]
  BY <1>4, <1>6 DEF NxtAfter, AckedAfter, View, Packets
<1>8. BytesAfter(z, p) \in [Dir -> Nat] /\ [z.pkts EXCEPT ![p.from] = @ + 1] \in [Dir -> Nat]
  <2>1. z.bytes \in [Dir -> Nat] /\ z.pkts \in [Dir -> Nat] /\ p.len \in Nat
    BY DEF View, Packets
  <2>2. [z.bytes EXCEPT ![p.from] = @ + p.len] \in [Dir -> Nat]
    BY <1>6, <2>1
  <2>3. [z.pkts EXCEPT ![p.from] = @ + 1] \in [Dir -> Nat]
    BY <1>6, <2>1
  <2> QED
    BY <2>1, <2>2, <2>3 DEF BytesAfter
<1>9. FinAfter(z, p) \in [Dir -> BOOLEAN] /\ ArmedAfter(z, p) \in [Dir -> BOOLEAN]
  BY <1>6 DEF FinAfter, ArmedAfter, View, Packets
<1>10. (z.weird \/ Odd(z, p)) \in BOOLEAN
  OBVIOUS
<1> QED
  BY <1>1, <1>3, <1>7, <1>8, <1>9, <1>10 DEF Observe, View

\* What one emitted packet does to the list, the recorder and the reader: the
\* history recorder and the reader write the same letter.
LEMMA EmitRead ==
  ASSUME TypeOK, ViewOK, CountsOK, Read,
         NEW p \in Packets, NEW c, <<c, p.from>> \in Letters, Emit(p, c),
         IF SeenBefore(zeek, p)
         THEN c = "T" /\ zeek.armed[p.from] /\ <<"T", p.from>> \notin Range(hist)
         ELSE c = LetterOf(zeek, p)
  PROVE  /\ zeek' = Observe(zeek, p)
         /\ ViewOK'
         /\ pkts' \in Seq(Packets)
         /\ Len(pkts') = Len(pkts) + 1
         /\ pkts'[Len(pkts')] = p
         /\ hist' \in Seq(Letters)
         /\ zeek'.hist = hist'
         /\ \A x : x \in Range(hist') <=> x \in Range(hist) \/ x = <<c, p.from>>
         /\ \A d \in Dir : zeek'.pkts[d] = PacketsFrom(d)'
<1>1. pkts \in Seq(Packets) /\ hist \in Seq(Letters) /\ zeek \in View /\ zeek.hist = hist
  BY DEF TypeOK, ViewOK, CountsOK
<1>2. /\ pkts' = Append(pkts, p)
      /\ pkts' \in Seq(Packets)
      /\ Len(pkts') = Len(pkts) + 1
      /\ pkts'[Len(pkts')] = p
      /\ pkts' # pkts
  BY <1>1 DEF Emit
<1>3. zeek' = Observe(zeek, p)
  BY <1>2 DEF Read
<1>4. ViewOK'
  BY <1>1, <1>3, ObserveType DEF ViewOK
<1>5. /\ hist' \in Seq(Letters)
      /\ \A x : x \in Range(hist') <=> x \in Range(hist) \/ x = <<c, p.from>>
  <2>1. hist' = IF <<c, p.from>> \in Range(hist) THEN hist ELSE Append(hist, <<c, p.from>>)
    BY DEF Emit, RecordOnce
  <2>2. \A x : x \in Range(Append(hist, <<c, p.from>>))
                <=> x \in Range(hist) \/ x = <<c, p.from>>
    BY <1>1, RangeAppend
  <2>3. CASE <<c, p.from>> \in Range(hist)
    BY <1>1, <2>1, <2>3
  <2>4. CASE <<c, p.from>> \notin Range(hist)
    <3>1. hist' = Append(hist, <<c, p.from>>)
      BY <2>1, <2>4
    <3>2. Append(hist, <<c, p.from>>) \in Seq(Letters)
      BY <1>1
    <3> QED
      BY <3>1, <3>2, <2>2
  <2> QED
    BY <2>3, <2>4
<1>6. zeek'.hist = hist'
  BY <1>1, <1>3 DEF Observe, History, Emit, RecordOnce
<1>7. ASSUME NEW d \in Dir
      PROVE  zeek'.pkts[d] = PacketsFrom(d)'
  <2>1. PacketsFrom(d)' = PacketsFrom(d) + (IF p.from = d THEN 1 ELSE 0)
    BY <1>1, <1>2, CountAppend DEF PacketsFrom
  <2>2. zeek'.pkts[d] = zeek.pkts[d] + (IF p.from = d THEN 1 ELSE 0)
    <3>1. zeek'.pkts = [zeek.pkts EXCEPT ![p.from] = @ + 1]
      BY <1>3, ObserveFields
    <3>2. zeek.pkts \in [Dir -> Nat]
      BY <1>1 DEF View
    <3> QED
      BY <3>1, <3>2
  <2> QED
    BY <2>1, <2>2 DEF CountsOK
<1> QED
  BY <1>2, <1>3, <1>4, <1>5, <1>6, <1>7

\* The same for a packet without payload, which leaves the byte counts alone and
\* writes no retransmission letter.
LEMMA ControlPacket ==
  ASSUME TypeOK, ViewOK, CountsOK, SensorClean, Read, dataBytes' = dataBytes,
         NEW p \in Packets, p.len = 0, Emit(p, LetterOf(zeek, p)), ~Odd(zeek, p)
  PROVE  /\ zeek'.state = StateAfter(zeek, p)
         /\ zeek'.nxt = NxtAfter(zeek, p)
         /\ zeek'.acked = AckedAfter(zeek, p)
         /\ zeek'.fin = FinAfter(zeek, p)
         /\ ViewOK' /\ CountsOK' /\ SensorClean'
         /\ pkts' \in Seq(Packets) /\ hist' \in Seq(Letters)
         /\ Len(pkts') = Len(pkts) + 1 /\ pkts'[Len(pkts')] = p
         /\ \A d \in Dir : zeek.armed[d] /\ <<"T", d>> \notin Range(hist)
                           => zeek'.armed[d] /\ <<"T", d>> \notin Range(hist')
<1> DEFINE c == LetterOf(zeek, p)
<1>1. ~SeenBefore(zeek, p)
  BY DEF SeenBefore
<1>2. <<c, p.from>> \in Letters /\ c # "T"
  BY <1>1 DEF LetterOf, Letters, Packets
<1> HIDE DEF c
<1>3. /\ zeek' = Observe(zeek, p)
      /\ ViewOK'
      /\ pkts' \in Seq(Packets) /\ hist' \in Seq(Letters)
      /\ Len(pkts') = Len(pkts) + 1 /\ pkts'[Len(pkts')] = p
      /\ zeek'.hist = hist'
      /\ \A x : x \in Range(hist') <=> x \in Range(hist) \/ x = <<c, p.from>>
      /\ \A d \in Dir : zeek'.pkts[d] = PacketsFrom(d)'
  BY <1>1, <1>2, EmitRead DEF c
<1>4. zeek'.bytes = zeek.bytes
  <2>1. zeek'.bytes = BytesAfter(zeek, p)
    BY <1>3 DEF Observe
  <2>2. zeek.bytes \in [Dir -> Nat]
    BY DEF ViewOK, View
  <2>3. p.len = 0 /\ p.from \in Dir
    BY <1>1 DEF Packets
  <2>4. zeek.bytes[p.from] + p.len = zeek.bytes[p.from]
    BY <2>2, <2>3
  <2>5. [zeek.bytes EXCEPT ![p.from] = @ + p.len] = zeek.bytes
    BY <2>2, <2>4
  <2> QED
    BY <1>1, <2>1, <2>5 DEF BytesAfter
<1>5. CountsOK'
  BY <1>3, <1>4 DEF CountsOK
<1>6. ASSUME NEW d \in Dir, zeek.armed[d], <<"T", d>> \notin Range(hist)
      PROVE  zeek'.armed[d] /\ <<"T", d>> \notin Range(hist')
  <2>1. \/ zeek'.armed = zeek.armed
        \/ zeek'.armed = [zeek.armed EXCEPT ![Peer(p.from)] = TRUE]
    BY <1>1, <1>3, ObserveFields DEF ArmedAfter
  <2>2. zeek'.armed[d]
    <3>1. zeek.armed \in [Dir -> BOOLEAN]
      BY DEF ViewOK, View
    <3>2. \A e : [zeek.armed EXCEPT ![e] = TRUE][d]
      BY <3>1, <1>6
    <3> QED
      BY <2>1, <3>2, <1>6
  <2> QED
    BY <2>2, <1>2, <1>3, <1>6
<1>7. /\ zeek'.state = StateAfter(zeek, p)
      /\ zeek'.nxt = NxtAfter(zeek, p)
      /\ zeek'.acked = AckedAfter(zeek, p)
      /\ zeek'.fin = FinAfter(zeek, p)
  <2>1. zeek' = Observe(zeek, p)
    BY <1>3
  <2> QED
    BY <2>1 DEF Observe
<1>8. SensorClean'
  <2>1. ~Observe(zeek, p).weird
    BY ObserveWeird DEF SensorClean
  <2> QED
    BY <1>3, <2>1 DEF SensorClean
<1> QED
  BY <1>3, <1>5, <1>6, <1>7, <1>8

\* The arguments of the call.
Arguments == [script : Scripts, connState : ConnStates, texture : TextureNames,
              segBytes : SegSizes, minSegments : MinSegments, isn : [Dir -> ISNs]]

LEMMA ArgumentTypes ==
  ASSUME NEW f \in Arguments
  PROVE  /\ f.script \in Seq(Message)
         /\ Len(f.script) \in Nat
         /\ f.isn \in [Dir -> Nat]
<1>1. f.script \in Seq(Message)
  BY ScriptAssumption DEF Arguments
<1>2. f.isn \in [Dir -> ISNs] /\ ISNs \subseteq Nat
  BY SequenceAssumption DEF Arguments
<1>3. f.isn \in [Dir -> Nat]
  BY <1>2
<1>4. Len(f.script) \in Nat
  BY <1>1, LenProperties
<1> QED
  BY <1>1, <1>3, <1>4

-----------------------------------------------------------------------------
(* The initial state and every action keep the invariant. *)

LEMMA Initially == Init => IInv
<1> SUFFICES ASSUME Init PROVE IInv
  OBVIOUS
<1> USE DEF Init, FlowInit
<1>1. TypeOK
  <2>1. Len(flow.script) \in Nat /\ flow.isn \in [Dir -> Nat]
    BY ArgumentTypes DEF Arguments
  <2>2. /\ seq \in [Dir -> Nat]
        /\ next \in 1..(Len(flow.script) + 1)
        /\ dataBytes \in [Dir -> Nat]
        /\ retransmitted \in [Dir -> BOOLEAN]
    BY <2>1
  <2>3. pkts \in Seq(Packets) /\ hist \in Seq(Letters)
    OBVIOUS
  <2> QED
    BY <2>2, <2>3 DEF TypeOK, PCs
<1>2. ViewOK /\ SensorClean
  BY DEF ViewOK, View, SensorClean, Unseen
<1>3. CursorOK /\ ClosedOK
  BY DEF CursorOK, ClosedOK
<1>4. WireOK
  BY DEF WireOK, Conversing, Unseen, isn
<1>5. CountsOK
  <2>1. \A d : {i \in DOMAIN pkts : pkts[i].from = d} = {}
    OBVIOUS
  <2>2. \A d : PacketsFrom(d) = 0
    BY <2>1, FS_EmptySet DEF PacketsFrom, CountFrom
  <2> QED
    BY <2>2 DEF CountsOK, Unseen
<1>6. LetterOK
  BY DEF LetterOK, Unseen, Range
<1> QED
  BY <1>1, <1>2, <1>3, <1>4, <1>5, <1>6 DEF IInv

LEMMA SynStep == IInv /\ Syn /\ Read => IInv' /\ zeek'.acked = zeek.acked
<1> SUFFICES ASSUME IInv, Syn, Read PROVE IInv' /\ zeek'.acked = zeek.acked
  OBVIOUS
<1> DEFINE p == Packet(Orig, "S", isn[Orig], 0, 0)
<1> USE DEF IInv
<1>1. p \in Packets
  <2>1. isn[Orig] \in Nat
    BY ArgumentTypes DEF Arguments, TypeOK, isn, Dir
  <2> QED
    BY <2>1 DEF Packets, Packet, Flags, Dir
<1>2. /\ p.from = Orig /\ p.flags = "S" /\ p.seq = isn[Orig] /\ p.len = 0
      /\ LetterOf(zeek, p) = "S"
      /\ Emit(p, "S") /\ dataBytes' = dataBytes
  BY DEF LetterOf, Packet, Syn
<1> HIDE DEF p
<1>3. /\ StateAfter(zeek, p) = "S0" /\ ~Odd(zeek, p)
      /\ NxtAfter(zeek, p) = [zeek.nxt EXCEPT ![Orig] = isn[Orig] + 1]
      /\ AckedAfter(zeek, p) = zeek.acked
      /\ FinAfter(zeek, p) = zeek.fin
  <2>1. zeek.state = "none"
    BY DEF WireOK, Unseen, Syn
  <2> QED
    BY <1>2, <2>1 DEF StateAfter, Odd, NxtAfter, Advance, AckedAfter, FinAfter
<1>4. /\ zeek'.state = StateAfter(zeek, p)
      /\ zeek'.nxt = NxtAfter(zeek, p)
      /\ zeek'.acked = AckedAfter(zeek, p)
      /\ zeek'.fin = FinAfter(zeek, p)
      /\ ViewOK' /\ CountsOK' /\ SensorClean'
      /\ pkts' \in Seq(Packets) /\ hist' \in Seq(Letters)
      /\ \A d \in Dir : zeek.armed[d] /\ <<"T", d>> \notin Range(hist)
                        => zeek'.armed[d] /\ <<"T", d>> \notin Range(hist')
  BY <1>1, <1>2, <1>3, ControlPacket
<1>5. TypeOK' /\ CursorOK'
  BY <1>4 DEF TypeOK, Syn, PCs, CursorOK
<1>6. WireOK'
  BY <1>3, <1>4 DEF WireOK, Unseen, Syn, Conversing, Dir, Orig, Resp,
                    Established, Supported, isn
<1>7. ClosedOK'
  BY <1>3, <1>4 DEF ClosedOK, Syn, Established
<1>8. LetterOK'
  BY <1>4 DEF LetterOK, Syn
<1> QED
  BY <1>3, <1>4, <1>5, <1>6, <1>7, <1>8

LEMMA RejectStep ==
  IInv /\ Reject /\ Read
    => /\ IInv'
       /\ zeek'.acked = [zeek.acked EXCEPT ![Orig] = isn[Orig] + 1]
       /\ zeek'.nxt = zeek.nxt /\ zeek'.fin = zeek.fin
<1> SUFFICES ASSUME IInv, Reject, Read
             PROVE  /\ IInv'
                    /\ zeek'.acked = [zeek.acked EXCEPT ![Orig] = isn[Orig] + 1]
                    /\ zeek'.nxt = zeek.nxt /\ zeek'.fin = zeek.fin
  OBVIOUS
<1> DEFINE p == Packet(Resp, "RA", 0, isn[Orig] + 1, 0)
<1> USE DEF IInv
<1>1. p \in Packets
  <2>1. isn[Orig] \in Nat
    BY ArgumentTypes DEF Arguments, TypeOK, isn, Dir
  <2> QED
    BY <2>1 DEF Packets, Packet, Flags, Dir
<1>2. /\ p.from = Resp /\ p.flags = "RA" /\ p.ack = isn[Orig] + 1 /\ p.len = 0
      /\ LetterOf(zeek, p) = "R"
      /\ Emit(p, "R") /\ dataBytes' = dataBytes
  BY DEF LetterOf, Packet, Reject
<1> HIDE DEF p
<1>3. /\ StateAfter(zeek, p) = "REJ" /\ ~Odd(zeek, p)
      /\ NxtAfter(zeek, p) = [zeek.nxt EXCEPT ![Resp] = zeek.nxt[Resp]]
      /\ AckedAfter(zeek, p) = [zeek.acked EXCEPT ![Orig] = isn[Orig] + 1]
      /\ FinAfter(zeek, p) = zeek.fin
  <2>1. zeek.state = "S0" /\ zeek.nxt[Orig] = isn[Orig] + 1
    BY DEF WireOK, Reject, Dir
  <2> QED
    BY <1>2, <2>1 DEF StateAfter, Odd, NxtAfter, Advance, AckedAfter, FinAfter,
                      Peer, Orig, Resp
<1>4. /\ zeek'.state = StateAfter(zeek, p)
      /\ zeek'.nxt = NxtAfter(zeek, p)
      /\ zeek'.acked = AckedAfter(zeek, p)
      /\ zeek'.fin = FinAfter(zeek, p)
      /\ ViewOK' /\ CountsOK' /\ SensorClean'
      /\ pkts' \in Seq(Packets) /\ hist' \in Seq(Letters)
      /\ \A d \in Dir : zeek.armed[d] /\ <<"T", d>> \notin Range(hist)
                        => zeek'.armed[d] /\ <<"T", d>> \notin Range(hist')
  BY <1>1, <1>2, <1>3, ControlPacket
<1>5. TypeOK' /\ CursorOK'
  BY <1>4 DEF TypeOK, Reject, PCs, CursorOK
<1>6. WireOK'
  BY DEF WireOK, Reject, Conversing
<1>7. ClosedOK'
  BY <1>3, <1>4 DEF ClosedOK, WireOK, Reject, Established
<1>8. LetterOK'
  BY <1>4 DEF LetterOK, Reject
<1>9. zeek'.nxt = zeek.nxt
  BY <1>3, <1>4 DEF ViewOK, View
<1> QED
  BY <1>3, <1>9, <1>4, <1>5, <1>6, <1>7, <1>8

LEMMA SynAckStep == IInv /\ SynAck /\ Read => IInv'
<1> SUFFICES ASSUME IInv, SynAck, Read PROVE IInv'
  OBVIOUS
<1> DEFINE p == Packet(Resp, "SA", isn[Resp], isn[Orig] + 1, 0)
<1> USE DEF IInv
<1>1. p \in Packets
  <2>1. isn[Orig] \in Nat /\ isn[Resp] \in Nat
    BY ArgumentTypes DEF Arguments, TypeOK, isn, Dir
  <2> QED
    BY <2>1 DEF Packets, Packet, Flags, Dir
<1>2. /\ p.from = Resp /\ p.flags = "SA" /\ p.len = 0
      /\ p.seq = isn[Resp] /\ p.ack = isn[Orig] + 1
      /\ LetterOf(zeek, p) = "H"
      /\ Emit(p, "H") /\ dataBytes' = dataBytes
  BY DEF LetterOf, Packet, SynAck
<1> HIDE DEF p
<1>3. /\ StateAfter(zeek, p) = "S1" /\ ~Odd(zeek, p)
      /\ NxtAfter(zeek, p) = [zeek.nxt EXCEPT ![Resp] = isn[Resp] + 1]
      /\ AckedAfter(zeek, p) = [zeek.acked EXCEPT ![Orig] = isn[Orig] + 1]
      /\ FinAfter(zeek, p) = zeek.fin
  <2>1. zeek.state = "S0" /\ zeek.nxt[Orig] = isn[Orig] + 1
    BY DEF WireOK, SynAck, Dir
  <2> QED
    BY <1>2, <2>1 DEF StateAfter, Odd, NxtAfter, Advance, AckedAfter, FinAfter,
                      Peer, Orig, Resp
<1>4. /\ zeek'.state = StateAfter(zeek, p)
      /\ zeek'.nxt = NxtAfter(zeek, p)
      /\ zeek'.acked = AckedAfter(zeek, p)
      /\ zeek'.fin = FinAfter(zeek, p)
      /\ ViewOK' /\ CountsOK' /\ SensorClean'
      /\ pkts' \in Seq(Packets) /\ hist' \in Seq(Letters)
      /\ \A d \in Dir : zeek.armed[d] /\ <<"T", d>> \notin Range(hist)
                        => zeek'.armed[d] /\ <<"T", d>> \notin Range(hist')
  BY <1>1, <1>2, <1>3, ControlPacket
<1>5. TypeOK' /\ CursorOK'
  BY <1>4 DEF TypeOK, SynAck, PCs, CursorOK
<1>6. /\ zeek'.nxt = seq'
      /\ zeek'.acked[Orig] = seq'[Orig] /\ zeek'.acked[Resp] = 0
  <2>1. /\ seq = [d \in Dir |-> isn[d] + 1] /\ seq' = seq
        /\ zeek.nxt[Orig] = seq[Orig]
        /\ zeek.acked = [d \in Dir |-> 0]
    BY DEF WireOK, SynAck
  <2>2. zeek.nxt \in [Dir -> Nat]
    BY DEF ViewOK, View
  <2>3. zeek'.nxt = [zeek.nxt EXCEPT ![Resp] = isn[Resp] + 1]
        /\ zeek'.acked = [zeek.acked EXCEPT ![Orig] = isn[Orig] + 1]
    BY <1>3, <1>4
  <2>4. zeek'.nxt = seq'
    BY <2>1, <2>2, <2>3 DEF Dir, Orig, Resp
  <2> QED
    BY <2>1, <2>3, <2>4 DEF Dir, Orig, Resp
<1>7. WireOK'
  BY <1>3, <1>4, <1>6 DEF WireOK, SynAck, Conversing, Established, isn
<1>8. ClosedOK' /\ LetterOK'
  BY <1>4 DEF ClosedOK, LetterOK, SynAck
<1> QED
  BY <1>4, <1>5, <1>7, <1>8

LEMMA HandshakeAckStep == IInv /\ HandshakeAck /\ Read => IInv'
<1> SUFFICES ASSUME IInv, HandshakeAck, Read PROVE IInv'
  OBVIOUS
<1> DEFINE p == Packet(Orig, "A", isn[Orig] + 1, isn[Resp] + 1, 0)
<1> USE DEF IInv
<1>1. p \in Packets
  <2>1. isn[Orig] \in Nat /\ isn[Resp] \in Nat
    BY ArgumentTypes DEF Arguments, TypeOK, isn, Dir
  <2> QED
    BY <2>1 DEF Packets, Packet, Flags, Dir
<1>2. /\ p.from = Orig /\ p.flags = "A" /\ p.len = 0
      /\ p.seq = isn[Orig] + 1 /\ p.ack = isn[Resp] + 1
      /\ ~SeenBefore(zeek, p) /\ LetterOf(zeek, p) = "A"
      /\ Emit(p, "A") /\ dataBytes' = dataBytes
  BY DEF LetterOf, SeenBefore, Packet, HandshakeAck
<1> HIDE DEF p
<1>3. /\ zeek.state = "S1" /\ zeek.nxt = seq /\ zeek.acked \in [Dir -> Nat]
      /\ seq \in [Dir -> Nat]
      /\ seq[Orig] = isn[Orig] + 1 /\ seq[Resp] = isn[Resp] + 1
      /\ zeek.acked[Orig] = seq[Orig] /\ zeek.acked[Resp] = 0
      /\ zeek.fin = [d \in Dir |-> FALSE]
  BY DEF WireOK, HandshakeAck, Dir, TypeOK, ViewOK, View
<1>4. /\ StateAfter(zeek, p) = "S1" /\ ~Odd(zeek, p)
      /\ NxtAfter(zeek, p) = zeek.nxt
      /\ AckedAfter(zeek, p) = seq
      /\ FinAfter(zeek, p) = zeek.fin
  BY <1>2, <1>3 DEF StateAfter, Odd, NxtAfter, Advance, AckedAfter, FinAfter,
                    Peer, Dir, Orig, Resp
<1>5. /\ zeek'.state = StateAfter(zeek, p)
      /\ zeek'.nxt = NxtAfter(zeek, p)
      /\ zeek'.acked = AckedAfter(zeek, p)
      /\ zeek'.fin = FinAfter(zeek, p)
      /\ ViewOK' /\ CountsOK' /\ SensorClean'
      /\ pkts' \in Seq(Packets) /\ hist' \in Seq(Letters)
      /\ \A d \in Dir : zeek.armed[d] /\ <<"T", d>> \notin Range(hist)
                        => zeek'.armed[d] /\ <<"T", d>> \notin Range(hist')
  BY <1>1, <1>2, <1>4, ControlPacket
<1>6. TypeOK' /\ CursorOK'
  BY <1>5 DEF TypeOK, HandshakeAck, PCs, CursorOK
<1>7. WireOK'
  BY <1>3, <1>4, <1>5 DEF WireOK, HandshakeAck, Conversing, InFlight
<1>8. ClosedOK' /\ LetterOK'
  BY <1>5 DEF ClosedOK, LetterOK, HandshakeAck
<1> QED
  BY <1>5, <1>6, <1>7, <1>8

\* The cursor moves along the boundaries of the message.
LEMMA CursorMoves ==
  ASSUME TypeOK, CursorOK, pc \in {"segment", "retransmit"}, off < msg.size
  PROVE  /\ msg \in Message /\ msg.size \in Nat /\ snd \in Dir /\ rcv \in Dir /\ rcv # snd
         /\ EndOf(cuts, off) \in cuts
         /\ off \in Nat
         /\ EndOf(cuts, off) \in Nat
         /\ EndOf(cuts, off) > off
         /\ EndOf(cuts, off) <= msg.size
<1>1. flow.script \in Seq(Message) /\ next \in 1..Len(flow.script)
  BY ArgumentTypes DEF Arguments, TypeOK, CursorOK
<1>2. msg \in Message
  BY <1>1, ElementOfSeq DEF msg
<1>3. msg.size \in Nat /\ snd \in Dir /\ rcv \in Dir /\ rcv # snd
  BY <1>2 DEF Message, snd, rcv, Peer, Dir, Orig, Resp
<1>4. cuts \subseteq 0..msg.size /\ msg.size \in cuts /\ off \in cuts
  BY DEF CursorOK
<1>5. /\ off \in Nat /\ EndOf(cuts, off) \in Nat
      /\ EndOf(cuts, off) \in cuts /\ EndOf(cuts, off) > off /\ EndOf(cuts, off) <= msg.size
  BY <1>3, <1>4, NextBoundary
<1> QED
  BY <1>2, <1>3, <1>5

LEMMA StartMessageStep == IInv /\ StartMessage /\ Read => IInv'
<1> SUFFICES ASSUME IInv, StartMessage, Read PROVE IInv'
  OBVIOUS
<1> USE DEF IInv
<1>1. zeek' = zeek /\ UNCHANGED <<flow, pkts, hist, seq, next, retransmitted, dataBytes>>
  BY DEF Read, StartMessage
<1>2. flow.script \in Seq(Message) /\ next \in 1..Len(flow.script) /\ msg.size \in Nat
  <2>1. flow.script \in Seq(Message) /\ next \in 1..Len(flow.script)
    <3>1. flow \in Arguments /\ next \in 1..(Len(flow.script) + 1)
      BY DEF TypeOK, Arguments
    <3>2. flow.script \in Seq(Message) /\ Len(flow.script) \in Nat
      BY <3>1, ArgumentTypes
    <3> QED
      BY <3>1, <3>2 DEF StartMessage
  <2>2. msg \in Message
    BY <2>1, ElementOfSeq DEF msg
  <2> QED
    BY <2>1, <2>2 DEF Message
<1>3. msg' = msg /\ snd' = snd
  BY <1>1 DEF msg, snd
<1>4. /\ cuts' \subseteq 0..msg.size /\ msg.size \in cuts' /\ 0 \in cuts'
      /\ off' = 0 /\ pc' = "segment"
  <2>1. SegmentSize \in Nat \ {0}
    BY SegmentAssumption DEF SegmentSize, TypeOK
  <2>2. 0 % SegmentSize = 0
    BY <2>1
  <2> QED
    BY <1>2, <2>2 DEF StartMessage, Boundaries
<1>5. TypeOK'
  BY <1>1, <1>2, <1>3, <1>4 DEF TypeOK, PCs
<1>6. CursorOK'
  BY <1>1, <1>2, <1>3, <1>4 DEF CursorOK
<1>7. ViewOK' /\ SensorClean' /\ ClosedOK'
  BY <1>1, <1>4 DEF ViewOK, SensorClean, ClosedOK
<1>8. CountsOK'
  BY <1>1 DEF CountsOK, PacketsFrom
<1>9. WireOK'
  BY <1>1, <1>4 DEF WireOK, StartMessage, Conversing, InFlight
<1>10. LetterOK'
  BY <1>1, <1>4 DEF LetterOK, StartMessage
<1> QED
  BY <1>5, <1>6, <1>7, <1>8, <1>9, <1>10

\* The middle of the largest segment is a boundary inside the message.
LEMMA SplitLargestStep == IInv /\ SplitLargest /\ Read => IInv'
<1> SUFFICES ASSUME IInv, SplitLargest, Read PROVE IInv'
  OBVIOUS
<1> USE DEF IInv
<1>1. zeek' = zeek /\ UNCHANGED <<flow, pc, pkts, hist, seq, next, off, retransmitted, dataBytes>>
  BY DEF Read, SplitLargest
<1>2. pc = "segment" /\ msg' = msg /\ snd' = snd
  BY <1>1 DEF msg, snd, SplitLargest
<1>3. /\ cuts \subseteq 0..msg.size /\ msg.size \in cuts /\ msg.size \in Nat
      /\ off \in cuts /\ next <= Len(flow.script)
  <2>1. flow.script \in Seq(Message) /\ next \in 1..Len(flow.script)
    BY <1>2, ArgumentTypes DEF Arguments, TypeOK, CursorOK
  <2>2. msg \in Message
    BY <2>1, ElementOfSeq DEF msg
  <2> QED
    BY <1>2, <2>2 DEF CursorOK, Message
<1>4. cuts' \subseteq 0..msg.size /\ cuts \subseteq cuts'
  <2> DEFINE a == LargestStart(cuts)
             half == SizeAt(cuts, a) \div 2
             mid == a + (IF half < 1 THEN 1 ELSE half)
  <2>1. cuts' = cuts \cup {mid}
    BY DEF SplitLargest
  <2>2. SUFFICES mid \in 0..msg.size
    BY <1>3, <2>1
  <2>3. a \in cuts /\ a < msg.size
    BY <1>3, LargestSegment DEF SplitLargest, Splittable
  <2> HIDE DEF a
  <2>4. /\ a \in Nat /\ EndOf(cuts, a) \in Nat
        /\ EndOf(cuts, a) > a /\ EndOf(cuts, a) <= msg.size
    BY <1>3, <2>3, NextBoundary
  <2>5. /\ SizeAt(cuts, a) \in Nat /\ SizeAt(cuts, a) >= 1
        /\ a + SizeAt(cuts, a) <= msg.size
    BY <1>3, <2>4 DEF SizeAt
  <2>6. half \in Nat /\ half <= SizeAt(cuts, a)
    BY <2>5
  <2> QED
    BY <1>3, <2>4, <2>5, <2>6
<1>5. TypeOK'
  BY <1>1, <1>2, <1>3, <1>4 DEF TypeOK
<1>6. CursorOK'
  BY <1>1, <1>2, <1>3, <1>4 DEF CursorOK
<1>7. ViewOK' /\ SensorClean' /\ ClosedOK'
  BY <1>1, <1>2 DEF ViewOK, SensorClean, ClosedOK
<1>8. CountsOK'
  BY <1>1 DEF CountsOK, PacketsFrom
<1>9. WireOK'
  BY <1>1, <1>2 DEF WireOK, Conversing, InFlight
<1>10. LetterOK'
  BY <1>1, <1>2 DEF LetterOK
<1> QED
  BY <1>5, <1>6, <1>7, <1>8, <1>9, <1>10

\* A data segment as the reader sees it: the next bytes of its direction.
LEMMA DataSegment ==
  ASSUME IInv, pc \in {"segment", "retransmit"}, off < msg.size
  PROVE  LET p == DataPacket
         IN  /\ p \in Packets /\ p.from = snd /\ p.flags = "PA"
             /\ p.seq = seq[snd] + off /\ p.ack = seq[rcv]
             /\ p.len \in Nat /\ p.len > 0 /\ p.seq + p.len = seq[snd] + EndOf(cuts, off)
             /\ SeenBefore(zeek, p) <=> pc = "retransmit"
             /\ ~Odd(zeek, p)
             /\ StateAfter(zeek, p) = zeek.state
             /\ NxtAfter(zeek, p) = [zeek.nxt EXCEPT ![snd] = seq[snd] + EndOf(cuts, off)]
             /\ AckedAfter(zeek, p) = zeek.acked
             /\ FinAfter(zeek, p) = zeek.fin
<1> DEFINE p == DataPacket
           e == EndOf(cuts, off)
<1> USE DEF IInv
<1>1. /\ snd \in Dir /\ rcv \in Dir /\ rcv # snd /\ Peer(snd) = rcv
      /\ off \in Nat /\ e \in Nat /\ e > off
  BY CursorMoves DEF rcv
<1>2. seq \in [Dir -> Nat] /\ zeek.nxt \in [Dir -> Nat] /\ zeek.acked \in [Dir -> Nat]
  BY DEF TypeOK, ViewOK, View
<1> HIDE DEF e
<1>3. /\ p.from = snd /\ p.flags = "PA" /\ p.seq = seq[snd] + off /\ p.ack = seq[rcv]
      /\ p.len = e - off
  BY DEF DataPacket, Packet, SizeAt, e
<1>4. p = [from |-> snd, flags |-> "PA", seq |-> seq[snd] + off, ack |-> seq[rcv], len |-> e - off]
  BY DEF DataPacket, Packet, SizeAt, e
<1>5. p \in Packets
  BY <1>1, <1>2, <1>4 DEF Packets, Flags
<1> HIDE DEF p
<1>6. /\ zeek.state = "S1" /\ zeek.acked = seq /\ zeek.fin = [d \in Dir |-> FALSE]
      /\ zeek.nxt[snd] = seq[snd] + (IF pc = "retransmit" THEN e ELSE off)
      /\ zeek.nxt[rcv] = seq[rcv]
  <2>1. /\ zeek.state = "S1" /\ zeek.acked = seq /\ zeek.fin = [d \in Dir |-> FALSE]
        /\ \A d \in Dir : zeek.nxt[d] = seq[d] + InFlight(d)
    BY DEF WireOK, Conversing
  <2>2. /\ InFlight(snd) = IF pc = "retransmit" THEN e ELSE off
        /\ InFlight(rcv) = 0
    BY <1>1 DEF InFlight, e
  <2> QED
    BY <1>1, <1>2, <2>1, <2>2
<1>7. p.len \in Nat /\ p.len > 0 /\ p.seq + p.len = seq[snd] + e
  BY <1>1, <1>2, <1>3
<1>8. SeenBefore(zeek, p) <=> pc = "retransmit"
  BY <1>1, <1>2, <1>3, <1>6, <1>7 DEF SeenBefore
<1>9. ~Odd(zeek, p)
  BY <1>1, <1>2, <1>3, <1>6, <1>8 DEF Odd
<1>10. Advance(zeek, p) = seq[snd] + e
  BY <1>2, <1>3, <1>6, <1>7, <1>8 DEF Advance
<1>11. StateAfter(zeek, p) = zeek.state /\ FinAfter(zeek, p) = zeek.fin
  BY <1>3 DEF StateAfter, FinAfter
<1>12. AckedAfter(zeek, p) = zeek.acked
  BY <1>1, <1>2, <1>3, <1>6 DEF AckedAfter
<1> QED
  BY <1>3, <1>5, <1>7, <1>8, <1>9, <1>10, <1>11, <1>12 DEF NxtAfter, p, e

LEMMA SendSegmentStep == IInv /\ SendSegment /\ Read => IInv'
<1> SUFFICES ASSUME IInv, SendSegment, Read PROVE IInv'
  OBVIOUS
<1> DEFINE p == DataPacket
           e == EndOf(cuts, off)
<1> USE DEF IInv
<1>1. /\ pc = "segment" /\ off < msg.size /\ Emit(p, "D")
      /\ dataBytes' = [dataBytes EXCEPT ![snd] = @ + p.len]
      /\ UNCHANGED <<flow, seq, next, cuts>>
      /\ \/ off' = e /\ pc' = pc /\ retransmitted' = retransmitted
         \/ /\ ~retransmitted[snd] /\ retransmitted' = [retransmitted EXCEPT ![snd] = TRUE]
            /\ pc' = "retransmit" /\ off' = off
  BY DEF SendSegment, MayRetransmit, DataPacket, Packet
<1>2. /\ msg' = msg /\ snd' = snd /\ isn' = isn
  BY <1>1 DEF msg, snd, isn
<1>3. /\ p \in Packets /\ p.from = snd /\ p.flags = "PA" /\ p.len \in Nat /\ p.len > 0
      /\ ~SeenBefore(zeek, p) /\ ~Odd(zeek, p)
      /\ StateAfter(zeek, p) = zeek.state
      /\ NxtAfter(zeek, p) = [zeek.nxt EXCEPT ![snd] = seq[snd] + e]
      /\ AckedAfter(zeek, p) = zeek.acked
      /\ FinAfter(zeek, p) = zeek.fin
  BY <1>1, DataSegment
<1>4. /\ snd \in Dir /\ e \in cuts /\ e \in Nat /\ e <= msg.size
  BY <1>1, CursorMoves
<1> HIDE DEF p, e
<1>5. LetterOf(zeek, p) = "D" /\ <<"D", p.from>> \in Letters
  BY <1>3, <1>4 DEF LetterOf, Letters
<1>6. /\ zeek' = Observe(zeek, p)
      /\ ViewOK'
      /\ pkts' \in Seq(Packets) /\ hist' \in Seq(Letters)
      /\ zeek'.hist = hist'
      /\ \A x : x \in Range(hist') <=> x \in Range(hist) \/ x = <<"D", p.from>>
      /\ \A d \in Dir : zeek'.pkts[d] = PacketsFrom(d)'
  BY <1>1, <1>3, <1>5, EmitRead
<1>7. /\ zeek'.state = StateAfter(zeek, p)
      /\ zeek'.nxt = NxtAfter(zeek, p)
      /\ zeek'.acked = AckedAfter(zeek, p)
      /\ zeek'.bytes = BytesAfter(zeek, p)
      /\ zeek'.fin = FinAfter(zeek, p)
      /\ zeek'.armed = ArmedAfter(zeek, p)
  <2>1. zeek' = Observe(zeek, p)
    BY <1>6
  <2> QED
    BY <2>1 DEF Observe
<1>8. SensorClean'
  <2>1. ~Observe(zeek, p).weird
    BY <1>3, ObserveWeird DEF SensorClean
  <2> QED
    BY <1>6, <2>1 DEF SensorClean
<1>9. CountsOK'
  <2>1. zeek'.bytes = [zeek.bytes EXCEPT ![snd] = @ + p.len]
    BY <1>3, <1>7 DEF BytesAfter
  <2> QED
    BY <1>1, <1>6, <2>1 DEF CountsOK
<1>10. TypeOK'
  <2>1. dataBytes' \in [Dir -> Nat] /\ retransmitted' \in [Dir -> BOOLEAN]
    <3>1. dataBytes \in [Dir -> Nat] /\ retransmitted \in [Dir -> BOOLEAN]
      BY DEF TypeOK
    <3>2. dataBytes' \in [Dir -> Nat]
      BY <1>1, <1>3, <1>4, <3>1
    <3>3. retransmitted' \in [Dir -> BOOLEAN]
      BY <1>1, <3>1
    <3> QED
      BY <3>2, <3>3
  <2>2. pc' \in PCs /\ off' \in Nat /\ (off' \in cuts' /\ off' <= msg'.size)
    BY <1>1, <1>2, <1>4 DEF TypeOK, PCs
  <2> QED
    BY <1>1, <1>6, <2>1, <2>2 DEF TypeOK
<1>11. CursorOK'
  BY <1>1, <1>2, <1>4 DEF CursorOK
<1>12. WireOK'
  <2>1. \A d \in Dir : InFlight(d)' = IF d = snd THEN e ELSE 0
    BY <1>1, <1>2 DEF InFlight, e
  <2>2. \A d \in Dir : zeek'.nxt[d] = seq'[d] + InFlight(d)'
    <3>1. \A d \in Dir : d # snd => zeek.nxt[d] = seq[d] + 0
      BY <1>1 DEF WireOK, Conversing, InFlight
    <3> QED
      BY <1>1, <1>3, <1>4, <1>7, <2>1, <3>1 DEF ViewOK, View
  <2>3. zeek.state = "S1" /\ zeek.acked = seq /\ flow.connState \in Established
        /\ zeek.fin = [d \in Dir |-> FALSE]
    BY <1>1 DEF WireOK, Conversing
  <2>4. zeek'.state = "S1" /\ zeek'.acked = seq' /\ flow'.connState \in Established
        /\ zeek'.fin = [d \in Dir |-> FALSE] /\ pc' \in {"segment", "retransmit"}
    BY <1>1, <1>3, <1>7, <2>3
  <2> QED
    BY <2>2, <2>4 DEF WireOK, Conversing
<1>13. ClosedOK'
  BY <1>1 DEF ClosedOK
<1>14. LetterOK'
  <2>1. zeek'.armed = zeek.armed
    BY <1>3, <1>7 DEF ArmedAfter
  <2>2. \A d \in Dir : <<"T", d>> \notin Range(hist) => <<"T", d>> \notin Range(hist')
    BY <1>6
  <2>3. \A d \in Dir : ~retransmitted'[d] \/ (pc' = "retransmit" /\ d = snd') => ~retransmitted[d]
    BY <1>1, <1>2, <1>4 DEF TypeOK
  <2>4. pc' = "retransmit" => retransmitted'[snd']
    BY <1>1, <1>2, <1>4 DEF TypeOK
  <2> QED
    BY <2>1, <2>2, <2>3, <2>4 DEF LetterOK
<1> QED
  BY <1>6, <1>8, <1>9, <1>10, <1>11, <1>12, <1>13, <1>14

LEMMA RetransmitStep == IInv /\ Retransmit /\ Read => IInv'
<1> SUFFICES ASSUME IInv, Retransmit, Read PROVE IInv'
  OBVIOUS
<1> DEFINE p == DataPacket
           e == EndOf(cuts, off)
<1> USE DEF IInv
<1>1. /\ pc = "retransmit" /\ off < msg.size /\ Emit(p, "T")
      /\ UNCHANGED <<flow, seq, next, cuts, retransmitted, dataBytes>>
      /\ off' = e /\ pc' = "segment"
  BY DEF Retransmit, CursorOK
<1>2. /\ msg' = msg /\ snd' = snd /\ isn' = isn
  BY <1>1 DEF msg, snd, isn
<1>3. /\ p \in Packets /\ p.from = snd /\ p.flags = "PA"
      /\ SeenBefore(zeek, p) /\ ~Odd(zeek, p)
      /\ StateAfter(zeek, p) = zeek.state
      /\ NxtAfter(zeek, p) = [zeek.nxt EXCEPT ![snd] = seq[snd] + e]
      /\ AckedAfter(zeek, p) = zeek.acked
      /\ FinAfter(zeek, p) = zeek.fin
  BY <1>1, DataSegment
<1>4. /\ snd \in Dir /\ e \in cuts /\ e \in Nat /\ e <= msg.size
  BY <1>1, CursorMoves
<1>5. retransmitted[snd] /\ zeek.armed[snd] /\ <<"T", snd>> \notin Range(hist)
  BY <1>1, <1>4 DEF LetterOK
<1> HIDE DEF p, e
<1>6. <<"T", p.from>> \in Letters
  BY <1>3, <1>4 DEF Letters
<1>7. /\ zeek' = Observe(zeek, p)
      /\ ViewOK'
      /\ pkts' \in Seq(Packets) /\ hist' \in Seq(Letters)
      /\ zeek'.hist = hist'
      /\ \A x : x \in Range(hist') <=> x \in Range(hist) \/ x = <<"T", p.from>>
      /\ \A d \in Dir : zeek'.pkts[d] = PacketsFrom(d)'
  BY <1>1, <1>3, <1>5, <1>6, EmitRead
<1>8. /\ zeek'.state = StateAfter(zeek, p)
      /\ zeek'.nxt = NxtAfter(zeek, p)
      /\ zeek'.acked = AckedAfter(zeek, p)
      /\ zeek'.bytes = BytesAfter(zeek, p)
      /\ zeek'.fin = FinAfter(zeek, p)
      /\ zeek'.armed = ArmedAfter(zeek, p)
  <2>1. zeek' = Observe(zeek, p)
    BY <1>7
  <2> QED
    BY <2>1 DEF Observe
<1>9. SensorClean'
  <2>1. ~Observe(zeek, p).weird
    BY <1>3, ObserveWeird DEF SensorClean
  <2> QED
    BY <1>7, <2>1 DEF SensorClean
<1>10. CountsOK'
  <2>1. zeek'.bytes = zeek.bytes
    BY <1>3, <1>8 DEF BytesAfter
  <2> QED
    BY <1>1, <1>7, <2>1 DEF CountsOK
<1>11. TypeOK' /\ CursorOK'
  BY <1>1, <1>2, <1>4, <1>7 DEF TypeOK, CursorOK, PCs
<1>12. WireOK'
  <2>1. \A d \in Dir : InFlight(d)' = (IF d = snd THEN e ELSE 0) /\ InFlight(d)' = InFlight(d)
    BY <1>1, <1>2 DEF InFlight, e
  <2>2. \A d \in Dir : zeek'.nxt[d] = seq'[d] + InFlight(d)'
    <3>1. \A d \in Dir : zeek.nxt[d] = seq[d] + InFlight(d)
      BY <1>1 DEF WireOK, Conversing
    <3> QED
      BY <1>1, <1>3, <1>4, <1>8, <2>1, <3>1 DEF ViewOK, View
  <2>3. zeek.state = "S1" /\ zeek.acked = seq /\ flow.connState \in Established
        /\ zeek.fin = [d \in Dir |-> FALSE]
    BY <1>1 DEF WireOK, Conversing
  <2>4. zeek'.state = "S1" /\ zeek'.acked = seq' /\ flow'.connState \in Established
        /\ zeek'.fin = [d \in Dir |-> FALSE] /\ pc' = "segment"
    BY <1>1, <1>3, <1>8, <2>3
  <2> QED
    BY <2>2, <2>4 DEF WireOK, Conversing
<1>13. ClosedOK'
  BY <1>1 DEF ClosedOK
<1>14. LetterOK'
  <2>1. \A d \in Dir : d # snd => zeek'.armed[d] = zeek.armed[d]
    BY <1>3, <1>4, <1>8 DEF ArmedAfter, ViewOK, View
  <2>2. \A d \in Dir : d # snd /\ <<"T", d>> \notin Range(hist) => <<"T", d>> \notin Range(hist')
    BY <1>3, <1>7
  <2>3. \A d \in Dir : ~retransmitted'[d] => ~retransmitted[d] /\ d # snd
    BY <1>1, <1>5
  <2> QED
    BY <1>1, <2>1, <2>2, <2>3 DEF LetterOK
<1> QED
  BY <1>7, <1>9, <1>10, <1>11, <1>12, <1>13, <1>14

LEMMA AckMessageStep == IInv /\ AckMessage /\ Read => IInv'
<1> SUFFICES ASSUME IInv, AckMessage, Read PROVE IInv'
  OBVIOUS
<1> DEFINE p == MessageAck
<1> USE DEF IInv
<1>1. /\ pc = "segment" /\ off = msg.size /\ Emit(p, "A")
      /\ seq' = [seq EXCEPT ![snd] = @ + off] /\ next' = next + 1
      /\ pc' \in {"message", "dupack"}
      /\ UNCHANGED <<flow, cuts, off, retransmitted, dataBytes>>
  BY DEF AckMessage
<1>2. /\ next \in 1..Len(flow.script) /\ Len(flow.script) \in Nat
      /\ snd \in Dir /\ rcv \in Dir /\ rcv # snd /\ Peer(snd) = rcv /\ Peer(rcv) = snd
      /\ msg.size \in Nat
  <2>1. flow \in Arguments /\ next \in Nat /\ next >= 1 /\ next <= Len(flow.script)
    <3>1. flow \in Arguments
      BY DEF TypeOK, Arguments
    <3> QED
      BY <1>1, <3>1, ArgumentTypes DEF TypeOK, CursorOK
  <2>2. flow.script \in Seq(Message) /\ Len(flow.script) \in Nat
    BY <2>1, ArgumentTypes
  <2>3. msg \in Message
    BY <2>1, <2>2, ElementOfSeq DEF msg
  <2> QED
    BY <2>1, <2>2, <2>3 DEF Message, snd, rcv, Peer, Dir, Orig, Resp
<1>3. seq \in [Dir -> Nat] /\ zeek.acked \in [Dir -> Nat] /\ zeek.nxt \in [Dir -> Nat]
  BY DEF TypeOK, ViewOK, View
<1>4. p = [from |-> rcv, flags |-> "A", seq |-> seq[rcv], ack |-> seq[snd] + off, len |-> 0]
  BY DEF MessageAck, Packet
<1>5. p \in Packets
  BY <1>1, <1>2, <1>3, <1>4 DEF Packets, Flags
<1>6. /\ p.from = rcv /\ p.flags = "A" /\ p.seq = seq[rcv] /\ p.ack = seq[snd] + off
      /\ p.len = 0 /\ ~SeenBefore(zeek, p) /\ LetterOf(zeek, p) = "A"
  BY <1>4 DEF SeenBefore, LetterOf
<1> HIDE DEF p
<1>7. /\ zeek.state = "S1" /\ zeek.acked = seq /\ flow.connState \in Established
      /\ zeek.fin = [d \in Dir |-> FALSE]
      /\ \A d \in Dir : zeek.nxt[d] = seq[d] + (IF d = snd THEN off ELSE 0)
  BY <1>1 DEF WireOK, Conversing, InFlight
<1>8. /\ StateAfter(zeek, p) = "S1" /\ ~Odd(zeek, p)
      /\ NxtAfter(zeek, p) = zeek.nxt
      /\ AckedAfter(zeek, p) = seq'
      /\ FinAfter(zeek, p) = zeek.fin
  <2>1. StateAfter(zeek, p) = "S1" /\ FinAfter(zeek, p) = zeek.fin
    BY <1>6, <1>7 DEF StateAfter, FinAfter
  <2>2. zeek.nxt[rcv] = seq[rcv] /\ zeek.nxt[snd] = seq[snd] + off /\ zeek.acked[snd] = seq[snd]
    BY <1>2, <1>3, <1>7
  <2>3. ~Odd(zeek, p)
    BY <1>1, <1>2, <1>3, <1>6, <1>7, <2>2 DEF Odd
  <2>4. Advance(zeek, p) = zeek.nxt[rcv]
    BY <1>2, <1>3, <1>6, <2>2 DEF Advance
  <2>5. NxtAfter(zeek, p) = zeek.nxt
    BY <1>2, <1>3, <1>6, <2>4 DEF NxtAfter
  <2>6. AckedAfter(zeek, p) = seq'
    BY <1>1, <1>2, <1>3, <1>6, <1>7 DEF AckedAfter
  <2> QED
    BY <2>1, <2>3, <2>5, <2>6
<1>9. /\ zeek'.state = StateAfter(zeek, p)
      /\ zeek'.nxt = NxtAfter(zeek, p)
      /\ zeek'.acked = AckedAfter(zeek, p)
      /\ zeek'.fin = FinAfter(zeek, p)
      /\ ViewOK' /\ CountsOK' /\ SensorClean'
      /\ pkts' \in Seq(Packets) /\ hist' \in Seq(Letters)
      /\ Len(pkts') = Len(pkts) + 1 /\ pkts'[Len(pkts')] = p
      /\ \A d \in Dir : zeek.armed[d] /\ <<"T", d>> \notin Range(hist)
                        => zeek'.armed[d] /\ <<"T", d>> \notin Range(hist')
  BY <1>1, <1>5, <1>6, <1>8, ControlPacket
<1>10. seq' \in [Dir -> Nat] /\ seq'[snd] = seq[snd] + off /\ seq'[rcv] = seq[rcv]
  BY <1>1, <1>2, <1>3
<1>11. TypeOK' /\ CursorOK'
  <2>1. next' \in 1..(Len(flow'.script) + 1)
    BY <1>1, <1>2
  <2>2. pc' \in PCs /\ pc' \notin {"segment", "retransmit"}
    BY <1>1 DEF PCs
  <2> QED
    BY <1>1, <1>9, <1>10, <2>1, <2>2 DEF TypeOK, CursorOK
<1>12. WireOK'
  <2>1. \A d \in Dir : zeek'.nxt[d] = seq'[d] + InFlight(d)'
    BY <1>1, <1>2, <1>3, <1>7, <1>8, <1>9 DEF InFlight
  <2>2. flow'.script[next' - 1].from = snd
    BY <1>1, <1>2 DEF msg, snd
  <2>3. p = Packet(rcv, "A", seq'[rcv], seq'[snd], 0)
    BY <1>1, <1>2, <1>4, <1>10 DEF Packet
  <2>4. Len(pkts') > 0 /\ next' > 1
    BY <1>1, <1>2, <1>9, LenProperties DEF TypeOK
  <2>5. pkts'[Len(pkts')] = Packet(Peer(snd), "A", seq'[Peer(snd)], seq'[snd], 0)
    BY <1>2, <1>9, <2>3
  <2>6. zeek'.state = "S1" /\ zeek'.acked = seq' /\ zeek'.fin = [d \in Dir |-> FALSE]
    BY <1>1, <1>7, <1>8, <1>9
  <2>7. pc' \in {"dupack", "message"} /\ flow'.connState \in Established
    BY <1>1, <1>7
  <2> QED
    BY <2>1, <2>2, <2>4, <2>5, <2>6, <2>7 DEF WireOK, Conversing
<1>13. ClosedOK' /\ LetterOK'
  BY <1>1, <1>9 DEF ClosedOK, LetterOK
<1> QED
  BY <1>9, <1>11, <1>12, <1>13

LEMMA DuplicateAckStep == IInv /\ DuplicateAck /\ Read => IInv'
<1> SUFFICES ASSUME IInv, DuplicateAck, Read PROVE IInv'
  OBVIOUS
<1> DEFINE p == pkts[Len(pkts)]
           d == flow.script[next - 1].from
<1> USE DEF IInv
<1>1. /\ pc = "dupack" /\ pc' = "message" /\ Emit(p, "A")
      /\ UNCHANGED <<flow, seq, next, cuts, off, retransmitted, dataBytes>>
  BY DEF DuplicateAck
<1>2. d \in Dir /\ Peer(d) \in Dir /\ Peer(Peer(d)) = d /\ next > 1 /\ Len(pkts) > 0
  <2>1. next > 1 /\ Len(pkts) > 0
    BY <1>1 DEF WireOK
  <2>2. flow \in Arguments /\ next \in 1..(Len(flow.script) + 1)
    BY DEF TypeOK, Arguments
  <2>3. flow.script \in Seq(Message) /\ Len(flow.script) \in Nat
    BY <2>2, ArgumentTypes
  <2>4. flow.script[next - 1] \in Message
    BY <2>1, <2>2, <2>3, ElementOfSeq
  <2> QED
    BY <2>1, <2>4 DEF Message, Peer, Dir, Orig, Resp
<1>3. seq \in [Dir -> Nat] /\ zeek.acked \in [Dir -> Nat] /\ zeek.nxt \in [Dir -> Nat]
  BY DEF TypeOK, ViewOK, View
<1>4. p = Packet(Peer(d), "A", seq[Peer(d)], seq[d], 0)
  BY <1>1 DEF WireOK
<1>5. p \in Packets
  BY <1>2, ElementOfSeq DEF TypeOK
<1> HIDE DEF p, d
<1>6. /\ p.from = Peer(d) /\ p.flags = "A" /\ p.seq = seq[Peer(d)] /\ p.ack = seq[d]
      /\ p.len = 0 /\ ~SeenBefore(zeek, p) /\ LetterOf(zeek, p) = "A"
  BY <1>4 DEF SeenBefore, LetterOf, Packet
<1>7. /\ zeek.state = "S1" /\ zeek.acked = seq /\ flow.connState \in Established
      /\ zeek.fin = [x \in Dir |-> FALSE]
      /\ \A x \in Dir : zeek.nxt[x] = seq[x]
  BY <1>1, <1>3 DEF WireOK, Conversing, InFlight
<1>8. /\ StateAfter(zeek, p) = "S1" /\ ~Odd(zeek, p)
      /\ NxtAfter(zeek, p) = zeek.nxt
      /\ AckedAfter(zeek, p) = zeek.acked
      /\ FinAfter(zeek, p) = zeek.fin
  <2>1. StateAfter(zeek, p) = "S1" /\ FinAfter(zeek, p) = zeek.fin
    BY <1>6, <1>7 DEF StateAfter, FinAfter
  <2>2. ~Odd(zeek, p)
    BY <1>2, <1>3, <1>6, <1>7 DEF Odd
  <2>3. Advance(zeek, p) = zeek.nxt[Peer(d)]
    BY <1>2, <1>3, <1>6, <1>7 DEF Advance
  <2>4. NxtAfter(zeek, p) = zeek.nxt /\ AckedAfter(zeek, p) = zeek.acked
    BY <1>2, <1>3, <1>6, <1>7, <2>3 DEF NxtAfter, AckedAfter
  <2> QED
    BY <2>1, <2>2, <2>4
<1>9. /\ zeek'.state = StateAfter(zeek, p)
      /\ zeek'.nxt = NxtAfter(zeek, p)
      /\ zeek'.acked = AckedAfter(zeek, p)
      /\ zeek'.fin = FinAfter(zeek, p)
      /\ ViewOK' /\ CountsOK' /\ SensorClean'
      /\ pkts' \in Seq(Packets) /\ hist' \in Seq(Letters)
      /\ \A x \in Dir : zeek.armed[x] /\ <<"T", x>> \notin Range(hist)
                        => zeek'.armed[x] /\ <<"T", x>> \notin Range(hist')
  BY <1>1, <1>5, <1>6, <1>8, ControlPacket
<1>10. TypeOK' /\ CursorOK'
  BY <1>1, <1>9 DEF TypeOK, CursorOK, PCs
<1>11. WireOK'
  <2>1. \A x \in Dir : zeek'.nxt[x] = seq'[x] + InFlight(x)'
    BY <1>1, <1>3, <1>7, <1>8, <1>9 DEF InFlight
  <2> QED
    BY <1>1, <1>7, <1>8, <1>9, <2>1 DEF WireOK, Conversing
<1>12. ClosedOK' /\ LetterOK'
  BY <1>1, <1>9 DEF ClosedOK, LetterOK
<1> QED
  BY <1>9, <1>10, <1>11, <1>12

LEMMA FinOrigStep == IInv /\ FinOrig /\ Read => IInv'
<1> SUFFICES ASSUME IInv, FinOrig, Read PROVE IInv'
  OBVIOUS
<1> DEFINE p == Packet(Orig, "FA", seq[Orig], seq[Resp], 0)
<1> USE DEF IInv
<1>1. /\ pc = "message" /\ next > Len(flow.script) /\ flow.connState = "SF"
      /\ pc' = "fin" /\ Emit(p, "F")
      /\ UNCHANGED <<flow, seq, next, cuts, off, retransmitted, dataBytes>>
  BY DEF FinOrig, Sent
<1>2. seq \in [Dir -> Nat] /\ zeek.acked \in [Dir -> Nat] /\ zeek.nxt \in [Dir -> Nat]
  BY DEF TypeOK, ViewOK, View
<1>3. p \in Packets
  BY <1>2 DEF Packets, Packet, Flags, Dir
<1>4. /\ p.from = Orig /\ p.flags = "FA" /\ p.seq = seq[Orig] /\ p.ack = seq[Resp]
      /\ p.len = 0 /\ ~SeenBefore(zeek, p) /\ LetterOf(zeek, p) = "F"
  BY DEF SeenBefore, LetterOf, Packet
<1> HIDE DEF p
<1>5. /\ zeek.state = "S1" /\ zeek.acked = seq /\ zeek.fin = [d \in Dir |-> FALSE]
      /\ \A d \in Dir : zeek.nxt[d] = seq[d]
  BY <1>1, <1>2 DEF WireOK, Conversing, InFlight
<1>6. Orig \in Dir /\ Resp \in Dir /\ Peer(Orig) = Resp /\ Orig # Resp /\ Dir = {Orig, Resp}
  BY DEF Dir, Peer, Orig, Resp
<1>7. StateAfter(zeek, p) = "S2" /\ ~Odd(zeek, p)
  BY <1>2, <1>4, <1>5, <1>6 DEF StateAfter, Odd
<1>7a. NxtAfter(zeek, p) = [d \in Dir |-> seq[d] + (IF d = Orig THEN 1 ELSE 0)]
  BY <1>2, <1>4, <1>5, <1>6 DEF NxtAfter, Advance
<1>7b. AckedAfter(zeek, p) = seq
  BY <1>2, <1>4, <1>5, <1>6 DEF AckedAfter
<1>7c. FinAfter(zeek, p) = [d \in Dir |-> d = Orig]
  BY <1>4, <1>5, <1>6 DEF FinAfter
<1>8. /\ zeek'.state = StateAfter(zeek, p)
      /\ zeek'.nxt = NxtAfter(zeek, p)
      /\ zeek'.acked = AckedAfter(zeek, p)
      /\ zeek'.fin = FinAfter(zeek, p)
      /\ ViewOK' /\ CountsOK' /\ SensorClean'
      /\ pkts' \in Seq(Packets) /\ hist' \in Seq(Letters)
      /\ \A d \in Dir : zeek.armed[d] /\ <<"T", d>> \notin Range(hist)
                        => zeek'.armed[d] /\ <<"T", d>> \notin Range(hist')
  BY <1>1, <1>3, <1>4, <1>7, ControlPacket
<1>9. TypeOK' /\ CursorOK'
  BY <1>1, <1>8 DEF TypeOK, CursorOK, PCs
<1>10. next' = Len(flow'.script) + 1
  <2>1. flow \in Arguments /\ next \in 1..(Len(flow.script) + 1)
    BY DEF TypeOK, Arguments
  <2> QED
    BY <1>1, <2>1, ArgumentTypes
<1>11. WireOK'
  <2>1. /\ zeek'.state = "S2" /\ zeek'.acked = seq'
        /\ zeek'.nxt = [d \in Dir |-> seq'[d] + (IF d = Orig THEN 1 ELSE 0)]
        /\ zeek'.fin = [d \in Dir |-> d = Orig]
    BY <1>1, <1>7, <1>7a, <1>7b, <1>7c, <1>8
  <2> QED
    BY <1>1, <1>10, <2>1 DEF WireOK, Conversing, Established
<1>12. ClosedOK' /\ LetterOK'
  BY <1>1, <1>8 DEF ClosedOK, LetterOK
<1> QED
  BY <1>8, <1>9, <1>11, <1>12

LEMMA FinRespStep == IInv /\ FinResp /\ Read => IInv'
<1> SUFFICES ASSUME IInv, FinResp, Read PROVE IInv'
  OBVIOUS
<1> DEFINE p == Packet(Resp, "FA", seq[Resp], seq[Orig] + 1, 0)
<1> USE DEF IInv
<1>1. /\ pc = "fin" /\ pc' = "lastack" /\ Emit(p, "F")
      /\ UNCHANGED <<flow, seq, next, cuts, off, retransmitted, dataBytes>>
  BY DEF FinResp
<1>2. seq \in [Dir -> Nat]
  BY DEF TypeOK
<1>3. p \in Packets
  BY <1>2 DEF Packets, Packet, Flags, Dir
<1>4. /\ p.from = Resp /\ p.flags = "FA" /\ p.seq = seq[Resp] /\ p.ack = seq[Orig] + 1
      /\ p.len = 0 /\ ~SeenBefore(zeek, p) /\ LetterOf(zeek, p) = "F"
  BY DEF SeenBefore, LetterOf, Packet
<1> HIDE DEF p
<1>5. /\ zeek.state = "S2" /\ zeek.acked = seq /\ zeek.fin = [d \in Dir |-> d = Orig]
      /\ zeek.nxt = [d \in Dir |-> seq[d] + (IF d = Orig THEN 1 ELSE 0)]
      /\ flow.connState = "SF" /\ next = Len(flow.script) + 1
  BY <1>1 DEF WireOK
<1>6. /\ Orig \in Dir /\ Resp \in Dir /\ Peer(Resp) = Orig /\ Orig # Resp
      /\ Dir = {Orig, Resp}
  BY DEF Dir, Peer, Orig, Resp
<1>7. /\ StateAfter(zeek, p) = "SF" /\ ~Odd(zeek, p)
      /\ NxtAfter(zeek, p) = [d \in Dir |-> seq[d] + 1]
      /\ AckedAfter(zeek, p) = [d \in Dir |-> seq[d] + (IF d = Orig THEN 1 ELSE 0)]
      /\ FinAfter(zeek, p) = [d \in Dir |-> TRUE]
  <2>0. /\ seq[Orig] \in Nat /\ seq[Resp] \in Nat /\ ~zeek.fin[Resp]
        /\ zeek.nxt[Orig] = seq[Orig] + 1 /\ zeek.nxt[Resp] = seq[Resp]
        /\ zeek.acked[Orig] = seq[Orig]
    <3>1. seq[Orig] \in Nat /\ seq[Resp] \in Nat
      BY <1>2, <1>6
    <3>2. zeek.nxt[Orig] = seq[Orig] + 1 /\ zeek.nxt[Resp] = seq[Resp]
      BY <1>5, <1>6, <3>1
    <3>3. ~zeek.fin[Resp]
      BY <1>5, <1>6
    <3> QED
      BY <1>5, <3>1, <3>2, <3>3
  <2>1. StateAfter(zeek, p) = "SF" /\ ~Odd(zeek, p)
    BY <1>4, <1>5, <1>6, <2>0 DEF StateAfter, Odd
  <2>2. NxtAfter(zeek, p) = [d \in Dir |-> seq[d] + 1]
    <3>1. NxtAfter(zeek, p) = [zeek.nxt EXCEPT ![Resp] = seq[Resp] + 1]
      BY <1>4, <2>0 DEF NxtAfter, Advance
    <3> QED
      BY <1>5, <1>6, <3>1
  <2>3. AckedAfter(zeek, p) = [d \in Dir |-> seq[d] + (IF d = Orig THEN 1 ELSE 0)]
    <3>1. AckedAfter(zeek, p) = [seq EXCEPT ![Orig] = seq[Orig] + 1]
      BY <1>4, <1>5, <1>6 DEF AckedAfter
    <3>2. \A d \in Dir : [seq EXCEPT ![Orig] = seq[Orig] + 1][d]
                          = seq[d] + (IF d = Orig THEN 1 ELSE 0)
      BY <1>2
    <3>3. [seq EXCEPT ![Orig] = seq[Orig] + 1]
            = [d \in Dir |-> [seq EXCEPT ![Orig] = seq[Orig] + 1][d]]
      BY <1>2
    <3> QED
      BY <3>1, <3>2, <3>3
  <2>4. FinAfter(zeek, p) = [d \in Dir |-> TRUE]
    BY <1>4, <1>5, <1>6 DEF FinAfter
  <2> QED
    BY <2>1, <2>2, <2>3, <2>4
<1>8. /\ zeek'.state = StateAfter(zeek, p)
      /\ zeek'.nxt = NxtAfter(zeek, p)
      /\ zeek'.acked = AckedAfter(zeek, p)
      /\ zeek'.fin = FinAfter(zeek, p)
      /\ ViewOK' /\ CountsOK' /\ SensorClean'
      /\ pkts' \in Seq(Packets) /\ hist' \in Seq(Letters)
      /\ Len(pkts') = Len(pkts) + 1 /\ pkts'[Len(pkts')] = p
      /\ \A d \in Dir : zeek.armed[d] /\ <<"T", d>> \notin Range(hist)
                        => zeek'.armed[d] /\ <<"T", d>> \notin Range(hist')
  BY <1>1, <1>3, <1>4, <1>7, ControlPacket
<1>9. TypeOK' /\ CursorOK'
  BY <1>1, <1>8 DEF TypeOK, CursorOK, PCs
<1>10. WireOK'
  BY <1>1, <1>5, <1>7, <1>8 DEF WireOK, Conversing, Established
<1>11. ClosedOK' /\ LetterOK'
  BY <1>1, <1>8 DEF ClosedOK, LetterOK
<1> QED
  BY <1>8, <1>9, <1>10, <1>11

LEMMA LastAckStep == IInv /\ LastAck /\ Read => IInv'
<1> SUFFICES ASSUME IInv, LastAck, Read PROVE IInv'
  OBVIOUS
<1> DEFINE p == Packet(Orig, "A", seq[Orig] + 1, seq[Resp] + 1, 0)
<1> USE DEF IInv
<1>1. /\ pc = "lastack" /\ pc' = "summary" /\ Emit(p, "A")
      /\ UNCHANGED <<flow, seq, next, cuts, off, retransmitted, dataBytes>>
  BY DEF LastAck
<1>2. seq \in [Dir -> Nat]
  BY DEF TypeOK
<1>3. p \in Packets
  BY <1>2 DEF Packets, Packet, Flags, Dir
<1>4. /\ p.from = Orig /\ p.flags = "A" /\ p.seq = seq[Orig] + 1 /\ p.ack = seq[Resp] + 1
      /\ p.len = 0 /\ ~SeenBefore(zeek, p) /\ LetterOf(zeek, p) = "A"
  BY DEF SeenBefore, LetterOf, Packet
<1> HIDE DEF p
<1>5. /\ zeek.state = "SF" /\ zeek.nxt = [d \in Dir |-> seq[d] + 1]
      /\ zeek.acked = [d \in Dir |-> seq[d] + (IF d = Orig THEN 1 ELSE 0)]
      /\ zeek.fin = [d \in Dir |-> TRUE]
      /\ flow.connState = "SF" /\ next = Len(flow.script) + 1
  BY <1>1 DEF WireOK
<1>6. /\ Orig \in Dir /\ Resp \in Dir /\ Peer(Orig) = Resp /\ Orig # Resp
      /\ Dir = {Orig, Resp}
  BY DEF Dir, Peer, Orig, Resp
<1>7. /\ StateAfter(zeek, p) = "SF" /\ ~Odd(zeek, p)
      /\ NxtAfter(zeek, p) = zeek.nxt
      /\ AckedAfter(zeek, p) = zeek.nxt
      /\ FinAfter(zeek, p) = zeek.fin
  <2>1. StateAfter(zeek, p) = "SF" /\ ~Odd(zeek, p)
    BY <1>2, <1>4, <1>5, <1>6 DEF StateAfter, Odd
  <2>2. NxtAfter(zeek, p) = zeek.nxt
    <3>1. Advance(zeek, p) = zeek.nxt[Orig]
      BY <1>2, <1>4, <1>5, <1>6 DEF Advance
    <3>2. NxtAfter(zeek, p) = [zeek.nxt EXCEPT ![Orig] = zeek.nxt[Orig]]
      BY <1>4, <3>1 DEF NxtAfter
    <3> QED
      BY <1>5, <3>2
  <2>3. AckedAfter(zeek, p) = zeek.nxt
    <3>1. AckedAfter(zeek, p) = [zeek.acked EXCEPT ![Resp] = seq[Resp] + 1]
      BY <1>4, <1>6 DEF AckedAfter
    <3>2. zeek.acked[Orig] = seq[Orig] + 1
      BY <1>5, <1>6
    <3> QED
      BY <1>5, <1>6, <3>1, <3>2
  <2> QED
    BY <1>4, <2>1, <2>2, <2>3 DEF FinAfter
<1>8. /\ zeek'.state = StateAfter(zeek, p)
      /\ zeek'.nxt = NxtAfter(zeek, p)
      /\ zeek'.acked = AckedAfter(zeek, p)
      /\ zeek'.fin = FinAfter(zeek, p)
      /\ ViewOK' /\ CountsOK' /\ SensorClean'
      /\ pkts' \in Seq(Packets) /\ hist' \in Seq(Letters)
      /\ Len(pkts') = Len(pkts) + 1 /\ pkts'[Len(pkts')] = p
      /\ \A d \in Dir : zeek.armed[d] /\ <<"T", d>> \notin Range(hist)
                        => zeek'.armed[d] /\ <<"T", d>> \notin Range(hist')
  BY <1>1, <1>3, <1>4, <1>7, ControlPacket
<1>9. TypeOK' /\ CursorOK'
  BY <1>1, <1>8 DEF TypeOK, CursorOK, PCs
<1>10. WireOK'
  BY <1>1 DEF WireOK, Conversing
<1>11. ClosedOK'
  <2>1. Len(pkts') > 0
    BY <1>8, LenProperties DEF TypeOK
  <2>2. p.seq = zeek'.nxt[p.from]
    BY <1>2, <1>4, <1>5, <1>6, <1>7, <1>8
  <2>3. zeek'.nxt = [d \in Dir |-> seq'[d] + (IF flow'.connState = "SF" THEN 1 ELSE 0)]
    BY <1>1, <1>5, <1>7, <1>8
  <2>4. flow'.connState = "SF" /\ zeek'.state = "SF" /\ zeek'.acked = zeek'.nxt
    BY <1>1, <1>5, <1>7, <1>8
  <2>5. zeek'.fin = [d \in Dir |-> flow'.connState = "SF"]
    BY <1>5, <1>7, <1>8, <2>4
  <2> QED
    BY <1>8, <2>1, <2>2, <2>3, <2>4, <2>5 DEF ClosedOK, Established
<1>12. LetterOK'
  BY <1>1, <1>8 DEF LetterOK
<1> QED
  BY <1>8, <1>9, <1>10, <1>11, <1>12

LEMMA ResetStep == ASSUME NEW r \in Dir PROVE IInv /\ Reset(r) /\ Read => IInv'
<1> SUFFICES ASSUME IInv, Reset(r), Read PROVE IInv'
  OBVIOUS
<1> DEFINE p == Packet(r, "R", seq[r], seq[Peer(r)], 0)
<1> USE DEF IInv
<1>1. /\ pc = "message" /\ pc' = "summary" /\ Emit(p, "R")
      /\ flow.connState = IF r = Orig THEN "RSTO" ELSE "RSTR"
      /\ UNCHANGED <<flow, seq, next, cuts, off, retransmitted, dataBytes>>
  BY DEF Reset, Sent
<1>2. seq \in [Dir -> Nat] /\ zeek.nxt \in [Dir -> Nat]
  BY DEF TypeOK, ViewOK, View
<1>3. p \in Packets /\ Peer(r) \in Dir
  BY <1>2 DEF Packets, Packet, Flags, Dir, Peer
<1>4. /\ p.from = r /\ p.flags = "R" /\ p.seq = seq[r] /\ p.ack = seq[Peer(r)]
      /\ p.len = 0 /\ ~SeenBefore(zeek, p) /\ LetterOf(zeek, p) = "R"
  BY DEF SeenBefore, LetterOf, Packet
<1> HIDE DEF p
<1>5. /\ zeek.state = "S1" /\ zeek.acked = seq /\ zeek.fin = [d \in Dir |-> FALSE]
      /\ \A d \in Dir : zeek.nxt[d] = seq[d]
  BY <1>1, <1>2 DEF WireOK, Conversing, InFlight
<1>6. zeek.nxt = seq
  BY <1>2, <1>5
<1>7. /\ StateAfter(zeek, p) = flow.connState /\ ~Odd(zeek, p)
      /\ NxtAfter(zeek, p) = zeek.nxt
      /\ AckedAfter(zeek, p) = zeek.nxt
      /\ FinAfter(zeek, p) = zeek.fin
  <2>1. StateAfter(zeek, p) = flow.connState
    BY <1>1, <1>4, <1>5 DEF StateAfter, Orig, Resp
  <2>2. ~Odd(zeek, p)
    BY <1>2, <1>3, <1>4, <1>5 DEF Odd
  <2>3. NxtAfter(zeek, p) = zeek.nxt /\ AckedAfter(zeek, p) = zeek.nxt
    BY <1>2, <1>3, <1>4, <1>5, <1>6 DEF NxtAfter, Advance, AckedAfter
  <2> QED
    BY <1>4, <2>1, <2>2, <2>3 DEF FinAfter
<1>8. /\ zeek'.state = StateAfter(zeek, p)
      /\ zeek'.nxt = NxtAfter(zeek, p)
      /\ zeek'.acked = AckedAfter(zeek, p)
      /\ zeek'.fin = FinAfter(zeek, p)
      /\ ViewOK' /\ CountsOK' /\ SensorClean'
      /\ pkts' \in Seq(Packets) /\ hist' \in Seq(Letters)
      /\ Len(pkts') = Len(pkts) + 1 /\ pkts'[Len(pkts')] = p
      /\ \A d \in Dir : zeek.armed[d] /\ <<"T", d>> \notin Range(hist)
                        => zeek'.armed[d] /\ <<"T", d>> \notin Range(hist')
  BY <1>1, <1>3, <1>4, <1>7, ControlPacket
<1>9. TypeOK' /\ CursorOK'
  BY <1>1, <1>8 DEF TypeOK, CursorOK, PCs
<1>10. WireOK'
  BY <1>1 DEF WireOK, Conversing
<1>11. ClosedOK'
  <2>1. Len(pkts') > 0
    BY <1>8, LenProperties DEF TypeOK
  <2>2. p.seq = zeek'.nxt[p.from]
    BY <1>4, <1>6, <1>7, <1>8
  <2>3. zeek'.fin = [d \in Dir |-> FALSE] /\ flow'.connState # "SF"
    BY <1>1, <1>5, <1>7, <1>8
  <2>4. zeek'.nxt = [d \in Dir |-> seq'[d] + (IF flow'.connState = "SF" THEN 1 ELSE 0)]
    BY <1>1, <1>2, <1>6, <1>7, <1>8, <2>3
  <2> QED
    BY <1>1, <1>7, <1>8, <2>1, <2>2, <2>3, <2>4 DEF ClosedOK, Established
<1>12. LetterOK'
  BY <1>1, <1>8 DEF LetterOK
<1> QED
  BY <1>8, <1>9, <1>10, <1>11, <1>12

\* Summarising and raising leave the packets and the reader alone.
LEMMA QuietStep ==
  ASSUME IInv, UNCHANGED <<flow, pkts, hist, seq, next, cuts, off, retransmitted, dataBytes, zeek>>,
         \/ pc' = "raised"
         \/ pc = "summary" /\ pc' = "done"
         \/ pc' = pc
  PROVE  IInv'
<1> USE DEF IInv
<1>1. TypeOK' /\ ViewOK' /\ SensorClean'
  BY DEF TypeOK, PCs, ViewOK, SensorClean, msg
<1>2. CursorOK' /\ ClosedOK' /\ LetterOK'
  BY DEF CursorOK, ClosedOK, LetterOK, msg, snd, isn
<1>3. CountsOK'
  BY DEF CountsOK, PacketsFrom
<1>4. WireOK'
  BY DEF WireOK, Conversing, InFlight, isn, msg, snd
<1> QED
  BY <1>1, <1>2, <1>3, <1>4

LEMMA UnsupportedStep == IInv /\ Unsupported /\ Read => IInv'
BY QuietStep DEF Unsupported, Read

LEMMA SummariseStep == IInv /\ Summarise /\ Read => IInv'
BY QuietStep DEF Summarise, Read

-----------------------------------------------------------------------------
(* The theorems. *)

LEMMA Inductive == IInv /\ [Next]_vars => IInv'
<1> SUFFICES ASSUME IInv, [Next]_vars PROVE IInv'
  OBVIOUS
<1>1. CASE Next
  BY <1>1, UnsupportedStep, SynStep, RejectStep, SynAckStep, HandshakeAckStep,
     StartMessageStep, SplitLargestStep, SendSegmentStep, RetransmitStep,
     AckMessageStep, DuplicateAckStep, FinOrigStep, FinRespStep, LastAckStep,
     ResetStep, SummariseStep DEF Next, FlowNext
<1>2. CASE UNCHANGED vars
  BY <1>2, QuietStep DEF vars
<1> QED
  BY <1>1, <1>2

THEOREM Invariance == Spec => []IInv
BY Initially, Inductive, PTL DEF Spec

\* Every field of the builder and of the reader keeps its type.
THEOREM TypeCorrect == Spec => []TypeOK
<1>1. IInv => TypeOK
  BY DEF IInv
<1> QED
  BY <1>1, Invariance, PTL

\* The reader never raises a weird, for any script, segmentation or texture.
THEOREM Clean == Spec => []SensorClean
<1>1. IInv => SensorClean
  BY DEF IInv
<1> QED
  BY <1>1, Invariance, PTL

\* The summary build_tcp_flow returns is the reader's log.
THEOREM SummaryAgrees == Spec => []SummaryIsTheLog
<1>1. IInv => SummaryIsTheLog
  <2> SUFFICES ASSUME IInv, pc = "done"
               PROVE  Summary = [conn_state |-> zeek.state, history |-> zeek.hist,
                                 pkts |-> zeek.pkts, bytes |-> zeek.bytes]
    BY DEF SummaryIsTheLog
  <2>1. /\ zeek.state = flow.connState /\ zeek.hist = hist /\ zeek.bytes = dataBytes
        /\ zeek.pkts \in [Dir -> Nat] /\ \A d \in Dir : zeek.pkts[d] = PacketsFrom(d)
    BY DEF IInv, ClosedOK, CountsOK, ViewOK, View
  <2>2. zeek.pkts = [d \in Dir |-> PacketsFrom(d)]
    BY <2>1
  <2> QED
    BY <2>1, <2>2 DEF Summary
<1> QED
  BY <1>1, Invariance, PTL

\* A finished conversation leaves nothing unacknowledged.
THEOREM ClosesInStep == Spec => []ClosedInStep
<1>1. IInv => ClosedInStep
  BY DEF IInv, ClosedOK, ClosedInStep
<1> QED
  BY <1>1, Invariance, PTL

\* Only a first transmission adds payload, and then the peer's bytes are all
\* acknowledged: requests and responses never overlap on the wire.
THEOREM Alternates == Spec => HalfDuplex
<1>1. ASSUME IInv, IInv', [Next]_vars, NEW d \in Dir, zeek'.bytes[d] > zeek.bytes[d]
      PROVE  zeek.acked[Peer(d)] = zeek.nxt[Peer(d)]
  <2>1. zeek.bytes = dataBytes /\ zeek'.bytes = dataBytes'
    BY <1>1 DEF IInv, CountsOK
  <2>2. dataBytes \in [Dir -> Nat] /\ seq \in [Dir -> Nat]
    BY <1>1 DEF IInv, TypeOK
  <2>3. dataBytes' # dataBytes
    BY <1>1, <2>1, <2>2
  <2>4. SendSegment
    BY <1>1, <2>3 DEF vars, Next, FlowNext, Unsupported, Syn, Reject, SynAck, HandshakeAck,
                      StartMessage, SplitLargest, Retransmit, AckMessage, DuplicateAck,
                      FinOrig, FinResp, LastAck, Reset, Summarise
  <2>5. pc = "segment" /\ dataBytes' = [dataBytes EXCEPT ![snd] = @ + SizeAt(cuts, off)]
    BY <2>4 DEF SendSegment
  <2>6. d = snd
    BY <1>1, <2>1, <2>2, <2>5
  <2>7. Peer(d) \in Dir /\ Peer(d) # d
    BY DEF Peer, Dir, Orig, Resp
  <2>8. zeek.acked = seq /\ zeek.nxt[Peer(d)] = seq[Peer(d)] + InFlight(Peer(d))
    BY <1>1, <2>5, <2>7 DEF IInv, WireOK, Conversing
  <2> QED
    BY <2>2, <2>6, <2>7, <2>8 DEF InFlight
<1>2. IInv /\ IInv' /\ [Next]_vars
        => [\A d \in Dir : zeek'.bytes[d] > zeek.bytes[d]
                            => zeek.acked[Peer(d)] = zeek.nxt[Peer(d)]]_vars
  BY <1>1
<1> QED
  BY <1>2, Invariance, PTL DEF Spec, HalfDuplex

-----------------------------------------------------------------------------
(* TcpConversation implements ByteStream, for every script, segmentation   *)
(* and texture: the invariant gives the value of the mapped state at every *)
(* statement, and every step of the builder maps to a step or a stutter.   *)

\* A side's sequence number is past its initial one once the SYN is spent.
Advanced == \A d \in Dir : seq[d] > isn[d]

LEMMA SequenceTypes ==
  ASSUME TypeOK
  PROVE  /\ isn \in [Dir -> Nat] /\ seq \in [Dir -> Nat]
         /\ flow.script \in Seq(Message) /\ Len(flow.script) \in Nat
<1>1. flow \in Arguments
  BY DEF TypeOK, Arguments
<1> QED
  BY <1>1, ArgumentTypes DEF isn, TypeOK

LEMMA AdvancedStep == IInv /\ Advanced /\ [Next]_vars => Advanced'
<1> SUFFICES ASSUME IInv, Advanced, [Next]_vars PROVE Advanced'
  OBVIOUS
<1>1. isn \in [Dir -> Nat] /\ seq \in [Dir -> Nat] /\ off \in Nat
  BY SequenceTypes DEF IInv, TypeOK
<1>2. CASE AckMessage
  BY <1>1, <1>2 DEF AckMessage, Advanced, isn
<1>3. CASE seq' = seq /\ flow' = flow
  BY <1>3 DEF Advanced, isn
<1> QED
  BY <1>2, <1>3 DEF vars, Next, FlowNext, Unsupported, Syn, Reject, SynAck, HandshakeAck,
                    StartMessage, SplitLargest, SendSegment, Retransmit, DuplicateAck,
                    FinOrig, FinResp, LastAck, Reset, Summarise

LEMMA AlwaysAdvanced == Spec => [](IInv /\ Advanced)
<1>1. Init => Advanced
  <2> SUFFICES ASSUME Init PROVE Advanced
    OBVIOUS
  <2>1. isn \in [Dir -> Nat]
    BY Initially, SequenceTypes DEF IInv
  <2> QED
    BY <2>1 DEF Init, FlowInit, Advanced, isn
<1> QED
  BY <1>1, AdvancedStep, Invariance, PTL DEF Spec

-----------------------------------------------------------------------------
(* The mapped state at every statement. *)

\* Until the handshake is answered nothing is confirmed.
NoneConfirmed == \A d \in Dir : Confirmed(d) = 0

LEMMA NothingConfirmed ==
  IInv /\ pc \in {"syn", "reject", "synack"} => NoneConfirmed
BY DEF NoneConfirmed, IInv, WireOK, Confirmed

Talking == \/ pc \in {"estab", "fin", "lastack"} \cup Conversing
           \/ pc \in {"summary", "done"} /\ flow.connState \in Established

SequenceConfirmed == \A d \in Dir : Confirmed(d) = seq[d] - (isn[d] + 1)

\* From then on what is confirmed of a side is what its sequence number has moved.
LEMMA ConfirmedBytes == IInv /\ Advanced /\ Talking => SequenceConfirmed
<1> SUFFICES ASSUME IInv, Advanced, Talking, NEW d \in Dir
             PROVE  Confirmed(d) = seq[d] - (isn[d] + 1)
  BY DEF SequenceConfirmed
<1>1. /\ isn[d] \in Nat /\ seq[d] \in Nat /\ seq[d] > isn[d]
      /\ zeek.nxt[d] \in Nat /\ zeek.acked[d] \in Nat
  BY SequenceTypes DEF IInv, ViewOK, View, Advanced
<1>2. CASE pc = "estab"
  BY <1>1, <1>2 DEF IInv, WireOK, Confirmed, Dir
<1>3. CASE pc \in Conversing
  <2>1. /\ ~zeek.fin[d] /\ zeek.acked[d] = seq[d]
        /\ zeek.nxt[d] = seq[d] + InFlight(d)
    BY <1>3 DEF IInv, WireOK, Conversing
  <2>2. zeek.nxt[d] >= seq[d]
    <3>1. CASE pc = "retransmit" /\ d = snd
      <4>1. /\ cuts \subseteq 0..msg.size /\ msg.size \in cuts
            /\ off \in cuts /\ off < msg.size
        BY <3>1 DEF IInv, CursorOK
      <4>2. msg.size \in Nat
        <5>1. /\ next \in 1..Len(flow.script) /\ flow.script \in Seq(Message)
          BY <3>1, SequenceTypes DEF IInv, CursorOK, TypeOK
        <5>2. flow.script[next] \in Message
          BY <5>1, ElementOfSeq
        <5> QED
          BY <5>2 DEF msg, Message
      <4>3. EndOf(cuts, off) \in Nat
        BY <4>1, <4>2, NextBoundary
      <4> QED
        BY <1>1, <2>1, <3>1, <4>3 DEF InFlight
    <3>2. CASE ~(pc = "retransmit" /\ d = snd)
      <4>1. InFlight(d) \in Nat
        BY <3>2 DEF IInv, TypeOK, InFlight
      <4> QED
        BY <1>1, <2>1, <4>1
    <3> QED
      BY <3>1, <3>2
  <2> QED
    BY <1>1, <2>1, <2>2 DEF Confirmed
<1>4. CASE pc = "fin"
  <2>1. zeek.acked[d] = seq[d] /\ zeek.nxt[d] = seq[d] + (IF d = Orig THEN 1 ELSE 0)
    BY <1>4 DEF IInv, WireOK
  <2>2. zeek.fin[d] <=> d = Orig
    BY <1>4 DEF IInv, WireOK
  <2> QED
    BY <1>1, <2>1, <2>2 DEF Confirmed
<1>5. CASE pc = "lastack"
  <2>1. /\ zeek.acked[d] = seq[d] + (IF d = Orig THEN 1 ELSE 0)
        /\ zeek.nxt[d] = seq[d] + 1
    BY <1>5 DEF IInv, WireOK
  <2>2. zeek.fin[d]
    BY <1>5 DEF IInv, WireOK
  <2> QED
    BY <1>1, <2>1, <2>2 DEF Confirmed
<1>6. CASE pc \in {"summary", "done"} /\ flow.connState \in Established
  <2>1. /\ zeek.acked = zeek.nxt
        /\ zeek.fin = [e \in Dir |-> flow.connState = "SF"]
        /\ zeek.nxt = [e \in Dir |-> seq[e] + (IF flow.connState = "SF" THEN 1 ELSE 0)]
    BY <1>6 DEF IInv, ClosedOK
  <2>2. zeek.fin[d] <=> flow.connState = "SF"
    BY <2>1
  <2>3. /\ zeek.acked[d] = zeek.nxt[d]
        /\ zeek.nxt[d] = seq[d] + (IF flow.connState = "SF" THEN 1 ELSE 0)
    BY <2>1
  <2> QED
    BY <1>1, <2>2, <2>3 DEF Confirmed
<1> QED
  BY <1>2, <1>3, <1>4, <1>5, <1>6 DEF Talking

\* The stage of the connection at every statement.
StageOK == /\ pc \in {"syn", "reject", "synack"} => Stage = "idle"
           /\ pc \in {"estab", "fin"} \cup Conversing => Stage = "open"
           /\ pc = "lastack" => Stage = flow.connState
           /\ pc = "summary" /\ flow.connState \in Supported => Stage = flow.connState

LEMMA StageIs == IInv => StageOK
<1> SUFFICES ASSUME IInv PROVE StageOK
  OBVIOUS
<1>1. pc \in {"syn", "reject", "synack"} => Stage = "idle"
  BY DEF IInv, WireOK, Stage, Unseen, Established
<1>2. pc \in {"estab", "fin"} \cup Conversing => Stage = "open"
  BY DEF IInv, WireOK, Stage
<1>3. pc = "lastack" => Stage = flow.connState
  BY DEF IInv, WireOK, Stage
<1>4. pc = "summary" /\ flow.connState \in Supported => Stage = flow.connState
  BY DEF IInv, ClosedOK, Stage, Supported
<1> QED
  BY <1>1, <1>2, <1>3, <1>4 DEF StageOK

-----------------------------------------------------------------------------
(* Every step maps to a step of ByteStream or to a stutter. *)

Got == [d \in Dir |-> Confirmed(d)]

\* A step with both its ends in the conversation that moves no sequence number
\* confirms nothing.
LEMMA SameGot ==
  ASSUME IInv, Advanced, Talking, IInv', Advanced', Talking', flow' = flow, seq' = seq
  PROVE  Got' = Got
<1>1. SequenceConfirmed
  BY ConfirmedBytes
<1>2. (IInv /\ Advanced /\ Talking)' => SequenceConfirmed'
  BY ConfirmedBytes, PTL
<1>3. \A d \in Dir : Confirmed(d)' = Confirmed(d)
  BY <1>1, <1>2 DEF SequenceConfirmed, isn
<1> QED
  BY <1>3 DEF Got

LEMMA SynMapped ==
  IInv /\ IInv' /\ Syn /\ Read => [Stream!Next]_(Stream!svars)
<1> SUFFICES ASSUME IInv, IInv', Syn, Read PROVE [Stream!Next]_(Stream!svars)
  OBVIOUS
<1>1. zeek'.acked = zeek.acked /\ zeek.acked = [d \in Dir |-> 0]
  BY SynStep DEF Syn, IInv, WireOK
<1>2. Got' = Got
  BY <1>1 DEF Got, Confirmed
<1>3. StageOK /\ StageOK'
  BY StageIs, PTL
<1>4. Stage = "idle" /\ flow' = flow /\ next' = next /\ flow.connState \in Supported
  BY <1>3 DEF StageOK, Syn
<1>5. Stage' = IF flow.connState = "S0" THEN "S0" ELSE "idle"
  BY <1>3, <1>4 DEF StageOK, Syn
<1>6. CASE flow.connState = "S0"
  <2>1. Stream!Fail
    BY <1>2, <1>4, <1>5, <1>6 DEF Stream!Fail, Got
  <2> QED
    BY <2>1 DEF Stream!Next
<1>7. CASE flow.connState # "S0"
  BY <1>2, <1>4, <1>5, <1>7 DEF Stream!svars, Got
<1> QED
  BY <1>6, <1>7

LEMMA RejectMapped ==
  IInv /\ IInv' /\ Reject /\ Read => [Stream!Next]_(Stream!svars)
<1> SUFFICES ASSUME IInv, IInv', Reject, Read PROVE [Stream!Next]_(Stream!svars)
  OBVIOUS
<1>1. /\ zeek'.acked = [zeek.acked EXCEPT ![Orig] = isn[Orig] + 1]
      /\ zeek'.nxt = zeek.nxt /\ zeek'.fin = zeek.fin
  BY RejectStep
<1>2. /\ zeek.acked = [d \in Dir |-> 0] /\ zeek.fin = [d \in Dir |-> FALSE]
      /\ zeek.nxt[Orig] = isn[Orig] + 1 /\ isn[Orig] \in Nat /\ isn' = isn
      /\ flow.connState = "REJ"
  BY SequenceTypes DEF Reject, IInv, WireOK, isn, Dir
<1>3. /\ zeek'.acked[Orig] = isn[Orig] + 1 /\ zeek'.acked[Resp] = 0
      /\ zeek'.nxt[Orig] = isn[Orig] + 1 /\ ~zeek'.fin[Orig]
  BY <1>1, <1>2 DEF Dir, Orig, Resp
<1>4. \A d \in Dir : Confirmed(d)' = 0 /\ Confirmed(d) = 0
  BY <1>2, <1>3 DEF Confirmed, Dir
<1>5. Got' = Got
  BY <1>4 DEF Got
<1>6. StageOK /\ StageOK'
  BY StageIs, PTL
<1>7. /\ Stage = "idle" /\ Stage' = "REJ"
      /\ flow' = flow /\ next' = next
  BY <1>2, <1>6 DEF StageOK, Reject, Supported
<1>8. Stream!Fail
  BY <1>2, <1>5, <1>7 DEF Stream!Fail, Got
<1> QED
  BY <1>8 DEF Stream!Next

LEMMA SynAckMapped ==
  IInv /\ IInv' /\ Advanced /\ Advanced' /\ SynAck => [Stream!Next]_(Stream!svars)
<1> SUFFICES ASSUME IInv, IInv', Advanced, Advanced', SynAck
             PROVE  [Stream!Next]_(Stream!svars)
  OBVIOUS
<1>1. NoneConfirmed
  BY NothingConfirmed DEF SynAck
<1>2. (IInv /\ Advanced /\ Talking)' => SequenceConfirmed'
  BY ConfirmedBytes, PTL
<1>3. Talking'
  BY DEF SynAck, Talking
<1>4. seq = [d \in Dir |-> isn[d] + 1] /\ seq' = seq /\ isn' = isn /\ isn \in [Dir -> Nat]
  BY SequenceTypes DEF SynAck, IInv, WireOK, isn
<1>5. \A d \in Dir : Confirmed(d)' = 0 /\ Confirmed(d) = 0
  BY <1>1, <1>2, <1>3, <1>4 DEF NoneConfirmed, SequenceConfirmed
<1>6. Got' = Got
  BY <1>5 DEF Got
<1>7. StageOK /\ StageOK'
  BY StageIs, PTL
<1>8. /\ Stage = "idle" /\ Stage' = "open" /\ flow.connState \in {"SF", "RSTO", "RSTR"}
      /\ flow' = flow /\ next' = next
  BY <1>7 DEF StageOK, SynAck, IInv, WireOK, Established
<1>9. Stream!Open
  BY <1>6, <1>8 DEF Stream!Open, Stream!Established, Got
<1> QED
  BY <1>9 DEF Stream!Next

\* The statements between the handshake and the teardown, and the first FIN,
\* confirm nothing by themselves.
LEMMA QuietMapped ==
  ASSUME IInv, IInv', Advanced, Advanced',
         pc \in {"estab"} \cup Conversing, pc' \in {"fin"} \cup Conversing,
         flow' = flow, seq' = seq, next' = next
  PROVE  Stream!svars' = Stream!svars
<1>1. Talking /\ Talking'
  BY DEF Talking
<1>2. Got' = Got
  BY <1>1, SameGot
<1>3. StageOK /\ StageOK'
  BY StageIs, PTL
<1>4. Stage = "open" /\ Stage' = "open"
  BY <1>3 DEF StageOK
<1> QED
  BY <1>2, <1>4 DEF Stream!svars, Got

LEMMA AckMapped ==
  IInv /\ IInv' /\ Advanced /\ Advanced' /\ AckMessage => [Stream!Next]_(Stream!svars)
<1> SUFFICES ASSUME IInv, IInv', Advanced, Advanced', AckMessage
             PROVE  [Stream!Next]_(Stream!svars)
  OBVIOUS
<1>1. /\ pc \in Conversing /\ pc' \in Conversing
      /\ seq' = [seq EXCEPT ![snd] = @ + msg.size]
      /\ next' = next + 1 /\ flow' = flow /\ isn' = isn
  BY DEF AckMessage, Conversing, isn
<1>2. /\ next \in 1..Len(flow.script) /\ flow.script \in Seq(Message)
      /\ seq \in [Dir -> Nat] /\ isn \in [Dir -> Nat]
  <2>1. pc = "segment" /\ next \in 1..(Len(flow.script) + 1) /\ next <= Len(flow.script)
    BY DEF AckMessage, IInv, CursorOK, TypeOK
  <2> QED
    BY <2>1, SequenceTypes DEF IInv
<1>3. msg \in Message
  BY <1>2, ElementOfSeq DEF msg
<1>4. snd \in Dir /\ msg.size \in Nat
  BY <1>3 DEF Message, snd
<1>5. SequenceConfirmed
  BY <1>1, ConfirmedBytes DEF Talking
<1>6. SequenceConfirmed'
  <2>1. (IInv /\ Advanced /\ Talking)' => SequenceConfirmed'
    BY ConfirmedBytes, PTL
  <2> QED
    BY <1>1, <2>1 DEF Talking
<1>7. ASSUME NEW d \in Dir
      PROVE  /\ Confirmed(d) \in Int
             /\ Confirmed(d)' = Confirmed(d) + (IF d = snd THEN msg.size ELSE 0)
  <2> DEFINE add == IF d = snd THEN msg.size ELSE 0
  <2>1. Confirmed(d) = seq[d] - (isn[d] + 1) /\ Confirmed(d)' = seq'[d] - (isn'[d] + 1)
    BY <1>5, <1>6 DEF SequenceConfirmed
  <2>2. seq'[d] = seq[d] + add /\ isn'[d] = isn[d] /\ add \in Nat
    BY <1>1, <1>2, <1>4
  <2> HIDE DEF add
  <2>3. seq[d] \in Nat /\ isn[d] \in Nat
    BY <1>2
  <2>4. Confirmed(d) \in Int /\ Confirmed(d)' = Confirmed(d) + add
    BY <2>1, <2>2, <2>3
  <2> QED
    BY <2>4 DEF add
<1> DEFINE got == [d \in Dir |-> Confirmed(d)]
<1>8. [d \in Dir |-> Confirmed(d)'] = [got EXCEPT ![snd] = @ + msg.size]
  <2> DEFINE new == [d \in Dir |-> Confirmed(d)']
  <2>1. \A d \in Dir : /\ new[d] = got[d] + (IF d = snd THEN msg.size ELSE 0)
                       /\ got[d] \in Int
    BY <1>7
  <2>2. new = [d \in Dir |-> new[d]] /\ got = [d \in Dir |-> got[d]]
    OBVIOUS
  <2> HIDE DEF new, got
  <2>3. new = [got EXCEPT ![snd] = @ + msg.size]
    BY <1>4, <2>1, <2>2
  <2> QED
    BY <2>3 DEF new
<1>9. StageOK /\ StageOK'
  BY StageIs, PTL
<1>10. Stage = "open" /\ Stage' = "open"
  BY <1>1, <1>9 DEF StageOK
<1>11. /\ next - 1 < Len(flow.script) /\ next' - 1 = (next - 1) + 1
       /\ flow.script[(next - 1) + 1] = msg /\ msg.from = snd
  BY <1>1, <1>2, LenProperties DEF msg, snd
<1>12. Stream!Deliver
  BY <1>1, <1>8, <1>10, <1>11 DEF Stream!Deliver
<1> QED
  BY <1>12 DEF Stream!Next

\* The responder's FIN and a reset close the conversation.
LEMMA CloseMapped ==
  ASSUME IInv, IInv', Advanced, Advanced', Talking, Talking',
         Stage = "open", Stage' = flow.connState, flow.connState \in Established,
         next = Len(flow.script) + 1, flow' = flow, seq' = seq, next' = next
  PROVE  [Stream!Next]_(Stream!svars)
<1>1. Got' = Got
  BY SameGot
<1>2. next - 1 = Len(flow.script)
  BY SequenceTypes DEF IInv
<1>3. Stream!Close
  BY <1>1, <1>2 DEF Stream!Close, Got
<1> QED
  BY <1>3 DEF Stream!Next

LEMMA FinRespMapped ==
  IInv /\ IInv' /\ Advanced /\ Advanced' /\ FinResp => [Stream!Next]_(Stream!svars)
<1> SUFFICES ASSUME IInv, IInv', Advanced, Advanced', FinResp
             PROVE  [Stream!Next]_(Stream!svars)
  OBVIOUS
<1>1. StageOK /\ StageOK'
  BY StageIs, PTL
<1>2. Stage = "open" /\ Stage' = flow.connState /\ Talking /\ Talking'
  BY <1>1 DEF StageOK, FinResp, Talking
<1>3. flow.connState \in Established /\ next = Len(flow.script) + 1
  BY DEF FinResp, IInv, WireOK
<1> QED
  BY <1>2, <1>3, CloseMapped DEF FinResp

LEMMA ResetMapped ==
  ASSUME NEW r \in Dir
  PROVE  IInv /\ IInv' /\ Advanced /\ Advanced' /\ Reset(r)
           => [Stream!Next]_(Stream!svars)
<1> SUFFICES ASSUME IInv, IInv', Advanced, Advanced', Reset(r)
             PROVE  [Stream!Next]_(Stream!svars)
  OBVIOUS
<1>1. StageOK /\ StageOK'
  BY StageIs, PTL
<1>2. flow.connState \in {"RSTO", "RSTR"} /\ flow' = flow /\ seq' = seq /\ next' = next
  BY DEF Reset
<1>3. Stage = "open" /\ Stage' = flow.connState /\ Talking /\ Talking'
  BY <1>1, <1>2 DEF StageOK, Reset, Sent, Talking, Conversing, Supported, Established
<1>4. next = Len(flow.script) + 1
  <2>1. next > Len(flow.script)
    BY DEF Reset, Sent
  <2>2. next \in 1..(Len(flow.script) + 1) /\ Len(flow.script) \in Nat
    BY SequenceTypes DEF IInv, TypeOK
  <2> QED
    BY <2>1, <2>2
<1> QED
  BY <1>2, <1>3, <1>4, CloseMapped DEF Established

LEMMA LastAckMapped ==
  IInv /\ IInv' /\ Advanced /\ Advanced' /\ LastAck => Stream!svars' = Stream!svars
<1> SUFFICES ASSUME IInv, IInv', Advanced, Advanced', LastAck
             PROVE  Stream!svars' = Stream!svars
  OBVIOUS
<1>1. StageOK /\ StageOK'
  BY StageIs, PTL
<1>2. flow.connState = "SF" /\ flow' = flow /\ seq' = seq /\ next' = next
  BY DEF LastAck, IInv, WireOK
<1>3. Stage = "SF" /\ Stage' = "SF" /\ Talking /\ Talking'
  BY <1>1, <1>2 DEF StageOK, LastAck, Talking, Supported, Established
<1>4. Got' = Got
  BY <1>2, <1>3, SameGot
<1> QED
  BY <1>2, <1>3, <1>4 DEF Stream!svars, Got

\* What changes neither the packets nor the message cursor is a stutter.
LEMMA SilentMapped ==
  ASSUME flow' = flow, next' = next, zeek' = zeek
  PROVE  Stream!svars' = Stream!svars
BY DEF Stream!svars, Confirmed, Stage, isn

-----------------------------------------------------------------------------
(* The theorem. *)

LEMMA StepMapped ==
  IInv /\ IInv' /\ Advanced /\ Advanced' /\ [Next]_vars => [Stream!Next]_(Stream!svars)
<1> SUFFICES ASSUME IInv, IInv', Advanced, Advanced', [Next]_vars
             PROVE  [Stream!Next]_(Stream!svars)
  OBVIOUS
<1>1. CASE Syn /\ Read
  BY <1>1, SynMapped
<1>2. CASE Reject /\ Read
  BY <1>2, RejectMapped
<1>3. CASE SynAck
  BY <1>3, SynAckMapped
<1>4. CASE AckMessage
  BY <1>4, AckMapped
<1>5. CASE FinResp
  BY <1>5, FinRespMapped
<1>6. CASE LastAck
  BY <1>6, LastAckMapped
<1>7. CASE \E d \in Dir : Reset(d)
  BY <1>7, ResetMapped
<1>8. CASE \/ HandshakeAck \/ StartMessage \/ SplitLargest \/ SendSegment
           \/ Retransmit \/ DuplicateAck \/ FinOrig
  <2>1. /\ pc \in {"estab"} \cup Conversing /\ pc' \in {"fin"} \cup Conversing
        /\ flow' = flow /\ seq' = seq /\ next' = next
    BY <1>8 DEF HandshakeAck, StartMessage, SplitLargest, SendSegment, Retransmit,
                DuplicateAck, FinOrig, Sent, Conversing
  <2> QED
    BY <2>1, QuietMapped
<1>9. CASE (Unsupported \/ Summarise) /\ Read
  BY <1>9, SilentMapped DEF Unsupported, Summarise, Read
<1>10. CASE UNCHANGED vars
  BY <1>10, SilentMapped DEF vars
<1> QED
  BY <1>1, <1>2, <1>3, <1>4, <1>5, <1>6, <1>7, <1>8, <1>9, <1>10 DEF Next, FlowNext

\* The packet series delivers the script, message by message, and ends as its
\* conn_state says: for every script, segmentation, texture and initial numbers.
THEOREM Refinement == Spec => ImplementsByteStream
<1>1. Init => Stream!Init
  <2> SUFFICES ASSUME Init PROVE Stream!Init
    OBVIOUS
  <2>1. IInv /\ pc = "syn" /\ next = 1
    BY Initially DEF Init, FlowInit
  <2>2. NoneConfirmed /\ Stage = "idle"
    BY <2>1, NothingConfirmed, StageIs DEF StageOK
  <2> QED
    BY <2>1, <2>2 DEF Stream!Init, NoneConfirmed
<1> QED
  BY <1>1, StepMapped, AlwaysAdvanced, PTL DEF Spec, ImplementsByteStream, Stream!Spec
=============================================================================
