--------------------------- MODULE CompilerProofs ---------------------------
(***************************************************************************)
(* Timeline implements Compiler, for every FlowSet: the packets compiled   *)
(* so far are those of the flows so far in building order, rescaling keeps *)
(* the order of their times and hits the duration, and the stable sort is  *)
(* a permutation that keeps both orders.  First, for every FlowSet,        *)
(* texture and number of calls: the context variables are scoped to the    *)
(* call and to the render that set them.  The invariant adds what reset()  *)
(* will put back.                                                          *)
(***************************************************************************)
EXTENDS Timeline, TLAPS, SequenceTheorems, FiniteSetTheorems, FunctionTheorems

\* Inside a call the tokens hold the defaults.
TokensOK == /\ pc \in {"flow", "render"} => token = Clean
            /\ pc = "render" => segToken = NoSegment

IInv == TypeOK /\ ContextScoped /\ TokensOK

LEMMA Initially == Init => IInv
BY CallsAssumption DEF Init, IInv, TypeOK, ContextScoped, TokensOK, Resting, FlowAssumption

LEMMA Inductive == IInv /\ [Next]_vars => IInv'
<1> SUFFICES ASSUME IInv, [Next]_vars PROVE IInv'
  OBVIOUS
<1> USE DEF IInv, TypeOK, ContextScoped, TokensOK, Resting
<1>1. CASE Call
  <2>1. Len(fs'.flows) \in Nat
    BY <1>1, CallsAssumption DEF Call, FlowAssumption
  <2> QED
    BY <1>1, <2>1, CallsAssumption DEF Call
<1>2. CASE UnknownKind
  BY <1>2 DEF UnknownKind, Pending
<1>3. CASE EnterRenderer
  BY <1>3 DEF EnterRenderer, Pending, flow
<1>4. CASE RendererRaises
  BY <1>4 DEF RendererRaises
<1>5. CASE Render
  BY <1>5 DEF Render
<1>6. CASE LeaveFlows
  BY <1>6 DEF LeaveFlows
<1>7. CASE Merge
  BY <1>7 DEF Merge
<1>8. CASE UNCHANGED vars
  BY <1>8 DEF vars, flow
<1> QED
  BY <1>1, <1>2, <1>3, <1>4, <1>5, <1>6, <1>7, <1>8 DEF Next

LEMMA Invariance == Spec => []IInv
BY Initially, Inductive, PTL DEF Spec

\* The compiler's loop and its results stay in step.
THEOREM TypeCorrect == Spec => []TypeOK
<1>1. IInv => TypeOK
  BY DEF IInv
<1> QED
  BY <1>1, Invariance, PTL

\* No texture or segment size leaks out of a call or a render, whatever raises.
THEOREM Scoped == Spec => []ContextScoped
<1>1. IInv => ContextScoped
  BY DEF IInv
<1> QED
  BY <1>1, Invariance, PTL

-----------------------------------------------------------------------------
(* The stable sort.                                                        *)

\* Places are the indices, each taken once, and a smaller one goes before.
LEMMA Places ==
  ASSUME NEW s, NEW N \in Nat, DOMAIN s = 1..N, \A i \in 1..N : s[i].time \in Nat
  PROVE  /\ \A i \in 1..N : Place(s, i) \in 1..N
         /\ \A i, j \in 1..N : i # j => Place(s, i) # Place(s, j)
         /\ \A i, j \in 1..N : Place(s, i) < Place(s, j) => Before(s, i, j)
<1> DEFINE earlier(i) == {j \in 1..N : Before(s, j, i)}
<1>1. IsFiniteSet(1..N) /\ Cardinality(1..N) = N
  BY FS_Interval
<1>2. \A i \in 1..N : /\ IsFiniteSet(earlier(i)) /\ Cardinality(earlier(i)) \in Nat
                      /\ Place(s, i) = Cardinality(earlier(i)) + 1
  <2> SUFFICES ASSUME NEW i \in 1..N
               PROVE  /\ IsFiniteSet(earlier(i)) /\ Cardinality(earlier(i)) \in Nat
                      /\ Place(s, i) = Cardinality(earlier(i)) + 1
    OBVIOUS
  <2>1. earlier(i) \in SUBSET (1..N)
    OBVIOUS
  <2>2. IsFiniteSet(earlier(i))
    BY <1>1, <2>1, FS_Subset
  <2>3. Place(s, i) = Cardinality(earlier(i)) + 1
    BY DEF Place
  <2> QED
    BY <2>2, <2>3, FS_CardinalityType
<1>3. \A i, j \in 1..N : Before(s, i, j) => Place(s, i) < Place(s, j)
  <2> SUFFICES ASSUME NEW i \in 1..N, NEW j \in 1..N, Before(s, i, j)
               PROVE  Place(s, i) < Place(s, j)
    OBVIOUS
  <2>1. earlier(i) \subseteq earlier(j) /\ i \in earlier(j) /\ i \notin earlier(i)
    BY DEF Before
  <2> HIDE DEF earlier
  <2>2. earlier(i) \in SUBSET earlier(j)
    BY <2>1
  <2>3. /\ Cardinality(earlier(i)) <= Cardinality(earlier(j))
        /\ Cardinality(earlier(j)) = Cardinality(earlier(i)) => earlier(j) = earlier(i)
    BY <1>2, <2>2, FS_Subset
  <2>4. Cardinality(earlier(i)) < Cardinality(earlier(j))
    BY <1>2, <2>1, <2>3
  <2> QED
    BY <1>2, <2>4
<1>4. \A i, j \in 1..N : i = j \/ Before(s, i, j) \/ Before(s, j, i)
  BY DEF Before
<1>5. \A i \in 1..N : Place(s, i) \in 1..N
  <2> SUFFICES ASSUME NEW i \in 1..N PROVE Place(s, i) \in 1..N
    OBVIOUS
  <2>1. earlier(i) \in SUBSET (1..N) /\ i \notin earlier(i)
    BY DEF Before
  <2> HIDE DEF earlier
  <2>2. /\ Cardinality(earlier(i)) <= N
        /\ N = Cardinality(earlier(i)) => 1..N = earlier(i)
    BY <1>1, <2>1, FS_Subset
  <2> QED
    BY <1>2, <2>1, <2>2
<1> HIDE DEF earlier
<1>6. \A i, j \in 1..N : i # j => Place(s, i) # Place(s, j)
  BY <1>3, <1>4, <1>5
<1>7. \A i, j \in 1..N : Place(s, i) < Place(s, j) => Before(s, i, j)
  <2> SUFFICES ASSUME NEW i \in 1..N, NEW j \in 1..N, Place(s, i) < Place(s, j),
                      ~Before(s, i, j)
               PROVE  FALSE
    OBVIOUS
  <2>1. Place(s, i) \in 1..N /\ Place(s, j) \in 1..N
    BY <1>5
  <2>2. i # j
    BY <2>1
  <2>3. Place(s, j) < Place(s, i)
    BY <1>3, <1>4, <2>2
  <2> QED
    BY <2>1, <2>3
<1> QED
  BY <1>5, <1>6, <1>7

\* The sort is a permutation that goes by time, and by position at one time.
LEMMA SortedIsPermuted ==
  ASSUME NEW s, NEW N \in Nat, DOMAIN s = 1..N, \A i \in 1..N : s[i].time \in Nat
  PROVE  \E from \in [1..N -> 1..N] :
           /\ Sorted(s) = [k \in 1..N |-> s[from[k]]]
           /\ \A i \in 1..N : \E k \in 1..N : from[k] = i
           /\ \A j, k \in 1..N : j < k => Before(s, from[j], from[k])
<1> DEFINE place == [i \in 1..N |-> Place(s, i)]
           from == [k \in 1..N |-> CHOOSE i \in 1..N : Place(s, i) = k]
<1>1. place \in Injection(1..N, 1..N)
  <2>1. place \in [1..N -> 1..N] /\ \A i, j \in 1..N : place[i] = place[j] => i = j
    BY Places
  <2> HIDE DEF place
  <2> QED
    BY <2>1, Fun_IsInj
<1>2. place \in Surjection(1..N, 1..N)
  <2> HIDE DEF place
  <2>1. IsFiniteSet(1..N)
    BY FS_Interval
  <2> QED
    BY <1>1, <2>1, FS_Injection
<1>3. \A k \in 1..N : \E i \in 1..N : place[i] = k
  <2> HIDE DEF place
  <2> QED
    BY <1>2 DEF Surjection
<1>4. \A k \in 1..N : \E i \in 1..N : Place(s, i) = k
  BY <1>3
<1>5. \A k \in 1..N : from[k] \in 1..N /\ Place(s, from[k]) = k
  BY <1>4
<1>6. from \in [1..N -> 1..N]
  BY <1>5
<1>7. Sorted(s) = [k \in 1..N |-> s[from[k]]]
  BY DEF Sorted
<1> HIDE DEF place, from
<1>8. \A i \in 1..N : Place(s, i) \in 1..N /\ from[Place(s, i)] = i
  <2> SUFFICES ASSUME NEW i \in 1..N PROVE Place(s, i) \in 1..N /\ from[Place(s, i)] = i
    OBVIOUS
  <2>1. Place(s, i) \in 1..N
    BY Places
  <2>2. from[Place(s, i)] \in 1..N /\ Place(s, from[Place(s, i)]) = Place(s, i)
    BY <1>5, <2>1
  <2> QED
    BY <2>1, <2>2, Places
<1>9. \A j, k \in 1..N : j < k => Before(s, from[j], from[k])
  BY <1>5, Places
<1> QED
  BY <1>6, <1>7, <1>8, <1>9

-----------------------------------------------------------------------------
(* Rescaling.                                                              *)

LEMMA DivMonotone ==
  ASSUME NEW a \in Nat, NEW b \in Nat, NEW d \in Nat, NEW n \in Nat \ {0}, a <= b
  PROVE  /\ (a * d) \div n \in Nat
         /\ (a * d) \div n <= (b * d) \div n
<1>1. a * d \in Nat /\ b * d \in Nat /\ a * d <= b * d
  <2>1. b * d = a * d + (b - a) * d
    OBVIOUS
  <2>2. (b - a) * d \in Nat /\ a * d \in Nat /\ b * d \in Nat
    OBVIOUS
  <2> QED
    BY <2>1, <2>2
<1>2. \A x, y \in Nat : x <= y => x \div n \in Nat /\ x \div n <= y \div n
  OBVIOUS
<1> QED
  BY <1>1, <1>2

LEMMA DivExact ==
  ASSUME NEW d \in Nat, NEW n \in Nat \ {0}
  PROVE  (n * d) \div n = d /\ (0 * d) \div n = 0
OBVIOUS

\* What the assumption says of a flow.
AFlow(f) == f.times \in Seq(Nat) /\ (f.duration = NoDuration \/ f.duration \in Nat)

\* Sorting finds the first and the last of some packets.
LEMMA Extremes ==
  ASSUME NEW ts \in Seq(Nat), Len(ts) > 0
  PROVE  /\ \E k \in DOMAIN ts : Abstract!IsEarliest(ts, k)
         /\ \E k \in DOMAIN ts : Abstract!IsLatest(ts, k)
<1> DEFINE N == Len(ts)
           s == [i \in 1..N |-> [time |-> ts[i]]]
<1>1. N \in Nat /\ DOMAIN ts = 1..N /\ 1 \in 1..N /\ N \in 1..N /\ \A i \in 1..N : ts[i] \in Nat
  BY LenProperties, ElementOfSeq
<1>2. DOMAIN s = 1..N /\ \A i \in 1..N : s[i].time = ts[i]
  OBVIOUS
<1> HIDE DEF N, s
<1>3. PICK from \in [1..N -> 1..N] :
        /\ \A i \in 1..N : \E k \in 1..N : from[k] = i
        /\ \A j, k \in 1..N : j < k => Before(s, from[j], from[k])
  BY <1>1, <1>2, SortedIsPermuted
<1>4. \A j, k \in 1..N : j <= k => ts[from[j]] <= ts[from[k]]
  <2> SUFFICES ASSUME NEW j \in 1..N, NEW k \in 1..N, j <= k
               PROVE  ts[from[j]] <= ts[from[k]]
    OBVIOUS
  <2>1. /\ from[j] \in 1..N /\ from[k] \in 1..N
        /\ ts[from[j]] \in Nat /\ s[from[j]].time = ts[from[j]] /\ s[from[k]].time = ts[from[k]]
    BY <1>1, <1>2
  <2>2. j = k \/ Before(s, from[j], from[k])
    BY <1>1, <1>3
  <2>3. CASE j = k
    BY <2>1, <2>3
  <2>4. CASE Before(s, from[j], from[k])
    <3>1. ts[from[k]] \in Nat
      BY <1>1, <2>1
    <3> QED
      BY <2>1, <2>4, <3>1 DEF Before
  <2> QED
    BY <2>2, <2>3, <2>4
<1>5. \A i \in 1..N : ts[from[1]] <= ts[i] /\ ts[i] <= ts[from[N]]
  <2> SUFFICES ASSUME NEW i \in 1..N PROVE ts[from[1]] <= ts[i] /\ ts[i] <= ts[from[N]]
    OBVIOUS
  <2>1. PICK k \in 1..N : from[k] = i
    BY <1>3
  <2> QED
    BY <1>1, <1>4, <2>1
<1> QED
  BY <1>1, <1>3, <1>5 DEF Abstract!IsEarliest, Abstract!IsLatest

\* Rescaling keeps the order of the times and their start, and hits the duration.
LEMMA RescaledFlow ==
  ASSUME NEW f, AFlow(f)
  PROVE  /\ Rescaled(f) \in [1..Len(f.times) -> Nat]
         /\ \A j, k \in 1..Len(f.times) :
              f.times[j] <= f.times[k] => Rescaled(f)[j] <= Rescaled(f)[k]
         /\ \A k \in 1..Len(f.times) :
              Abstract!IsEarliest(f.times, k) => Rescaled(f)[k] = f.times[k]
         /\ Abstract!Stretched(f) =>
              \A j, k \in 1..Len(f.times) :
                Abstract!IsEarliest(f.times, j) /\ Abstract!IsLatest(f.times, k) =>
                  Rescaled(f)[k] = Rescaled(f)[j] + f.duration
         /\ ~Abstract!Stretched(f) => Rescaled(f) = f.times
<1> DEFINE n == Len(f.times)
           t0 == Earliest(f.times)
           span == Span(f.times)
           gap(k) == f.times[k] - t0
<1>1. n \in Nat /\ DOMAIN f.times = 1..n /\ \A k \in 1..n : f.times[k] \in Nat
  BY LenProperties, ElementOfSeq DEF AFlow
<1>2. f.times \in [1..n -> Nat]
  BY LenProperties, <1>1 DEF AFlow
<1>3. CASE n = 0
  <2>1. ~Abstract!Stretched(f) /\ ~(n >= 2)
    BY <1>1, <1>3 DEF Abstract!Stretched
  <2>2. Rescaled(f) = f.times
    BY <2>1 DEF Rescaled
  <2> QED
    BY <1>2, <1>3, <2>1, <2>2
<1>4. CASE n > 0
  <2>1. /\ \E k \in 1..n : t0 = f.times[k] /\ \A l \in 1..n : t0 <= f.times[l]
        /\ \E k \in 1..n : Latest(f.times) = f.times[k] /\ \A l \in 1..n : Latest(f.times) >= f.times[l]
    BY <1>1, <1>4, Extremes
       DEF AFlow, Earliest, Latest, Abstract!IsEarliest, Abstract!IsLatest
  <2>2. t0 \in Nat /\ Latest(f.times) \in Nat /\ span = Latest(f.times) - t0 /\ span \in Nat
    BY <1>1, <2>1 DEF Span
  <2>3. \A k \in 1..n : gap(k) \in Nat /\ gap(k) <= span
    BY <1>1, <2>1, <2>2
  <2>4. \A k \in 1..n : /\ Abstract!IsEarliest(f.times, k) => f.times[k] = t0
                        /\ Abstract!IsLatest(f.times, k) => f.times[k] = Latest(f.times)
    <3> SUFFICES ASSUME NEW k \in 1..n
                 PROVE  /\ Abstract!IsEarliest(f.times, k) => f.times[k] = t0
                        /\ Abstract!IsLatest(f.times, k) => f.times[k] = Latest(f.times)
      OBVIOUS
    <3> HIDE DEF t0, n
    <3>1. f.times[k] \in Nat /\ t0 <= f.times[k] /\ f.times[k] <= Latest(f.times)
      BY <1>1, <2>1, <2>2
    <3>2. Abstract!IsEarliest(f.times, k) => f.times[k] <= t0
      BY <1>1, <2>1 DEF Abstract!IsEarliest
    <3>3. Abstract!IsLatest(f.times, k) => f.times[k] >= Latest(f.times)
      BY <1>1, <2>1 DEF Abstract!IsLatest
    <3> QED
      BY <2>2, <3>1, <3>2, <3>3
  <2>5. Abstract!Stretched(f) <=> f.duration # NoDuration /\ span > 0
    <3> HIDE DEF t0, span, n
    <3>1. \A l, m \in 1..n : f.times[l] < f.times[m] => span > 0
      <4> SUFFICES ASSUME NEW l \in 1..n, NEW m \in 1..n, f.times[l] < f.times[m]
                   PROVE  span > 0
        OBVIOUS
      <4>1. t0 <= f.times[l] /\ f.times[m] <= Latest(f.times)
        BY <2>1
      <4>2. f.times[l] \in Nat /\ f.times[m] \in Nat
        BY <1>1
      <4> QED
        BY <2>2, <4>1, <4>2
    <3>2. span > 0 => \E l, m \in 1..n : f.times[l] < f.times[m]
      <4>1. PICK l \in 1..n, m \in 1..n : t0 = f.times[l] /\ Latest(f.times) = f.times[m]
        BY <2>1
      <4>2. span > 0 => f.times[l] < f.times[m]
        BY <2>2, <4>1
      <4> QED
        BY <4>2
    <3> QED
      BY <1>1, <3>1, <3>2 DEF Abstract!Stretched
  <2>6. CASE Abstract!Stretched(f)
    <3>1. f.duration \in Nat /\ f.duration # NoDuration /\ span \in Nat \ {0}
      BY <2>2, <2>5, <2>6 DEF AFlow
    <3>2. n >= 2
      BY <1>1, <1>4, <2>6 DEF Abstract!Stretched
    <3>3. Rescaled(f) = [k \in 1..n |-> t0 + (gap(k) * f.duration) \div span]
      BY <1>1, <3>1, <3>2 DEF Rescaled
    <3> DEFINE scaled(k) == (gap(k) * f.duration) \div span
    <3>4. \A j, k \in 1..n : f.times[j] <= f.times[k] =>
            scaled(j) \in Nat /\ scaled(j) <= scaled(k)
      <4>1. \A j, k \in 1..n : f.times[j] <= f.times[k] => gap(j) <= gap(k)
        BY <1>1, <2>2
      <4> HIDE DEF gap, span
      <4> QED
        BY <2>3, <3>1, <4>1, DivMonotone
    <3>5. \A k \in 1..n : scaled(k) \in Nat
      BY <1>1, <3>4
    <3>6. \A k \in 1..n : /\ Abstract!IsEarliest(f.times, k) => scaled(k) = 0
                          /\ Abstract!IsLatest(f.times, k) => scaled(k) = f.duration
      <4>1. \A k \in 1..n : /\ Abstract!IsEarliest(f.times, k) => gap(k) = 0
                            /\ Abstract!IsLatest(f.times, k) => gap(k) = span
        BY <2>2, <2>4
      <4> HIDE DEF gap, span
      <4> QED
        BY <3>1, <4>1, DivExact
    <3> HIDE DEF scaled
    <3>7. \A k \in 1..n : Rescaled(f)[k] = t0 + scaled(k)
      BY <3>3 DEF scaled
    <3>8. Rescaled(f) \in [1..n -> Nat]
      <4> HIDE DEF t0, gap, span
      <4>1. \A k \in 1..n : t0 + scaled(k) \in Nat
        BY <2>2, <3>5
      <4> QED
        BY <3>3, <4>1 DEF scaled
    <3> HIDE DEF t0
    <3>9. \A j, k \in 1..n : f.times[j] <= f.times[k] => Rescaled(f)[j] <= Rescaled(f)[k]
      BY <2>2, <3>4, <3>5, <3>7
    <3>10. \A k \in 1..n : Abstract!IsEarliest(f.times, k) => Rescaled(f)[k] = f.times[k]
      BY <2>2, <2>4, <3>6, <3>7
    <3>11. \A j, k \in 1..n :
             Abstract!IsEarliest(f.times, j) /\ Abstract!IsLatest(f.times, k) =>
               Rescaled(f)[k] = Rescaled(f)[j] + f.duration
      BY <2>2, <3>1, <3>6, <3>7
    <3> QED
      BY <2>6, <3>8, <3>9, <3>10, <3>11
  <2>7. CASE ~Abstract!Stretched(f)
    <3>1. Rescaled(f) = f.times
      BY <2>5, <2>7 DEF Rescaled
    <3> QED
      BY <1>2, <2>7, <3>1
  <2> QED
    BY <2>6, <2>7
<1> QED
  BY <1>1, <1>3, <1>4

-----------------------------------------------------------------------------
(* The packets compiled so far.                                            *)

Line(i, m) == [flow |-> i, n |-> m, time |-> Rescaled(fs.flows[i])[m],
               texture |-> fs.texture, seg |-> fs.flows[i].seg, link |-> "ethernet"]
Lines == {Line(i, m) : i \in DOMAIN fs.flows, m \in Nat}

PacketsOf(i) == 1..Len(fs.flows[i].times)

\* The flows before the next one are in the list, complete and in building order.
Compiled ==
  /\ packets \in Seq(Lines)
  /\ \A k \in 1..Len(packets) : /\ packets[k].flow \in 1..(next - 1)
                                /\ packets[k].n \in PacketsOf(packets[k].flow)
                                /\ packets[k] = Line(packets[k].flow, packets[k].n)
  /\ \A j, k \in 1..Len(packets) :
       j < k => \/ packets[j].flow < packets[k].flow
                \/ packets[j].flow = packets[k].flow /\ packets[j].n < packets[k].n
  /\ \A i \in 1..(next - 1) : \A m \in PacketsOf(i) :
       \E k \in 1..Len(packets) : packets[k].flow = i /\ packets[k].n = m
  /\ \A i \in 1..(next - 1) : Abstract!Renderable(fs.flows[i])

PacketsOK == /\ pc \in {"flow", "render", "merge"} => Compiled
             /\ pc = "render" => flow.known
             /\ pc = "merge" => next = Len(fs.flows) + 1

LEMMA FlowSetTypes ==
  ASSUME NEW s \in FlowSets
  PROVE  /\ Len(s.flows) \in Nat /\ DOMAIN s.flows = 1..Len(s.flows)
         /\ \A i \in 1..Len(s.flows) : AFlow(s.flows[i]) /\ Len(s.flows[i].times) \in Nat
<1>1. Len(s.flows) \in Nat /\ DOMAIN s.flows = 1..Len(s.flows)
  BY CallsAssumption DEF FlowAssumption
<1>2. \A i \in 1..Len(s.flows) : AFlow(s.flows[i])
  BY <1>1, CallsAssumption DEF FlowAssumption, AFlow
<1>3. \A i \in 1..Len(s.flows) : Len(s.flows[i].times) \in Nat
  BY <1>2, LenProperties DEF AFlow
<1> QED
  BY <1>1, <1>2, <1>3

LEMMA RenderCompiles == ASSUME IInv, PacketsOK, Render PROVE Compiled'
<1> DEFINE N == Len(packets)
           n == Len(flow.times)
<1>1. /\ pc = "render" /\ ~flow.fails /\ flow.known /\ fs \in FlowSets /\ fs' = fs
      /\ next \in 1..Len(fs.flows) /\ next' = next + 1 /\ next \in Nat
      /\ texture = fs.texture /\ segBytes = flow.seg /\ packets' = packets \o Rendered
      /\ Compiled
  BY FlowSetTypes DEF Render, IInv, TypeOK, ContextScoped, PacketsOK
<1>2. n \in Nat /\ DOMAIN flow.times = 1..n /\ n = Len(fs.flows[next].times)
  BY <1>1, FlowSetTypes, LenProperties DEF AFlow, flow
<1>3. Rendered = [k \in 1..n |-> Line(next, k)]
  BY <1>1, <1>2 DEF Rendered, Line, flow
<1>4. Rendered \in Seq(Lines) /\ Len(Rendered) = n
  <2>1. \A k \in 1..n : Line(next, k) \in Lines
    BY <1>1, <1>2, FlowSetTypes DEF Lines
  <2> QED
    BY <1>2, <1>3, <2>1
<1>5. N \in Nat /\ packets \in Seq(Lines)
  BY <1>1, LenProperties DEF Compiled
<1>6. /\ packets' \in Seq(Lines) /\ Len(packets') = N + n
      /\ \A k \in 1..N : packets'[k] = packets[k]
      /\ \A k \in (N + 1)..(N + n) : packets'[k] = Line(next, k - N)
  <2>1. \A k \in 1..(N + n) : packets'[k] = IF k <= N THEN packets[k] ELSE Rendered[k - N]
    BY <1>1, <1>4, <1>5, ConcatProperties
  <2>2. packets' \in Seq(Lines) /\ Len(packets') = N + n
    BY <1>1, <1>4, <1>5, ConcatProperties
  <2>3. \A k \in (N + 1)..(N + n) : k - N \in 1..n /\ k \in 1..(N + n) /\ ~(k <= N)
    BY <1>2, <1>5
  <2>4. \A k \in 1..N : k \in 1..(N + n) /\ k <= N
    BY <1>2, <1>5
  <2> QED
    BY <1>3, <2>1, <2>2, <2>3, <2>4
<1>7. \A k \in (N + 1)..(N + n) : /\ packets'[k].flow = next /\ packets'[k].n = k - N
                                /\ packets'[k] = Line(next, k - N) /\ k - N \in 1..n
  BY <1>2, <1>5, <1>6 DEF Line
<1>8. /\ Lines' = Lines
      /\ \A i, m : Line(i, m)' = Line(i, m)
      /\ \A i : PacketsOf(i)' = PacketsOf(i)
      /\ 1..(next' - 1) = 1..(next - 1) \cup {next}
      /\ 1..(N + n) = 1..N \cup (N + 1)..(N + n)
      /\ PacketsOf(next) = 1..n
  <2>1. 1..(next' - 1) = 1..(next - 1) \cup {next}
    BY <1>1
  <2>2. 1..(N + n) = 1..N \cup (N + 1)..(N + n)
    <3>1. \A a, b \in Nat : 1..(a + b) = 1..a \cup (a + 1)..(a + b)
      OBVIOUS
    <3> HIDE DEF N, n
    <3> QED
      BY <1>2, <1>5, <3>1
  <2>3. PacketsOf(next) = 1..n
    BY <1>2 DEF PacketsOf
  <2>4. \A i, m : Line(i, m)' = Line(i, m)
    BY <1>1 DEF Line
  <2>5. \A i : PacketsOf(i)' = PacketsOf(i)
    BY <1>1 DEF PacketsOf
  <2>6. Lines' = Lines
    BY <1>1 DEF Lines, Line
  <2> QED
    BY <2>1, <2>2, <2>3, <2>4, <2>5, <2>6
<1> HIDE DEF N, n
<1>9. \A k \in 1..(N + n) : /\ packets'[k].flow \in 1..(next' - 1)
                           /\ packets'[k].n \in PacketsOf(packets'[k].flow)
                           /\ packets'[k] = Line(packets'[k].flow, packets'[k].n)
  <2>1. \A k \in 1..N : /\ packets[k].flow \in 1..(next - 1)
                        /\ packets[k].n \in PacketsOf(packets[k].flow)
                        /\ packets[k] = Line(packets[k].flow, packets[k].n)
    BY <1>1 DEF Compiled, N
  <2> QED
    BY <1>6, <1>7, <1>8, <2>1
<1>10. \A j, k \in 1..(N + n) :
         j < k => \/ packets'[j].flow < packets'[k].flow
                  \/ packets'[j].flow = packets'[k].flow /\ packets'[j].n < packets'[k].n
  <2>1. \A j, k \in 1..N :
         j < k => \/ packets[j].flow < packets[k].flow
                  \/ packets[j].flow = packets[k].flow /\ packets[j].n < packets[k].n
    BY <1>1 DEF Compiled, N
  <2>2. \A k \in 1..N : packets[k].flow < next
    BY <1>1 DEF Compiled, N
  <2> SUFFICES ASSUME NEW j \in 1..(N + n), NEW k \in 1..(N + n), j < k
               PROVE  \/ packets'[j].flow < packets'[k].flow
                      \/ packets'[j].flow = packets'[k].flow /\ packets'[j].n < packets'[k].n
    OBVIOUS
  <2>3. CASE k \in 1..N
    <3>1. j \in 1..N
      BY <1>2, <1>5, <2>3 DEF N, n
    <3> QED
      BY <1>6, <2>1, <2>3, <3>1
  <2>4. CASE k \in (N + 1)..(N + n) /\ j \in 1..N
    BY <1>6, <1>7, <2>2, <2>4
  <2>5. CASE k \in (N + 1)..(N + n) /\ j \in (N + 1)..(N + n)
    <3>1. j - N < k - N
      BY <1>2, <1>5 DEF N, n
    <3> QED
      BY <1>7, <2>5, <3>1
  <2> QED
    BY <1>8, <2>3, <2>4, <2>5
<1>11. \A i \in 1..(next' - 1) : \A m \in PacketsOf(i) :
         \E k \in 1..(N + n) : packets'[k].flow = i /\ packets'[k].n = m
  <2> SUFFICES ASSUME NEW i \in 1..(next' - 1), NEW m \in PacketsOf(i)
               PROVE  \E k \in 1..(N + n) : packets'[k].flow = i /\ packets'[k].n = m
    OBVIOUS
  <2>1. CASE i \in 1..(next - 1)
    <3>1. PICK k \in 1..N : packets[k].flow = i /\ packets[k].n = m
      BY <1>1, <2>1 DEF Compiled, N
    <3> QED
      BY <1>6, <1>8, <3>1
  <2>2. CASE i = next
    <3>1. m \in 1..n /\ N + m \in (N + 1)..(N + n) /\ (N + m) - N = m
      BY <1>2, <1>5, <1>8, <2>2 DEF N, n
    <3> QED
      BY <1>7, <1>8, <2>2, <3>1
  <2> QED
    BY <1>8, <2>1, <2>2
<1>12. \A i \in 1..(next' - 1) : Abstract!Renderable(fs.flows[i])
  BY <1>1, <1>8 DEF Compiled, Abstract!Renderable, flow
<1>13. \A i : Abstract!Renderable(fs.flows[i])' <=> Abstract!Renderable(fs.flows[i])
  BY <1>1 DEF Abstract!Renderable
<1> QED
  BY <1>6, <1>8, <1>9, <1>10, <1>11, <1>12, <1>13 DEF Compiled
LEMMA PacketsInductive == IInv /\ PacketsOK /\ [Next]_vars => PacketsOK'
<1> SUFFICES ASSUME IInv, PacketsOK, [Next]_vars PROVE PacketsOK'
  OBVIOUS
<1>1. CASE Call
  <2>1. /\ pc' = "flow" /\ fs' \in FlowSets /\ next' = 1 /\ packets' = <<>>
    BY <1>1 DEF Call
  <2>2. Compiled'
    <3>1. Len(packets') = 0 /\ packets' \in Seq(Lines') /\ 1..(next' - 1) = {}
      BY <2>1
    <3> QED
      BY <3>1 DEF Compiled
  <2> QED
    BY <2>1, <2>2 DEF PacketsOK
<1>2. CASE Render
  <2>1. Compiled'
    BY <1>2, RenderCompiles
  <2>2. pc' = "flow"
    BY <1>2 DEF Render
  <2> QED
    BY <2>1, <2>2 DEF PacketsOK
<1>3. CASE UnknownKind \/ RendererRaises \/ Merge
  BY <1>3 DEF UnknownKind, RendererRaises, Merge, PacketsOK
<1>4. CASE EnterRenderer \/ LeaveFlows \/ UNCHANGED vars
  <2>1. UNCHANGED <<fs, next, packets>>
    BY <1>4 DEF EnterRenderer, LeaveFlows, vars
  <2>2. Compiled' <=> Compiled
    <3>1. /\ Lines' = Lines
          /\ \A i, m : Line(i, m)' = Line(i, m)
          /\ \A i : PacketsOf(i)' = PacketsOf(i)
          /\ \A i : Abstract!Renderable(fs.flows[i])' <=> Abstract!Renderable(fs.flows[i])
      BY <2>1 DEF Lines, Line, PacketsOf, Abstract!Renderable
    <3> QED
      BY <2>1, <3>1 DEF Compiled
  <2>3. Len(fs.flows) \in Nat
    BY FlowSetTypes DEF IInv, TypeOK
  <2> QED
    BY <1>4, <2>1, <2>2, <2>3
       DEF EnterRenderer, Pending, LeaveFlows, vars, flow, PacketsOK, IInv, TypeOK
<1> QED
  BY <1>1, <1>2, <1>3, <1>4 DEF Next

LEMMA AlwaysCompiled == Spec => [](IInv /\ PacketsOK)
<1>1. Init => PacketsOK
  BY DEF Init, PacketsOK
<1> QED
  BY <1>1, PacketsInductive, Invariance, PTL DEF Spec

-----------------------------------------------------------------------------
(* The answer.                                                             *)

\* What the merge hands back is what Compiler allows.
LEMMA MergeAnswers ==
  ASSUME IInv, PacketsOK, Merge
  PROVE  /\ Abstract!Chronological(packets')
         /\ \A i \in DOMAIN fs.flows : Abstract!Faithful(i, fs, packets')
         /\ \A k \in DOMAIN packets' : packets'[k].flow \in DOMAIN fs.flows
<1> DEFINE N == Len(packets)
<1>1. /\ pc = "merge" /\ fs \in FlowSets /\ Compiled /\ next - 1 = Len(fs.flows)
      /\ DOMAIN fs.flows = 1..(next - 1)
  BY FlowSetTypes DEF Merge, IInv, TypeOK, PacketsOK
<1>2. N \in Nat /\ DOMAIN packets = 1..N
  BY <1>1, LenProperties DEF Compiled
<1>3. \A i \in 1..(next - 1) : AFlow(fs.flows[i]) /\ Len(fs.flows[i].times) \in Nat
  BY <1>1, FlowSetTypes
<1>4. \A k \in 1..N : /\ packets[k].flow \in 1..(next - 1)
                      /\ packets[k].n \in PacketsOf(packets[k].flow)
                      /\ packets[k] = Line(packets[k].flow, packets[k].n)
  BY <1>1 DEF Compiled
<1>5. \A k \in 1..N :
        /\ packets[k].time = Rescaled(fs.flows[packets[k].flow])[packets[k].n]
        /\ packets[k].texture = fs.texture
        /\ packets[k].seg = fs.flows[packets[k].flow].seg
  <2>1. \A i, m : /\ Line(i, m).time = Rescaled(fs.flows[i])[m]
                  /\ Line(i, m).texture = fs.texture
                  /\ Line(i, m).seg = fs.flows[i].seg
    BY DEF Line
  <2> SUFFICES ASSUME NEW k \in 1..N
               PROVE  /\ packets[k].time = Rescaled(fs.flows[packets[k].flow])[packets[k].n]
                      /\ packets[k].texture = fs.texture
                      /\ packets[k].seg = fs.flows[packets[k].flow].seg
    OBVIOUS
  <2>2. PICK i, m : packets[k].flow = i /\ packets[k].n = m /\ packets[k] = Line(i, m)
    BY <1>4
  <2> QED
    BY <2>1, <2>2
<1>6. \A i \in 1..(next - 1) :
        /\ \A m \in PacketsOf(i) : Rescaled(fs.flows[i])[m] \in Nat
        /\ \A l, m \in PacketsOf(i) :
             fs.flows[i].times[l] <= fs.flows[i].times[m] =>
               Rescaled(fs.flows[i])[l] <= Rescaled(fs.flows[i])[m]
  BY <1>3, RescaledFlow DEF PacketsOf
<1>7. \A k \in 1..N : packets[k].time \in Nat
  BY <1>4, <1>5, <1>6
<1>8. PICK from \in [1..N -> 1..N] :
        /\ Sorted(packets) = [k \in 1..N |-> packets[from[k]]]
        /\ \A i \in 1..N : \E k \in 1..N : from[k] = i
        /\ \A j, k \in 1..N : j < k => Before(packets, from[j], from[k])
  <2> HIDE DEF N
  <2> QED
    BY <1>2, <1>7, SortedIsPermuted
<1>9. packets' = [k \in 1..N |-> [packets[from[k]] EXCEPT !.link = fs.link]]
  BY <1>8 DEF Merge
<1> HIDE DEF N
<1>10. /\ DOMAIN packets' = 1..N
       /\ \A k \in 1..N : /\ from[k] \in 1..N
                          /\ packets'[k].flow = packets[from[k]].flow
                          /\ packets'[k].n = packets[from[k]].n
                          /\ packets'[k].time = packets[from[k]].time
                          /\ packets'[k].texture = packets[from[k]].texture
                          /\ packets'[k].seg = packets[from[k]].seg
                          /\ packets'[k].link = fs.link
  <2>1. \A p : p \in Lines => DOMAIN p = {"flow", "n", "time", "texture", "seg", "link"}
    BY DEF Lines, Line
  <2>2. \A k \in 1..N : packets[k] \in Lines
    BY <1>1, <1>2, ElementOfSeq DEF Compiled, N
  <2>3. \A k \in 1..N : from[k] \in 1..N
    BY <1>8
  <2> QED
    BY <1>9, <2>1, <2>2, <2>3
<1>11. \A j, k \in 1..N : j < k =>
         \/ packets[j].flow < packets[k].flow
         \/ packets[j].flow = packets[k].flow /\ packets[j].n < packets[k].n
  BY <1>1 DEF Compiled, N
<1>12. Abstract!Chronological(packets')
  <2> SUFFICES ASSUME NEW j \in 1..N, NEW k \in 1..N, j < k
               PROVE  \/ packets'[j].time < packets'[k].time
                      \/ packets'[j].time = packets'[k].time /\ packets'[j].flow <= packets'[k].flow
    BY <1>10 DEF Abstract!Chronological
  <2>1. Before(packets, from[j], from[k])
    BY <1>8
  <2>2. from[j] < from[k] => packets[from[j]].flow <= packets[from[k]].flow
    <3>1. from[j] \in 1..N /\ from[k] \in 1..N
      BY <1>8
    <3>2. packets[from[j]].flow \in Nat /\ packets[from[k]].flow \in Nat
      BY <1>4, <3>1
    <3> QED
      BY <1>11, <3>1, <3>2
  <2> QED
    BY <1>10, <2>1, <2>2 DEF Before
<1>13. \A i \in DOMAIN fs.flows : Abstract!Faithful(i, fs, packets')
  <2> SUFFICES ASSUME NEW i \in 1..(next - 1) PROVE Abstract!Faithful(i, fs, packets')
    BY <1>1
  <2> DEFINE f == fs.flows[i]
             mine == {k \in 1..N : packets'[k].flow = i}
  <2>1. Abstract!Mine(packets', i) = mine
    BY <1>10 DEF Abstract!Mine
  <2>2. \A m \in 1..Len(f.times) : \E k \in mine : packets'[k].n = m
    <3> SUFFICES ASSUME NEW m \in PacketsOf(i) PROVE \E k \in mine : packets'[k].n = m
      BY DEF PacketsOf
    <3>1. PICK j \in 1..N : packets[j].flow = i /\ packets[j].n = m
      BY <1>1 DEF Compiled, N
    <3>2. PICK k \in 1..N : from[k] = j
      BY <1>8
    <3> QED
      BY <1>10, <3>1, <3>2
  <2>3. \A k \in mine :
          /\ packets'[k].n \in PacketsOf(i) /\ packets'[k].time = Rescaled(f)[packets'[k].n]
          /\ packets'[k].texture = fs.texture /\ packets'[k].seg = f.seg
          /\ packets'[k].link = fs.link
    BY <1>4, <1>5, <1>10
  <2>4. \A j, k \in mine :
          /\ from[j] \in 1..N /\ from[k] \in 1..N
          /\ packets[from[j]].flow = i /\ packets[from[k]].flow = i
          /\ packets[from[j]].n = packets'[j].n /\ packets[from[k]].n = packets'[k].n
          /\ packets'[j].n \in Nat /\ packets'[j].time \in Nat
    <3> SUFFICES ASSUME NEW k \in mine
                 PROVE  /\ from[k] \in 1..N /\ packets[from[k]].flow = i
                        /\ packets[from[k]].n = packets'[k].n
                        /\ packets'[k].n \in Nat /\ packets'[k].time \in Nat
      OBVIOUS
    <3>1. k \in 1..N /\ packets'[k].flow = i
      OBVIOUS
    <3>2. packets'[k].n \in Nat
      BY <2>3 DEF PacketsOf
    <3>3. /\ from[k] \in 1..N /\ packets[from[k]].flow = i
          /\ packets[from[k]].n = packets'[k].n /\ packets'[k].time = packets[from[k]].time
      BY <1>10, <3>1
    <3> QED
      BY <1>7, <3>2, <3>3
  <2>5. \A j, k \in mine : from[j] < from[k] => packets'[j].n < packets'[k].n
    <3>1. ~(i < i)
      BY <1>1
    <3> QED
      BY <1>11, <2>4, <3>1
  <2>6. \A j, k \in mine : j # k => packets'[j].n # packets'[k].n
    <3>1. \A j, k \in mine : j < k => packets'[j].n # packets'[k].n
      <4> SUFFICES ASSUME NEW j \in mine, NEW k \in mine, j < k
                   PROVE  packets'[j].n # packets'[k].n
        OBVIOUS
      <4>1. Before(packets, from[j], from[k])
        BY <1>8
      <4>2. packets[from[j]].time \in Nat /\ from[j] \in Nat
        BY <1>7, <2>4
      <4>3. from[j] # from[k]
        BY <4>1, <4>2 DEF Before
      <4>4. from[j] < from[k] \/ from[k] < from[j]
        BY <2>4, <4>3
      <4>5. packets'[j].n \in Nat /\ packets'[k].n \in Nat
        BY <2>4
      <4> QED
        BY <2>5, <4>4, <4>5
    <3>2. mine \subseteq Nat
      BY <1>2
    <3> HIDE DEF mine
    <3> QED
      BY <3>1, <3>2
  <2>7. \A j, k \in mine : f.times[packets'[j].n] <= f.times[packets'[k].n] =>
          packets'[j].time <= packets'[k].time
    BY <1>6, <2>3
  <2>8. \A j, k \in mine :
          packets'[j].n < packets'[k].n /\ f.times[packets'[j].n] <= f.times[packets'[k].n] => j < k
    <3> SUFFICES ASSUME NEW j \in mine, NEW k \in mine, packets'[j].n < packets'[k].n,
                        packets'[j].time <= packets'[k].time, k < j
                 PROVE  FALSE
      BY <1>2, <2>4, <2>7
    <3>1. Before(packets, from[k], from[j])
      BY <1>8
    <3>2. from[k] < from[j]
      <4>1. packets'[j].time = packets[from[j]].time /\ packets'[k].time = packets[from[k]].time
        BY <1>10
      <4>2. packets'[j].time \in Nat /\ packets'[k].time \in Nat
        BY <2>4
      <4> QED
        BY <3>1, <4>1, <4>2 DEF Before
    <3> QED
      BY <2>4, <2>5, <3>2
  <2>9. AFlow(f) /\ DOMAIN f.times = 1..Len(f.times)
    BY <1>3, LenProperties DEF AFlow
  <2>10. \A k \in mine :
          /\ Abstract!IsEarliest(f.times, packets'[k].n) =>
               packets'[k].time = f.times[packets'[k].n]
          /\ Abstract!Stretched(f) /\ Abstract!IsLatest(f.times, packets'[k].n) =>
               \A j \in mine : Abstract!IsEarliest(f.times, packets'[j].n) =>
                 packets'[k].time = packets'[j].time + f.duration
          /\ ~Abstract!Stretched(f) => packets'[k].time = f.times[packets'[k].n]
    <3>1. \A k \in mine : /\ packets'[k].n \in 1..Len(f.times)
                          /\ packets'[k].time = Rescaled(f)[packets'[k].n]
      BY <2>3 DEF PacketsOf
    <3> HIDE DEF f, mine
    <3>2. /\ \A k \in 1..Len(f.times) :
                Abstract!IsEarliest(f.times, k) => Rescaled(f)[k] = f.times[k]
          /\ Abstract!Stretched(f) =>
                \A j, k \in 1..Len(f.times) :
                  Abstract!IsEarliest(f.times, j) /\ Abstract!IsLatest(f.times, k) =>
                    Rescaled(f)[k] = Rescaled(f)[j] + f.duration
          /\ ~Abstract!Stretched(f) => Rescaled(f) = f.times
      BY <2>9, RescaledFlow
    <3> QED
      BY <3>1, <3>2
  <2> HIDE DEF f, mine
  <2> QED
    BY <2>1, <2>2, <2>3, <2>6, <2>7, <2>8, <2>10 DEF Abstract!Faithful, PacketsOf, f
<1>14. \A k \in DOMAIN packets' : packets'[k].flow \in DOMAIN fs.flows
  BY <1>1, <1>4, <1>10
<1> QED
  BY <1>12, <1>13, <1>14

LEMMA StepMapped == IInv /\ PacketsOK /\ [Next]_vars => [Abstract!Next]_(Abstract!cvars)
<1> SUFFICES ASSUME IInv, PacketsOK, [Next]_vars PROVE [Abstract!Next]_(Abstract!cvars)
  OBVIOUS
<1>0. /\ fs \in FlowSets /\ Len(fs.flows) \in Nat /\ DOMAIN fs.flows = 1..Len(fs.flows)
      /\ next \in 1..(Len(fs.flows) + 1)
  BY FlowSetTypes DEF IInv, TypeOK
<1>1. CASE Call
  BY <1>1 DEF Call, Resting, Outcome, Abstract!Next, Abstract!Ask
<1>2. CASE UnknownKind
  <2>1. next \in DOMAIN fs.flows /\ ~Abstract!Renderable(fs.flows[next])
    BY <1>0, <1>2 DEF UnknownKind, Pending, flow, Abstract!Renderable
  <2> QED
    BY <1>2, <2>1 DEF UnknownKind, Pending, Outcome, Abstract!Next, Abstract!Refuse
<1>3. CASE RendererRaises
  <2>1. next \in DOMAIN fs.flows /\ ~Abstract!Renderable(fs.flows[next])
    BY <1>0, <1>3 DEF RendererRaises, flow, Abstract!Renderable, IInv, TypeOK
  <2> QED
    BY <1>3, <2>1 DEF RendererRaises, Outcome, Abstract!Next, Abstract!Refuse
<1>4. CASE Merge
  <2>1. pc = "merge" /\ pc' = "returned" /\ fs' = fs /\ flows' = flows
    BY <1>4 DEF Merge
  <2>2. next = Len(fs.flows) + 1 /\ flows = [i \in 1..(next - 1) |-> i]
        /\ \A i \in 1..(next - 1) : Abstract!Renderable(fs.flows[i])
    BY <2>1 DEF IInv, TypeOK, PacketsOK, Compiled
  <2>3. 1..(next - 1) = DOMAIN fs.flows
    BY <1>0, <2>2
  <2>4. flows = [i \in DOMAIN fs.flows |-> i]
    BY <2>2, <2>3
  <2> QED
    BY <1>4, <2>1, <2>2, <2>3, <2>4, MergeAnswers
       DEF Outcome, Abstract!Next, Abstract!Answer
<1>5. CASE EnterRenderer \/ Render \/ LeaveFlows
  BY <1>5 DEF EnterRenderer, Pending, Render, LeaveFlows, Outcome, Abstract!cvars
<1>6. CASE UNCHANGED vars
  BY <1>6 DEF vars, Outcome, Abstract!cvars
<1> QED
  BY <1>1, <1>2, <1>3, <1>4, <1>5, <1>6 DEF Next

\* A capture depends on its FlowSet alone (docs/DESIGN.md:38-39): for any FlowSets, number of
\* calls and failures between them, each answer holds every flow's packets, each once and under
\* the flow's own settings, merged by time and in building order where time leaves it open,
\* even when a list is not in the order of its times, and a refusal has its reason.
THEOREM Refinement == Spec => ImplementsCompiler
<1>1. Init => Abstract!Init
  BY DEF Init, Outcome, Abstract!Init
<1> QED
  BY <1>1, StepMapped, AlwaysCompiled, PTL DEF Spec, ImplementsCompiler, Abstract!Spec
=============================================================================
