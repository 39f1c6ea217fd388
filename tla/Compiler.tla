------------------------------ MODULE Compiler ------------------------------
(***************************************************************************)
(* What compiling a FlowSet promises, with no context variable, rescaling  *)
(* or sorting in it: one request is answered by a capture that depends on  *)
(* the request alone, or refused because a flow of it cannot be rendered.  *)
(* Timeline.tla shows that compile/timeline.py implements this.            *)
(***************************************************************************)
EXTENDS Integers, Sequences, FiniteSets

CONSTANTS FlowSets,         \* what callers ask for
          NoDuration        \* the duration of a flow that sets none

VARIABLES request,          \* the FlowSet being compiled, or the last one
          status,           \* "idle", "pending", "ok" or "error"
          capture,          \* the packets handed back
          expected          \* whose expectations come with them, in order

cvars == <<request, status, capture, expected>>

\* Where a flow's packets are in the capture.
Mine(c, i) == {k \in DOMAIN c : c[k].flow = i}

\* When a flow starts and ends: its packets need not be built in the order of their times.
IsEarliest(ts, m) == \A l \in DOMAIN ts : ts[m] <= ts[l]
IsLatest(ts, m) == \A l \in DOMAIN ts : ts[m] >= ts[l]

\* A duration is wanted, and the packets span some time that can be stretched to it.
Stretched(f) == /\ f.duration # NoDuration
                /\ \E l, m \in DOMAIN f.times : f.times[l] < f.times[m]

\* Flow i is in the capture as if it had been compiled alone: all its packets, each once,
\* under its own settings, from its start and for its duration when it sets one.  No packet
\* overtakes an earlier one of its flow, and of two that time does not tell apart the one
\* built first comes first.
Faithful(i, s, c) ==
  LET f == s.flows[i]
      n == Len(f.times)
      built(k) == f.times[c[k].n]
  IN  /\ \A m \in 1..n : \E k \in Mine(c, i) : c[k].n = m
      /\ \A j, k \in Mine(c, i) :
           /\ j # k => c[j].n # c[k].n
           /\ c[j].n < c[k].n /\ built(j) <= built(k) => j < k
           /\ built(j) <= built(k) => c[j].time <= c[k].time
      /\ \A k \in Mine(c, i) :
           /\ c[k].n \in 1..n
           /\ c[k].texture = s.texture /\ c[k].seg = f.seg /\ c[k].link = s.link
           /\ IsEarliest(f.times, c[k].n) => c[k].time = built(k)
           /\ Stretched(f) /\ IsLatest(f.times, c[k].n) =>
                \A j \in Mine(c, i) :
                  IsEarliest(f.times, c[j].n) => c[k].time = c[j].time + f.duration
           /\ ~Stretched(f) => c[k].time = built(k)

\* Time-ordered; of packets at the same time, the earlier flow's comes first.
Chronological(c) ==
  \A j, k \in DOMAIN c :
    j < k => \/ c[j].time < c[k].time
             \/ c[j].time = c[k].time /\ c[j].flow <= c[k].flow

Renderable(f) == f.known /\ ~f.fails

Init == status = "idle" /\ capture = <<>> /\ expected = <<>> /\ request \in FlowSets

Ask == /\ status # "pending"
       /\ request' \in FlowSets
       /\ status' = "pending"
       /\ capture' = <<>> /\ expected' = <<>>

Answer == /\ status = "pending"
          /\ \A i \in DOMAIN request.flows : Renderable(request.flows[i])
          /\ status' = "ok"
          /\ request' = request
          /\ Chronological(capture')
          /\ \A i \in DOMAIN request.flows : Faithful(i, request, capture')
          /\ \A k \in DOMAIN capture' : capture'[k].flow \in DOMAIN request.flows
          /\ expected' = [i \in DOMAIN request.flows |-> i]

Refuse == /\ status = "pending"
          /\ \E i \in DOMAIN request.flows : ~Renderable(request.flows[i])
          /\ status' = "error"
          /\ UNCHANGED <<request, capture, expected>>

Next == Ask \/ Answer \/ Refuse

Spec == Init /\ [][Next]_cvars
=============================================================================
