------------------------------ MODULE Timeline ------------------------------
(***************************************************************************)
(* compile/timeline.py: compile_flowset and _compile_flows, called again   *)
(* and again in one Python process.  The capture texture and the segment   *)
(* size reach the TCP builder through two context variables that are set   *)
(* around a render and must be put back on every way out, exceptions       *)
(* included.  A renderer is opaque: it stamps its packets with the context *)
(* it ran under, at the times the flow carries, or it raises.              *)
(***************************************************************************)
EXTENDS Integers, Sequences, FiniteSets

CONSTANTS FlowSets,         \* [flows, texture, link] records callers compile
          NoDuration,       \* flow.duration is None
          NoSegment,        \* flow.seg_bytes is None, the default context
          Clean,            \* the default texture
          MaxCalls          \* bound: calls made by the process

\* A flow: whether RENDERERS knows its kind, whether its renderer raises, the times of
\* its packets as they stand in its list, its seg_bytes and duration.  The list need not
\* rise in time: ftp puts the packets of its data connection, which starts 1.5 s in, after
\* all of the control connection's (renderers/ftp.py:56-69).
FlowAssumption ==
  \A s \in FlowSets :
    /\ Len(s.flows) \in Nat /\ DOMAIN s.flows = 1..Len(s.flows)
    /\ \A i \in DOMAIN s.flows :
         LET f == s.flows[i]
         IN  /\ f.times \in Seq(Nat)
             /\ f.duration = NoDuration \/ f.duration \in Nat
ASSUME CallsAssumption == FlowAssumption /\ NoDuration \notin Nat /\ MaxCalls \in Nat

VARIABLES pc, fs,
          texture, segBytes,        \* _TEXTURE and _SEG_BYTES
          token, segToken,          \* what reset() puts back
          next,                     \* the flow being compiled
          packets, flows,           \* result.packets, result.flows
          calls

vars == <<pc, fs, texture, segBytes, token, segToken, next, packets, flows, calls>>

flow == fs.flows[next]

Init == /\ pc = "idle" /\ fs \in FlowSets
        /\ texture = Clean /\ segBytes = NoSegment
        /\ token = Clean /\ segToken = NoSegment
        /\ next = 1 /\ packets = <<>> /\ flows = <<>>
        /\ calls = 0

Resting == pc \in {"idle", "returned", "failed"}

\* Mutant of Call: one result object is shared by all calls.
CallShared == /\ Resting
              /\ calls < MaxCalls
              /\ calls' = calls + 1
              /\ fs' \in FlowSets
              /\ token' = texture
              /\ texture' = fs'.texture
              /\ next' = 1 /\ UNCHANGED <<packets, flows>>
              /\ pc' = "flow"
              /\ UNCHANGED <<segBytes, segToken>>

\* compile_flowset sets the texture and enters its try block.
Call == /\ Resting
        /\ calls < MaxCalls
        /\ calls' = calls + 1
        /\ fs' \in FlowSets
        /\ token' = texture
        /\ texture' = fs'.texture
        /\ next' = 1 /\ packets' = <<>> /\ flows' = <<>>
        /\ pc' = "flow"
        /\ UNCHANGED <<segBytes, segToken>>

Pending == pc = "flow" /\ next <= Len(fs.flows)

\* No renderer for the kind: the ValueError leaves through compile_flowset.
UnknownKind == /\ Pending
               /\ ~flow.known
               /\ texture' = token
               /\ pc' = "failed"
               /\ UNCHANGED <<fs, segBytes, token, segToken, next, packets, flows, calls>>

EnterRenderer == /\ Pending
                 /\ flow.known
                 /\ segToken' = segBytes
                 /\ segBytes' = flow.seg
                 /\ pc' = "render"
                 /\ UNCHANGED <<fs, texture, token, next, packets, flows, calls>>

\* Mutant of RendererRaises: the segment size is put back without a finally.
RendererRaisesPast == /\ pc = "render"
                      /\ flow.fails
                      /\ texture' = token
                      /\ pc' = "failed"
                      /\ UNCHANGED <<fs, segBytes, token, segToken, next, packets, flows, calls>>

\* The renderer raises: both finally blocks run.
RendererRaises == /\ pc = "render"
                  /\ flow.fails
                  /\ segBytes' = segToken
                  /\ texture' = token
                  /\ pc' = "failed"
                  /\ UNCHANGED <<fs, token, segToken, next, packets, flows, calls>>

\* min() and max() of the times: neither need be the first's or the last's.
Earliest(ts) == ts[CHOOSE k \in DOMAIN ts : \A j \in DOMAIN ts : ts[k] <= ts[j]]
Latest(ts) == ts[CHOOSE k \in DOMAIN ts : \A j \in DOMAIN ts : ts[k] >= ts[j]]
Span(ts) == Latest(ts) - Earliest(ts)

\* The exact-duration control; the quotient is a float in the code, rounded down
\* here, and either way keeps the order of the times.
Rescaled(f) ==
  LET t0 == Earliest(f.times)
      span == Span(f.times)
  IN  IF f.duration # NoDuration /\ Len(f.times) >= 2 /\ span > 0
      THEN [k \in DOMAIN f.times |-> t0 + ((f.times[k] - t0) * f.duration) \div span]
      ELSE f.times

\* What the renderer builds under the context it runs in.
Rendered == [k \in DOMAIN flow.times |->
               [flow |-> next, n |-> k, time |-> Rescaled(flow)[k],
                texture |-> texture, seg |-> segBytes, link |-> "ethernet"]]

Render == /\ pc = "render"
          /\ ~flow.fails
          /\ packets' = packets \o Rendered
          /\ flows' = Append(flows, next)
          /\ segBytes' = segToken
          /\ next' = next + 1
          /\ pc' = "flow"
          /\ UNCHANGED <<fs, texture, token, segToken, calls>>

\* Every flow is compiled: the texture is reset before the merge.
LeaveFlows == /\ pc = "flow"
              /\ next > Len(fs.flows)
              /\ texture' = token
              /\ pc' = "merge"
              /\ UNCHANGED <<fs, segBytes, token, segToken, next, packets, flows, calls>>

\* Mutant of Before: the sort does not keep the order of packets at one time.
BeforeUnstable(s, i, j) == \/ s[i].time < s[j].time
                           \/ s[i].time = s[j].time /\ i > j

\* list.sort is stable: i goes before j when it is earlier, or as early and first.
Before(s, i, j) == \/ s[i].time < s[j].time
                   \/ s[i].time = s[j].time /\ i < j
Place(s, i) == Cardinality({j \in DOMAIN s : Before(s, j, i)}) + 1
Sorted(s) == [k \in DOMAIN s |-> s[CHOOSE i \in DOMAIN s : Place(s, i) = k]]

\* The sort, and the rewrite of every frame as a cooked one.
Merge == /\ pc = "merge"
         /\ packets' = LET s == Sorted(packets)
                       IN  [k \in DOMAIN s |-> [s[k] EXCEPT !.link = fs.link]]
         /\ pc' = "returned"
         /\ UNCHANGED <<fs, texture, segBytes, token, segToken, next, flows, calls>>

Next == Call \/ UnknownKind \/ EnterRenderer \/ RendererRaises \/ Render
        \/ LeaveFlows \/ Merge

Spec == Init /\ [][Next]_vars

-----------------------------------------------------------------------------
(* Properties. *)

\* The variables of the compiler keep their types and its loop stays in range.
TypeOK == /\ pc \in {"idle", "flow", "render", "merge", "returned", "failed"}
          /\ fs \in FlowSets
          /\ next \in 1..(Len(fs.flows) + 1)
          /\ pc = "render" => next <= Len(fs.flows)
          /\ flows = [i \in 1..(next - 1) |-> i]
          /\ calls \in 0..MaxCalls

\* Between two calls, after a failed one too, a bare build_tcp_flow() sees the clean
\* texture and no segment size (compile/tcp.py:66-73), and inside a call a renderer
\* sees exactly its own: nothing of one flow or FlowSet reaches another.
ContextScoped ==
  /\ Resting \/ pc = "merge" => texture = Clean /\ segBytes = NoSegment
  /\ pc = "flow" => texture = fs.texture /\ segBytes = NoSegment
  /\ pc = "render" => texture = fs.texture /\ segBytes = flow.seg

Outcome == CASE pc = "idle" -> "idle"
             [] pc = "returned" -> "ok"
             [] pc = "failed" -> "error"
             [] OTHER -> "pending"

Abstract == INSTANCE Compiler WITH
              request <- fs, status <- Outcome,
              capture <- IF pc = "returned" THEN packets ELSE <<>>,
              expected <- IF pc = "returned" THEN flows ELSE <<>>

\* A capture depends on its FlowSet alone (docs/DESIGN.md:38-39, 120-121), whatever was
\* compiled before: each flow's packets under its own settings, from its start for its
\* duration, merged by time, in the order they were built wherever time leaves it open.
ImplementsCompiler == Abstract!Spec
=============================================================================
