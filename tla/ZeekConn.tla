------------------------------ MODULE ZeekConn ------------------------------
(***************************************************************************)
(* The reader of the capture: the conn.log view that Zeek (external to the *)
(* repository) keeps of one TCP connection, as far as the repository's     *)
(* code relies on it.  compile/tcp.py predicts this view (its summary) and *)
(* validation/roundtrip.py compares the prediction with the real one; the  *)
(* comment of _HistoryRecorder and of `retransmitted` in compile/tcp.py    *)
(* say which history letters Zeek writes.                                  *)
(*                                                                         *)
(* A packet is [from, flags, seq, ack, len]; a view is the record `Unseen` *)
(* updated by one Observe per packet, in capture order.                    *)
(***************************************************************************)
EXTENDS Integers, Sequences, Functions

Orig == "orig"
Resp == "resp"
Dir  == {Orig, Resp}
Peer(d) == IF d = Orig THEN Resp ELSE Orig

\* The view of a connection no packet of which has been seen.
Unseen ==
  [state |-> "none", hist |-> <<>>, weird |-> FALSE,
   nxt   |-> [d \in Dir |-> 0],         \* next sequence number expected from d
   acked |-> [d \in Dir |-> 0],         \* highest number d's peer acknowledged
   bytes |-> [d \in Dir |-> 0],         \* payload by sequence space, no repeats
   pkts  |-> [d \in Dir |-> 0],
   fin   |-> [d \in Dir |-> FALSE],
   armed |-> [d \in Dir |-> TRUE]]      \* a retransmission letter may be written

\* Every letter is recorded once per direction ...
RecordOnce(h, c, d) == IF <<c, d>> \in Range(h) THEN h ELSE Append(h, <<c, d>>)

\* ... except the retransmission letter, which is armed again by every burst.
SeenBefore(z, p) == p.len > 0 /\ p.seq + p.len <= z.nxt[p.from]

LetterOf(z, p) ==
  CASE p.flags = "S"  -> "S"
    [] p.flags = "SA" -> "H"
    [] p.flags \in {"R", "RA"} -> "R"
    [] p.flags = "FA" -> "F"
    [] p.len > 0 -> IF SeenBefore(z, p) THEN "T" ELSE "D"
    [] OTHER -> "A"

History(z, p) ==
  IF SeenBefore(z, p)
  THEN IF z.armed[p.from] THEN Append(z.hist, <<"T", p.from>>) ELSE z.hist
  ELSE RecordOnce(z.hist, LetterOf(z, p), p.from)

\* How far the packet moves its sender's sequence space.
Advance(z, p) ==
  CASE p.flags \in {"S", "SA"} -> p.seq + 1
    [] p.flags = "FA" -> p.seq + p.len + 1
    [] p.flags \in {"R", "RA"} -> z.nxt[p.from]
    [] OTHER -> IF SeenBefore(z, p) THEN z.nxt[p.from] ELSE p.seq + p.len

StateAfter(z, p) ==
  CASE z.state = "none" /\ p.flags = "S" /\ p.from = Orig -> "S0"
    [] z.state = "S0" /\ p.flags = "SA" /\ p.from = Resp -> "S1"
    [] z.state = "S0" /\ p.flags = "RA" /\ p.from = Resp -> "REJ"
    [] z.state = "S1" /\ p.flags = "FA" -> IF p.from = Orig THEN "S2" ELSE "S3"
    [] z.state = "S2" /\ p.flags = "FA" /\ p.from = Resp -> "SF"
    [] z.state = "S3" /\ p.flags = "FA" /\ p.from = Orig -> "SF"
    [] z.state = "S1" /\ p.flags = "R" -> IF p.from = Orig THEN "RSTO" ELSE "RSTR"
    [] OTHER -> z.state

\* What no clean capture shows: a SYN in mid-connection, a hole or a partial
\* overlap in the sequence space, an acknowledgment of bytes never seen, one
\* that goes backwards, data before the handshake, after a FIN or after a reset.
Odd(z, p) ==
  LET d == p.from
  IN  CASE p.flags = "S"  -> z.state # "none"
        [] p.flags = "SA" -> z.state # "S0" \/ p.ack # z.nxt[Orig]
        [] p.flags = "RA" -> z.state # "S0" \/ p.ack # z.nxt[Orig]
        [] OTHER -> \/ z.state \notin {"S1", "S2", "S3", "SF"}
                    \/ p.seq # z.nxt[d] /\ ~SeenBefore(z, p)
                    \/ p.ack > z.nxt[Peer(d)]
                    \/ p.ack < z.acked[Peer(d)]
                    \/ z.fin[d] /\ (p.len > 0 \/ p.flags = "FA")

NxtAfter(z, p) == [z.nxt EXCEPT ![p.from] = Advance(z, p)]

AckedAfter(z, p) == IF p.flags = "S" THEN z.acked
                    ELSE [z.acked EXCEPT ![Peer(p.from)] = p.ack]

BytesAfter(z, p) == IF SeenBefore(z, p) THEN z.bytes
                    ELSE [z.bytes EXCEPT ![p.from] = @ + p.len]

FinAfter(z, p) == IF p.flags = "FA" THEN [z.fin EXCEPT ![p.from] = TRUE] ELSE z.fin

\* A burst ends when its receiver acknowledges it.
ArmedAfter(z, p) == CASE SeenBefore(z, p) -> [z.armed EXCEPT ![p.from] = FALSE]
                      [] ~SeenBefore(z, p) /\ p.flags = "A"
                           -> [z.armed EXCEPT ![Peer(p.from)] = TRUE]
                      [] OTHER -> z.armed

Observe(z, p) == [state |-> StateAfter(z, p),
                  hist  |-> History(z, p),
                  weird |-> z.weird \/ Odd(z, p),
                  nxt   |-> NxtAfter(z, p),
                  acked |-> AckedAfter(z, p),
                  bytes |-> BytesAfter(z, p),
                  pkts  |-> [z.pkts EXCEPT ![p.from] = @ + 1],
                  fin   |-> FinAfter(z, p),
                  armed |-> ArmedAfter(z, p)]
=============================================================================
