----------------------------- MODULE ByteStream -----------------------------
(***************************************************************************)
(* What one rendered TCP conversation promises whoever reads the capture,  *)
(* with no packet in it: two byte counters, one per direction, that grow   *)
(* by one whole message at a time in the order of the renderer's script,   *)
(* and a fate decided by the flow's conn_state.  TcpConversation.tla shows *)
(* that the packet series of compile/tcp.py implements this.               *)
(***************************************************************************)
EXTENDS Naturals, Sequences

CONSTANT Dir                \* the two directions of a conversation

VARIABLES script,           \* the messages, each [from, size]; never changes
          fate,             \* the conn_state the flow asks for; never changes
          delivered,        \* how many messages have been exchanged
          got,              \* got[d]: payload bytes d's peer has confirmed
          status            \* "idle", "open", or how it ended

svars == <<script, fate, delivered, got, status>>

Established == {"SF", "RSTO", "RSTR"}

Init == /\ delivered = 0
        /\ got = [d \in Dir |-> 0]
        /\ status = "idle"

\* The handshake completes.
Open == /\ status = "idle"
        /\ fate \in Established
        /\ status' = "open"
        /\ UNCHANGED <<script, fate, delivered, got>>

\* A SYN that nobody answers, or that a reset answers: nothing is delivered.
Fail == /\ status = "idle"
        /\ fate \in {"S0", "REJ"}
        /\ status' = fate
        /\ UNCHANGED <<script, fate, delivered, got>>

\* The next message of the script arrives, whole, and is confirmed.
Deliver == /\ status = "open"
           /\ delivered < Len(script)
           /\ delivered' = delivered + 1
           /\ LET m == script[delivered + 1]
              IN  got' = [got EXCEPT ![m.from] = @ + m.size]
           /\ UNCHANGED <<script, fate, status>>

\* The conversation ends the way its conn_state says, and only when every
\* message has been delivered.
Close == /\ status = "open"
         /\ delivered = Len(script)
         /\ status' = fate
         /\ UNCHANGED <<script, fate, delivered, got>>

Next == Open \/ Fail \/ Deliver \/ Close

Spec == Init /\ [][Next]_svars
=============================================================================
