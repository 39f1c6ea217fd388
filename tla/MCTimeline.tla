----------------------------- MODULE MCTimeline -----------------------------
(* Small instances of Timeline for TLC. *)
EXTENDS Timeline

CONSTANTS Textures, Links, MaxFlows

MCFlow(times, seg, duration) ==
  [known |-> TRUE, fails |-> FALSE, times |-> times, seg |-> seg, duration |-> duration]

\* No packet, one, a tie, and a spread that a duration stretches, compresses into
\* ties or collapses to one instant; and, as ftp builds, a control connection from 0 to 5
\* with a data connection at 3 and 4 after it.
MCGood == {MCFlow(<<>>, NoSegment, 7),
           MCFlow(<<1>>, NoSegment, 7),
           MCFlow(<<1, 1, 3>>, 9, NoDuration),
           MCFlow(<<0, 1, 2, 4>>, 9, 7),
           MCFlow(<<0, 1, 2, 4>>, NoSegment, 1),
           MCFlow(<<1, 1, 3>>, NoSegment, 0),
           MCFlow(<<0, 1, 5, 3, 4>>, 9, NoDuration),
           MCFlow(<<0, 1, 5, 3, 4>>, NoSegment, 2)}

\* A kind with no renderer, and a renderer that raises.
MCBad == {[MCFlow(<<1>>, 9, NoDuration) EXCEPT !.known = FALSE],
          [MCFlow(<<1>>, 9, NoDuration) EXCEPT !.fails = TRUE]}

MCFlowLists == UNION {[1..n -> MCGood \cup MCBad] : n \in 0..MaxFlows}

MCFlowSets == [flows : MCFlowLists, texture : Textures, link : Links]
=============================================================================
