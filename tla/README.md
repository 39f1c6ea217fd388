# PacketForge in TLA+

PacketForge compiles a typed description of network traffic (the Flow IR) into a packet capture
that real Zeek reads without complaint and whose logs say exactly what the compiler predicted.
Nothing in the package is threaded, yet much of it is order: SEQ/ACK arithmetic spread over a
dozen statements, context variables that must be put back on every way out, packet objects shared
by several sensors, and a gate that trusts the files it finds in a directory. These modules model
that core and the documents, scripts, attacks and claims around it, check them with TLC on small
instances and prove the most important results with TLAPS for every value of the constants. Paths
below are relative to `src/src/packetforge/` unless they start with `docs/` or `tests/`.

## 1. Inventory

| Part | State it keeps | Operations | What is hard | What makes it correct | Module |
|---|---|---|---|---|---|
| Flow IR, `models/flowspec.py` | none (validated documents) | load, validate | unchecked fields (`duration`, `seg_bytes`, ends) reach the compiler; kinds and transports are checked against each other only in part | a document is refused, or renders, or the gate says why not | `FlowSpec`, `Dialogues` |
| TCP flow builder, `compile/tcp.py` | two sequence counters, segment cursor, history recorder, per-direction retransmission flags, packet list | `build_tcp_flow`, `_segment` | counters advanced in separate statements; retransmissions and duplicate ACKs drawn at random; teardown counts FINs | read without a `weird`; its summary is Zeek's log; messages arrive whole and in order | `TcpFlow`, `ZeekConn`, `TcpConversation`, `ByteStream` |
| L7 renderers, `renderers/*` | none (message scripts) | one renderer per kind | identifiers that relate replies to requests, sessions, trees, handles, calls; counters of two protocols in one script; a second connection (FTP data) | what is said is what an analyzer reads back | `Renderers`, `Analyzers`, `Dialogues` |
| Timeline compiler, `compile/timeline.py` | `_TEXTURE`, `_SEG_BYTES` context variables, the result being built | `compile_flowset`, `_compile_flows`, `write_pcap` | exceptions between set and reset; ties in time; rescaling into ties | a capture depends on its FlowSet alone | `Compiler`, `Timeline` |
| Vantages, `compile/vantage.py` | shared packet objects | `render_vantage(s)` | in-place edits of shared packets; NAT of both directions; filters by layer | a view depends on the capture and its sensor; connections stay whole | `Vantage`, `Views` |
| Fragmentation, `compile/fragment.py` | none | `fragment_packets` | 8-byte units; equal IP ids | a sensor reassembles the same datagrams | `Vantage`, `Views` |
| Round-trip gate, `validation/roundtrip.py` | a working directory with logs | `validate_flowset`, `gate_pcap` | stale logs, tools that fail silently, early `continue` | a pass is earned, a sound capture passes | `Gate` |
| Bundles, `bundle.py` | directory with capture, logs, `manifest.json` | `write_bundle` | crash between capture and manifest, reuse of a directory | a manifest that fits its capture tells the truth | `Gate` |
| Composer, `compose.py` | rng, port counters, arrival times | `compose_scenario` and its flow makers | three port ranges in one space, wrap-around, a search for hosts, loops over phases | 5-tuples stay apart, the loops end | `Composer`, `Exercise` |
| Attack library, `scenarios.py` | stages, ground truth | `build_attack`, evasions, `write_ground_truth` | 26 answer keys written by hand beside the flows; evasions that edit finished flows | every stage is visible and labelled, also after evasions | `Library`, `Exercise` |
| Warrant gate, `warrant.py` | findings, census, manifest, capture comments | `check`, `score`, `write_manifest`, `write_provenance_pcapng` | many rules with exceptions; classes decided twice; verdicts printed in four places | a pass is accounted for and sourced; what is written agrees with what was found | `Claims`, `Register`, `Warrant` |
| EvidenceForge ingest and round trip, `ingest/`, `validation/ef_roundtrip.py` | originals by key | ingest, compare | sampling, key collisions | nothing is lost silently | not modelled |
| Detection testing, `detect.py` | alerts, answer key | `run_detection`, benchmarks | attribution of alerts to flows by address pair | an alert counts for what its flow is | `Exercise` (`run_detection`) |
| Corpus and scorecards, `corpus.py`, `scorecard.py`, `evaluate.py`, `report.py` | manifest, scorecards | build, verify, diff | crash between captures and manifest | a scorecard is about the capture it names | not modelled |
| Realism and transfer studies | feature vectors | classifiers, distances | numeric | statistical | out of reach |
| Command line, `cli/__init__.py` | none | one function per command | order of the calls | the parts are called as they expect | `Exercise` (`scenario`), `Warrant` (`warrant`) |
| Fingerprints, pcapng writer, environments, scripts | none | tables, encoders | - | - | not modelled |

How they interact: the command line loads a FlowSet or has the composer make one (noise, failures,
a storyline from the attack library); `compile_flowset` runs one renderer per flow, which hands a
list of messages to `build_tcp_flow`; the merged packets are written, fragmented or projected
through sensors; the gate compiles the FlowSet again, lets Zeek and tshark read the file and
compares logs with the summaries the renderers returned; a bundle keeps the result; the answer key
and the alerts of a detection engine make a report; and a claim set licenses the flows of a
reconstruction. Zeek, tshark, Suricata and scapy are external; where one matters (`ZeekConn`,
`Analyzers`, the logs of `Gate`, the reassembly in `Views`, the alerts of `Exercise`) it is modelled
from how the repository uses it and marked external.

## 2. Modules and how they correspond to the code

**`ByteStream`** is what a rendered conversation promises, with no packet in it: messages
delivered whole, in script order, each confirmed, and an end decided by `conn_state`.

**`TcpFlow`** is `build_tcp_flow`, one action per emitted packet, in statement order. `seq` is the
pair `c_seq`/`s_seq`; `cuts` is a segmentation as the set of its boundaries (`_segment`), `off` the
bytes of the current message already sent, so that `seq + off` is the local `seq`; `hist` the
recorder; `dataBytes` the original bytes. The rng's draws that change what is emitted (initial
sequence numbers, retransmission, duplicate ACK) are choices; those that change only the clock are
dropped, with the clock. `Summarise` includes the serialisation that measuring the IP bytes causes
(line 323): a number outside the header field raises there.

**`ZeekConn`** (external) is the reader: expected sequence number, acknowledged number, state,
history letters and counts of one connection, and `Odd`, the packets for which Zeek writes a
`weird`. Its retransmission letter is armed again by each burst, as the comment at `tcp.py:161-164`
says of Zeek.

**`TcpConversation`** composes the two: the reader observes each packet as it is emitted. It holds
the properties and the refinement mapping to `ByteStream` (`Confirmed`, `Stage`).

**`Compiler`** is what compiling promises: one request, one capture that depends on the request
alone, or a refusal. **`Timeline`** is `compile_flowset`/`_compile_flows`, called again and again in
one process: `texture`/`segBytes` are the context variables, `token`/`segToken` what `reset` puts
back, and a raising renderer runs both `finally` blocks. A renderer is opaque: it stamps packets with
the context it ran in, which is what makes a leak visible. The times of a flow's packets need not rise
along its list: `ftp` puts the data connection, which starts 1.5 s in, after the whole control connection
(`renderers/ftp.py:56-69`). A duration rescales them between `Earliest` and `Latest`, the code's `min` and
`max`, and the stable sort is `Sorted`.

**`Vantage`** holds the operators of `vantage.py` and `fragment.py` (one per transformation);
**`Views`** is the state machine that runs them over a capture whose packets are shared objects, for
a list of sensors or for a fragmenter followed by a reassembling sensor.

**`Gate`** is `validate_flowset` and `write_bundle`, statement by statement, over a directory that
survives: capture, log files, manifest. What the tools say about a capture is part of the FlowSet
(`seen`, `l7seen`, `weird`, `expert`): the gate cannot change it, only misread it. `Crash` may fall
between any two statements. `mode = "blind"` is a bundle written where the tools are missing.

A row is found as the code finds it: the first with the flow's 5-tuple (`Matches`, `FirstRow`) for `conn`,
`http`, `dns` and `ssl`, the first with the mail's sender for `smtp` (`MailsFrom`, `FirstMail`), whichever
connection that row is of. No two flows of a FlowSet have one 5-tuple; the mails of one sender may differ.

**`FlowSpec`** is the IR as data: one record of fields and defaults per protocol model, and
`IsFlow`, what a document may say: only fields of its kind, of their types, and all that have no default;
`DefaultsAssumption` says that no other constant stands for "no default". **`Renderers`** holds the message script of each of the 23
renderers, with the identifiers (transaction, message, session, tree, file and call numbers)
that relate one message to another, and the sizes; encodings are left out. **`Analyzers`** (external)
is the sensor's side: it relates replies to open requests, learns sessions, trees, handles, binds and
announced ports, and logs what it has read. **`Dialogues`** composes them for one flow of a document:
refused by the loader, refused by the renderer (`Raise`), or delivered message by message
(`Deliver`), the FTP data connection merged by time with its control connection, and judged by
the gate's comparison (`Verdict`). The clock of the control connection runs as the capture's texture paces it
(`Paced`): clean, a pause of 1 to 10 ms and one round trip; realistic, both jittered by 45%, a resend and a
duplicate ACK in addition; conditioned, a lognormal gap before each segment and each confirmation, which any
number of milliseconds may be. The fields of a document have types (`Typed`) as pydantic gives them, so a
size or a count may be negative; a renderer then sends what the code sends, which for a datagram is an empty
one (`Datagram`). An HTTP response carries the method of its request, which Zeek knows and `Page` needs for HEAD.
`DocumentsAssumption` says that a round trip is a natural number of milliseconds, which the code does not check,
and that there are three textures; `PacesAssumption` that every document has a pace its texture allows.

**`Library`** has the 26 attacks of `scenarios.py` as operators, each yielding flows, answer key and
indicators as its builder does, and the five evasions. **`Composer`** has the benign flow makers of
`compose.py`. **`Exercise`** is the `scenario` command: `Build` or `Benign`, `Evade` any number of times
the plan allows, `PickHost` (the search for client addresses), the three loops over phases (`noise`,
`fail`, `fp`), `Weave`, `WriteGroundTruth`, then `run_detection`: an engine that may alert on any flow
from either side (`Detect`), and `Score`. What the program draws is chosen freely.

**`Claims`** is `check()` as functions of a claim set and its flows: the findings, the resolution of
markings by specificity, the census of classes. **`Register`** is `score()` over integers scaled by
`10000 * n^2 * n!`, so that the Murphy decomposition is exact. **`Warrant`** is the command: load, check,
score, manifest, provenance capture, verdict, the optional ones skipped when not asked for.

How they compose: `TcpFlow` with `ZeekConn` in `TcpConversation`; `Renderers` with `Analyzers` in
`Dialogues`; `Library`, `Composer` and the same `Renderers` and `Analyzers` (every flow of a storyline has
to read back) in `Exercise`.

`MC*` modules define the finite instances; `*Proofs` modules hold the theorems.

## 3. Runs

| Run | Result | What it shows |
|---|---|---|
| `conversation` | pass, 254,608 states | All scripts of at most two messages of 0, 1 or 4 bytes, six `conn_state`s (one unsupported), three textures, segments of 2 or 3 bytes, minimum of 1 or 3 segments, four pairs of initial numbers: the series is clean for the reader (`SensorClean`), the summary is the log (`SummaryIsTheLog`), sides alternate (`HalfDuplex`), the close is in step (`ClosedInStep`), it implements `ByteStream`, and the builder ends (`Termination`). |
| `sequence_wrap` | violation | `AlwaysRenders`: an initial number near the top of the field makes a supported conversation raise. |
| `timeline` | pass, 62,668 states | Two calls over every FlowSet of at most three flows (no packet, one packet, ties, stretched and compressed durations, a list that is not in time order as `ftp` builds it, an unknown kind, a raising renderer): `ContextScoped`, and every capture is one `Compiler` allows. |
| `views` | pass, 465,374 states | Captures of at most three packets of five connections (shared ports, an internal pair, link-local, IPv6) through two lists of three sensors, or fragmented at sizes 0, 12 and 16: `ViewsArePure`, `ConnectionsStayWhole`, `Reassembles`. |
| `host_ipv6` | violation | A host sensor keeps IPv6 traffic of other hosts. |
| `nat_collision` | violation | Two connections become one behind a NAT without ports. |
| `gate` | pass, 99,857 states | FlowSets of at most two flows out of ten kinds, or of two mails that share a sender or not and are read as they are, as another or not at all, validated, bundled or bundled blind any number of times in new or used directories, with crashes and a Zeek that may not run: `PassIsEarned`, `NoFalseAlarm`, `ManifestVouches`, `ManifestListsItsLogs`. |
| `stale_gate` | violation | The same gate passes an unsound capture in a directory used for another FlowSet before. |
| `dialogues` | pass, 181,157 states | About 115 documents: every kind of flow with defaults and with the values at the edge of what loads, renders and reads back, negative sizes and counts among them. A flow that loads and renders passes the gate exactly if its capture can say what the flow asks for (`ReadsBack`, with the list of those that never can), files arrive with the bytes announced and asked for (`FilesArriveWhole`), and over IPv4 the FTP port is announced before its data comes (`PortAnnounced`) where the round trip is short for the commands and the texture (`InTime`): in the instance at the last round trip for which it is sure and at one for which it is not, clean and realistic, and conditioned with and without one. |
| `library` | pass, 63,261 states | All 26 attacks with every sequence of at most two evasions; all but the two with most flows, unevaded, with at most two alerts; captures with every benign service in roomy, crowded and too small subnets: `EveryFlowReadsBack`, `AnswerKey`, `NotesTrue`, `TuplesApart`, `DetectionIsFair`, `EvasionsKeepTheStory`, and a capture is composed when the subnet has room (`Composes`). |
| `warrant` | pass, 159,984 states | Claim sets of up to three claims over two flows with dangling, shared and repeated identities, gaps, expectations, quantities, wildcard and nested markings and registers, through the whole command: `PassIsAccounted`, `PassIsSourced`, `CommentsMatchCensus`, `UnlicensedIsVisible`, `PassReadsPass`, `ScoreAddsUp`. |
| `warrant_sourced` | violation | A field marked observed without an existing claim counts as sourced. |

**Bounds.** `conversation`: two messages are enough for every order of two consecutive bursts (same
side, changing side), four bytes for a message that splits into full and partial segments and
that `min_segments` splits further, and a third segment size appears through `MaxSeg`. `SeqMod = 64`
stands for 2^32; `ISNs` holds a small number and one that overflows. `timeline`: `MaxCalls = 2`
because a leak shows in the next call; three flows give every position (first, middle, last) to a
failing one and ties among several. `views`: three packets are both directions of a connection and
a packet of another; a list of three sensors shows what an earlier sensor leaves to a later one.
Fragment size 12 is rounded, 0 is raised to 8, and 21 bytes leave a short last piece. `gate`: two
flows suffice for a flow skipped by `continue` before or after another, and for a mail
found in another's row; the number of calls is not bounded. `dialogues`: a flow is independent of the others, so one at a time suffices; `Gaps` and `Delays` hold
the shortest and longest pace of a clean message for each round trip, the longest of a realistic one that is
just in time (106 + 105 ms), and some between. `library`: the port space is shrunk (`FirstNoise = 1`, `NoiseSpan = 7`,
`FirstStory = 3`, `FirstFp = 5`, `FpSpan = 1`, `FirstFail = 6`, `FailSpan = 2`) so that wrap-around and the
overlap of the ranges happen with a few flows; `MaxScan = 45` lets the search leave a subnet of 22; the
intensities 1%, 100% and 250% take the builders' loops through their minima and maxima; two evasions give
every ordered pair, also a repeated one, such as a second slowing. `warrant`: two flows and two or three claims are what a shared identity, a
shadowed marking or a claim for both needs; registers have up to three forecasts, at 0 and 100 too.

**Fairness and termination.** `TcpConversation` and `Exercise` assume weak fairness of their
next-state relation: both are sequential code in one thread that runs until it returns or raises, and
nothing in it waits. `Timeline`, `Views` and `Warrant` stop when their calls, lists or steps are used up,
so their configurations set `CHECK_DEADLOCK FALSE`, as do those of the conversation; `Gate` never stops,
and `Dialogues` and `Exercise` say where they may (`Concluded`), and these are checked for deadlock: a flow
whose messages cannot be delivered, or a loop of the composer that has no next step, would show.

**Disagreements found.**
1. `sequence_wrap`: SEQ/ACK numbers are not reduced modulo 2^32 (`tcp.py:152-153, 257-258, 281`)
   while the module promises to own that arithmetic.
2. `host_ipv6`: the host filter tests `IP in p` only (`vantage.py:111`), against `vantage.py:7-9`.
3. `nat_collision`: NAT leaves ports alone (`vantage.py:67-75`), so views are not always a
   "Zeek-clean pcap of the same event" (`vantage.py:13-14`).
4. `stale_gate`: `keep_dir` is used as it is found (`roundtrip.py:329`), against
   `roundtrip.py:13-15`.
5. `warrant_sourced`: a marking "observed" that cites no claim, or one that does not exist, is a finding
   but not an invalid mark (`warrant.py:643-645`), so its fields stay in the sourced fraction, against the
   comment at `warrant.py:670-671`. `PassIsSourced` shows that a passing reconstruction is not affected:
   there the finding fails the gate.

Further weaknesses, each a hazard in `PROJECT.json` or an exception named in the property that meets
it: `produces` is satisfied by one row for all flows of that kind; a tshark that fails reads as zero
errors; a mail is looked up by its sender alone (`roundtrip.py:288`, against what lines 259-260 say of content
fields), so two mails of one sender with other subjects or recipients fail a sound capture (`MailsAlike`) and a
mail may pass on the row of another connection (`Vouched`); the header of an exercise's provenance capture says PASS where its manifest says ADVISORY
(`PassReadsPass` speaks of the other direction); source ports of noise flows repeat beyond 53,975 flows
(`Sparse`); one technique is kept per pair of addresses (`PairsShared`); after domain fronting the other
evasions find no beacons (`Blinded`) and write their notes all the same; the note on slowing says 12x after a
second slowing too, when gaps are stretched 144x (`SlowedBy`), and the note on JA3 rotation
(`scenarios.py:1169-1174`) is written where there is no beacon, one, or equal draws, so `NotesTrue` does not
cover it; in a capture that is not clean, FTP data may come long before its port (`InTime`); one flow of the library, `atk-psexec-epm-00`, is in no answer key
(`Unnamed`); a subnet too small sends the search for clients outside it (`Room`). `timeline.py:8` calls the result
"order-independent"; packets at one time keep the order of their flows, which
`docs/DESIGN.md:38-39` and `tests/test_determinism.py:116` read as independence of each flow's
content, and so does `Compiler`.

## 4. Proofs

All are checked by `tlapm`; they hold for every value of the constants that satisfies the named
assumptions (`SegmentAssumption`, `SequenceAssumption`, `ScriptAssumption`, `CallsAssumption`,
`ViewsAssumption`, `GateAssumption`, `DocumentsAssumption`, `PacesAssumption`, `OptionsAssumption`, `PortsAssumption`,
`NoneAssumption`, `ExercisesAssumption`, `DefaultsAssumption`), so for any script, segment size, initial number, texture,
FlowSet, capture, list of sensors, fragment size, number of calls, claim set, register, environment
and exercise.

* `TcpConversationProofs`: `TypeCorrect`, `Clean`, `SummaryAgrees`, `ClosesInStep`, `Alternates`. None
  of these invariants is inductive: that a packet is in order depends on what the reader expects.
  `IInv` therefore says, for every statement of the builder, the reader's state (`WireOK`): during the
  data exchange its acknowledged numbers are `seq` and its expected number of each side is `seq` plus
  the bytes of the current message already on the wire (`InFlight`); `CursorOK` keeps the cursor on
  a boundary; `LetterOK` says that a side that has not retransmitted has no `T` letter and an armed
  reader, which is what makes one retransmission per direction enough for the history; `CountsOK` and
  `ClosedOK` connect the summary. Each action has its step lemma; lemmas on `EndOf`, `LargestStart`
  and `CountFrom` carry the arithmetic.
  Its second part is `Refinement`, that the builder implements `ByteStream`: each action is mapped to a
  step or a stutter under `Confirmed`, which is shown to be `seq - (isn + 1)` while the sides talk.
* `CompilerProofs`: `TypeCorrect` and `Scoped`, whose invariant adds that the tokens hold the defaults;
  and `Refinement`, that `Timeline` implements `Compiler`. Its invariant, `PacketsOK` with
  `Compiled`, says that the list being built holds, flow after flow, the packets each would have alone
  under its own settings (`Places` gives the position of a flow's packets in it); `RescaledFlow` and
  `DivMonotone` are the arithmetic of durations, from the earliest and latest time of a flow (`Extremes`),
  wherever in its list they stand; `SortedIsPermuted` shows that the stable sort is a
  permutation that keeps the packets and their building order at equal times, and `MergeAnswers` that
  what it returns is an answer `Compiler` allows. A raising flow and an unknown kind map to a refusal,
  everything between call and return to a stutter.
* `ViewsProofs`: `TypeCorrect`, `Pure`, `WholeConnections`, `Reassembly`. For projection the invariant
  (`ProjectOK`) says that the list being built is what its sensor should show of the packets passed so
  far (`Seen`), and that finished views are so for the whole capture; the shared packets stay as compiled
  (`CaptureOK`), which is the point of the copy in the code. `ConnectionShown` and `SameOrOpposite` show that
  filters and NAT treat the packets of one pair of endpoints alike. For fragmentation `SplitOK` says that
  the pieces of the first datagrams lie in the list in order (`Laid`, `Follows`), with `Pieced` and
  `PieceFacts` for the arithmetic of 8-byte units; `ReadOK` says what the reassembling sensor holds after each
  fragment (`HeldOK`): the pieces so far of the datagram it is in and nothing else, which is why equal ids
  do no harm in a capture that is in order.
* `GateProofs`: `TypeCorrect`, `PassEarned`, `SoundPasses`, `ManifestTrue`, `ManifestComplete`, under
  `Careful`: a directory is used for one FlowSet and tshark runs (`stale_gate` shows why the first is
  needed; without the second a failing tshark reads as no errors). The invariant describes the directory
  over any history of calls and crashes (`DirectoryOK`: logs are of this capture or absent), what the report
  adds up to for the flows already compared (`ReportOK`), what a verdict says (`VerdictOK`) and what a
  manifest that fits its capture was written from (`ManifestOK`). A pass shows `Vouched`, which is less than
  `Sound` where mails are concerned, and `SoundPasses` needs `MailsAlike`: neither is an assumption, both are in
  the properties.

* `RegisterProofs`: what `score` adds up, for a register of any length. `MurphyIdentity` is what lies
  behind `ScoreAddsUp`: forecasts are grouped by their probability, and the reliability, resolution and
  uncertainty of the groups make the Brier score exactly, in the scaled integers of the model. Sums over
  sets are folds, so each lemma about them (adding an element, summing group by group) is an induction:
  `NatSteps` and `SetSteps` state it for a *set* of good cases instead of a predicate and follow from
  least counterexamples, which the library's theorems on well-founded relations give without an operator
  parameter.
* `WarrantProofs`: `TypeCorrect`, `EverythingIsAccounted`, `PassHasSources`, `CommentsAgree`,
  `UnlicensedShows`, `PassMeansPass`, `ScoreIsExact`, for any claim sets, FlowSets and registers. Lemmas say
  what each choice of `check` chooses (`CitedIs`, `BestLicenceIs`, the most specific marking), and that the
  census and the comments of a capture class the fields of a flow alike (`CommentsMatchCensus` compares two
  pieces of code). The invariant says of each document already written what it was computed from (`Told`,
  `Filed`, `Scored`), which is what lets a statement about the report speak of the manifest and the capture.
* `ExerciseProofs`: `WellFormed`, `StoryKept`, `EveryFlowReads`, `KeyIsRight`, `CreditIsFair`,
  `ConnectionsApart`, `NotesAreTrue`. Each of the
  26 builders is shown to give an attack (`IsAttack`, `BuiltIs`): ports of the flow model, taken once,
  identities that do not repeat, an entry for every flow but one, and addresses that are no client's unless
  they are a host of the storyline. Evasions keep that (`Kept`, `EvadedIs`). The invariant says in addition
  where the clients come from (`ClientsFound`), which flow of which loop every flow around the attack is
  (`Surrounded`, with its turn, from which its port follows) and what the alerts so far add up to
  (`Settled`). TLC checked it on the run's instance before it was proved. The ports of the three loops are
  apart within `Sparse` for any ranges that `PortsAssumption` admits, so also for those of the code.
  `NotesAreTrue` has an invariant of its own (`NInv`) over the attack and the evasions applied to it: the
  channels of an attack that knows its C2 domain name it until fronting renames all of them (`Pinned`), so
  an evasion finds all channels or, after fronting, none (`C2Are`), and a note on ports that moved nothing
  is one written after fronting (`Unseen`). That the gaps are those of a
  storyline times 12 for each slowing is a second invariant (`PInv`, `Paced`): an evasion keeps all times or
  stretches every gap, and the number of slowings rises with it; `Power` is a recursive function, whose table
  exists and is unique by least counterexample (`PowersExist`, `PowersAgree`).
  `EveryFlowReads` needs no invariant beyond that one, because `StoryFlow` and `Around` carry `Reads`: a flow of
  the storyline loads, renders and is sayable when it is built and after each evasion, a flow of the noise
  when it is made. For each kind of flow one lemma (`Fits`) says which given fields are enough, so each
  builder has to show only what it gives; an evasion changes fields that leave these alone (`KeptIs`).

* `DialoguesProofs`: `TypesHold`, `PortsAnnounced`, `ReadsBackHolds`, `FilesArrive`, for any documents and any
  pace a texture allows: any number of recipients, commands, searches, operations or repetitions, any sizes, negative ones
  too. The invariant says that what Zeek has read is a run of its analyzer over what has been delivered of the
  flow's script (`Runs`, `Progress`), within a bound on the clock (`Bounded`, from `PacedIs` for clean and realistic captures and
  for a round trip of 0) by which the announcement of an FTP port precedes its data (`PortHeard`). A verdict compares what a run over a *whole* script leaves, so the rest is
  one lemma per protocol that follows the analyzer through the script: `MailRead`, `TransferRead`,
  `CountedRead`, `PageRead`, `SharesRead`, `CallsRead` and so on, with `AllJudged` for the 23 kinds together.
  They rest on three layers. `FlattenSeq` is a recursive function that TLAPS cannot induct over with the
  library's theorems, so `TableExists` builds its table of partial joins by least counterexample
  (`NatSteps`) and `Milestones` cuts a run over joined blocks into runs over the blocks. `PlainFields`,
  `SmbFields`, `RpcFields` and `PageFields` say what one message does to each field of a reader. `SmbPair`,
  `PipedCall`, `ExchangeCalm` and their like say what a request and its answer do: the session, tree and
  handle that a reply gives are those the next request needs, and a call's number is new because all numbers
  so far are smaller (`InCall`). The data connection of FTP may change the files between any two messages,
  which is why runs on an FTP flow are up to the files (`Same`).

Only model-checked:
* `Termination` and `Composes`: liveness is outside the prover's reach.

## 5. Not modelled

* Byte encodings, wording and hashes: the bytes inside a message (`renderers/*` beyond scripts and
  sizes), fingerprint tables (`fingerprints/`), pcapng blocks, JSON layout. They have no state, and the
  identifiers that matter across messages are in `Renderers`.
* The clock inside a TCP conversation in `TcpFlow` (`Dialogues` keeps it, by the message), and the distributions of `compose.py` (arrival times, sizes,
  operating systems): free choices or left out.
* `ingest/` and `validation/ef_roundtrip.py`: they map the logs of another program, whose records are not in
  the repository, and compute shares of matches; the gate they run on the result is `Gate`.
* `corpus.py`, `scorecard.py`, `evaluate.py`, `report.py`, `environments/`: loops over captures and tables of
  hashes and scores, YAML profiles. The crash between captures and manifest is listed as a hazard; the
  order is that of `write_bundle`, which is modelled.
* `detection_ci.py`, `sigma.py`, `signatures.py` and the benchmarks: they run `run_detection`, which is
  modelled, over more inputs, or rewrite the text of rules.
* Realism and transfer studies (`realism.py`, `transfer.py`, `crossval.py`, ...): classifiers and distances
  over feature vectors, numeric and without reachable states to speak of.
* Argument parsing in `cli/`; the orders of calls of `scenario` and `warrant` are in the models, that of
  `generate --vantages --validate` is a hazard without a property.
* `gate_pcap`, the variant of the gate without a FlowSet, and the outer headers of a mirrored frame.

Assumed rather than checked, because the IR does not enforce it: durations, segment sizes and round trips are not
negative, the two ends of a flow have different addresses (`compose_scenario` with a single host breaks
this), and keys of a FlowSet in `Gate` are distinct, which `TuplesApart` shows for captures of the composer
within its bounds.

## 6. What is left

In the order of use: the outer headers of mirrored frames in `Vantage` (their ports hash changing bytes,
`vantage.py:142`); `gate_pcap` as a second caller in `Gate`; `Corpus` as a sequence of bundles under one
manifest with crashes; sampling and keys of the ingest.
Every safety and action property that a passing run checks has its theorem; of the proofs, what is left
is what the prover cannot reach.
