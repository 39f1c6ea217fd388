-------------------------------- MODULE Gate --------------------------------
(***************************************************************************)
(* validation/roundtrip.py (validate_flowset) and bundle.py (write_bundle):*)
(* the gate compiles a FlowSet, lets Zeek and tshark read the capture in a *)
(* directory, and compares Zeek's logs with what the renderers said they   *)
(* emitted; a bundle leaves that directory behind with a manifest, and is  *)
(* written without any check where the tools are missing.  The directory   *)
(* may be new or may hold an earlier run, the process may die between two  *)
(* statements, and a tool that fails is not noticed (check=False).         *)
(*                                                                         *)
(* A FlowSet is [flows, weird, expert]: what the two tools make of its     *)
(* capture is a function of the capture.  A flow is [key, skip, seen, l7,  *)
(* check, l7seen, mail, read]: the 5-tuple, whether its conn.log row is    *)
(* left out of the check (skip_conn), whether Zeek's row agrees with the   *)
(* expectation, differs or is missing, the analyzer log it is checked in,  *)
(* how, and what Zeek's row there is like.  `check` is "row" where the row *)
(* of the flow's 5-tuple is compared (http, dns, ssl), "sender" where the  *)
(* first row of the mail's sender is (smtp), "log" where the log has to be *)
(* there at all (`produces`), and "none".  A mail is [from, says]: `mail`  *)
(* is the one expected, `read` the one Zeek's row of the flow tells of.    *)
(***************************************************************************)
EXTENDS Integers, Sequences, FiniteSets

CONSTANTS FlowSets,         \* what callers validate or bundle
          None,
          Reuse,            \* which FlowSets may be run in a used directory:
                            \* "same" as before, or "any"
          ZeekRuns, TsharkRuns  \* whether a run of the tool may fail: {TRUE} or BOOLEAN

\* A flow whose conn.log row is not checked names a log that must appear; smtp.log, and no
\* other, is searched by sender; no two flows of a FlowSet have one 5-tuple; a capture without
\* flows gives the tools nothing to complain about.
ASSUME GateAssumption ==
  /\ Reuse \in {"same", "any"}
  /\ TRUE \in ZeekRuns /\ ZeekRuns \subseteq BOOLEAN
  /\ TRUE \in TsharkRuns /\ TsharkRuns \subseteq BOOLEAN
  /\ None \notin FlowSets /\ None \notin BOOLEAN
  /\ \A s \in FlowSets :
       /\ s.weird \in BOOLEAN /\ s.expert \in BOOLEAN
       /\ Len(s.flows) \in Nat /\ DOMAIN s.flows = 1..Len(s.flows)
       /\ Len(s.flows) = 0 => ~s.weird /\ ~s.expert
       /\ \A i, j \in DOMAIN s.flows : s.flows[i].key = s.flows[j].key => i = j
       /\ \A i \in DOMAIN s.flows :
            LET f == s.flows[i]
            IN  /\ f.skip \in BOOLEAN
                /\ f.check \in {"none", "row", "sender", "log"}
                /\ f.check = "none" <=> f.l7 = None
                /\ f.check = "sender" <=> f.l7 = "smtp"
                /\ f.check = "sender" /\ f.l7seen # "missing" =>
                     (f.l7seen = "agrees" <=> f.read = f.mail)
                /\ f.l7 \notin {"conn", "weird"}
                /\ f.skip => f.check = "log"

VARIABLES pc, fs,
          mode,             \* "validate", "bundle", or "blind": a bundle without the tools
          pcap,             \* whose capture capture.pcap holds
          files,            \* the .log files of the directory, name -> rows
          manifest,         \* manifest.json
          report,           \* the ValidationReport
          next              \* the flow being compared

vars == <<pc, fs, mode, pcap, files, manifest, report, next>>

-----------------------------------------------------------------------------
(* External: the logs Zeek writes for a capture, in the order of its flows. *)

Row(f, seen) == [key |-> f.key, agrees |-> seen = "agrees", mail |-> f.read]

\* The rows of a log, by the positions of their flows.
Logged(s, log) ==
  {i \in DOMAIN s.flows : LET f == s.flows[i]
                          IN  IF log = "conn" THEN ~f.skip /\ f.seen # "missing"
                              ELSE f.l7 = log /\ f.l7seen # "missing"}

RowsIn(s, log) ==
  [i \in Logged(s, log) |->
     Row(s.flows[i], IF log = "conn" THEN s.flows[i].seen ELSE s.flows[i].l7seen)]

Analyzers(s) == {s.flows[i].l7 : i \in DOMAIN s.flows} \ {None}

\* A log without a row is not written.
LogsOf(s) ==
  LET names == {n \in {"conn"} \cup Analyzers(s) : Logged(s, n) # {}}
               \cup (IF s.weird THEN {"weird"} ELSE {})
  IN  [n \in names |-> IF n = "weird" THEN <<"weird">> ELSE RowsIn(s, n)]

-----------------------------------------------------------------------------
NoReport == [weird |-> FALSE, expert |-> FALSE, matched |-> 0, mismatched |-> FALSE,
             ok |-> FALSE]

Init == /\ pc = "idle" /\ fs = None /\ mode = "validate"
        /\ pcap = None /\ files = <<>> /\ manifest = None
        /\ report = NoReport /\ next = 1

NewDirectory == pcap' = None /\ files' = <<>> /\ manifest' = None

\* Mutant: the report of the call before is kept.
StartKeepsReport == /\ pc = "idle"
                    /\ fs' \in FlowSets
                    /\ mode' \in {"validate", "bundle", "blind"}
                    /\ NewDirectory \/ (fs' = fs /\ UNCHANGED <<pcap, files, manifest>>)
                    /\ next' = 1
                    /\ pc' = "write"
                    /\ UNCHANGED report

\* In a new directory (mkdtemp, or a --keep-dir or bundle that is new), or in one
\* that is already there: mkdir(exist_ok=True) leaves its files.  Without the tools
\* validate_flowset raises at once.
Start == /\ pc = "idle"
         /\ fs' \in FlowSets
         /\ mode' \in {"validate", "bundle", "blind"}
         /\ \/ NewDirectory
            \/ /\ fs # None
               /\ Reuse = "any" \/ fs' = fs
               /\ UNCHANGED <<pcap, files, manifest>>
         /\ report' = NoReport /\ next' = 1
         /\ pc' = "write"

WriteCapture == /\ pc = "write"
                /\ pcap' = fs
                /\ pc' = IF mode = "blind" THEN "manifest" ELSE "zeek"
                /\ UNCHANGED <<fs, mode, files, manifest, report, next>>

Overwritten(new) == [n \in DOMAIN files \cup DOMAIN new |->
                       IF n \in DOMAIN new THEN new[n] ELSE files[n]]

\* _run_zeek: the logs of the capture replace files of the same name, no others; a
\* Zeek that fails to run writes none.  The weird and reporter rows are counted next.
RunZeek == /\ pc = "zeek"
           /\ \E ran \in ZeekRuns : files' = Overwritten(IF ran THEN LogsOf(pcap) ELSE <<>>)
           /\ report' = [report EXCEPT !.weird = "weird" \in DOMAIN files']
           /\ pc' = "tshark"
           /\ UNCHANGED <<fs, mode, pcap, manifest, next>>

\* _run_tshark_expert: the output of a tshark that fails counts as no error.
RunTshark == /\ pc = "tshark"
             /\ \E ran \in TsharkRuns :
                  report' = [report EXCEPT !.expert = ran /\ pcap.expert]
             /\ pc' = "compare"
             /\ UNCHANGED <<fs, mode, pcap, files, manifest, next>>

RowsOf(log) == IF log \in DOMAIN files THEN files[log] ELSE <<>>

\* The first of some rows of a log; no search removes the row it finds.
FirstOf(log, rows) == RowsOf(log)[CHOOSE i \in rows : \A j \in rows : i <= j]

\* _find_conn and _l7_row_for take the first row with the flow's key.
Matches(log, key) == {i \in DOMAIN RowsOf(log) : RowsOf(log)[i].key = key}
Found(log, key) == Matches(log, key) # {}
FirstRow(log, key) == FirstOf(log, Matches(log, key))

\* _diff_smtp takes the first row with the mail's sender, whichever connection it is of.
MailsFrom(sender) == {i \in DOMAIN RowsOf("smtp") : RowsOf("smtp")[i].mail.from = sender}
FirstMail(sender) == FirstOf("smtp", MailsFrom(sender)).mail

\* Mutant: a flow without a conn.log check still needs the row.
ConnFoundAlways(f) == Found("conn", f.key)

ConnFound(f) == f.skip \/ Found("conn", f.key)
ConnMismatch(f) == ~f.skip /\ ~FirstRow("conn", f.key).agrees
\* Mutant: only a row that is there can disagree.
RowMismatchIfThere(f) == /\ f.check = "row"
                         /\ Found(f.l7, f.key) /\ ~FirstRow(f.l7, f.key).agrees

RowMismatch(f) == /\ f.check = "row"
                  /\ ~Found(f.l7, f.key) \/ ~FirstRow(f.l7, f.key).agrees
MailMismatch(f) == /\ f.check = "sender"
                   /\ MailsFrom(f.mail.from) = {} \/ FirstMail(f.mail.from) # f.mail
LogMissing(f) == f.check = "log" /\ DOMAIN RowsOf(f.l7) = {}

\* Without a conn.log row the flow is not matched and nothing else of it is checked.
Compare ==
  /\ pc = "compare"
  /\ next <= Len(fs.flows)
  /\ LET f == fs.flows[next]
     IN  report' = IF ConnFound(f)
                   THEN [report EXCEPT !.matched = @ + 1,
                           !.mismatched = @ \/ ConnMismatch(f) \/ RowMismatch(f)
                                            \/ MailMismatch(f) \/ LogMissing(f)]
                   ELSE [report EXCEPT !.mismatched = TRUE]
  /\ next' = next + 1
  /\ UNCHANGED <<pc, fs, mode, pcap, files, manifest>>

Passed == /\ ~report.weird /\ ~report.expert
          /\ report.matched = Len(fs.flows)
          /\ ~report.mismatched

Conclude == /\ pc = "compare"
            /\ next > Len(fs.flows)
            /\ report' = [report EXCEPT !.ok = Passed]
            /\ pc' = IF mode = "bundle" THEN "manifest" ELSE "reported"
            /\ UNCHANGED <<fs, mode, pcap, files, manifest, next>>

\* Mutant: the manifest says ok when every flow was matched.
WriteManifestMatched ==
  /\ pc = "manifest"
  /\ manifest' = [capture |-> pcap, logs |-> DOMAIN files,
                  ok |-> IF mode = "blind" THEN None ELSE report.matched = Len(fs.flows)]
  /\ pc' = "reported"
  /\ UNCHANGED <<fs, mode, pcap, files, report, next>>

\* Mutant: the logs are listed from the flows, not from the directory.
WriteManifestPlanned ==
  /\ pc = "manifest"
  /\ manifest' = [capture |-> pcap, logs |-> {"conn"} \cup Analyzers(fs),
                  ok |-> IF mode = "blind" THEN None ELSE report.ok]
  /\ pc' = "reported"
  /\ UNCHANGED <<fs, mode, pcap, files, report, next>>

\* write_bundle: every .log of the directory is listed.
WriteManifest == /\ pc = "manifest"
                 /\ manifest' = [capture |-> pcap, logs |-> DOMAIN files,
                                 ok |-> IF mode = "blind" THEN None ELSE report.ok]
                 /\ pc' = "reported"
                 /\ UNCHANGED <<fs, mode, pcap, files, report, next>>

Return == /\ pc = "reported"
          /\ pc' = "idle"
          /\ UNCHANGED <<fs, mode, pcap, files, manifest, report, next>>

\* The process dies; the directory stays, with half a capture if that was being written.
Crash == /\ pc \notin {"idle", "reported"}
         /\ pc' = "idle"
         /\ pcap' \in {pcap} \cup (IF pc = "write" THEN {None} ELSE {})
         /\ report' = NoReport
         /\ UNCHANGED <<fs, mode, files, manifest, next>>

Next == Start \/ WriteCapture \/ RunZeek \/ RunTshark \/ Compare \/ Conclude
        \/ WriteManifest \/ Return \/ Crash

Spec == Init /\ [][Next]_vars

-----------------------------------------------------------------------------
(* Properties. *)

\* What the renderers said of a flow is in the logs of the capture, and both tools find it
\* clean: the conn.log row of each flow, the row of its http, dns or ssl log, the row of its
\* own mail, and at least one row of each log that some flow must produce.
InLogs(s, f) ==
  /\ f.skip \/ f.seen = "agrees"
  /\ f.check = "row" => f.l7seen = "agrees"
  /\ f.check = "log" => \E j \in DOMAIN s.flows : /\ s.flows[j].l7 = f.l7
                                                 /\ s.flows[j].l7seen # "missing"
MailRead(f) == f.check = "sender" => f.l7seen = "agrees"
Clean(s) == ~s.weird /\ ~s.expert
Sound(s) == Clean(s) /\ \A i \in DOMAIN s.flows : InLogs(s, s.flows[i]) /\ MailRead(s.flows[i])

\* What the gate can vouch for is less: as a mail is looked up by its sender, the row that
\* agrees with it may be that of another connection.
MailSeen(s, f) ==
  f.check = "sender" => \E j \in DOMAIN s.flows : /\ s.flows[j].l7 = f.l7
                                                 /\ s.flows[j].l7seen # "missing"
                                                 /\ s.flows[j].read = f.mail
Vouched(s) ==
  Clean(s) /\ \A i \in DOMAIN s.flows : InLogs(s, s.flows[i]) /\ MailSeen(s, s.flows[i])

\* And it can recognise the mails of one sender only if they are alike: two that differ are
\* compared with one row, against what _l7_row_for says of matching on a content field
\* (roundtrip.py:259-260).
MailsAlike(s) ==
  \A i, j \in DOMAIN s.flows :
    /\ s.flows[i].check = "sender" /\ s.flows[j].check = "sender"
    /\ s.flows[i].mail.from = s.flows[j].mail.from
    => s.flows[i].mail = s.flows[j].mail

\* The state has its type; a flow is counted at most once, and only after it was looked at.
TypeOK == /\ pc \in {"idle", "write", "zeek", "tshark", "compare", "manifest", "reported"}
          /\ mode \in {"validate", "bundle", "blind"}
          /\ next \in 1..(IF fs = None THEN 1 ELSE Len(fs.flows) + 1)
          /\ report.matched \in 0..(next - 1)
          /\ {report.weird, report.expert, report.mismatched, report.ok} \subseteq BOOLEAN

\* "If all three hold, the synthetic packets are valid and the log layer Zeek derives
\* from them agrees with PacketForge's own view" (roundtrip.py:13-15): what the gate passes
\* is in the logs of this capture as predicted, whatever an earlier or interrupted run left
\* in the directory; a mail may have been found in the row of another of its sender.
PassIsEarned == pc = "reported" /\ report.ok => Vouched(fs)

\* The converse: the gate passes every sound capture whose logs Zeek wrote, also when it
\* runs again over its own earlier output, unless two mails of one sender differ in subject
\* or recipients: a capture with such mails fails however sound it is.
NoFalseAlarm == /\ pc = "reported" /\ mode # "blind"
                /\ Sound(fs) /\ MailsAlike(fs) /\ DOMAIN LogsOf(fs) \subseteq DOMAIN files
                => report.ok

\* The manifest "tells you the packets and their Zeek logs agree" (bundle.py:8-10): one
\* whose hash is that of the capture beside it, and that says ok, is right about it at
\* any time, with crashes and repeated runs, as far as a pass vouches for it.
ManifestVouches ==
  manifest # None => (manifest.capture = pcap /\ manifest.ok = TRUE => Vouched(pcap))

\* The bundle holds "the exact Zeek logs it produces" (bundle.py:5-6).
ManifestListsItsLogs ==
  manifest # None => (manifest.capture = pcap /\ manifest.ok = TRUE
                        => manifest.logs = DOMAIN LogsOf(pcap))
=============================================================================
