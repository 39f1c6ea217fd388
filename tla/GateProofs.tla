----------------------------- MODULE GateProofs -----------------------------
(***************************************************************************)
(* Proofs about Gate for every FlowSet and every history of a directory:   *)
(* calls, crashes and a Zeek that may not run, as long as a directory is   *)
(* used for one FlowSet only and tshark runs.  The invariant says what the *)
(* directory can hold and what the flows compared so far add up to.        *)
(***************************************************************************)
EXTENDS Gate, WellFoundedInduction, TLAPS

Careful == Reuse = "same" /\ TsharkRuns = {TRUE}

Good(f) == /\ ConnFound(f) /\ ~ConnMismatch(f)
           /\ ~RowMismatch(f) /\ ~MailMismatch(f) /\ ~LogMissing(f)

\* The directory is new, or has the logs of its FlowSet.
DirectoryOK == /\ fs = None \/ fs \in FlowSets
               /\ pc # "idle" => fs \in FlowSets
               /\ files = <<>> \/ (fs \in FlowSets /\ files = LogsOf(fs))
               /\ pc \in {"zeek", "tshark", "compare", "manifest", "reported"} => pcap = fs

\* The report holds what was read and compared so far.
ReportOK == /\ pc = "write" => report = NoReport
            /\ pc \in {"write", "zeek", "tshark"} => next = 1 /\ report.matched = 0
                                                     /\ report.mismatched = FALSE
            /\ pc \in {"tshark", "compare"} => report.weird = ("weird" \in DOMAIN files)
            /\ pc = "compare" =>
                 /\ report.expert = fs.expert
                 /\ ~report.mismatched => /\ report.matched = next - 1
                                          /\ \A i \in 1..(next - 1) : Good(fs.flows[i])
                 /\ report.mismatched => \E i \in 1..(next - 1) : ~Good(fs.flows[i])
            /\ pc \in {"zeek", "tshark", "compare"} => report.ok = FALSE /\ mode # "blind"

\* A verdict is right in both directions.
VerdictOK == pc \in {"manifest", "reported"} =>
               /\ report.ok => Vouched(fs) /\ DOMAIN files = DOMAIN LogsOf(fs)
               /\ /\ mode # "blind" /\ Sound(fs) /\ MailsAlike(fs)
                  /\ DOMAIN LogsOf(fs) \subseteq DOMAIN files
                  => report.ok
               /\ mode = "blind" => report.ok = FALSE

\* And so is a manifest, about the capture whose hash it holds.
ManifestOK == manifest # None /\ manifest.ok = TRUE =>
                /\ Vouched(manifest.capture)
                /\ manifest.logs = DOMAIN LogsOf(manifest.capture)

RecordOK == /\ report.weird \in BOOLEAN /\ report.expert \in BOOLEAN
            /\ report.mismatched \in BOOLEAN /\ report.ok \in BOOLEAN
            /\ report = [weird |-> report.weird, expert |-> report.expert,
                         matched |-> report.matched, mismatched |-> report.mismatched,
                         ok |-> report.ok]

IInv == TypeOK /\ RecordOK /\ DirectoryOK /\ ReportOK /\ VerdictOK /\ ManifestOK

-----------------------------------------------------------------------------
(* What the logs of a FlowSet say about its flows. *)

LEMMA LogDomain ==
  ASSUME NEW s \in FlowSets, NEW log, log # "weird"
  PROVE  log \in DOMAIN LogsOf(s) <=> log \in {"conn"} \cup Analyzers(s) /\ Logged(s, log) # {}
BY DEF LogsOf

LEMMA WeirdDomain ==
  ASSUME NEW s \in FlowSets
  PROVE  "weird" \in DOMAIN LogsOf(s) <=> s.weird
<1>1. "weird" \notin {"conn"} \cup Analyzers(s)
  BY GateAssumption DEF Analyzers
<1> QED
  BY <1>1, GateAssumption DEF LogsOf

LEMMA LogRows ==
  ASSUME NEW s \in FlowSets, NEW log \in DOMAIN LogsOf(s), log # "weird"
  PROVE  LogsOf(s)[log] = RowsIn(s, log)
BY DEF LogsOf

\* A log has a row for a flow exactly if Zeek logged it there, and it is the flow's own.
LEMMA OwnRow ==
  ASSUME NEW s \in FlowSets, files = LogsOf(s), NEW i \in DOMAIN s.flows, NEW log,
         log \in {"conn"} \cup Analyzers(s)
  PROVE  /\ Found(log, s.flows[i].key) <=> i \in Logged(s, log)
         /\ i \in Logged(s, log) => FirstRow(log, s.flows[i].key) = RowsIn(s, log)[i]
         /\ DOMAIN RowsOf(log) = Logged(s, log)
<1>1. log # "weird"
  BY GateAssumption DEF Analyzers
<1>2. RowsOf(log) = IF Logged(s, log) # {} THEN RowsIn(s, log) ELSE <<>>
  BY <1>1, LogDomain, LogRows DEF RowsOf
<1>3. DOMAIN RowsOf(log) = Logged(s, log)
  BY <1>2 DEF RowsIn
<1>4. \A j \in Logged(s, log) : /\ RowsOf(log)[j] = RowsIn(s, log)[j]
                                /\ RowsOf(log)[j].key = s.flows[j].key
  BY <1>2 DEF RowsIn, Row
<1>5. Logged(s, log) \subseteq DOMAIN s.flows
  BY DEF Logged
<1>6. Matches(log, s.flows[i].key) = IF i \in Logged(s, log) THEN {i} ELSE {}
  <2>1. \A j \in DOMAIN s.flows : s.flows[j].key = s.flows[i].key => j = i
    BY GateAssumption
  <2> QED
    BY <1>3, <1>4, <1>5, <2>1 DEF Matches
<1>7. DOMAIN s.flows = 1..Len(s.flows) /\ Len(s.flows) \in Nat
  BY GateAssumption
<1>8. i \in Logged(s, log) => FirstRow(log, s.flows[i].key) = RowsOf(log)[i]
  <2> SUFFICES ASSUME i \in Logged(s, log)
               PROVE  FirstRow(log, s.flows[i].key) = RowsOf(log)[i]
    OBVIOUS
  <2>1. Matches(log, s.flows[i].key) = {i}
    BY <1>6
  <2>2. (CHOOSE k \in {i} : \A j \in {i} : k <= j) = i
    BY <1>7
  <2> QED
    BY <2>1, <2>2 DEF FirstRow, FirstOf
<1> QED
  BY <1>3, <1>4, <1>6, <1>8 DEF Found

LEMMA LeastNat ==
  ASSUME NEW T \in SUBSET Nat, T # {}
  PROVE  \E x \in T : \A y \in T : x <= y
<1>1. PICK x \in T : \A y \in T : ~(<<y, x>> \in OpToRel(<, Nat))
  BY NatLessThanWellFounded, WFMin
<1>2. \A y \in T : ~(y < x)
  BY <1>1 DEF OpToRel
<1> QED
  BY <1>2

\* The first mail of a sender is one that Zeek logged for a flow, maybe another's.
LEMMA SomeMail ==
  ASSUME NEW s \in FlowSets, files = LogsOf(s), NEW i \in DOMAIN s.flows,
         s.flows[i].check = "sender"
  PROVE  LET f == s.flows[i]
         IN  /\ MailsFrom(f.mail.from) # {} =>
                  \E j \in Logged(s, "smtp") : /\ s.flows[j].read.from = f.mail.from
                                               /\ FirstMail(f.mail.from) = s.flows[j].read
             /\ i \in Logged(s, "smtp") /\ f.read.from = f.mail.from => MailsFrom(f.mail.from) # {}
<1> DEFINE f == s.flows[i]
           from == MailsFrom(f.mail.from)
<1>1. f.l7 = "smtp" /\ f.l7 # None /\ "smtp" \in Analyzers(s)
  <2>1. f.l7 = "smtp" /\ f.l7 # None
    BY GateAssumption
  <2> QED
    BY <2>1 DEF Analyzers
<1>2. DOMAIN RowsOf("smtp") = Logged(s, "smtp")
  BY <1>1, OwnRow
<1>3. RowsOf("smtp") = IF Logged(s, "smtp") # {} THEN RowsIn(s, "smtp") ELSE <<>>
  BY <1>1, LogDomain, LogRows DEF RowsOf
<1>4. \A j \in Logged(s, "smtp") : RowsOf("smtp")[j].mail = s.flows[j].read
  BY <1>3 DEF RowsIn, Row
<1>5. from = {j \in Logged(s, "smtp") : s.flows[j].read.from = f.mail.from}
  BY <1>2, <1>4 DEF MailsFrom
<1>6. from \in SUBSET Nat
  BY <1>5, GateAssumption DEF Logged
<1> HIDE DEF from
<1>7. from # {} => \E j \in from : FirstMail(f.mail.from) = RowsOf("smtp")[j].mail
  <2> SUFFICES ASSUME from # {}
               PROVE  \E j \in from : FirstMail(f.mail.from) = RowsOf("smtp")[j].mail
    OBVIOUS
  <2> DEFINE first == CHOOSE j \in from : \A k \in from : j <= k
  <2>1. first \in from
    BY <1>6, LeastNat
  <2>2. FirstMail(f.mail.from) = RowsOf("smtp")[first].mail
    BY DEF FirstMail, FirstOf, from
  <2> QED
    BY <2>1, <2>2
<1> QED
  BY <1>4, <1>5, <1>7 DEF from

\* With its own logs, a flow that is found good is in them, its mail at least in some row; and
\* if every mail is read as it is and mails of one sender are alike, the flow is found good.
LEMMA GoodInLogs ==
  ASSUME NEW s \in FlowSets, files = LogsOf(s), NEW i \in DOMAIN s.flows
  PROVE  /\ Good(s.flows[i]) => InLogs(s, s.flows[i]) /\ MailSeen(s, s.flows[i])
         /\ /\ InLogs(s, s.flows[i]) /\ MailsAlike(s)
            /\ \A j \in DOMAIN s.flows : MailRead(s.flows[j])
            => Good(s.flows[i])
<1> DEFINE f == s.flows[i]
<1>1. /\ f.skip \in BOOLEAN /\ f.l7 \notin {"conn", "weird"}
      /\ f.check \in {"none", "row", "sender", "log"}
      /\ f.skip => f.check = "log"
      /\ f.check # "none" => f.l7 # None
      /\ f.check = "sender" => f.l7 = "smtp"
  BY GateAssumption
<1>2. ConnFound(f) /\ ~ConnMismatch(f) <=> f.skip \/ f.seen = "agrees"
  <2>1. i \in Logged(s, "conn") <=> ~f.skip /\ f.seen # "missing"
    BY DEF Logged
  <2>2. i \in Logged(s, "conn") => RowsIn(s, "conn")[i].agrees = (f.seen = "agrees")
    BY DEF RowsIn, Row
  <2> QED
    BY <1>1, <2>1, <2>2, OwnRow DEF ConnFound, ConnMismatch
<1>3. ~RowMismatch(f) <=> (f.check = "row" => f.l7seen = "agrees")
  <2>1. CASE f.check # "row"
    BY <2>1 DEF RowMismatch
  <2>2. CASE f.check = "row"
    <3>1. f.l7 \in Analyzers(s)
      BY <1>1, <2>2 DEF Analyzers
    <3>2. i \in Logged(s, f.l7) <=> f.l7seen # "missing"
      BY <1>1 DEF Logged
    <3>3. i \in Logged(s, f.l7) => RowsIn(s, f.l7)[i].agrees = (f.l7seen = "agrees")
      BY <1>1 DEF RowsIn, Row
    <3> QED
      BY <2>2, <3>1, <3>2, <3>3, OwnRow DEF RowMismatch
  <2> QED
    BY <2>1, <2>2
<1>4. ~LogMissing(f) <=> (f.check = "log" =>
        \E j \in DOMAIN s.flows : s.flows[j].l7 = f.l7 /\ s.flows[j].l7seen # "missing")
  <2>1. CASE f.check # "log"
    BY <2>1 DEF LogMissing
  <2>2. CASE f.check = "log"
    <3>1. f.l7 \in Analyzers(s)
      BY <1>1, <2>2 DEF Analyzers
    <3>2. DOMAIN RowsOf(f.l7) = Logged(s, f.l7)
      BY <3>1, OwnRow
    <3>3. Logged(s, f.l7) # {} <=>
            \E j \in DOMAIN s.flows : s.flows[j].l7 = f.l7 /\ s.flows[j].l7seen # "missing"
      BY <1>1 DEF Logged
    <3> QED
      BY <2>2, <3>2, <3>3 DEF LogMissing
  <2> QED
    BY <2>1, <2>2
<1>5. ~MailMismatch(f) => MailSeen(s, f)
  <2> SUFFICES ASSUME f.check = "sender", ~MailMismatch(f)
               PROVE  \E j \in DOMAIN s.flows : /\ s.flows[j].l7 = f.l7
                                                /\ s.flows[j].l7seen # "missing"
                                                /\ s.flows[j].read = f.mail
    BY DEF MailSeen
  <2>1. PICK j \in Logged(s, "smtp") : FirstMail(f.mail.from) = s.flows[j].read
    BY SomeMail DEF MailMismatch
  <2>2. s.flows[j].read = f.mail
    BY <2>1 DEF MailMismatch
  <2> QED
    BY <1>1, <2>1, <2>2 DEF Logged
<1>6. ASSUME MailsAlike(s), \A j \in DOMAIN s.flows : MailRead(s.flows[j])
      PROVE  ~MailMismatch(f)
  <2> SUFFICES ASSUME f.check = "sender"
               PROVE  MailsFrom(f.mail.from) # {} /\ FirstMail(f.mail.from) = f.mail
    BY DEF MailMismatch
  <2>1. \A j \in Logged(s, "smtp") : /\ j \in DOMAIN s.flows /\ s.flows[j].check = "sender"
                                     /\ s.flows[j].read = s.flows[j].mail
    BY <1>6, GateAssumption DEF Logged, MailRead
  <2>2. i \in Logged(s, "smtp") /\ f.read = f.mail
    <3>1. f.l7 = "smtp" /\ f.l7seen = "agrees"
      BY <1>1, <1>6 DEF MailRead
    <3>2. i \in Logged(s, "smtp")
      BY <3>1 DEF Logged
    <3> QED
      BY <2>1, <3>2
  <2>3. MailsFrom(f.mail.from) # {}
    BY <2>2, SomeMail
  <2>4. PICK j \in Logged(s, "smtp") : /\ s.flows[j].read.from = f.mail.from
                                      /\ FirstMail(f.mail.from) = s.flows[j].read
    BY <2>3, SomeMail
  <2>5. s.flows[j].mail = f.mail
    BY <1>6, <2>1, <2>4 DEF MailsAlike
  <2> QED
    BY <2>1, <2>3, <2>4, <2>5
<1> QED
  BY <1>2, <1>3, <1>4, <1>5, <1>6 DEF Good, InLogs

\* Without any log, no flow is good.
LEMMA NothingGood ==
  ASSUME NEW s \in FlowSets, files = <<>>, NEW i \in DOMAIN s.flows
  PROVE  ~Good(s.flows[i])
<1> DEFINE f == s.flows[i]
<1>1. f.skip \in BOOLEAN /\ (f.skip => f.check = "log")
  BY GateAssumption
<1>2. \A log : RowsOf(log) = <<>>
  BY DEF RowsOf
<1>3. CASE f.skip
  BY <1>1, <1>2, <1>3 DEF Good, LogMissing
<1>4. CASE ~f.skip
  <2>1. Matches("conn", f.key) = {}
    BY <1>2 DEF Matches
  <2> QED
    BY <1>4, <2>1 DEF Good, ConnFound, Found
<1> QED
  BY <1>3, <1>4

-----------------------------------------------------------------------------
(* The invariant. *)

LEMMA Initially == Init => IInv
BY DEF Init, IInv, TypeOK, RecordOK, DirectoryOK, ReportOK, VerdictOK, ManifestOK, NoReport

LEMMA StartStep == ASSUME Careful, IInv, Start PROVE IInv'
<1>1. fs' \in FlowSets /\ fs' # None /\ Len(fs'.flows) \in Nat
  BY GateAssumption DEF Start
<1>2. TypeOK' /\ RecordOK'
  BY <1>1 DEF IInv, TypeOK, RecordOK, Start, NoReport
<1>3. DirectoryOK'
  BY <1>1, GateAssumption DEF Careful, IInv, DirectoryOK, Start, NewDirectory
<1>4. ReportOK' /\ VerdictOK'
  BY DEF ReportOK, VerdictOK, Start, NoReport
<1>5. ManifestOK'
  BY DEF IInv, ManifestOK, Start, NewDirectory
<1> QED
  BY <1>2, <1>3, <1>4, <1>5 DEF IInv

LEMMA WriteCaptureStep == ASSUME IInv, WriteCapture PROVE IInv'
<1>1. TypeOK' /\ RecordOK' /\ DirectoryOK' /\ ReportOK' /\ ManifestOK'
  BY DEF IInv, TypeOK, RecordOK, DirectoryOK, ReportOK, ManifestOK, WriteCapture, NoReport
<1>2. VerdictOK'
  BY DEF IInv, ReportOK, VerdictOK, WriteCapture, NoReport
<1> QED
  BY <1>1, <1>2 DEF IInv

\* Zeek leaves the logs of the capture, or the directory as it was.
LEMMA RunZeekStep == ASSUME IInv, RunZeek PROVE IInv'
<1>1. pc = "zeek" /\ fs \in FlowSets /\ pcap = fs /\ pc' = "tshark"
  BY DEF IInv, DirectoryOK, RunZeek
<1>2. files' = <<>> \/ files' = LogsOf(fs)
  <2> DEFINE Over(new) == [n \in DOMAIN files \cup DOMAIN new |->
                             IF n \in DOMAIN new THEN new[n] ELSE files[n]]
  <2>1. files' = Over(LogsOf(fs)) \/ files' = Over(<<>>)
    BY <1>1 DEF RunZeek, Overwritten
  <2>2. LogsOf(fs) = [n \in DOMAIN LogsOf(fs) |-> LogsOf(fs)[n]]
    BY DEF LogsOf
  <2>3. files = <<>> \/ files = LogsOf(fs)
    BY DEF IInv, DirectoryOK
  <2>4. Over(LogsOf(fs)) = LogsOf(fs)
    <3> HIDE DEF Over
    <3>1. DOMAIN files \cup DOMAIN LogsOf(fs) = DOMAIN LogsOf(fs)
      <4>1. CASE files = <<>>
        <5>1. DOMAIN files = {}
          BY <4>1
        <5> QED
          BY <5>1
      <4>2. CASE files = LogsOf(fs)
        BY <4>2
      <4> QED
        BY <2>3, <4>1, <4>2
    <3>2. Over(LogsOf(fs)) = [n \in DOMAIN LogsOf(fs) |-> LogsOf(fs)[n]]
      BY <3>1 DEF Over
    <3> QED
      BY <2>2, <3>2
  <2>5. Over(<<>>) = [n \in DOMAIN files |-> files[n]]
    OBVIOUS
  <2>6. files = [n \in DOMAIN files |-> files[n]]
    <3>1. CASE files = <<>>
      BY <3>1
    <3>2. CASE files = LogsOf(fs)
      BY <2>2, <3>2
    <3> QED
      BY <2>3, <3>1, <3>2
  <2> HIDE DEF Over
  <2> QED
    BY <2>1, <2>3, <2>4, <2>5, <2>6
<1>3. report' = [report EXCEPT !.weird = ("weird" \in DOMAIN files')]
  BY DEF RunZeek
<1>4. TypeOK' /\ RecordOK'
  BY <1>3 DEF IInv, TypeOK, RecordOK, RunZeek
<1>5. DirectoryOK'
  BY <1>1, <1>2 DEF IInv, DirectoryOK, RunZeek
<1>6. ReportOK' /\ VerdictOK'
  BY <1>1, <1>3 DEF IInv, RecordOK, ReportOK, VerdictOK, RunZeek
<1>7. ManifestOK'
  BY DEF IInv, ManifestOK, RunZeek
<1> QED
  BY <1>4, <1>5, <1>6, <1>7 DEF IInv

LEMMA RunTsharkStep == ASSUME Careful, IInv, RunTshark PROVE IInv'
<1>1. pc = "tshark" /\ fs \in FlowSets /\ pcap = fs /\ pc' = "compare"
  BY DEF IInv, DirectoryOK, RunTshark
<1>2. fs.expert \in BOOLEAN
  BY <1>1, GateAssumption
<1>3. report' = [report EXCEPT !.expert = fs.expert]
  BY <1>1, <1>2 DEF Careful, RunTshark
<1>4. TypeOK' /\ RecordOK'
  BY <1>2, <1>3 DEF IInv, TypeOK, RecordOK, RunTshark
<1>5. DirectoryOK' /\ ManifestOK'
  BY <1>1 DEF IInv, DirectoryOK, ManifestOK, RunTshark
<1>6. ReportOK' /\ VerdictOK'
  BY <1>1, <1>3 DEF IInv, RecordOK, ReportOK, VerdictOK, RunTshark
<1> QED
  BY <1>4, <1>5, <1>6 DEF IInv

LEMMA CompareStep == ASSUME IInv, Compare PROVE IInv'
<1> DEFINE f == fs.flows[next]
<1>1. /\ pc = "compare" /\ pc' = "compare" /\ fs \in FlowSets /\ fs # None
      /\ UNCHANGED <<fs, mode, pcap, files, manifest>> /\ next' = next + 1
  BY GateAssumption DEF IInv, DirectoryOK, Compare
<1>2. next \in 1..Len(fs.flows) /\ Len(fs.flows) \in Nat /\ report.matched \in 0..(next - 1)
  BY <1>1, GateAssumption DEF IInv, TypeOK, Compare
<1>3. report' = IF ConnFound(f)
                THEN [report EXCEPT !.matched = @ + 1,
                        !.mismatched = @ \/ ConnMismatch(f) \/ RowMismatch(f)
                                         \/ MailMismatch(f) \/ LogMissing(f)]
                ELSE [report EXCEPT !.mismatched = TRUE]
  BY DEF Compare
<1>4. /\ report'.matched \in {report.matched, report.matched + 1}
      /\ report'.mismatched \in BOOLEAN
      /\ report'.mismatched <=> report.mismatched \/ ~Good(f)
      /\ ~report'.mismatched => report'.matched = report.matched + 1
      /\ report'.weird = report.weird /\ report'.expert = report.expert /\ report'.ok = report.ok
      /\ RecordOK'
  BY <1>3 DEF IInv, RecordOK, Good
<1>5. \A g : Good(g)' <=> Good(g)
  BY <1>1 DEF Good, ConnFound, ConnMismatch, RowMismatch, MailMismatch, LogMissing, Found,
             FirstRow, FirstMail, FirstOf, Matches, MailsFrom, RowsOf
<1>6. TypeOK'
  BY <1>1, <1>2, <1>4 DEF IInv, TypeOK
<1>7. DirectoryOK' /\ ManifestOK' /\ VerdictOK'
  BY <1>1 DEF IInv, DirectoryOK, ManifestOK, VerdictOK
<1>8. ReportOK'
  <2>1. 1..(next' - 1) = 1..(next - 1) \cup {next}
    BY <1>1, <1>2
  <2> DEFINE AllGood == \A i \in 1..(next - 1) : Good(fs.flows[i])
             SomeBad == \E i \in 1..(next - 1) : ~Good(fs.flows[i])
  <2>2. AllGood' <=> \A i \in 1..(next' - 1) : Good(fs.flows[i])
    BY <1>1, <1>5
  <2>3. SomeBad' <=> \E i \in 1..(next' - 1) : ~Good(fs.flows[i])
    BY <1>1, <1>5
  <2>4. /\ ~report.mismatched => report.matched = next - 1 /\ AllGood
        /\ report.mismatched => SomeBad
        /\ report.weird = ("weird" \in DOMAIN files) /\ report.expert = fs.expert
        /\ report.ok = FALSE /\ mode # "blind"
    BY <1>1 DEF IInv, ReportOK
  <2>5. ~report'.mismatched => report'.matched = next' - 1 /\ AllGood'
    <3> SUFFICES ASSUME ~report'.mismatched
                 PROVE  report'.matched = next' - 1 /\ AllGood'
      OBVIOUS
    <3>1. ~report.mismatched /\ Good(f) /\ report'.matched = report.matched + 1
      BY <1>4
    <3>2. report'.matched = next' - 1
      BY <1>1, <1>2, <2>4, <3>1
    <3> QED
      BY <2>1, <2>2, <2>4, <3>1, <3>2
  <2>6. report'.mismatched => SomeBad'
    <3> SUFFICES ASSUME report'.mismatched PROVE SomeBad'
      OBVIOUS
    <3>1. report.mismatched \/ ~Good(f)
      BY <1>4
    <3> QED
      BY <2>1, <2>3, <2>4, <3>1
  <2> HIDE DEF AllGood, SomeBad
  <2>7. ReportOK' <=> /\ ~report'.mismatched => report'.matched = next' - 1 /\ AllGood'
                      /\ report'.mismatched => SomeBad'
    BY <1>1, <1>4, <2>4 DEF ReportOK, AllGood, SomeBad
  <2> QED
    BY <2>5, <2>6, <2>7
<1> QED
  BY <1>4, <1>6, <1>7, <1>8 DEF IInv

\* The verdict at the end of the comparison.
LEMMA VerdictIsRight ==
  ASSUME IInv, pc = "compare", next > Len(fs.flows)
  PROVE  /\ Passed => Vouched(fs) /\ DOMAIN files = DOMAIN LogsOf(fs)
         /\ Sound(fs) /\ MailsAlike(fs) /\ DOMAIN LogsOf(fs) \subseteq DOMAIN files => Passed
<1>1. fs \in FlowSets /\ fs # None
  BY GateAssumption DEF IInv, DirectoryOK
<1>2. /\ Len(fs.flows) \in Nat /\ DOMAIN fs.flows = 1..Len(fs.flows)
      /\ Len(fs.flows) = 0 => ~fs.weird /\ ~fs.expert
      /\ fs.weird \in BOOLEAN /\ fs.expert \in BOOLEAN
  BY <1>1, GateAssumption
<1>3. next - 1 = Len(fs.flows) /\ 1..(next - 1) = DOMAIN fs.flows
  BY <1>1, <1>2 DEF IInv, TypeOK
<1>4. /\ Passed => \A i \in DOMAIN fs.flows : Good(fs.flows[i])
      /\ (\A i \in DOMAIN fs.flows : Good(fs.flows[i])) =>
           (Passed <=> ~report.weird /\ ~report.expert)
      /\ report.weird = ("weird" \in DOMAIN files) /\ report.expert = fs.expert
  BY <1>3 DEF IInv, ReportOK, RecordOK, Passed
<1>5. CASE files = LogsOf(fs)
  <2>1. /\ \A i \in DOMAIN fs.flows :
             Good(fs.flows[i]) => InLogs(fs, fs.flows[i]) /\ MailSeen(fs, fs.flows[i])
        /\ Sound(fs) /\ MailsAlike(fs) => \A i \in DOMAIN fs.flows : Good(fs.flows[i])
    BY <1>1, <1>5, GoodInLogs DEF Sound
  <2>2. "weird" \in DOMAIN files <=> fs.weird
    BY <1>1, <1>5, WeirdDomain
  <2> QED
    BY <1>2, <1>4, <1>5, <2>1, <2>2 DEF Sound, Vouched, Clean
<1>6. CASE files = <<>>
  <2>1. \A i \in DOMAIN fs.flows : ~Good(fs.flows[i])
    BY <1>1, <1>6, NothingGood
  <2>2. DOMAIN files = {}
    BY <1>6
  <2>3. CASE DOMAIN fs.flows = {}
    <3>1. ~fs.weird /\ ~fs.expert
      <4> SUFFICES Len(fs.flows) = 0
        BY <1>2
      <4>1. 1..Len(fs.flows) = {}
        BY <1>2, <2>3
      <4>2. 1 \notin 1..Len(fs.flows)
        BY <4>1
      <4> QED
        BY <1>2, <4>2
    <3>2. \A n : Logged(fs, n) = {}
      BY <2>3 DEF Logged
    <3>3. DOMAIN LogsOf(fs) = {}
      BY <3>1, <3>2 DEF LogsOf
    <3> QED
      BY <1>4, <2>2, <2>3, <3>1, <3>3 DEF Sound, Vouched, Clean
  <2>4. CASE DOMAIN fs.flows # {}
    <3>1. ~Passed
      BY <1>4, <2>1, <2>4
    <3>2. Sound(fs) => DOMAIN LogsOf(fs) # {}
      <4> SUFFICES ASSUME Sound(fs) PROVE DOMAIN LogsOf(fs) # {}
        OBVIOUS
      <4> PICK i \in DOMAIN fs.flows : InLogs(fs, fs.flows[i])
        BY <2>4 DEF Sound
      <4>1. CASE ~fs.flows[i].skip
        <5>1. i \in Logged(fs, "conn")
          BY <4>1 DEF InLogs, Logged
        <5> QED
          BY <1>1, <5>1, LogDomain
      <4>2. CASE fs.flows[i].skip
        <5>1. /\ fs.flows[i].l7 # None /\ fs.flows[i].check = "log"
              /\ fs.flows[i].l7 \notin {"conn", "weird"}
          BY <1>1, <4>2, GateAssumption
        <5>2. Logged(fs, fs.flows[i].l7) # {}
          BY <5>1 DEF InLogs, Logged
        <5>3. fs.flows[i].l7 \in Analyzers(fs)
          BY <5>1 DEF Analyzers
        <5> QED
          BY <1>1, <5>1, <5>2, <5>3, LogDomain
      <4> QED
        BY <1>1, <4>1, <4>2, GateAssumption
    <3> QED
      BY <2>2, <3>1, <3>2
  <2> QED
    BY <2>3, <2>4
<1> QED
  BY <1>5, <1>6 DEF IInv, DirectoryOK

LEMMA ConcludeStep == ASSUME IInv, Conclude PROVE IInv'
<1>1. pc = "compare" /\ next > Len(fs.flows) /\ UNCHANGED <<fs, mode, pcap, files, manifest, next>>
  BY DEF Conclude
<1>2. report' = [report EXCEPT !.ok = Passed] /\ Passed \in BOOLEAN
  BY DEF Conclude, Passed
<1>3. pc' \in {"manifest", "reported"}
  BY DEF Conclude
<1>4. TypeOK' /\ RecordOK'
  BY <1>1, <1>2, <1>3 DEF IInv, TypeOK, RecordOK
<1>5. DirectoryOK' /\ ReportOK' /\ ManifestOK'
  BY <1>1, <1>3 DEF IInv, DirectoryOK, ReportOK, ManifestOK
<1>6. VerdictOK'
  <2>1. report'.ok = Passed /\ mode # "blind"
    BY <1>1, <1>2 DEF IInv, RecordOK, ReportOK
  <2>2. /\ Sound(fs)' = Sound(fs) /\ Vouched(fs)' = Vouched(fs)
        /\ MailsAlike(fs)' = MailsAlike(fs) /\ LogsOf(fs)' = LogsOf(fs)
    BY <1>1
  <2> QED
    BY <1>1, <2>1, <2>2, VerdictIsRight DEF VerdictOK
<1> QED
  BY <1>4, <1>5, <1>6 DEF IInv

LEMMA WriteManifestStep == ASSUME IInv, WriteManifest PROVE IInv'
<1>1. /\ pc = "manifest" /\ pc' = "reported" /\ pcap = fs
      /\ UNCHANGED <<fs, mode, pcap, files, report, next>>
  BY DEF IInv, DirectoryOK, WriteManifest
<1>2. TypeOK' /\ RecordOK' /\ DirectoryOK' /\ ReportOK' /\ VerdictOK'
  BY <1>1 DEF IInv, TypeOK, RecordOK, DirectoryOK, ReportOK, VerdictOK
<1>3. ManifestOK'
  <2>1. manifest'.capture = fs /\ manifest'.logs = DOMAIN files
        /\ manifest'.ok = (IF mode = "blind" THEN None ELSE report.ok)
    BY <1>1 DEF WriteManifest
  <2>2. manifest'.ok = TRUE => Vouched(fs) /\ DOMAIN files = DOMAIN LogsOf(fs)
    BY <1>1, <2>1, GateAssumption DEF IInv, VerdictOK
  <2> QED
    BY <2>1, <2>2 DEF ManifestOK
<1> QED
  BY <1>2, <1>3 DEF IInv

LEMMA OtherStep == ASSUME IInv, Return \/ Crash \/ UNCHANGED vars PROVE IInv'
<1>1. CASE Return
  BY <1>1 DEF IInv, TypeOK, RecordOK, DirectoryOK, ReportOK, VerdictOK, ManifestOK, Return
<1>2. CASE Crash
  BY <1>2 DEF IInv, TypeOK, RecordOK, DirectoryOK, ReportOK, VerdictOK, ManifestOK, Crash, NoReport
<1>3. CASE UNCHANGED vars
  <2>1. \A g : Good(g)' <=> Good(g)
    BY <1>3 DEF vars, Good, ConnFound, ConnMismatch, RowMismatch, MailMismatch, LogMissing,
               Found, FirstRow, FirstMail, FirstOf, Matches, MailsFrom, RowsOf
  <2> QED
    BY <1>3, <2>1 DEF vars, IInv, TypeOK, RecordOK, DirectoryOK, ReportOK, VerdictOK, ManifestOK
<1> QED
  BY <1>1, <1>2, <1>3

LEMMA Inductive == ASSUME Careful PROVE IInv /\ [Next]_vars => IInv'
BY StartStep, WriteCaptureStep, RunZeekStep, RunTsharkStep, CompareStep, ConcludeStep,
   WriteManifestStep, OtherStep DEF Next

LEMMA Invariance == ASSUME Careful PROVE Spec => []IInv
BY Initially, Inductive, PTL DEF Spec

-----------------------------------------------------------------------------
\* A flow is counted at most once, after it was looked at.
THEOREM TypeCorrect == Careful => (Spec => []TypeOK)
<1> SUFFICES ASSUME Careful PROVE Spec => []TypeOK
  OBVIOUS
<1>1. IInv => TypeOK
  BY DEF IInv
<1> QED
  BY <1>1, Invariance, PTL

\* In a directory used for one FlowSet, with a tshark that runs, a pass is earned whatever
\* crashed before and whether or not Zeek ran (roundtrip.py:13-15), except that a mail may have
\* been found in the row of another mail of its sender (roundtrip.py:288).
THEOREM PassEarned == Careful => (Spec => []PassIsEarned)
<1> SUFFICES ASSUME Careful PROVE Spec => []PassIsEarned
  OBVIOUS
<1>1. IInv => PassIsEarned
  BY DEF IInv, VerdictOK, PassIsEarned
<1> QED
  BY <1>1, Invariance, PTL

\* And a sound capture whose logs were written passes, if its mails of one sender are alike.
\* The condition is needed: _diff_smtp compares every mail with the first row of its sender,
\* so of two mails that differ in subject or recipients one fails in any capture.
THEOREM SoundPasses == Careful => (Spec => []NoFalseAlarm)
<1> SUFFICES ASSUME Careful PROVE Spec => []NoFalseAlarm
  OBVIOUS
<1>1. IInv => NoFalseAlarm
  BY DEF IInv, VerdictOK, NoFalseAlarm
<1> QED
  BY <1>1, Invariance, PTL

\* A manifest that says ok is right about the capture it names, at any time
\* (bundle.py:8-10).
THEOREM ManifestTrue == Careful => (Spec => []ManifestVouches)
<1> SUFFICES ASSUME Careful PROVE Spec => []ManifestVouches
  OBVIOUS
<1>1. IInv => ManifestVouches
  BY DEF IInv, ManifestOK, ManifestVouches
<1> QED
  BY <1>1, Invariance, PTL

\* And it lists exactly the logs of that capture (bundle.py:5-6).
THEOREM ManifestComplete == Careful => (Spec => []ManifestListsItsLogs)
<1> SUFFICES ASSUME Careful PROVE Spec => []ManifestListsItsLogs
  OBVIOUS
<1>1. IInv => ManifestListsItsLogs
  BY DEF IInv, ManifestOK, ManifestListsItsLogs
<1> QED
  BY <1>1, Invariance, PTL
=============================================================================
