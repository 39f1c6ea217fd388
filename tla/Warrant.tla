------------------------------ MODULE Warrant -------------------------------
(***************************************************************************)
(* The warrant command (cli, warrant.py): load a claim set and a FlowSet,  *)
(* check them, score the predictions if there is an answer key, write the  *)
(* manifest, write the storyline as pcapng with a comment on each packet,  *)
(* and print a verdict.  The last three and the score are optional.        *)
(***************************************************************************)
EXTENDS Claims, Register

CONSTANTS Documents,     \* [cs, flows, key]: what may be given to the command
          Options        \* the sets of options it may be given

Steps == <<"load", "check", "score", "manifest", "pcapng", "verdict", "done">>

ASSUME DocumentsAssumption ==
  \A d \in Documents : /\ IsClaimSet(d.cs) /\ AreFlows(d.flows)
                        /\ DOMAIN d.key = DOMAIN d.cs.predictions
ASSUME OptionsAssumption == Options \subseteq SUBSET {"score", "manifest", "pcapng"}

VARIABLES pc, doc, opts,
          report,        \* the WarrantReport
          scored,        \* the score of the register
          manifest,      \* the manifest files
          capture        \* the pcapng: its header, and a comment per packet

vars == <<pc, doc, opts, report, scored, manifest, capture>>

Init == /\ pc = "load" /\ doc \in Documents /\ opts \in Options
        /\ report = None /\ scored = None /\ manifest = None /\ capture = None

\* The first step after this one that is not optional or was asked for.
Then(step) == pc' = CHOOSE s \in {"check", "verdict", "done"} \cup opts :
  LET at(x) == CHOOSE i \in DOMAIN Steps : Steps[i] = x
  IN  /\ at(s) > at(step)
      /\ \A t \in {"check", "verdict", "done"} \cup opts : at(t) > at(step) => at(s) <= at(t)

Load == /\ pc = "load"
        /\ Then("load")
        /\ UNCHANGED <<doc, opts, report, scored, manifest, capture>>

Check == /\ pc = "check"
         /\ report' = check(doc.cs, doc.flows)
         /\ Then("check")
         /\ UNCHANGED <<doc, opts, scored, manifest, capture>>

ScoreRegister == /\ pc = "score"
                 /\ scored' = score(doc.cs.predictions, doc.key)
                 /\ Then("score")
                 /\ UNCHANGED <<doc, opts, report, manifest, capture>>

Advisory == {"assumption-only", "third-party-preliminary", "unmeasurable-quantifier",
             "boilerplate-gap-reason", "aleatoric-shadowed-by-marking"}

Level(level) == {x[2] : x \in {x \in report.findings : x[1] = level}}

\* Mutant: the verdict of an exercise is the gate's.
VerdictOfGate == IF report.ok THEN "PASS" ELSE "FAIL"

Verdict == IF ~report.ok THEN "FAIL"
           ELSE IF doc.cs.class = "exercise" /\ Level("WARN") # {} THEN "ADVISORY" ELSE "PASS"

\* Markdown and JSON say the same; a register is pre-registered if it says so.
WriteManifest == /\ pc = "manifest"
                 /\ manifest' = [class |-> doc.cs.class, verdict |-> Verdict,
                                 gaps |-> report.gaps,
                                 findings |-> Level("FAIL") \cup Level("WARN"),
                                 downgraded |-> IF doc.cs.class = "exercise"
                                                THEN Level("WARN") \ Advisory ELSE {},
                                 score |-> scored]
                 /\ Then("manifest")
                 /\ UNCHANGED <<doc, opts, report, scored, capture>>

-----------------------------------------------------------------------------
(* The comments of the capture.                                            *)

\* _per_flow_field_mix: here aleatoric comes first, and any marking counts.
PacketClassOf(cs, id, fact) ==
  LET i == resolve_marking(cs.marks, id, fact)
  IN  IF IsAleatoric(cs, fact) THEN "aleatoric"
      ELSE IF i = 0 THEN "fabricated" ELSE cs.marks[i].class

\* Mutant: a class is counted once.
MixOfClasses(cs, f) == [k \in Classes |->
                          IF \E p \in flow_facts(f) : PacketClassOf(cs, f.id, p) = k THEN 1 ELSE 0]

MixOf(cs, f) == [k \in Classes |->
                   Cardinality({p \in flow_facts(f) : PacketClassOf(cs, f.id, p) = k})]

Mixes(cs, flows) == [id \in Ids(flows) |-> MixOf(cs, ById(flows, id))]

\* The index by addresses and ports: a later flow replaces an earlier one.
Indexed(flows, tuple) ==
  LET of == {i \in DOMAIN flows : flows[i].tuple = tuple}
  IN  IF of = {} THEN 0 ELSE CHOOSE i \in of : \A j \in of : j <= i

\* Mutant: each claim's flows replace those of the claim before.
LicenceOfLast(cs, id) ==
  LET c == cs.claims[Len(cs.claims)]
  IN  IF cs.claims # <<>> /\ id \in c.renders THEN [claim |-> c.id, stance |-> c.stance]
      ELSE IF id \in cs.illustrative THEN [claim |-> "none", stance |-> "illustrative"]
      ELSE [claim |-> "NONE-UNLICENSED", stance |-> ""]

\* The first claim that licenses the flow, and its stance.
LicenceOf(cs, id) ==
  LET by == Licences(cs, id)
      c == cs.claims[CHOOSE i \in by : \A j \in by : i <= j]
  IN  IF by # {} THEN [claim |-> c.id, stance |-> c.stance]
      ELSE IF id \in cs.illustrative THEN [claim |-> "none", stance |-> "illustrative"]
      ELSE [claim |-> "NONE-UNLICENSED", stance |-> ""]

Comment(cs, flows, tuple) ==
  LET i == Indexed(flows, tuple)
  IN  IF i = 0 THEN [flow |-> None, licence |-> None]
      ELSE [flow |-> flows[i].id, licence |-> LicenceOf(cs, flows[i].id)]

Comments(cs, flows) ==
  [t \in UNION {f.wire : f \in Elements(flows)} |-> Comment(cs, flows, t)]

\* The storyline is loaded again and compiled; each packet is looked up by its tuple.
WriteProvenance ==
  /\ pc = "pcapng"
  /\ capture' = [verdict |-> IF report.ok THEN "PASS" ELSE "FAIL",
                 observed |-> report.census.mix["observed"],
                 comments |-> Comments(doc.cs, doc.flows),
                 mixes |-> Mixes(doc.cs, doc.flows)]
  /\ Then("pcapng")
  /\ UNCHANGED <<doc, opts, report, scored, manifest>>

PrintVerdict == /\ pc = "verdict"
                /\ Then("verdict")
                /\ UNCHANGED <<doc, opts, report, scored, manifest, capture>>

Next == Load \/ Check \/ ScoreRegister \/ WriteManifest \/ WriteProvenance \/ PrintVerdict

Spec == Init /\ [][Next]_vars

-----------------------------------------------------------------------------
(* Properties. *)

Passed == report # None /\ report.ok /\ doc.cs.class = "reconstruction"

\* The state has its type: a step is taken only once its inputs are there, and the classes
\* of the census partition the facts.
TypeOK == /\ pc \in Elements(Steps) /\ opts \in Options
          /\ IF pc \in {"load", "check"} THEN report = None
             ELSE SumFunction(report.census.mix) = report.census.facts
          /\ manifest # None => /\ manifest.verdict \in {"PASS", "FAIL", "ADVISORY"}
                                /\ manifest.downgraded \subseteq manifest.findings
          /\ capture # None => capture.observed \in 0..report.census.facts

\* "every rendered flow is licensed by a claim, or declared illustrative; every claim is
\* rendered, or explicitly declared unmodelled" (warrant.py:38-39), and what a claim says
\* of its flows is so: a reconstruction that passes accounts for every flow, once, and for
\* every claim, and no claim expects what none of its flows shows.
PassIsAccounted ==
  Passed =>
    /\ \A i \in DOMAIN doc.flows :
         LET id == doc.flows[i].id
             licences == {c \in Elements(doc.cs.claims) : id \in c.renders}
         IN  /\ \A j \in DOMAIN doc.flows : doc.flows[j].id = id => i = j
             /\ (licences # {}) # (id \in doc.cs.illustrative)
             /\ \A c \in licences : c.stance # "source-unresolved" /\
                  \A p \in DOMAIN c.expects \cap DOMAIN doc.flows[i].fields :
                    doc.flows[i].fields[p] \in c.expects[p]
    /\ \A c \in Elements(doc.cs.claims) :
         /\ c.renders # {} \/ c.gap # None \/ c.stance = "source-unresolved"
         /\ c.renders \subseteq Ids(doc.flows)
         /\ \A p \in DOMAIN c.expects :
              \E f \in Elements(doc.flows) : f.id \in c.renders /\ p \in DOMAIN f.fields

\* Every fact that is counted as observed has a claim behind it with a source that is
\* listed and a quoted span.
SourcedFactsHaveSources ==
  report # None =>
    Cardinality({x \in FactsOf(doc.flows) :
      LET i == resolve_marking(doc.cs.marks, doc.flows[x[1]].id, x[2])
      IN  /\ i # 0 /\ doc.cs.marks[i].class = "observed"
          /\ \E c \in Elements(doc.cs.claims) :
               c.id = doc.cs.marks[i].ref /\ c.quote /\ c.source \in Ids(doc.cs.sources)})
    >= report.census.mix["observed"]

\* "a bare PASS on an artifact with no sourced facts is precisely the misleading-precision
\* failure this gate exists to prevent" (warrant.py:693-694): a reconstruction that passes
\* has sourced facts, and each has its source.
PassIsSourced == Passed => report.census.mix["observed"] > 0 /\ SourcedFactsHaveSources

\* Two pieces of code class the fields of a flow, one for the census and one for the
\* packet comments: they agree unless the report itself says that a marking was shadowed
\* or unsourced, or that identities repeat.
CommentsMatchCensus ==
  /\ capture # None
  /\ {"unsourced-marking", "aleatoric-shadowed-by-marking", "duplicate-flow-id"}
       \cap (Level("FAIL") \cup Level("WARN")) = {}
  => \A k \in Classes :
       SumFunction([id \in Ids(doc.flows) |-> capture.mixes[id][k]]) = report.census.mix[k]

\* "A capture forwarded without its manifest must still admit what it does not know"
\* (tests/test_warrant.py:423): a packet whose tuple belongs to one flow names that flow,
\* and says that it is unlicensed exactly when no claim licenses it and it is not declared;
\* if a claim is named, it is one that licenses the flow, with its stance.
UnlicensedIsVisible ==
  capture # None =>
    \A i \in DOMAIN doc.flows : \A t \in doc.flows[i].wire :
      (\A j \in DOMAIN doc.flows : doc.flows[j].tuple = t <=> i = j) =>
        /\ capture.comments[t].flow = doc.flows[i].id
        /\ capture.comments[t].licence.stance = ""
             <=> StanceOf(doc.cs, doc.flows[i].id) = "UNLICENSED"
        /\ capture.comments[t].licence.stance \in Stances =>
             \E c \in Elements(doc.cs.claims) :
               /\ doc.flows[i].id \in c.renders
               /\ capture.comments[t].licence = [claim |-> c.id, stance |-> c.stance]

\* "Downgrading the class must change what a reader sees, not just the exit code"
\* (tests/test_warrant.py:741): a manifest reads PASS only where nothing had to be
\* downgraded, and then the capture's header reads PASS too.
PassReadsPass ==
  manifest # None /\ manifest.verdict = "PASS" =>
    /\ manifest.downgraded = {}
    /\ capture # None => capture.verdict = "PASS"

\* "an exact identity" (tests/test_warrant.py:441): reliability minus resolution plus
\* uncertainty is the Brier score, and each resolved forecast is in one row of the table.
ScoreAddsUp ==
  scored # None =>
    /\ scored.murphy.reliability - scored.murphy.resolution + scored.murphy.uncertainty
         = scored.brier
    /\ SumFunction(scored.table) = scored.resolved
    /\ scored.beat <= scored.resolved /\ scored.resolved <= scored.predictions
=============================================================================
