------------------------------- MODULE Claims -------------------------------
(***************************************************************************)
(* warrant.py, the rules: what check() makes of a claim set and the flows  *)
(* it licenses.  Everything here is a function of the two documents; the   *)
(* command that applies it is in Warrant.                                  *)
(*                                                                         *)
(* A path is a sequence of names (l7.host is <<"l7", "host">>).  A flow is *)
(* [id, tuple, wire, transport, state, src, dst, start, fields, authored]: *)
(* `fields` maps the paths of its dump to values, `authored` are those its *)
(* author wrote (exclude_unset), `tuple` its addresses and ports up to     *)
(* direction, `wire` those of its packets.                                 *)
(* A claim is [id, stance, source, quote, renders, gap, expects, quantity, *)
(* note]; `gap` is its unmodelled_reason; an expectation, literal or       *)
(* regular expression, is the set of values it accepts.  A claim set is    *)
(* [class, summary, sources, illustrative, claims, marks, aleatoric,       *)
(* predictions].                                                           *)
(***************************************************************************)
EXTENDS Integers, Sequences, FiniteSets

CONSTANTS None,        \* an empty string or an absent model
          Internal     \* the private and link-local addresses

Stances == {"observed", "technology-default", "judgment", "assumption", "source-unresolved"}
NeedsCitation == {"observed", "judgment", "source-unresolved"}
ForbidsCitation == {"assumption"}
Failed == {"S0", "REJ", "RSTR", "RSTO"}
Unmeasurable == {"attacker-actions", "clusters", "credentials", "c2-endpoints",
                 "hosts-compromised", "application-layer-denials"}
Classes == {"observed", "judgment", "assumption", "fabricated", "aleatoric"}

-----------------------------------------------------------------------------
(* What load_claimset accepts: the models forbid other fields and values.  *)

IsList(s) == Len(s) \in Nat /\ DOMAIN s = 1..Len(s)

IsSource(s) == DOMAIN s = {"id", "preliminary", "own"} /\ {s.preliminary, s.own} \subseteq BOOLEAN
IsQuantity(q) == q.kind \in {"floor", "ceiling"} /\ q.value \in Int
IsClaim(c) == /\ c.stance \in Stances /\ c.quote \in BOOLEAN /\ c.note \in BOOLEAN
              /\ c.quantity = None \/ IsQuantity(c.quantity)
IsMarking(m) == /\ m.class \in Classes \ {"aleatoric"}
                /\ m.pedigree \in {"L0", "L1", "L2", "L3", "L4"}
                /\ m.derivation \in {"retrievedFrom", "importedFrom", "derivedFrom",
                                      "sourceAccessedAt", None}
                /\ \A sel \in m.selectors : IsList(sel.path)
IsPrediction(p) == p.p \in 0..100 /\ p.base \in 2..98
IsClaimSet(cs) == /\ cs.class \in {"reconstruction", "exercise"} /\ cs.summary \in BOOLEAN
                  /\ IsList(cs.sources) /\ IsList(cs.claims)
                  /\ IsList(cs.marks) /\ IsList(cs.predictions)
                  /\ \A i \in DOMAIN cs.sources : IsSource(cs.sources[i])
                  /\ \A i \in DOMAIN cs.claims : IsClaim(cs.claims[i])
                  /\ \A i \in DOMAIN cs.marks : IsMarking(cs.marks[i])
                  /\ \A i \in DOMAIN cs.predictions : IsPrediction(cs.predictions[i])

IsFlow(f) == IsFiniteSet(f.authored) /\ \A p \in f.authored : IsList(p)
AreFlows(flows) == IsList(flows) /\ \A i \in DOMAIN flows : IsFlow(flows[i])

If(condition, level, code) == IF condition THEN {<<level, code>>} ELSE {}

Elements(s) == {s[i] : i \in DOMAIN s}
Ids(s) == {s[i].id : i \in DOMAIN s}
Repeats(s) == \E i, j \in DOMAIN s : i # j /\ s[i].id = s[j].id

\* by_id: the last flow of an identity.
ById(flows, id) ==
  flows[CHOOSE i \in DOMAIN flows :
          flows[i].id = id /\ \A j \in DOMAIN flows : flows[j].id = id => j <= i]

-----------------------------------------------------------------------------
(* What a capture can testify to: a magnitude is a fraction.  The names of *)
(* the units have underscores for hyphens.                                 *)

IsFailed(f) == f.transport # "udp" /\ f.state \in Failed

Count(n) == [num |-> n, den |-> 1]

Span(flows) ==
  LET starts == {f.start : f \in Elements(flows)}
  IN  IF starts = {} THEN 0
      ELSE (CHOOSE t \in starts : \A u \in starts : u <= t)
           - (CHOOSE t \in starts : \A u \in starts : t <= u)

MEASURES(flows) ==
  [flows                     |-> Count(Len(flows)),
   distinct_dst_ips          |-> Count(Cardinality({f.dst : f \in Elements(flows)})),
   distinct_external_dst_ips |-> Count(Cardinality({f.dst : f \in Elements(flows)} \ Internal)),
   distinct_internal_src_ips |-> Count(Cardinality({f.src : f \in Elements(flows)} \cap Internal)),
   capture_span_seconds      |-> Count(Span(flows)),
   failed_flow_fraction      |->
     [num |-> Cardinality({i \in DOMAIN flows : IsFailed(flows[i])}),
      den |-> IF flows = <<>> THEN 1 ELSE Len(flows)]]

-----------------------------------------------------------------------------
(* Facts and markings.  A marking is [selectors, class, pedigree,          *)
(* derivation, ref]; a selector is [flow, path], flow "*" being any.       *)

NotAFact == {"flow_id", "expect", "expected_alert"}

flow_facts(f) == {p \in f.authored : p[1] \notin NotAFact}

IsBelow(fact, path) == Len(path) <= Len(fact) /\ SubSeq(fact, 1, Len(path)) = path

Matches(sel, id, fact) == sel.flow \in {"*", id} /\ IsBelow(fact, sel.path)

\* An exact flow beats the wildcard, then a deeper path a shallower one.
Score(sel) == <<IF sel.flow = "*" THEN 0 ELSE 1, Len(sel.path)>>
Beats(a, b) == a[1] > b[1] \/ (a[1] = b[1] /\ a[2] > b[2])

Scores(m, id, fact) == {Score(s) : s \in {s \in m.selectors : Matches(s, id, fact)}}

\* The position of the most specific marking, the first of equals; 0 if none matches.
resolve_marking(marks, id, fact) ==
  LET marking == {i \in DOMAIN marks : Scores(marks[i], id, fact) # {}}
  IN  IF marking = {} THEN 0
      ELSE CHOOSE i \in marking : \E s \in Scores(marks[i], id, fact) :
             \A j \in marking : \A t \in Scores(marks[j], id, fact) :
               ~Beats(t, s) /\ (Beats(s, t) \/ i <= j)

\* aleatoric_fields: by whole path, or by last name.
IsAleatoric(cs, fact) == fact \in cs.aleatoric \/ <<fact[Len(fact)]>> \in cs.aleatoric

Cited(cs, ref) == cs.claims[CHOOSE i \in DOMAIN cs.claims :
                    cs.claims[i].id = ref /\ \A j \in 1..(i - 1) : cs.claims[j].id # ref]

HasSource(cs, c) == c.source \in Ids(cs.sources) /\ c.quote

\* Mutant: only an assumption cannot carry a marking.
UnsourcedIfAssumed(cs, m) == /\ m.class \in {"observed", "judgment"}
                             /\ m.ref \in Ids(cs.claims)
                             /\ Cited(cs, m.ref).stance = "assumption"

\* unsourced-marking: the claim a marking leans on carries no known source and quote.
Unsourced(cs, m) == /\ m.class \in {"observed", "judgment"}
                    /\ m.ref \in Ids(cs.claims)
                    /\ ~HasSource(cs, Cited(cs, m.ref))

\* Mutant: a marked field takes the stance of the claim it leans on.
ClassOfClaim(cs, id, fact) ==
  LET i == resolve_marking(cs.marks, id, fact)
  IN  IF i = 0
      THEN IF IsAleatoric(cs, fact) THEN "aleatoric" ELSE "fabricated"
      ELSE IF cs.marks[i].ref \in Ids(cs.claims)
           THEN Cited(cs, cs.marks[i].ref).stance ELSE cs.marks[i].class

\* Unmarked is the weakest class; a marking that is unsourced does not count.
ClassOf(cs, id, fact) ==
  LET i == resolve_marking(cs.marks, id, fact)
  IN  IF i = 0
      THEN IF IsAleatoric(cs, fact) THEN "aleatoric" ELSE "fabricated"
      ELSE IF Unsourced(cs, cs.marks[i]) THEN "fabricated" ELSE cs.marks[i].class

FactsOf(flows) == UNION {{<<i, p>> : p \in flow_facts(flows[i])} : i \in DOMAIN flows}

FieldMix(cs, flows) ==
  [k \in Classes |->
     Cardinality({x \in FactsOf(flows) : ClassOf(cs, flows[x[1]].id, x[2]) = k})]

-----------------------------------------------------------------------------
(* The sections of check(), each the findings it adds.                     *)

Structure(cs, flows) ==
  If(Repeats(cs.claims), "FAIL", "duplicate-claim-id") \cup
  UNION {LET c == cs.claims[i]
         IN  If(c.stance \in NeedsCitation /\ ~(c.source # None /\ c.quote),
                "FAIL", "missing-citation") \cup
             If(c.stance \in ForbidsCitation /\ c.source # None,
                "FAIL", "citation-on-assumption") \cup
             If(c.source # None /\ c.source \notin Ids(cs.sources), "FAIL", "unknown-source") \cup
             If(~(c.renders \subseteq Ids(flows)), "FAIL", "dangling-render")
         : i \in DOMAIN cs.claims}

Licences(cs, id) == {i \in DOMAIN cs.claims : id \in cs.claims[i].renders}
Licensed(cs) == UNION {cs.claims[i].renders : i \in DOMAIN cs.claims}

\* Mutant: a flow that shares an identity with a licensed one is not looked at.
ForwardByIdentity(cs, flows) ==
  If(cs.illustrative \cap Licensed(cs) # {}, "FAIL", "licensed-and-illustrative") \cup
  If(~(cs.illustrative \subseteq Ids(flows)), "FAIL", "dangling-illustrative") \cup
  If(\E f \in Elements(flows) : f.id \notin Licensed(cs) \cup cs.illustrative,
     "FAIL", "unlicensed-flow")

Forward(cs, flows) ==
  If(Repeats(flows), "FAIL", "duplicate-flow-id") \cup
  If(cs.illustrative \cap Licensed(cs) # {}, "FAIL", "licensed-and-illustrative") \cup
  If(~(cs.illustrative \subseteq Ids(flows)), "FAIL", "dangling-illustrative") \cup
  If(\E f \in Elements(flows) : f.id \notin Licensed(cs) \cup cs.illustrative,
     "FAIL", "unlicensed-flow")

Declared(c) == c.stance # "source-unresolved" /\ c.renders = {} /\ c.gap # None

Backward(cs) ==
  If(\E c \in Elements(cs.claims) : Declared(c), "INFO", "unmodelled") \cup
  If(\E c \in Elements(cs.claims) :
       c.stance # "source-unresolved" /\ c.renders = {} /\ c.gap = None,
     "FAIL", "unaccounted-claim") \cup
  If(\E c \in Elements(cs.claims) : c.stance = "source-unresolved" /\ c.renders # {},
     "FAIL", "resolves-open-question")

\* Mutant: a flow without the field satisfies an expectation about it.
ContentUnlessThere(cs, flows) ==
  If(\E c \in Elements(cs.claims) : \E id \in c.renders \cap Ids(flows) :
       \E p \in DOMAIN c.expects : LET f == ById(flows, id)
         IN  p \in DOMAIN f.fields /\ f.fields[p] \notin c.expects[p],
     "FAIL", "expectation-violated")

\* A flow without the field is passed over, unless no flow of the claim has it.
Content(cs, flows) ==
  LET has(id, p) == p \in DOMAIN ById(flows, id).fields
      pairs == UNION {{<<c, p>> : p \in DOMAIN c.expects} : c \in Elements(cs.claims)}
  IN  If(\E x \in pairs : \E id \in x[1].renders \cap Ids(flows) :
           has(id, x[2]) /\ ById(flows, id).fields[x[2]] \notin x[1].expects[x[2]],
         "FAIL", "expectation-violated") \cup
      If(\E x \in pairs : \A id \in x[1].renders \cap Ids(flows) : ~has(id, x[2]),
         "FAIL", "expectation-unsatisfied")

\* A declared gap suppresses the check of its own quantity.
Quantity(c, flows) ==
  LET q == c.quantity
      known == q.unit \in DOMAIN MEASURES(flows)
      actual == MEASURES(flows)[q.unit]
  IN  IF q = None THEN {}
      ELSE IF c.gap # None THEN {<<"INFO", "quantity-declared-unmodelled">>}
      ELSE IF q.unit \in Unmeasurable
           THEN If(c.renders # {} /\ ~c.note, "WARN", "unmeasurable-quantifier")
      ELSE IF ~known THEN {<<"FAIL", "unknown-unit">>}
      ELSE If(q.kind = "floor" /\ actual.num < q.value * actual.den, "FAIL", "floor-violated")
           \cup If(q.kind = "ceiling" /\ actual.num > q.value * actual.den,
                   "FAIL", "ceiling-violated")

Rank(stance) == CASE stance = "observed" -> 0 [] stance = "technology-default" -> 1
                  [] stance = "judgment" -> 2 [] stance = "assumption" -> 3
                  [] OTHER -> 4

\* The first of the strongest claims that license a flow.
BestLicence(cs, id) ==
  cs.claims[CHOOSE i \in Licences(cs, id) : \A j \in Licences(cs, id) :
    \/ Rank(cs.claims[i].stance) < Rank(cs.claims[j].stance)
    \/ Rank(cs.claims[i].stance) = Rank(cs.claims[j].stance) /\ i <= j]

Sourcing(cs) ==
  UNION {LET best == BestLicence(cs, id)
             weak == {s \in Elements(cs.sources) : s.id = best.source /\ s.preliminary /\ ~s.own}
         IN  IF best.stance = "assumption" THEN {<<"WARN", "assumption-only">>}
             ELSE If(weak # {}, "WARN", "third-party-preliminary")
         : id \in Licensed(cs)}

Dangling(sel, flows) == \A x \in FactsOf(flows) : ~Matches(sel, flows[x[1]].id, x[2])

OfMarking(cs, flows, m) ==
  If(\E s \in m.selectors : Dangling(s, flows), "FAIL", "dangling-selector") \cup
  If(m.class \in {"observed", "judgment"} /\ m.ref = None,
     "FAIL", "marking-without-citation") \cup
  If(m.class = "fabricated" /\ m.ref # None, "FAIL", "fabricated-with-citation") \cup
  If(m.class = "observed" /\ m.pedigree \notin {"L3", "L4"}, "FAIL", "pedigree-too-low") \cup
  If(m.class = "observed" /\ m.derivation \notin {"retrievedFrom", "importedFrom"},
     "FAIL", "derivation-not-source-anchored") \cup
  If(m.class = "fabricated" /\ m.pedigree # "L0", "FAIL", "pedigree-overclaimed") \cup
  If(m.ref # None /\ m.ref \notin Ids(cs.claims), "FAIL", "unknown-claim-ref") \cup
  If(Unsourced(cs, m), "FAIL", "unsourced-marking")

Shadowed(cs, flows) ==
  \E x \in FactsOf(flows) :
    IsAleatoric(cs, x[2]) /\ resolve_marking(cs.marks, flows[x[1]].id, x[2]) # 0

Marking(cs, flows) ==
  (UNION {OfMarking(cs, flows, cs.marks[i]) : i \in DOMAIN cs.marks})
  \cup If(Shadowed(cs, flows), "WARN", "aleatoric-shadowed-by-marking")

\* A prediction all of whose marked fields are observed restates a source.
Restates(cs, flows, pred) ==
  LET marks == {resolve_marking(cs.marks, x[1], x[2]) :
                  x \in UNION {{<<id, p>> : p \in flow_facts(ById(flows, id))} :
                                 id \in pred.renders \cap Ids(flows)}} \ {0}
  IN  marks # {} /\ \A i \in marks : cs.marks[i].class = "observed"

Gaps(cs) == {i \in DOMAIN cs.claims : cs.claims[i].renders = {} /\ cs.claims[i].gap # None}

ClassRules(cs, flows) ==
  IF cs.class = "exercise" THEN {}
  ELSE If(FieldMix(cs, flows)["observed"] = 0, "FAIL", "nothing-sourced") \cup
       If(Licensed(cs) = {}, "FAIL", "nothing-rendered") \cup
       If(2 * Cardinality(Gaps(cs)) > Len(cs.claims), "FAIL", "mostly-unmodelled") \cup
       If(\E i, j \in DOMAIN cs.claims : /\ i # j /\ cs.claims[i].gap # None
                                         /\ cs.claims[i].gap = cs.claims[j].gap,
          "WARN", "boilerplate-gap-reason") \cup
       If(~cs.summary, "FAIL", "missing-source-summary")

Standing(cs, flows) ==
  Structure(cs, flows) \cup Forward(cs, flows) \cup Backward(cs) \cup Content(cs, flows)
  \cup (UNION {Quantity(c, flows) : c \in Elements(cs.claims)})
  \cup Sourcing(cs) \cup Marking(cs, flows)
  \cup If(\E pred \in Elements(cs.predictions) : Restates(cs, flows, pred),
          "FAIL", "prediction-is-not-a-prediction")
  \cup ClassRules(cs, flows)

\* An exercise keeps its findings as warnings; a reconstruction with one is not earned.
Findings(cs, flows) ==
  LET all == Standing(cs, flows)
  IN  IF cs.class = "exercise"
      THEN {<<IF x[1] = "FAIL" THEN "WARN" ELSE x[1], x[2]>> : x \in all}
           \cup {<<"INFO", "artifact-class">>}
      ELSE all \cup If(\E x \in all : x[1] = "FAIL", "FAIL", "class-not-earned")

StanceOf(cs, id) == IF id \in Licensed(cs) THEN BestLicence(cs, id).stance
                    ELSE IF id \in cs.illustrative THEN "illustrative" ELSE "UNLICENSED"

Census(cs, flows) ==
  [flows |-> Len(flows),
   stances |-> [s \in Stances \cup {"illustrative", "UNLICENSED"} |->
                  Cardinality({id \in Ids(flows) : StanceOf(cs, id) = s})],
   facts |-> Cardinality(FactsOf(flows)),
   mix |-> FieldMix(cs, flows),
   unaccounted |-> Cardinality({i \in DOMAIN cs.claims :
                     /\ cs.claims[i].renders = {} /\ cs.claims[i].gap = None
                     /\ cs.claims[i].stance # "source-unresolved"}),
   content_checked |-> Cardinality({id \in Ids(flows) : \E c \in Elements(cs.claims) :
                                      id \in c.renders /\ DOMAIN c.expects # {}})]

check(cs, flows) ==
  LET all == Findings(cs, flows)
  IN  [findings |-> all,
       gaps |-> {cs.claims[i].id : i \in {i \in DOMAIN cs.claims : Declared(cs.claims[i])}},
       census |-> Census(cs, flows),
       ok |-> ~\E x \in all : x[1] = "FAIL"]
=============================================================================
