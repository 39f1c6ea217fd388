---------------------------- MODULE WarrantProofs ---------------------------
(***************************************************************************)
(* Proofs about Warrant: what its run checks for the claim sets of the     *)
(* instance holds for any claim set, any FlowSet and any register.         *)
(***************************************************************************)
EXTENDS Warrant, RegisterProofs

-----------------------------------------------------------------------------
(* What the choices of check() choose. *)

\* Where identities do not repeat, the flow of an identity is the one that has it.
LEMMA ByIdIs ==
  ASSUME NEW flows, IsList(flows), ~Repeats(flows), NEW i \in DOMAIN flows
  PROVE  ById(flows, flows[i].id) = flows[i]
<1>1. \A j \in DOMAIN flows : flows[j].id = flows[i].id => j = i
  BY DEF Repeats
<1> DEFINE P(k) == /\ flows[k].id = flows[i].id
                   /\ \A j \in DOMAIN flows : flows[j].id = flows[i].id => j <= k
<1>2. P(i)
  BY <1>1 DEF IsList
<1>3. (CHOOSE k \in DOMAIN flows : P(k)) = i
  BY <1>1, <1>2
<1> QED BY <1>3 DEF ById

\* The claim a marking leans on is a claim of that identity.
LEMMA CitedIs ==
  ASSUME NEW cs, IsList(cs.claims), NEW ref \in Ids(cs.claims)
  PROVE  Cited(cs, ref) \in Elements(cs.claims) /\ Cited(cs, ref).id = ref
<1> DEFINE T == {i \in DOMAIN cs.claims : cs.claims[i].id = ref}
           P(i) == cs.claims[i].id = ref /\ \A j \in 1..(i - 1) : cs.claims[j].id # ref
<1>1. T \in SUBSET Nat /\ T # {}
  BY DEF Ids, IsList
<1>2. PICK i \in T : \A j \in T : i <= j
  BY <1>1, LeastNat
<1>3. i \in DOMAIN cs.claims /\ P(i)
  BY <1>1, <1>2 DEF IsList
<1>4. (CHOOSE k \in DOMAIN cs.claims : P(k)) \in DOMAIN cs.claims
      /\ P(CHOOSE k \in DOMAIN cs.claims : P(k))
  BY <1>3
<1> QED BY <1>4 DEF Cited, Elements

\* The claim that gives a licensed flow its stance licenses it.
LEMMA BestLicenceIs ==
  ASSUME NEW cs, IsList(cs.claims), NEW id \in Licensed(cs)
  PROVE  BestLicence(cs, id) \in Elements(cs.claims) /\ id \in BestLicence(cs, id).renders
<1> DEFINE L == Licences(cs, id)
           R(i) == Rank(cs.claims[i].stance)
           ranks == {R(i) : i \in L}
           P(i) == \A j \in L : R(i) < R(j) \/ (R(i) = R(j) /\ i <= j)
<1>1. L # {} /\ L \in SUBSET Nat /\ L \subseteq DOMAIN cs.claims
  BY DEF Licensed, Licences, IsList
<1>2. \A i \in L : R(i) \in Nat
  BY DEF Rank
<1>3. PICK r \in ranks : \A q \in ranks : r <= q
  <2>1. ranks \in SUBSET Nat /\ ranks # {}
    BY <1>1, <1>2
  <2> HIDE DEF ranks
  <2> QED BY <2>1, LeastNat
<1>4. PICK i \in {i \in L : R(i) = r} : \A j \in {j \in L : R(j) = r} : i <= j
  <2> DEFINE T == {i \in L : R(i) = r}
  <2>1. T \in SUBSET Nat /\ T # {}
    BY <1>1, <1>3
  <2> HIDE DEF T
  <2>2. \E i \in T : \A j \in T : i <= j
    BY <2>1, LeastNat
  <2> QED BY <2>2 DEF T
<1>5. i \in L /\ P(i)
  <2> SUFFICES ASSUME NEW j \in L PROVE R(i) < R(j) \/ (R(i) = R(j) /\ i <= j)
    BY <1>4
  <2>1. R(i) = r /\ r <= R(j) /\ R(j) \in Nat /\ r \in Nat
    BY <1>2, <1>3, <1>4
  <2>2. R(j) = r => i <= j
    BY <1>4
  <2> HIDE DEF R
  <2> QED BY <2>1, <2>2
<1>6. (CHOOSE k \in L : P(k)) \in L
  BY <1>5
<1> QED BY <1>1, <1>6 DEF BestLicence, Licences, Elements

\* The position of the most specific marking is that of a marking.
AreMarks(marks) ==
  IsList(marks) /\ \A i \in DOMAIN marks : \A s \in marks[i].selectors : IsList(s.path)

LEMMA ResolvedIs ==
  ASSUME NEW marks, AreMarks(marks), NEW id, NEW fact, IsList(fact)
  PROVE  resolve_marking(marks, id, fact) \in {0} \cup DOMAIN marks
<1> DEFINE n == Len(fact)
           M == {i \in DOMAIN marks : Scores(marks[i], id, fact) # {}}
           All == UNION {Scores(marks[i], id, fact) : i \in M}
           rank(t) == IF t[1] = 1 THEN n - t[2] ELSE 2 * n + 1 - t[2]
           ranks == {rank(t) : t \in All}
           P(i) == \E s \in Scores(marks[i], id, fact) :
                     \A j \in M : \A t \in Scores(marks[j], id, fact) :
                       ~Beats(t, s) /\ (Beats(s, t) \/ i <= j)
<1>1. SUFFICES ASSUME M # {} PROVE (CHOOSE i \in M : P(i)) \in DOMAIN marks
  BY DEF resolve_marking
<1>2. n \in Nat
  BY DEF IsList
<1>3. \A i \in M : \A t \in Scores(marks[i], id, fact) : t \in {0, 1} \X (0..n)
  BY DEF Scores, Score, Matches, IsBelow, AreMarks, IsList
<1>4. \A t \in All : t \in {0, 1} \X (0..n) /\ rank(t) \in Nat
  BY <1>2, <1>3
<1>5. \A t, u \in All : Beats(t, u) <=> rank(t) < rank(u)
  <2> SUFFICES ASSUME NEW t \in All, NEW u \in All PROVE Beats(t, u) <=> rank(t) < rank(u)
    OBVIOUS
  <2>1. t[1] \in {0, 1} /\ t[2] \in 0..n /\ u[1] \in {0, 1} /\ u[2] \in 0..n
    <3> HIDE DEF All
    <3> QED BY <1>4
  <2> HIDE DEF All, n
  <2>2. CASE t[1] = 1 /\ u[1] = 1
    BY <1>2, <2>1, <2>2 DEF Beats
  <2>3. CASE t[1] = 0 /\ u[1] = 0
    BY <1>2, <2>1, <2>3 DEF Beats
  <2>4. CASE t[1] # u[1]
    BY <1>2, <2>1, <2>4 DEF Beats
  <2> QED BY <2>1, <2>2, <2>3, <2>4
<1> HIDE DEF rank
<1>6. PICK r \in ranks : \A q \in ranks : r <= q
  <2>1. ranks \in SUBSET Nat
    BY <1>4
  <2>2. ranks # {}
    BY <1>1
  <2> HIDE DEF ranks
  <2> QED BY <2>1, <2>2, LeastNat
<1> DEFINE T == {i \in M : \E s \in Scores(marks[i], id, fact) : rank(s) = r}
<1>7. PICK i \in T : \A j \in T : i <= j
  <2>1. M \in SUBSET Nat
    BY DEF AreMarks, IsList
  <2>2. T \in SUBSET Nat
    <3> HIDE DEF M
    <3> QED BY <2>1
  <2>3. T # {}
    <3>1. PICK s \in All : rank(s) = r
      BY <1>6
    <3>2. PICK j \in M : s \in Scores(marks[j], id, fact)
      BY <3>1
    <3> HIDE DEF M, All
    <3> QED BY <3>1, <3>2
  <2> HIDE DEF T
  <2> QED BY <2>2, <2>3, LeastNat
<1>8. PICK s \in Scores(marks[i], id, fact) : rank(s) = r
  BY <1>7
<1>9. P(i)
  <2> SUFFICES ASSUME NEW j \in M, NEW t \in Scores(marks[j], id, fact)
               PROVE  ~Beats(t, s) /\ (Beats(s, t) \/ i <= j)
    OBVIOUS
  <2>1. i \in M /\ s \in All /\ t \in All
    BY <1>7
  <2>2. r <= rank(t) /\ rank(t) \in Nat /\ r \in Nat
    BY <1>4, <1>6, <1>8, <2>1
  <2>3. rank(t) = r => i <= j
    BY <1>7
  <2>4. (Beats(t, s) <=> rank(t) < r) /\ (Beats(s, t) <=> r < rank(t))
    BY <1>5, <1>8, <2>1
  <2> QED BY <2>2, <2>3, <2>4
<1> HIDE DEF P
<1>10. (CHOOSE k \in M : P(k)) \in M
  BY <1>7, <1>9
<1> QED BY <1>10

-----------------------------------------------------------------------------
(* The facts of a document, and their classes. *)

LEMMA FactIs ==
  ASSUME NEW flows, AreFlows(flows), NEW x \in FactsOf(flows)
  PROVE  /\ x[1] \in DOMAIN flows /\ x[2] \in flow_facts(flows[x[1]])
         /\ x = <<x[1], x[2]>> /\ IsList(x[2])
<1>1. PICK i \in DOMAIN flows : x \in {<<i, p>> : p \in flow_facts(flows[i])}
  BY DEF FactsOf
<1>2. PICK p \in flow_facts(flows[i]) : x = <<i, p>>
  BY <1>1
<1>3. IsList(p)
  BY <1>1, <1>2 DEF AreFlows, IsFlow, flow_facts
<1> QED BY <1>1, <1>2, <1>3

\* The facts of one flow are finitely many, as they are for the document.
LEMMA FactsOfFlow ==
  ASSUME NEW flows, AreFlows(flows), NEW i \in DOMAIN flows, NEW T \in SUBSET flow_facts(flows[i])
  PROVE  /\ IsFiniteSet(T) /\ IsFiniteSet({<<i, p>> : p \in T})
         /\ Cardinality({<<i, p>> : p \in T}) = Cardinality(T)
<1>1. IsFiniteSet(flows[i].authored) /\ T \subseteq flows[i].authored
  BY DEF AreFlows, IsFlow, flow_facts
<1>2. IsFiniteSet(T)
  BY <1>1, FS_Subset
<1> DEFINE U == {<<i, p>> : p \in T}
           f == [p \in T |-> <<i, p>>]
<1>3. f \in Bijection(T, U)
  <2>1. f \in [T -> U]
    OBVIOUS
  <2>2. \A a, b \in T : f[a] = f[b] => a = b
    OBVIOUS
  <2>3. \A u \in U : \E a \in T : f[a] = u
    OBVIOUS
  <2> QED BY <2>1, <2>2, <2>3 DEF Bijection, Injection, IsInjective, Surjection
<1>4. ExistsBijection(T, U)
  BY <1>3 DEF ExistsBijection
<1>5. IsFiniteSet(U) /\ Cardinality(U) = Cardinality(T)
  <2> HIDE DEF U
  <2> QED BY <1>2, <1>4, FS_Bijection
<1> QED BY <1>2, <1>5

LEMMA FlowsFinite ==
  ASSUME NEW s, IsList(s)
  PROVE  IsFiniteSet(DOMAIN s) /\ Cardinality(DOMAIN s) = Len(s) /\ IsFiniteSet(Elements(s))
<1>1. 1 \in Int /\ Len(s) \in Int
  BY DEF IsList
<1>2. IsFiniteSet(1..Len(s)) /\ Cardinality(1..Len(s)) = Len(s)
  <2>1. IsFiniteSet(1..Len(s)) /\ Cardinality(1..Len(s))
          = IF 1 > Len(s) THEN 0 ELSE Len(s) - 1 + 1
    BY <1>1, FS_Interval
  <2> QED BY <2>1 DEF IsList
<1> DEFINE D == DOMAIN s
           E == Elements(s)
           f == [i \in D |-> s[i]]
<1>3. f \in Surjection(D, E)
  BY DEF Surjection, Elements
<1>4. IsFiniteSet(D)
  BY <1>2 DEF IsList
<1>5. IsFiniteSet(E)
  <2> HIDE DEF D, E
  <2> QED BY <1>3, <1>4, FS_Surjection
<1> QED BY <1>2, <1>4, <1>5 DEF IsList

LEMMA FactsFinite ==
  ASSUME NEW flows, AreFlows(flows)
  PROVE  IsFiniteSet(FactsOf(flows))
<1> DEFINE of(i) == {<<i, p>> : p \in flow_facts(flows[i])}
           D == DOMAIN flows
           f == [i \in D |-> of(i)]
           E == {of(i) : i \in D}
<1>1. IsFiniteSet(D)
  BY FlowsFinite DEF AreFlows
<1>2. f \in Surjection(D, E)
  <2> HIDE DEF of
  <2> QED BY DEF Surjection
<1>3. IsFiniteSet(E)
  <2> HIDE DEF D, E
  <2> QED BY <1>1, <1>2, FS_Surjection
<1>4. \A i \in D : IsFiniteSet(of(i))
  BY FactsOfFlow
<1>5. \A u \in E : IsFiniteSet(u)
  BY <1>4
<1>6. IsFiniteSet(UNION E)
  <2> HIDE DEF E
  <2> QED BY <1>3, <1>5, FS_UNION
<1> QED BY <1>6 DEF FactsOf

\* A marking of a claim set is a marking.
LEMMA MarksAre ==
  ASSUME NEW cs, IsClaimSet(cs)
  PROVE  AreMarks(cs.marks)
BY DEF IsClaimSet, AreMarks, IsMarking

\* Every fact has one of the classes.
LEMMA ClassIs ==
  ASSUME NEW cs, IsClaimSet(cs), NEW id, NEW fact, IsList(fact)
  PROVE  ClassOf(cs, id, fact) \in Classes
<1> DEFINE i == resolve_marking(cs.marks, id, fact)
<1>1. i \in {0} \cup DOMAIN cs.marks
  BY MarksAre, ResolvedIs
<1>2. \A j \in DOMAIN cs.marks : cs.marks[j].class \in Classes
  BY DEF IsClaimSet, IsMarking
<1> HIDE DEF i
<1>3. ClassOf(cs, id, fact) \in {"aleatoric", "fabricated", cs.marks[i].class}
  BY DEF ClassOf, i
<1>4. i = 0 => ClassOf(cs, id, fact) \in {"aleatoric", "fabricated"}
  BY DEF ClassOf, i
<1> QED BY <1>1, <1>2, <1>3, <1>4 DEF Classes

LEMMA ClassesFinite == IsFiniteSet(Classes)
<1>1. IsFiniteSet({"observed"} \cup {"judgment"} \cup {"assumption"} \cup {"fabricated"}
                  \cup {"aleatoric"})
  BY FS_Singleton, FS_Union
<1>2. Classes = {"observed"} \cup {"judgment"} \cup {"assumption"} \cup {"fabricated"}
                \cup {"aleatoric"}
  BY DEF Classes
<1> QED BY <1>1, <1>2

\* The census partitions the facts.
LEMMA MixAddsUp ==
  ASSUME NEW cs, IsClaimSet(cs), NEW flows, AreFlows(flows)
  PROVE  /\ SumFunction(FieldMix(cs, flows)) = Cardinality(FactsOf(flows))
         /\ \A k \in Classes : FieldMix(cs, flows)[k] \in 0..Cardinality(FactsOf(flows))
<1> DEFINE X == FactsOf(flows)
           class(x) == ClassOf(cs, flows[x[1]].id, x[2])
           F == [k \in Classes |-> {x \in X : class(x) = k}]
           mix == FieldMix(cs, flows)
<1>1. IsFiniteSet(X)
  BY FactsFinite
<1>2. \A x \in X : class(x) \in Classes
  BY FactIs, ClassIs
<1> HIDE DEF X, class
<1>3. mix = [k \in Classes |-> Cardinality(F[k])]
  BY DEF FieldMix, X, class
<1>4. \A k \in Classes : IsFiniteSet(F[k]) /\ mix[k] = Cardinality(F[k]) /\ F[k] \subseteq X
  <2> SUFFICES ASSUME NEW k \in Classes
               PROVE  IsFiniteSet(F[k]) /\ mix[k] = Cardinality(F[k]) /\ F[k] \subseteq X
    OBVIOUS
  <2>1. F[k] \subseteq X
    OBVIOUS
  <2>2. IsFiniteSet(F[k])
    BY <1>1, <2>1, FS_Subset
  <2> HIDE DEF F, mix
  <2> QED BY <1>3, <2>1, <2>2
<1>5. \A k, l \in Classes : k # l => F[k] \cap F[l] = {}
  OBVIOUS
<1>6. Cover(F, Classes) = X
  BY <1>2 DEF Cover
<1>7. DOMAIN mix = Classes
  BY <1>3
<1> HIDE DEF F, mix
<1>8. SumFunctionOnSet(mix, Classes) = Cardinality(Cover(F, Classes))
  <2>1. \A k \in Classes : IsFiniteSet(F[k]) /\ mix[k] = Cardinality(F[k])
    BY <1>4
  <2> QED BY <1>5, <2>1, ClassesFinite, SumOfSizes
<1>9. SumFunction(mix) = Cardinality(X)
  BY <1>6, <1>7, <1>8 DEF SumFunction
<1>10. \A k \in Classes : mix[k] \in 0..Cardinality(X)
  <2> SUFFICES ASSUME NEW k \in Classes PROVE mix[k] \in 0..Cardinality(X)
    OBVIOUS
  <2>1. Cardinality(F[k]) \in Nat /\ Cardinality(X) \in Nat /\ Cardinality(F[k]) <= Cardinality(X)
    BY <1>1, <1>4, FS_CardinalityType, FS_Subset
  <2> QED BY <1>4, <2>1
<1> QED BY <1>9, <1>10 DEF X, mix

-----------------------------------------------------------------------------
(* What a reconstruction that passes was checked for.                      *)

\* No finding of such a claim set is a failure.
LEMMA NothingFails ==
  ASSUME NEW cs, NEW flows, cs.class = "reconstruction", check(cs, flows).ok
  PROVE  \A x \in Standing(cs, flows) : x[1] # "FAIL"
<1>1. ~\E x \in Findings(cs, flows) : x[1] = "FAIL"
  BY DEF check
<1>2. Standing(cs, flows) \subseteq Findings(cs, flows)
  BY DEF Findings
<1> QED BY <1>1, <1>2

LEMMA IdentitiesAreOnce ==
  ASSUME NEW cs, NEW flows, cs.class = "reconstruction", check(cs, flows).ok
  PROVE  /\ ~Repeats(flows)
         /\ cs.illustrative \cap Licensed(cs) = {}
         /\ \A f \in Elements(flows) : f.id \in Licensed(cs) \cup cs.illustrative
<1>1. \A x \in Forward(cs, flows) : x[1] # "FAIL"
  BY NothingFails DEF Standing
<1>2. If(Repeats(flows), "FAIL", "duplicate-flow-id") \subseteq Forward(cs, flows)
      /\ If(cs.illustrative \cap Licensed(cs) # {}, "FAIL", "licensed-and-illustrative")
           \subseteq Forward(cs, flows)
      /\ If(\E f \in Elements(flows) : f.id \notin Licensed(cs) \cup cs.illustrative,
            "FAIL", "unlicensed-flow") \subseteq Forward(cs, flows)
  BY DEF Forward
<1>3. ~Repeats(flows)
  BY <1>1, <1>2 DEF If
<1>4. cs.illustrative \cap Licensed(cs) = {}
  BY <1>1, <1>2 DEF If
<1>5. ~\E f \in Elements(flows) : f.id \notin Licensed(cs) \cup cs.illustrative
  BY <1>1, <1>2 DEF If
<1> QED BY <1>3, <1>4, <1>5

LEMMA ClaimsAreRendered ==
  ASSUME NEW cs, NEW flows, cs.class = "reconstruction", check(cs, flows).ok,
         NEW c \in Elements(cs.claims)
  PROVE  /\ c.renders \subseteq Ids(flows)
         /\ c.renders # {} \/ c.gap # None \/ c.stance = "source-unresolved"
         /\ c.renders # {} => c.stance # "source-unresolved"
<1>1. /\ \A x \in Structure(cs, flows) : x[1] # "FAIL"
      /\ \A x \in Backward(cs) : x[1] # "FAIL"
  BY NothingFails DEF Standing
<1>2. c.renders \subseteq Ids(flows)
  <2>1. PICK i \in DOMAIN cs.claims : c = cs.claims[i]
    BY DEF Elements
  <2>2. If(~(c.renders \subseteq Ids(flows)), "FAIL", "dangling-render")
          \subseteq Structure(cs, flows)
    BY <2>1 DEF Structure
  <2> QED BY <1>1, <2>2 DEF If
<1>3. /\ If(\E d \in Elements(cs.claims) :
              d.stance # "source-unresolved" /\ d.renders = {} /\ d.gap = None,
            "FAIL", "unaccounted-claim") \subseteq Backward(cs)
      /\ If(\E d \in Elements(cs.claims) : d.stance = "source-unresolved" /\ d.renders # {},
            "FAIL", "resolves-open-question") \subseteq Backward(cs)
  BY DEF Backward
<1>4. ~\E d \in Elements(cs.claims) :
         d.stance # "source-unresolved" /\ d.renders = {} /\ d.gap = None
  BY <1>1, <1>3 DEF If
<1>5. ~\E d \in Elements(cs.claims) : d.stance = "source-unresolved" /\ d.renders # {}
  BY <1>1, <1>3 DEF If
<1> QED BY <1>2, <1>4, <1>5

LEMMA ExpectationsAreMet ==
  ASSUME NEW cs, NEW flows, cs.class = "reconstruction", check(cs, flows).ok,
         NEW c \in Elements(cs.claims), NEW p \in DOMAIN c.expects
  PROVE  /\ \A id \in c.renders \cap Ids(flows) :
              p \in DOMAIN ById(flows, id).fields =>
                ById(flows, id).fields[p] \in c.expects[p]
         /\ \E id \in c.renders \cap Ids(flows) : p \in DOMAIN ById(flows, id).fields
<1> DEFINE has(id, q) == q \in DOMAIN ById(flows, id).fields
           pairs == UNION {{<<d, q>> : q \in DOMAIN d.expects} : d \in Elements(cs.claims)}
           Wrong == \E x \in pairs : \E id \in x[1].renders \cap Ids(flows) :
                      has(id, x[2]) /\ ById(flows, id).fields[x[2]] \notin x[1].expects[x[2]]
           Absent == \E x \in pairs : \A id \in x[1].renders \cap Ids(flows) : ~has(id, x[2])
<1>1. \A x \in Content(cs, flows) : x[1] # "FAIL"
  BY NothingFails DEF Standing
<1>2. /\ If(Wrong, "FAIL", "expectation-violated") \subseteq Content(cs, flows)
      /\ If(Absent, "FAIL", "expectation-unsatisfied") \subseteq Content(cs, flows)
  BY DEF Content
<1>3. <<c, p>> \in pairs
  OBVIOUS
<1> HIDE DEF pairs
<1>4. ~Wrong /\ ~Absent
  <2> HIDE DEF Wrong, Absent
  <2> QED BY <1>1, <1>2 DEF If
<1> QED BY <1>3, <1>4

\* The report, once there is one, is that of the documents.
Reported == /\ doc \in Documents
            /\ report # None => report = check(doc.cs, doc.flows)

LEMMA DocumentIs ==
  ASSUME doc \in Documents
  PROVE  /\ IsClaimSet(doc.cs) /\ AreFlows(doc.flows)
         /\ IsList(doc.cs.claims) /\ IsList(doc.flows) /\ AreMarks(doc.cs.marks)
BY DocumentsAssumption, MarksAre DEF IsClaimSet, AreFlows

LEMMA AccountedFor ==
  ASSUME Reported PROVE PassIsAccounted
<1> DEFINE cs == doc.cs
           flows == doc.flows
<1>1. SUFFICES ASSUME Passed PROVE PassIsAccounted
  BY DEF PassIsAccounted
<1>2. /\ cs.class = "reconstruction" /\ check(cs, flows).ok
      /\ IsList(flows)
  BY <1>1, DocumentIs DEF Passed, Reported
<1> HIDE DEF cs, flows
<1>3. /\ ~Repeats(flows)
      /\ cs.illustrative \cap Licensed(cs) = {}
      /\ \A f \in Elements(flows) : f.id \in Licensed(cs) \cup cs.illustrative
  BY <1>2, IdentitiesAreOnce
<1>4. ASSUME NEW i \in DOMAIN flows
      PROVE  LET id == flows[i].id
                 licences == {c \in Elements(cs.claims) : id \in c.renders}
             IN  /\ \A j \in DOMAIN flows : flows[j].id = id => i = j
                 /\ (licences # {}) # (id \in cs.illustrative)
                 /\ \A c \in licences : c.stance # "source-unresolved" /\
                      \A p \in DOMAIN c.expects \cap DOMAIN flows[i].fields :
                        flows[i].fields[p] \in c.expects[p]
  <2> DEFINE id == flows[i].id
             licences == {c \in Elements(cs.claims) : id \in c.renders}
  <2>1. \A j \in DOMAIN flows : flows[j].id = id => i = j
    BY <1>3 DEF Repeats
  <2>2. licences # {} <=> id \in Licensed(cs)
    BY DEF Licensed, Elements
  <2>3. id \in Licensed(cs) \cup cs.illustrative
    BY <1>3 DEF Elements
  <2>4. (licences # {}) # (id \in cs.illustrative)
    <3> HIDE DEF id, licences
    <3> QED BY <1>3, <2>2, <2>3
  <2>5. ASSUME NEW c \in licences
        PROVE  /\ c.stance # "source-unresolved"
               /\ \A p \in DOMAIN c.expects \cap DOMAIN flows[i].fields :
                    flows[i].fields[p] \in c.expects[p]
    <3>1. c \in Elements(cs.claims) /\ id \in c.renders
      OBVIOUS
    <3>2. c.stance # "source-unresolved"
      BY <1>2, <3>1, ClaimsAreRendered
    <3>3. ById(flows, id) = flows[i] /\ id \in Ids(flows)
      BY <1>2, <1>3, ByIdIs DEF Ids
    <3>4. ASSUME NEW p \in DOMAIN c.expects \cap DOMAIN flows[i].fields
          PROVE  flows[i].fields[p] \in c.expects[p]
      <4>1. \A k \in c.renders \cap Ids(flows) :
              p \in DOMAIN ById(flows, k).fields => ById(flows, k).fields[p] \in c.expects[p]
        BY <1>2, <3>1, ExpectationsAreMet
      <4> QED BY <3>1, <3>3, <4>1
    <3> QED BY <3>2, <3>4
  <2> QED BY <2>1, <2>4, <2>5
<1>5. ASSUME NEW c \in Elements(cs.claims)
      PROVE  /\ c.renders # {} \/ c.gap # None \/ c.stance = "source-unresolved"
             /\ c.renders \subseteq Ids(flows)
             /\ \A p \in DOMAIN c.expects :
                  \E f \in Elements(flows) : f.id \in c.renders /\ p \in DOMAIN f.fields
  <2>1. ASSUME NEW p \in DOMAIN c.expects
        PROVE  \E f \in Elements(flows) : f.id \in c.renders /\ p \in DOMAIN f.fields
    <3>1. PICK id \in c.renders \cap Ids(flows) : p \in DOMAIN ById(flows, id).fields
      BY <1>2, ExpectationsAreMet
    <3>2. PICK i \in DOMAIN flows : id = flows[i].id
      BY DEF Ids
    <3>3. ById(flows, id) = flows[i]
      BY <1>2, <1>3, <3>2, ByIdIs
    <3> QED BY <3>1, <3>2, <3>3 DEF Elements
  <2> QED BY <1>2, <2>1, ClaimsAreRendered
<1> QED BY <1>4, <1>5 DEF PassIsAccounted, cs, flows

\* A fact of the class observed is marked so, by a marking that is sourced.
LEMMA ObservedIs ==
  ASSUME NEW cs, IsClaimSet(cs), NEW id, NEW fact, IsList(fact),
         ClassOf(cs, id, fact) = "observed"
  PROVE  LET i == resolve_marking(cs.marks, id, fact)
         IN  i \in DOMAIN cs.marks /\ cs.marks[i].class = "observed" /\ ~Unsourced(cs, cs.marks[i])
<1> DEFINE i == resolve_marking(cs.marks, id, fact)
<1>1. i \in {0} \cup DOMAIN cs.marks
  BY MarksAre, ResolvedIs
<1> HIDE DEF i
<1>2. ClassOf(cs, id, fact) = IF i = 0
        THEN IF IsAleatoric(cs, fact) THEN "aleatoric" ELSE "fabricated"
        ELSE IF Unsourced(cs, cs.marks[i]) THEN "fabricated" ELSE cs.marks[i].class
  BY DEF ClassOf, i
<1> QED BY <1>1, <1>2 DEF i

\* Where no finding fails, an observed marking names a claim.
LEMMA MarksAreCited ==
  ASSUME NEW cs, NEW flows, cs.class = "reconstruction", check(cs, flows).ok,
         NEW i \in DOMAIN cs.marks, cs.marks[i].class = "observed"
  PROVE  cs.marks[i].ref \in Ids(cs.claims)
<1> DEFINE m == cs.marks[i]
<1>1. \A x \in Marking(cs, flows) : x[1] # "FAIL"
  BY NothingFails DEF Standing
<1>2. OfMarking(cs, flows, m) \subseteq Marking(cs, flows)
  BY DEF Marking
<1> HIDE DEF m
<1>3. /\ If(m.class \in {"observed", "judgment"} /\ m.ref = None,
            "FAIL", "marking-without-citation") \subseteq Marking(cs, flows)
      /\ If(m.ref # None /\ m.ref \notin Ids(cs.claims), "FAIL", "unknown-claim-ref")
           \subseteq Marking(cs, flows)
  BY <1>2 DEF OfMarking
<1>4. ~(m.class \in {"observed", "judgment"} /\ m.ref = None)
  BY <1>1, <1>3 DEF If
<1>5. ~(m.ref # None /\ m.ref \notin Ids(cs.claims))
  BY <1>1, <1>3 DEF If
<1> QED BY <1>4, <1>5 DEF m

LEMMA Sourced ==
  ASSUME Reported PROVE PassIsSourced
<1> DEFINE cs == doc.cs
           flows == doc.flows
           X == FactsOf(flows)
           T == {x \in X :
                   LET i == resolve_marking(cs.marks, flows[x[1]].id, x[2])
                   IN  /\ i # 0 /\ cs.marks[i].class = "observed"
                       /\ \E c \in Elements(cs.claims) :
                            c.id = cs.marks[i].ref /\ c.quote /\ c.source \in Ids(cs.sources)}
           O == {x \in X : ClassOf(cs, flows[x[1]].id, x[2]) = "observed"}
<1>1. SUFFICES ASSUME Passed PROVE PassIsSourced
  BY DEF PassIsSourced
<1>2. /\ cs.class = "reconstruction" /\ check(cs, flows).ok
      /\ IsClaimSet(cs) /\ AreFlows(flows) /\ IsList(cs.claims) /\ IsList(cs.marks)
      /\ report = check(cs, flows)
  BY <1>1, DocumentIs DEF Passed, Reported, AreMarks
<1>3. report.census.mix["observed"] = FieldMix(cs, flows)["observed"]
  BY <1>2 DEF check, Census
<1>4. FieldMix(cs, flows)["observed"] = Cardinality(O)
  BY DEF FieldMix, Classes
<1>5. O \subseteq T
  <2> SUFFICES ASSUME NEW x \in O PROVE x \in T
    OBVIOUS
  <2> DEFINE i == resolve_marking(cs.marks, flows[x[1]].id, x[2])
  <2>1. x \in X /\ IsList(x[2])
    BY <1>2, FactIs
  <2>2. i \in DOMAIN cs.marks /\ cs.marks[i].class = "observed" /\ ~Unsourced(cs, cs.marks[i])
    BY <1>2, <2>1, ObservedIs
  <2> HIDE DEF i, X
  <2>3. i # 0
    BY <1>2, <2>2 DEF IsList
  <2>4. cs.marks[i].ref \in Ids(cs.claims)
    BY <1>2, <2>2, MarksAreCited
  <2>5. HasSource(cs, Cited(cs, cs.marks[i].ref))
    BY <2>2, <2>4 DEF Unsourced
  <2>6. Cited(cs, cs.marks[i].ref) \in Elements(cs.claims)
        /\ Cited(cs, cs.marks[i].ref).id = cs.marks[i].ref
    BY <1>2, <2>4, CitedIs
  <2>7. \E c \in Elements(cs.claims) :
          c.id = cs.marks[i].ref /\ c.quote /\ c.source \in Ids(cs.sources)
    BY <2>5, <2>6 DEF HasSource
  <2> QED BY <2>1, <2>2, <2>3, <2>7 DEF i
<1>6. IsFiniteSet(X)
  BY <1>2, FactsFinite
<1> HIDE DEF O
<1>7. T \in SUBSET X
  OBVIOUS
<1> HIDE DEF T, X, cs, flows
<1>8. /\ Cardinality(O) \in Nat /\ Cardinality(T) \in Nat /\ Cardinality(O) <= Cardinality(T)
  BY <1>5, <1>6, <1>7, FS_CardinalityType, FS_Subset
<1>9. FieldMix(cs, flows)["observed"] # 0
  <2>1. \A x \in ClassRules(cs, flows) : x[1] # "FAIL"
    BY <1>2, NothingFails DEF Standing
  <2>2. If(FieldMix(cs, flows)["observed"] = 0, "FAIL", "nothing-sourced")
          \subseteq ClassRules(cs, flows)
    BY <1>2 DEF ClassRules
  <2> QED BY <2>1, <2>2 DEF If
<1>10. report.census.mix["observed"] > 0
  BY <1>3, <1>4, <1>8, <1>9
<1>11. Cardinality(T) >= report.census.mix["observed"]
  BY <1>3, <1>4, <1>8
<1> QED BY <1>10, <1>11 DEF PassIsSourced, SourcedFactsHaveSources, T, X, cs, flows

-----------------------------------------------------------------------------
(* The comments of the capture and the census of the report.               *)

\* What WriteProvenance writes.
Provenance ==
  [verdict |-> IF report.ok THEN "PASS" ELSE "FAIL",
   observed |-> report.census.mix["observed"],
   comments |-> Comments(doc.cs, doc.flows),
   mixes |-> Mixes(doc.cs, doc.flows)]

\* Downgraded or not, a finding that stands is listed.
LEMMA Listed ==
  ASSUME NEW cs, NEW flows, NEW code,
         <<"FAIL", code>> \in Standing(cs, flows) \/ <<"WARN", code>> \in Standing(cs, flows)
  PROVE  <<"FAIL", code>> \in Findings(cs, flows) \/ <<"WARN", code>> \in Findings(cs, flows)
<1> DEFINE down(x) == <<IF x[1] = "FAIL" THEN "WARN" ELSE x[1], x[2]>>
<1>1. CASE cs.class = "exercise"
  <2>1. \A x \in Standing(cs, flows) : down(x) \in Findings(cs, flows)
    BY <1>1 DEF Findings
  <2>2. down(<<"FAIL", code>>) = <<"WARN", code>> /\ down(<<"WARN", code>>) = <<"WARN", code>>
    OBVIOUS
  <2> HIDE DEF down
  <2>3. <<"WARN", code>> \in Findings(cs, flows)
    BY <2>1, <2>2
  <2> QED BY <2>3
<1>2. CASE cs.class # "exercise"
  BY <1>2 DEF Findings
<1> QED BY <1>1, <1>2

LEMMA IfStands ==
  ASSUME NEW cs, NEW flows
  PROVE  /\ Repeats(flows) => <<"FAIL", "duplicate-flow-id">> \in Standing(cs, flows)
         /\ Shadowed(cs, flows) =>
              <<"WARN", "aleatoric-shadowed-by-marking">> \in Standing(cs, flows)
         /\ \A i \in DOMAIN cs.marks : Unsourced(cs, cs.marks[i]) =>
              <<"FAIL", "unsourced-marking">> \in Standing(cs, flows)
<1>1. Forward(cs, flows) \subseteq Standing(cs, flows) /\ Marking(cs, flows) \subseteq Standing(cs, flows)
  BY DEF Standing
<1>2. Repeats(flows) => <<"FAIL", "duplicate-flow-id">> \in Forward(cs, flows)
  BY DEF Forward, If
<1>3. Shadowed(cs, flows) => <<"WARN", "aleatoric-shadowed-by-marking">> \in Marking(cs, flows)
  BY DEF Marking, If
<1>4. ASSUME NEW i \in DOMAIN cs.marks, Unsourced(cs, cs.marks[i])
      PROVE  <<"FAIL", "unsourced-marking">> \in Marking(cs, flows)
  <2>1. <<"FAIL", "unsourced-marking">> \in OfMarking(cs, flows, cs.marks[i])
    BY <1>4 DEF OfMarking, If
  <2>2. OfMarking(cs, flows, cs.marks[i]) \subseteq Marking(cs, flows)
    BY DEF Marking
  <2> QED BY <2>1, <2>2
<1> QED BY <1>1, <1>2, <1>3, <1>4

\* The capture, once it is written, tells of the report.
Told == capture # None => report = check(doc.cs, doc.flows) /\ capture = Provenance

LEMMA MatchingComments ==
  ASSUME Reported, Told
  PROVE  CommentsMatchCensus
<1> DEFINE cs == doc.cs
           flows == doc.flows
           X == FactsOf(flows)
           class(x) == ClassOf(cs, flows[x[1]].id, x[2])
<1>1. SUFFICES ASSUME capture # None,
                      {"unsourced-marking", "aleatoric-shadowed-by-marking", "duplicate-flow-id"}
                        \cap (Level("FAIL") \cup Level("WARN")) = {},
                      NEW k \in Classes
               PROVE  SumFunction([id \in Ids(flows) |-> capture.mixes[id][k]])
                        = report.census.mix[k]
  BY DEF CommentsMatchCensus
<1>2. /\ IsClaimSet(cs) /\ AreFlows(flows) /\ IsList(flows) /\ IsList(cs.marks)
      /\ report = check(cs, flows)
      /\ capture = Provenance
  BY <1>1, DocumentIs DEF Reported, Told, AreMarks
<1>3. ~Repeats(flows) /\ ~Shadowed(cs, flows) /\ \A i \in DOMAIN cs.marks : ~Unsourced(cs, cs.marks[i])
  <2>1. report.findings = Findings(cs, flows)
    BY <1>2 DEF check
  <2>2. \A code : <<"FAIL", code>> \in Findings(cs, flows) => code \in Level("FAIL")
    BY <2>1 DEF Level
  <2>3. \A code : <<"WARN", code>> \in Findings(cs, flows) => code \in Level("WARN")
    BY <2>1 DEF Level
  <2>4. \A code \in {"unsourced-marking", "aleatoric-shadowed-by-marking", "duplicate-flow-id"} :
          <<"FAIL", code>> \notin Findings(cs, flows) /\ <<"WARN", code>> \notin Findings(cs, flows)
    BY <1>1, <2>2, <2>3
  <2>5. \A code \in {"unsourced-marking", "aleatoric-shadowed-by-marking", "duplicate-flow-id"} :
          <<"FAIL", code>> \notin Standing(cs, flows) /\ <<"WARN", code>> \notin Standing(cs, flows)
    BY <2>4, Listed
  <2> QED BY <2>5, IfStands
<1>4. \A x \in X : PacketClassOf(cs, flows[x[1]].id, x[2]) = class(x)
  <2> SUFFICES ASSUME NEW x \in X PROVE PacketClassOf(cs, flows[x[1]].id, x[2]) = class(x)
    OBVIOUS
  <2> DEFINE id == flows[x[1]].id
             i == resolve_marking(cs.marks, id, x[2])
  <2>1. i \in {0} \cup DOMAIN cs.marks
    BY <1>2, FactIs, MarksAre, ResolvedIs
  <2>2. ~(IsAleatoric(cs, x[2]) /\ i # 0)
    BY <1>3 DEF Shadowed
  <2> HIDE DEF i
  <2>3. ClassOf(cs, id, x[2]) = IF i = 0
          THEN IF IsAleatoric(cs, x[2]) THEN "aleatoric" ELSE "fabricated"
          ELSE IF Unsourced(cs, cs.marks[i]) THEN "fabricated" ELSE cs.marks[i].class
    BY DEF ClassOf, i
  <2>4. PacketClassOf(cs, id, x[2]) = IF IsAleatoric(cs, x[2]) THEN "aleatoric"
                                  ELSE IF i = 0 THEN "fabricated" ELSE cs.marks[i].class
    BY DEF PacketClassOf, i
  <2> QED BY <1>3, <2>1, <2>2, <2>3, <2>4
<1> DEFINE I == Ids(flows)
           g == [id \in I |-> capture.mixes[id][k]]
           F == [id \in I |-> {x \in X : flows[x[1]].id = id /\ class(x) = k}]
<1>5. ASSUME NEW id \in I
      PROVE  IsFiniteSet(F[id]) /\ g[id] = Cardinality(F[id])
  <2>1. PICK i \in DOMAIN flows : id = flows[i].id
    BY DEF Ids
  <2> DEFINE T == {p \in flow_facts(flows[i]) : PacketClassOf(cs, id, p) = k}
             U == {<<i, p>> : p \in T}
  <2>2. ById(flows, id) = flows[i]
    BY <1>2, <1>3, <2>1, ByIdIs
  <2>3. capture.mixes[id] = MixOf(cs, flows[i])
    BY <1>2, <2>2 DEF Provenance, Mixes
  <2>4. g[id] = Cardinality(T)
    BY <2>1, <2>3 DEF MixOf
  <2>5. IsFiniteSet(U) /\ Cardinality(U) = Cardinality(T)
    <3>1. T \in SUBSET flow_facts(flows[i])
      OBVIOUS
    <3> HIDE DEF T
    <3> QED BY <1>2, <3>1, FactsOfFlow
  <2>6. F[id] \subseteq U
    <3> SUFFICES ASSUME NEW x \in X, flows[x[1]].id = id, class(x) = k PROVE x \in U
      OBVIOUS
    <3>1. x[1] \in DOMAIN flows /\ x[2] \in flow_facts(flows[x[1]]) /\ x = <<x[1], x[2]>>
      BY <1>2, FactIs
    <3>2. x[1] = i
      BY <1>3, <2>1, <3>1 DEF Repeats
    <3>3. PacketClassOf(cs, id, x[2]) = k
      BY <1>4
    <3> QED BY <3>1, <3>2, <3>3
  <2>7. U \subseteq F[id]
    <3> SUFFICES ASSUME NEW p \in T PROVE <<i, p>> \in F[id]
      OBVIOUS
    <3>1. <<i, p>> \in X
      BY DEF FactsOf
    <3>2. PacketClassOf(cs, id, p) = class(<<i, p>>)
      BY <1>4, <2>1, <3>1
    <3> QED BY <2>1, <3>1, <3>2
  <2>8. F[id] = U
    BY <2>6, <2>7
  <2> QED BY <2>4, <2>5, <2>8
<1>6. \A id, other \in I : id # other => F[id] \cap F[other] = {}
  OBVIOUS
<1>7. Cover(F, I) = {x \in X : class(x) = k}
  <2>1. \A x \in X : flows[x[1]].id \in I
    BY <1>2, FactIs DEF Ids
  <2> HIDE DEF X, class, I
  <2> QED BY <2>1 DEF Cover
<1>8. IsFiniteSet(I)
  <2> DEFINE D == DOMAIN flows
             h == [i \in D |-> flows[i].id]
  <2>1. h \in Surjection(D, I)
    BY DEF Surjection, Ids
  <2>2. IsFiniteSet(D)
    BY <1>2, FlowsFinite
  <2> HIDE DEF D, I, h
  <2> QED BY <2>1, <2>2, FS_Surjection
<1>9. report.census.mix[k] = Cardinality({x \in X : class(x) = k})
  BY <1>2 DEF check, Census, FieldMix
<1>10. DOMAIN g = I
  OBVIOUS
<1> HIDE DEF X, class, I, g, F
<1>11. SumFunctionOnSet(g, I) = Cardinality(Cover(F, I))
  <2>1. \A id \in I : IsFiniteSet(F[id]) /\ g[id] = Cardinality(F[id])
    BY <1>5
  <2> QED BY <1>6, <1>8, <2>1, SumOfSizes
<1>12. SumFunction(g) = report.census.mix[k]
  BY <1>7, <1>9, <1>10, <1>11 DEF SumFunction
<1> QED BY <1>12 DEF g, I

LEMMA LicenceIs ==
  ASSUME doc \in Documents, NEW id
  PROVE  LET licence == LicenceOf(doc.cs, id)
         IN  /\ licence.stance = "" <=> StanceOf(doc.cs, id) = "UNLICENSED"
             /\ licence.stance \in Stances =>
                  \E c \in Elements(doc.cs.claims) :
                    id \in c.renders /\ licence = [claim |-> c.id, stance |-> c.stance]
<1> DEFINE cs == doc.cs
           by == Licences(cs, id)
           first == CHOOSE i \in by : \A j \in by : i <= j
           c == cs.claims[first]
<1>1. IsList(cs.claims) /\ \A d \in Elements(cs.claims) : d.stance \in Stances
  BY DocumentsAssumption DEF IsClaimSet, IsClaim, Elements
<1>2. by \in SUBSET Nat /\ by \subseteq DOMAIN cs.claims
  BY <1>1 DEF Licences, IsList
<1>3. by # {} <=> id \in Licensed(cs)
  BY DEF Licences, Licensed
<1>4. CASE by # {}
  <2>1. \E i \in by : \A j \in by : i <= j
    <3> HIDE DEF by
    <3> QED BY <1>2, <1>4, LeastNat
  <2>2. first \in by
    BY <2>1
  <2>3. c \in Elements(cs.claims) /\ id \in c.renders
    BY <1>2, <2>2 DEF Licences, Elements
  <2>4. LicenceOf(doc.cs, id) = [claim |-> c.id, stance |-> c.stance]
    BY <1>4 DEF LicenceOf
  <2>5. StanceOf(cs, id) \in Stances
    BY <1>1, <1>3, <1>4, BestLicenceIs DEF StanceOf
  <2> HIDE DEF c, cs
  <2>6. LicenceOf(doc.cs, id).stance \in Stances
    BY <1>1, <2>3, <2>4
  <2>7. "" \notin Stances /\ "UNLICENSED" \notin Stances
    BY DEF Stances
  <2> QED BY <2>3, <2>4, <2>5, <2>6, <2>7 DEF cs
<1>5. CASE by = {}
  <2>1. LicenceOf(doc.cs, id) = IF id \in cs.illustrative
                        THEN [claim |-> "none", stance |-> "illustrative"]
                        ELSE [claim |-> "NONE-UNLICENSED", stance |-> ""]
    BY <1>5 DEF LicenceOf
  <2>2. StanceOf(cs, id) = IF id \in cs.illustrative THEN "illustrative" ELSE "UNLICENSED"
    BY <1>3, <1>5 DEF StanceOf
  <2>3. LicenceOf(doc.cs, id).stance = IF id \in cs.illustrative THEN "illustrative" ELSE ""
    <3>1. CASE id \in cs.illustrative
      BY <2>1, <3>1
    <3>2. CASE id \notin cs.illustrative
      <4>1. LicenceOf(doc.cs, id) = [claim |-> "NONE-UNLICENSED", stance |-> ""]
        BY <2>1, <3>2
      <4>2. [claim |-> "NONE-UNLICENSED", stance |-> ""].stance = ""
        BY Zenon
      <4> QED BY <3>2, <4>1, <4>2, Zenon
    <3> QED BY <3>1, <3>2
  <2> QED BY <2>2, <2>3 DEF Stances
<1> QED BY <1>4, <1>5

LEMMA VisibleComments ==
  ASSUME Reported, Told
  PROVE  UnlicensedIsVisible
<1> SUFFICES ASSUME capture # None, NEW i \in DOMAIN doc.flows, NEW t \in doc.flows[i].wire,
                    \A j \in DOMAIN doc.flows : doc.flows[j].tuple = t <=> i = j
             PROVE  LET comment == capture.comments[t]
                    IN  /\ comment.flow = doc.flows[i].id
                        /\ comment.licence.stance = ""
                             <=> StanceOf(doc.cs, doc.flows[i].id) = "UNLICENSED"
                        /\ comment.licence.stance \in Stances =>
                             \E c \in Elements(doc.cs.claims) :
                               /\ doc.flows[i].id \in c.renders
                               /\ comment.licence = [claim |-> c.id, stance |-> c.stance]
  BY DEF UnlicensedIsVisible
<1> DEFINE id == doc.flows[i].id
<1>1. i \in Nat \ {0}
  BY DocumentIs DEF Reported, IsList
<1>2. Indexed(doc.flows, t) = i
  <2> DEFINE T == {j \in DOMAIN doc.flows : doc.flows[j].tuple = t}
  <2>1. T = {i}
    OBVIOUS
  <2>2. (CHOOSE k \in T : \A j \in T : j <= k) = i
    <3> HIDE DEF T
    <3> QED BY <1>1, <2>1
  <2> QED BY <2>1, <2>2 DEF Indexed
<1>3. Comment(doc.cs, doc.flows, t) = [flow |-> id, licence |-> LicenceOf(doc.cs, id)]
  BY <1>1, <1>2 DEF Comment
<1>4. capture.comments[t] = Comment(doc.cs, doc.flows, t)
  <2>1. t \in UNION {f.wire : f \in Elements(doc.flows)}
    BY DEF Elements
  <2> QED BY <2>1 DEF Told, Provenance, Comments
<1>5. capture.comments[t].flow = id /\ capture.comments[t].licence = LicenceOf(doc.cs, id)
  BY <1>3, <1>4
<1> HIDE DEF id
<1>6. LET licence == LicenceOf(doc.cs, id)
      IN  /\ licence.stance = "" <=> StanceOf(doc.cs, id) = "UNLICENSED"
          /\ licence.stance \in Stances =>
               \E c \in Elements(doc.cs.claims) :
                 id \in c.renders /\ licence = [claim |-> c.id, stance |-> c.stance]
  BY LicenceIs DEF Reported
<1> QED BY <1>5, <1>6 DEF id

-----------------------------------------------------------------------------
(* The manifest, the score and the types. *)

\* What WriteManifest writes, but for the score.
Filed == manifest # None =>
  /\ report = check(doc.cs, doc.flows)
  /\ manifest.verdict = Verdict
  /\ manifest.findings = Level("FAIL") \cup Level("WARN")
  /\ manifest.downgraded = IF doc.cs.class = "exercise" THEN Level("WARN") \ Advisory ELSE {}

LEMMA ReadingPass ==
  ASSUME Filed, Told PROVE PassReadsPass
<1> SUFFICES ASSUME manifest # None, manifest.verdict = "PASS"
             PROVE  manifest.downgraded = {} /\ (capture # None => capture.verdict = "PASS")
  BY DEF PassReadsPass
<1>1. Verdict = "PASS"
  BY DEF Filed
<1>2. report.ok /\ ~(doc.cs.class = "exercise" /\ Level("WARN") # {})
  BY <1>1 DEF Verdict
<1>3. manifest.downgraded = {}
  BY <1>2 DEF Filed
<1>4. capture # None => capture.verdict = "PASS"
  BY <1>2 DEF Told, Provenance
<1> QED BY <1>3, <1>4

Scored == scored # None => scored = score(doc.cs.predictions, doc.key)

LEMMA RegisterIs ==
  ASSUME doc \in Documents
  PROVE  IsRegister(doc.cs.predictions, doc.key) /\ DOMAIN doc.key = DOMAIN doc.cs.predictions
<1> DEFINE preds == doc.cs.predictions
           key == doc.key
<1>1. /\ IsList(preds) /\ DOMAIN key = DOMAIN preds
      /\ \A i \in DOMAIN preds : preds[i].p \in 0..100
  BY DocumentsAssumption DEF IsClaimSet, IsPrediction
<1> HIDE DEF preds, key
<1>2. IsFiniteSet(DOMAIN key)
  BY <1>1, FlowsFinite
<1>3. \A i \in DOMAIN key : preds[i].p \in Int
  BY <1>1
<1> QED BY <1>1, <1>2, <1>3 DEF IsRegister, preds, key

LEMMA AddingUp ==
  ASSUME doc \in Documents, Scored PROVE ScoreAddsUp
<1> DEFINE preds == doc.cs.predictions
           key == doc.key
<1> SUFFICES ASSUME scored # None
             PROVE  /\ scored.murphy.reliability - scored.murphy.resolution
                         + scored.murphy.uncertainty = scored.brier
                    /\ SumFunction(scored.table) = scored.resolved
                    /\ scored.beat <= scored.resolved /\ scored.resolved <= scored.predictions
  BY DEF ScoreAddsUp
<1>1. IsRegister(preds, key) /\ DOMAIN key = DOMAIN preds /\ scored = score(preds, key)
  BY RegisterIs DEF Scored
<1> HIDE DEF preds, key
<1>2. scored.murphy = Murphy(preds, key) /\ scored.table = Table(preds, key)
      /\ scored.resolved = Cardinality(Resolved(key))
  BY <1>1 DEF score
<1>3. scored.murphy.reliability - scored.murphy.resolution + scored.murphy.uncertainty
        = scored.brier
  BY <1>1, <1>2, MurphyIdentity
<1>4. SumFunction(scored.table) = scored.resolved
  BY <1>1, <1>2, TableAddsUp
<1>5. scored.beat <= scored.resolved /\ scored.resolved <= scored.predictions
  BY <1>1, CountsInOrder
<1> QED BY <1>3, <1>4, <1>5

-----------------------------------------------------------------------------
(* The order of the steps. *)

At(step) == CHOOSE i \in DOMAIN Steps : Steps[i] = step

LEMMA AtIs ==
  /\ At("load") = 1 /\ At("check") = 2 /\ At("score") = 3 /\ At("manifest") = 4
  /\ At("pcapng") = 5 /\ At("verdict") = 6 /\ At("done") = 7
<1>1. /\ DOMAIN Steps = 1..7
      /\ Steps[1] = "load" /\ Steps[2] = "check" /\ Steps[3] = "score" /\ Steps[4] = "manifest"
      /\ Steps[5] = "pcapng" /\ Steps[6] = "verdict" /\ Steps[7] = "done"
  BY DEF Steps
<1>2. 1..7 = {1, 2, 3, 4, 5, 6, 7}
  OBVIOUS
<1>3. \A i, j \in DOMAIN Steps : Steps[i] = Steps[j] => i = j
  BY <1>1, <1>2
<1>4. ASSUME NEW k \in DOMAIN Steps PROVE At(Steps[k]) = k
  BY <1>3 DEF At
<1> QED BY <1>1, <1>4

LEMMA StepsAre ==
  Elements(Steps) = {"load", "check", "score", "manifest", "pcapng", "verdict", "done"}
<1>1. DOMAIN Steps = {1, 2, 3, 4, 5, 6, 7}
  BY DEF Steps
<1> QED BY <1>1 DEF Elements, Steps

\* Loading is always followed by the check, and nothing goes back to either.
LEMMA ThenIs ==
  ASSUME opts \in Options, NEW step \in Elements(Steps) \ {"done"}, Then(step)
  PROVE  /\ pc' \in Elements(Steps)
         /\ IF step = "load" THEN pc' = "check" ELSE pc' \notin {"load", "check"}
<1> DEFINE S == {"check", "verdict", "done"} \cup opts
           P(s) == /\ At(s) > At(step)
                   /\ \A t \in S : At(t) > At(step) => At(s) <= At(t)
           later == {At(s) : s \in {s \in S : At(s) > At(step)}}
<1>1. /\ opts \in SUBSET {"score", "manifest", "pcapng"}
      /\ step \in {"load", "check", "score", "manifest", "pcapng", "verdict"}
  BY OptionsAssumption, StepsAre
<1>2. S \subseteq {"check", "score", "manifest", "pcapng", "verdict", "done"}
  BY <1>1
<1>3. \A s \in S : At(s) \in 2..7
  BY <1>2, AtIs
<1>4. At(step) \in 1..6 /\ "done" \in S /\ "check" \in S
  BY <1>1, AtIs
<1> HIDE DEF S
<1>5. PICK n \in later : \A m \in later : n <= m
  <2>1. later \in SUBSET Nat
    BY <1>3
  <2>2. later # {}
    BY <1>4, AtIs
  <2> HIDE DEF later
  <2> QED BY <2>1, <2>2, LeastNat
<1>6. PICK s \in S : At(s) = n /\ At(s) > At(step)
  BY <1>5
<1>7. P(s)
  BY <1>5, <1>6
<1>8. pc' = CHOOSE x \in S : P(x)
  BY DEF Then, At, S
<1> HIDE DEF P
<1>9. pc' \in S /\ P(pc')
  BY <1>7, <1>8
<1> USE DEF P
<1>10. At(pc') > At(step)
  BY <1>9
<1>11. CASE step = "load"
  <2>1. At(pc') <= At("check")
    BY <1>4, <1>9, <1>11, AtIs
  <2>2. pc' \in {"check", "score", "manifest", "pcapng", "verdict", "done"}
    BY <1>2, <1>9
  <2> QED BY <1>11, <2>1, <2>2, AtIs, StepsAre
<1>12. CASE step # "load"
  <2>1. At(step) >= 2
    BY <1>1, <1>12, AtIs
  <2>2. pc' # "check"
    BY <1>4, <1>10, <2>1, AtIs
  <2> QED BY <1>2, <1>9, <1>12, <2>2, StepsAre
<1> QED BY <1>11, <1>12

-----------------------------------------------------------------------------
(* The invariant.  The report is that of the documents as soon as the      *)
(* check is behind, and nothing is scored or written before it is.         *)

Before == pc \in {"load", "check"}

IInv == /\ doc \in Documents /\ opts \in Options /\ pc \in Elements(Steps)
        /\ Before => report = None /\ scored = None /\ manifest = None /\ capture = None
        /\ ~Before => report = check(doc.cs, doc.flows)
        /\ Scored /\ Filed /\ Told

LEMMA Initially == Init => IInv
BY StepsAre DEF Init, IInv, Before, Scored, Filed, Told

\* A step that leaves the documents, the report and what is written alone, and goes on.
LEMMA LoadKeeps == IInv /\ Load => IInv'
<1> SUFFICES ASSUME IInv, Load PROVE IInv'
  OBVIOUS
<1>1. pc' = "check"
  BY StepsAre, ThenIs DEF IInv, Load
<1> QED BY <1>1, StepsAre DEF IInv, Load, Before, Scored, Filed, Told

LEMMA CheckKeeps == IInv /\ Check => IInv'
<1> SUFFICES ASSUME IInv, Check PROVE IInv'
  OBVIOUS
<1>1. pc' \in Elements(Steps) /\ ~Before'
  BY StepsAre, ThenIs DEF IInv, Check, Before
<1> QED BY <1>1 DEF IInv, Check, Before, Scored, Filed, Told

LEMMA ScoreKeeps == IInv /\ ScoreRegister => IInv'
<1> SUFFICES ASSUME IInv, ScoreRegister PROVE IInv'
  OBVIOUS
<1>1. pc' \in Elements(Steps) /\ ~Before' /\ ~Before
  BY StepsAre, ThenIs DEF IInv, ScoreRegister, Before
<1>2. Filed'
  BY DEF IInv, ScoreRegister, Filed, Verdict, Level
<1>3. Told'
  BY DEF IInv, ScoreRegister, Told, Provenance
<1> QED BY <1>1, <1>2, <1>3 DEF IInv, ScoreRegister, Scored

LEMMA ManifestKeeps == IInv /\ WriteManifest => IInv'
<1> SUFFICES ASSUME IInv, WriteManifest PROVE IInv'
  OBVIOUS
<1>1. pc' \in Elements(Steps) /\ ~Before' /\ ~Before
  BY StepsAre, ThenIs DEF IInv, WriteManifest, Before
<1>2. Filed'
  <2>1. report' = check(doc'.cs, doc'.flows)
    BY <1>1 DEF IInv, WriteManifest
  <2> QED BY <2>1 DEF WriteManifest, Filed, Verdict, Level
<1>3. Told'
  BY DEF IInv, WriteManifest, Told, Provenance
<1> QED BY <1>1, <1>2, <1>3 DEF IInv, WriteManifest, Scored

LEMMA ProvenanceKeeps == IInv /\ WriteProvenance => IInv'
<1> SUFFICES ASSUME IInv, WriteProvenance PROVE IInv'
  OBVIOUS
<1>1. pc' \in Elements(Steps) /\ ~Before' /\ ~Before
  BY StepsAre, ThenIs DEF IInv, WriteProvenance, Before
<1>2. Filed'
  BY DEF IInv, WriteProvenance, Filed, Verdict, Level
<1>3. Told'
  <2>1. report' = check(doc'.cs, doc'.flows)
    BY <1>1 DEF IInv, WriteProvenance
  <2>2. Provenance' = Provenance
    BY DEF WriteProvenance, Provenance
  <2>3. capture' = Provenance
    BY DEF WriteProvenance, Provenance
  <2> QED BY <2>1, <2>2, <2>3 DEF Told
<1> QED BY <1>1, <1>2, <1>3 DEF IInv, WriteProvenance, Scored

LEMMA VerdictKeeps == IInv /\ PrintVerdict => IInv'
<1> SUFFICES ASSUME IInv, PrintVerdict PROVE IInv'
  OBVIOUS
<1>1. pc' \in Elements(Steps) /\ ~Before' /\ ~Before
  BY StepsAre, ThenIs DEF IInv, PrintVerdict, Before
<1>2. Filed'
  BY DEF IInv, PrintVerdict, Filed, Verdict, Level
<1>3. Told'
  BY DEF IInv, PrintVerdict, Told, Provenance
<1> QED BY <1>1, <1>2, <1>3 DEF IInv, PrintVerdict, Scored

LEMMA Inductive == IInv /\ [Next]_vars => IInv'
<1> SUFFICES ASSUME IInv, [Next]_vars PROVE IInv'
  OBVIOUS
<1>1. CASE UNCHANGED vars
  <2>1. Filed'
    BY <1>1 DEF IInv, vars, Filed, Verdict, Level
  <2>2. Told'
    BY <1>1 DEF IInv, vars, Told, Provenance
  <2> QED BY <1>1, <2>1, <2>2 DEF IInv, vars, Before, Scored
<1> QED BY <1>1, LoadKeeps, CheckKeeps, ScoreKeeps, ManifestKeeps, ProvenanceKeeps, VerdictKeeps
        DEF Next

LEMMA Invariance == Spec => []IInv
BY Initially, Inductive, PTL DEF Spec

LEMMA ReportIs == IInv => Reported
BY DEF IInv, Reported

-----------------------------------------------------------------------------
(* The theorems. *)

\* Each step is taken only once its inputs are there, and the classes of the census
\* partition the facts of the document.
THEOREM TypeCorrect == Spec => []TypeOK
<1>1. ASSUME IInv PROVE TypeOK
  <2> DEFINE cs == doc.cs
             flows == doc.flows
  <2>1. IsClaimSet(cs) /\ AreFlows(flows)
    BY <1>1, DocumentIs DEF IInv
  <2>2. /\ SumFunction(FieldMix(cs, flows)) = Cardinality(FactsOf(flows))
        /\ FieldMix(cs, flows)["observed"] \in 0..Cardinality(FactsOf(flows))
    BY <2>1, MixAddsUp DEF Classes
  <2>3. report = check(cs, flows) => /\ report.census.mix = FieldMix(cs, flows)
                                     /\ report.census.facts = Cardinality(FactsOf(flows))
    BY DEF check, Census
  <2>4. IF pc \in {"load", "check"} THEN report = None
        ELSE SumFunction(report.census.mix) = report.census.facts
    BY <1>1, <2>2, <2>3 DEF IInv, Before
  <2>5. manifest # None => /\ manifest.verdict \in {"PASS", "FAIL", "ADVISORY"}
                           /\ manifest.downgraded \subseteq manifest.findings
    BY <1>1 DEF IInv, Filed, Verdict
  <2>6. capture # None => capture.observed \in 0..report.census.facts
    BY <1>1, <2>2, <2>3 DEF IInv, Told, Provenance
  <2> QED BY <1>1, <2>4, <2>5, <2>6 DEF IInv, TypeOK
<1> QED BY <1>1, Invariance, PTL

\* A reconstruction that passes accounts for every flow, once, and for every claim, and
\* no claim expects what none of its flows shows.
THEOREM EverythingIsAccounted == Spec => []PassIsAccounted
<1>1. IInv => PassIsAccounted
  BY ReportIs, AccountedFor
<1> QED BY <1>1, Invariance, PTL

\* A reconstruction that passes has sourced facts, and each has a claim behind it with a
\* source that is listed and a quoted span.
THEOREM PassHasSources == Spec => []PassIsSourced
<1>1. IInv => PassIsSourced
  BY ReportIs, Sourced
<1> QED BY <1>1, Invariance, PTL

\* The comments of the capture and the census of the report count the same classes,
\* unless the report says that a marking was shadowed or unsourced, or identities repeat.
THEOREM CommentsAgree == Spec => []CommentsMatchCensus
<1>1. IInv => CommentsMatchCensus
  BY ReportIs, MatchingComments DEF IInv
<1> QED BY <1>1, Invariance, PTL

\* A packet whose tuple is that of one flow says that it is unlicensed exactly when it is,
\* and never names a claim that does not license it.
THEOREM UnlicensedShows == Spec => []UnlicensedIsVisible
<1>1. IInv => UnlicensedIsVisible
  BY ReportIs, VisibleComments DEF IInv
<1> QED BY <1>1, Invariance, PTL

\* A manifest reads PASS only where nothing was downgraded, and the capture reads PASS too.
THEOREM PassMeansPass == Spec => []PassReadsPass
<1>1. IInv => PassReadsPass
  BY ReadingPass DEF IInv
<1> QED BY <1>1, Invariance, PTL

\* The decomposition is the Brier score, exactly, and the table counts each forecast once.
THEOREM ScoreIsExact == Spec => []ScoreAddsUp
<1>1. IInv => ScoreAddsUp
  BY AddingUp DEF IInv
<1> QED BY <1>1, Invariance, PTL
=============================================================================
