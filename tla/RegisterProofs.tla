--------------------------- MODULE RegisterProofs ---------------------------
(***************************************************************************)
(* Proofs about Register: the sums a score is made of, over any finite set *)
(* of forecasts and not only the registers of the run.  The induction      *)
(* rules below are about a set of good cases, not about an operator, so    *)
(* that they can be instantiated; they follow from least counterexamples.  *)
(***************************************************************************)
EXTENDS Register, FiniteSetTheorems, WellFoundedInduction, TLAPS

-----------------------------------------------------------------------------
(* Induction. *)

\* A nonempty set of naturals has a least element.
LEMMA LeastNat ==
  ASSUME NEW T \in SUBSET Nat, T # {}
  PROVE  \E x \in T : \A y \in T : x <= y
<1>1. PICK x \in T : \A y \in T : ~(<<y, x>> \in OpToRel(<, Nat))
  BY NatLessThanWellFounded, WFMin
<1>2. \A y \in T : ~(y < x)
  BY <1>1 DEF OpToRel
<1> QED BY <1>2

\* Induction over the naturals.
LEMMA NatSteps ==
  ASSUME NEW G, 0 \in G, \A n \in Nat : n \in G => n + 1 \in G
  PROVE  Nat \subseteq G
<1>1. SUFFICES ASSUME Nat \ G # {} PROVE FALSE
  OBVIOUS
<1>2. PICK n \in Nat \ G : \A m \in Nat \ G : n <= m
  BY <1>1, LeastNat, Nat \ G \in SUBSET Nat
<1>3. n # 0 /\ n - 1 \in Nat /\ n - 1 \in G
  BY <1>2
<1> QED BY <1>2, <1>3

\* Induction over the subsets of a finite set.
LEMMA SetSteps ==
  ASSUME NEW S, IsFiniteSet(S), NEW G,
         \A T \in SUBSET S : (\A U \in SUBSET T : U # T => U \in G) => T \in G
  PROVE  S \in G
<1> DEFINE Bad == (SUBSET S) \ G
<1>1. SUFFICES ASSUME Bad # {} PROVE FALSE
  OBVIOUS
<1>2. Bad \subseteq FiniteSubsetsOf(S)
  BY FS_Subset DEF FiniteSubsetsOf
<1> HIDE DEF Bad
<1>3. PICK T \in Bad : \A U \in Bad : ~(<<U, T>> \in StrictSubsetOrdering(S))
  BY <1>1, <1>2, FS_StrictSubsetOrderingWellFounded, WFMin
<1> USE DEF Bad
<1>4. \A U \in SUBSET T : U # T => U \in G
  BY <1>3 DEF StrictSubsetOrdering
<1> QED BY <1>3, <1>4

-----------------------------------------------------------------------------
(* Sums over finite sets.  A fold meets its equation: Tabulates says that  *)
(* g holds the sums of f over the subsets of S, as the fold has it.        *)

Picked(s) == CHOOSE x \in s : TRUE
Rest(s) == s \ {Picked(s)}
Tabulates(f, S, g) == g = [s \in SUBSET S |-> IF s = {} THEN 0 ELSE f[Picked(s)] + g[Rest(s)]]
Sums(f, S) == CHOOSE g : Tabulates(f, S, g)

LEMMA SumIsTabulated ==
  ASSUME NEW f, NEW S
  PROVE  SumFunctionOnSet(f, S) = Sums(f, S)[S]
BY DEF SumFunctionOnSet, FoldFunctionOnSet, MapThenFoldSet, Sums, Tabulates, Picked, Rest

LEMMA PickedIn ==
  ASSUME NEW s, s # {}
  PROVE  Picked(s) \in s /\ Rest(s) \subseteq s /\ Rest(s) # s
BY DEF Picked, Rest

LEMMA TabulatesAt ==
  ASSUME NEW f, NEW S, NEW g, Tabulates(f, S, g), NEW s \in SUBSET S
  PROVE  g[s] = IF s = {} THEN 0 ELSE f[Picked(s)] + g[Rest(s)]
BY Zenon DEF Tabulates

\* Two tables agree where both are defined.
LEMMA TablesAgree ==
  ASSUME NEW f, NEW S, NEW T, NEW g, NEW h, Tabulates(f, S, g), Tabulates(f, T, h),
         NEW s \in SUBSET (S \cap T), IsFiniteSet(s)
  PROVE  g[s] = h[s]
<1> DEFINE G == {u \in SUBSET s : g[u] = h[u]}
<1>1. ASSUME NEW u \in SUBSET s, \A v \in SUBSET u : v # u => v \in G
      PROVE  u \in G
  <2>1. u \in SUBSET S /\ u \in SUBSET T
    OBVIOUS
  <2>2. u # {} => g[Rest(u)] = h[Rest(u)]
    BY <1>1, PickedIn
  <2> QED BY <2>1, <2>2, TabulatesAt
<1> HIDE DEF G
<1>2. s \in G
  BY <1>1, SetSteps
<1> QED BY <1>2 DEF G

\* There is a table for every finite set.
LEMMA TableExists ==
  ASSUME NEW f, NEW S, IsFiniteSet(S)
  PROVE  Tabulates(f, S, Sums(f, S))
<1> DEFINE G == {T \in SUBSET S : Tabulates(f, T, Sums(f, T))}
<1>1. ASSUME NEW T \in SUBSET S, \A u \in SUBSET T : u # T => u \in G
      PROVE  T \in G
  <2>1. ASSUME NEW u \in SUBSET T, u # T
        PROVE  IsFiniteSet(u) /\ Tabulates(f, u, Sums(f, u))
    BY <1>1, <2>1, FS_Subset
  <2> DEFINE h == [s \in SUBSET T |-> IF s = {} THEN 0
                                      ELSE f[Picked(s)] + Sums(f, Rest(s))[Rest(s)]]
  <2>2. ASSUME NEW s \in SUBSET T, s # {} PROVE h[Rest(s)] = Sums(f, Rest(s))[Rest(s)]
    <3> DEFINE v == Rest(s)
    <3>1. v \subseteq s /\ v \subseteq T /\ v # T
      BY <2>2, PickedIn
    <3>2. Tabulates(f, v, Sums(f, v)) /\ IsFiniteSet(v)
      BY <2>1, <3>1
    <3>3. Sums(f, v)[v] = IF v = {} THEN 0 ELSE f[Picked(v)] + Sums(f, v)[Rest(v)]
      BY <3>2, TabulatesAt
    <3>4. CASE v = {}
      BY <3>1, <3>3, <3>4
    <3>5. CASE v # {}
      <4>1. Rest(v) \subseteq v /\ Rest(v) # T
        BY <3>1, <3>5, PickedIn
      <4>2. Tabulates(f, Rest(v), Sums(f, Rest(v))) /\ IsFiniteSet(Rest(v))
        BY <2>1, <3>1, <4>1
      <4>3. Sums(f, v)[Rest(v)] = Sums(f, Rest(v))[Rest(v)]
        BY <3>2, <4>1, <4>2, TablesAgree
      <4>4. h[v] = f[Picked(v)] + Sums(f, Rest(v))[Rest(v)]
        BY <3>1, <3>5
      <4> QED BY <3>3, <3>5, <4>3, <4>4
    <3> QED BY <3>4, <3>5
  <2> DEFINE k == [s \in SUBSET T |-> IF s = {} THEN 0 ELSE f[Picked(s)] + h[Rest(s)]]
  <2>3. h = k
    <3>1. \A s \in SUBSET T : h[s] = k[s]
      BY <2>2
    <3>2. DOMAIN h = SUBSET T /\ DOMAIN k = SUBSET T
      OBVIOUS
    <3> QED BY <3>1, <3>2, Zenon
  <2>4. Tabulates(f, T, h)
    BY <2>3, Zenon DEF Tabulates
  <2> QED BY <2>4 DEF Sums
<1> HIDE DEF G
<1>2. S \in G
  BY <1>1, SetSteps
<1> QED BY <1>2 DEF G

\* What a sum is made of: nothing, or one element and the rest.
LEMMA SumEmpty ==
  ASSUME NEW f
  PROVE  SumFunctionOnSet(f, {}) = 0
BY SumIsTabulated, TableExists, TabulatesAt, FS_EmptySet

LEMMA SumStep ==
  ASSUME NEW f, NEW S, IsFiniteSet(S), S # {}
  PROVE  SumFunctionOnSet(f, S) = f[Picked(S)] + SumFunctionOnSet(f, Rest(S))
<1>1. IsFiniteSet(Rest(S)) /\ Rest(S) \subseteq S
  BY PickedIn, FS_Subset
<1>2. Tabulates(f, S, Sums(f, S)) /\ Tabulates(f, Rest(S), Sums(f, Rest(S)))
  BY <1>1, TableExists
<1>3. Sums(f, S)[Rest(S)] = Sums(f, Rest(S))[Rest(S)]
  BY <1>1, <1>2, TablesAgree
<1>4. Sums(f, S)[S] = f[Picked(S)] + Sums(f, S)[Rest(S)]
  BY <1>2, TabulatesAt
<1> QED BY <1>3, <1>4, SumIsTabulated

LEMMA RestSmaller ==
  ASSUME NEW S, IsFiniteSet(S), S # {}
  PROVE  /\ Picked(S) \in S /\ Rest(S) \in SUBSET S /\ Rest(S) # S /\ IsFiniteSet(Rest(S))
         /\ S = Rest(S) \cup {Picked(S)} /\ Picked(S) \notin Rest(S)
<1>1. Picked(S) \in S /\ Rest(S) \subseteq S /\ Rest(S) # S
  BY PickedIn
<1>2. IsFiniteSet(Rest(S))
  BY <1>1, FS_Subset
<1>3. S = Rest(S) \cup {Picked(S)} /\ Picked(S) \notin Rest(S)
  BY <1>1 DEF Rest
<1> QED BY <1>1, <1>2, <1>3

LEMMA SumInt ==
  ASSUME NEW f, NEW S, IsFiniteSet(S), \A x \in S : f[x] \in Int
  PROVE  SumFunctionOnSet(f, S) \in Int
<1> DEFINE G == {T \in SUBSET S : SumFunctionOnSet(f, T) \in Int}
<1>1. ASSUME NEW T \in SUBSET S, \A U \in SUBSET T : U # T => U \in G PROVE T \in G
  <2>1. IsFiniteSet(T)
    BY FS_Subset
  <2>2. CASE T = {}
    BY <2>2, SumEmpty
  <2>3. CASE T # {}
    <3>1. Picked(T) \in T /\ Rest(T) \in G
      BY <1>1, <2>1, <2>3, RestSmaller
    <3>2. SumFunctionOnSet(f, T) = f[Picked(T)] + SumFunctionOnSet(f, Rest(T))
      BY <2>1, <2>3, SumStep
    <3> QED BY <3>1, <3>2
  <2> QED BY <2>2, <2>3
<1> HIDE DEF G
<1>2. S \in G
  BY <1>1, SetSteps
<1> QED BY <1>2 DEF G

\* Functions that agree on a set have the same sum over it.
LEMMA SumEqual ==
  ASSUME NEW f, NEW g, NEW S, IsFiniteSet(S), \A x \in S : f[x] = g[x]
  PROVE  SumFunctionOnSet(f, S) = SumFunctionOnSet(g, S)
<1> DEFINE G == {T \in SUBSET S : SumFunctionOnSet(f, T) = SumFunctionOnSet(g, T)}
<1>1. ASSUME NEW T \in SUBSET S, \A U \in SUBSET T : U # T => U \in G PROVE T \in G
  <2>1. IsFiniteSet(T)
    BY FS_Subset
  <2>2. CASE T = {}
    BY <2>2, SumEmpty
  <2>3. CASE T # {}
    <3>1. Picked(T) \in T /\ Rest(T) \in G
      BY <1>1, <2>1, <2>3, RestSmaller
    <3>2. /\ SumFunctionOnSet(f, T) = f[Picked(T)] + SumFunctionOnSet(f, Rest(T))
          /\ SumFunctionOnSet(g, T) = g[Picked(T)] + SumFunctionOnSet(g, Rest(T))
      BY <2>1, <2>3, SumStep
    <3> QED BY <3>1, <3>2
  <2> QED BY <2>2, <2>3
<1> HIDE DEF G
<1>2. S \in G
  BY <1>1, SetSteps
<1> QED BY <1>2 DEF G

\* The order of a sum does not matter: any element may be taken out first.
LEMMA SumRemove ==
  ASSUME NEW f, NEW S, IsFiniteSet(S), \A x \in S : f[x] \in Int, NEW e \in S
  PROVE  SumFunctionOnSet(f, S) = f[e] + SumFunctionOnSet(f, S \ {e})
<1> DEFINE G == {T \in SUBSET S : \A x \in T :
                   SumFunctionOnSet(f, T) = f[x] + SumFunctionOnSet(f, T \ {x})}
<1>1. ASSUME NEW T \in SUBSET S, \A U \in SUBSET T : U # T => U \in G PROVE T \in G
  <2> SUFFICES ASSUME NEW x \in T
               PROVE  SumFunctionOnSet(f, T) = f[x] + SumFunctionOnSet(f, T \ {x})
    OBVIOUS
  <2> DEFINE y == Picked(T)
  <2>1. IsFiniteSet(T) /\ IsFiniteSet(T \ {x})
    BY FS_Subset
  <2>2. y \in T /\ Rest(T) = T \ {y} /\ Rest(T) \in G /\ IsFiniteSet(Rest(T))
    BY <1>1, <2>1, RestSmaller DEF Rest
  <2>3. SumFunctionOnSet(f, T) = f[y] + SumFunctionOnSet(f, T \ {y})
    BY <2>1, <2>2, SumStep
  <2>4. CASE x = y
    BY <2>3, <2>4
  <2>5. CASE x # y
    <3>1. x \in T \ {y} /\ y \in T \ {x} /\ T \ {x} \in G
      BY <1>1, <2>2, <2>5
    <3>2. SumFunctionOnSet(f, T \ {y}) = f[x] + SumFunctionOnSet(f, (T \ {y}) \ {x})
      BY <2>2, <3>1
    <3>3. SumFunctionOnSet(f, T \ {x}) = f[y] + SumFunctionOnSet(f, (T \ {x}) \ {y})
      BY <3>1
    <3>4. SumFunctionOnSet(f, (T \ {x}) \ {y}) = SumFunctionOnSet(f, (T \ {y}) \ {x})
      <4>1. (T \ {x}) \ {y} = (T \ {y}) \ {x}
        OBVIOUS
      <4> QED BY <4>1
    <3>5. SumFunctionOnSet(f, (T \ {y}) \ {x}) \in Int
      BY <2>1, FS_Subset, SumInt
    <3>6. f[x] \in Int /\ f[y] \in Int
      BY <2>2
    <3> QED BY <2>3, <3>2, <3>3, <3>4, <3>5, <3>6
  <2> QED BY <2>4, <2>5
<1> HIDE DEF G
<1>2. S \in G
  BY <1>1, SetSteps
<1> QED BY <1>2 DEF G

\* A sum of multiples is the multiple of the sums.
LEMMA SumLinear ==
  ASSUME NEW f, NEW g, NEW h, NEW a \in Int, NEW b \in Int, NEW S, IsFiniteSet(S),
         \A x \in S : g[x] \in Int /\ h[x] \in Int /\ f[x] = a * g[x] + b * h[x]
  PROVE  SumFunctionOnSet(f, S) = a * SumFunctionOnSet(g, S) + b * SumFunctionOnSet(h, S)
<1> DEFINE G == {T \in SUBSET S : SumFunctionOnSet(f, T)
                   = a * SumFunctionOnSet(g, T) + b * SumFunctionOnSet(h, T)}
<1>1. ASSUME NEW T \in SUBSET S, \A U \in SUBSET T : U # T => U \in G PROVE T \in G
  <2>1. IsFiniteSet(T)
    BY FS_Subset
  <2>2. CASE T = {}
    BY <2>2, SumEmpty
  <2>3. CASE T # {}
    <3>1. Picked(T) \in T /\ Rest(T) \in G /\ Rest(T) \in SUBSET S /\ IsFiniteSet(Rest(T))
      BY <1>1, <2>1, <2>3, RestSmaller
    <3>2. /\ SumFunctionOnSet(f, T) = f[Picked(T)] + SumFunctionOnSet(f, Rest(T))
          /\ SumFunctionOnSet(g, T) = g[Picked(T)] + SumFunctionOnSet(g, Rest(T))
          /\ SumFunctionOnSet(h, T) = h[Picked(T)] + SumFunctionOnSet(h, Rest(T))
      BY <2>1, <2>3, SumStep
    <3>3. SumFunctionOnSet(g, Rest(T)) \in Int /\ SumFunctionOnSet(h, Rest(T)) \in Int
      BY <3>1, SumInt
    <3>4. \A p, q, r, t \in Int : (a * p + b * q) + (a * r + b * t) = a * (p + r) + b * (q + t)
      OBVIOUS
    <3>5. f[Picked(T)] = a * g[Picked(T)] + b * h[Picked(T)]
      BY <3>1
    <3>6. SumFunctionOnSet(f, Rest(T))
            = a * SumFunctionOnSet(g, Rest(T)) + b * SumFunctionOnSet(h, Rest(T))
      BY <3>1
    <3>7. g[Picked(T)] \in Int /\ h[Picked(T)] \in Int
      BY <3>1
    <3>8. SumFunctionOnSet(f, T) = a * SumFunctionOnSet(g, T) + b * SumFunctionOnSet(h, T)
      <4> DEFINE p == g[Picked(T)]  q == h[Picked(T)]
                 r == SumFunctionOnSet(g, Rest(T))  t == SumFunctionOnSet(h, Rest(T))
      <4>1. p \in Int /\ q \in Int /\ r \in Int /\ t \in Int
        BY <3>3, <3>7
      <4>2. /\ SumFunctionOnSet(g, T) = p + r /\ SumFunctionOnSet(h, T) = q + t
            /\ SumFunctionOnSet(f, T) = (a * p + b * q) + (a * r + b * t)
        BY <3>2, <3>5, <3>6
      <4> HIDE DEF p, q, r, t
      <4>3. (a * p + b * q) + (a * r + b * t) = a * (p + r) + b * (q + t)
        BY <3>4, <4>1
      <4> QED BY <4>2, <4>3
    <3> QED BY <3>8
  <2> QED BY <2>2, <2>3
<1> HIDE DEF G
<1>2. S \in G
  BY <1>1, SetSteps
<1> QED BY <1>2 DEF G

\* The sum over two sets that share nothing.
LEMMA SumUnion ==
  ASSUME NEW f, NEW A, NEW B, IsFiniteSet(A), IsFiniteSet(B), A \cap B = {},
         \A x \in A \cup B : f[x] \in Int
  PROVE  SumFunctionOnSet(f, A \cup B) = SumFunctionOnSet(f, A) + SumFunctionOnSet(f, B)
<1> DEFINE G == {T \in SUBSET B : SumFunctionOnSet(f, A \cup T)
                   = SumFunctionOnSet(f, A) + SumFunctionOnSet(f, T)}
<1>0. SumFunctionOnSet(f, A) \in Int
  BY SumInt
<1>1. ASSUME NEW T \in SUBSET B, \A U \in SUBSET T : U # T => U \in G PROVE T \in G
  <2>1. IsFiniteSet(T) /\ IsFiniteSet(A \cup T)
    BY FS_Subset, FS_Union
  <2>2. CASE T = {}
    <3>1. A \cup T = A
      BY <2>2
    <3> QED BY <1>0, <2>2, <3>1, SumEmpty
  <2>3. CASE T # {}
    <3> DEFINE x == Picked(T)
    <3>1. x \in T /\ Rest(T) \in G /\ IsFiniteSet(Rest(T)) /\ T = Rest(T) \cup {x} /\ x \notin Rest(T)
      BY <1>1, <2>1, <2>3, RestSmaller
    <3>2. SumFunctionOnSet(f, T) = f[x] + SumFunctionOnSet(f, Rest(T))
      BY <2>1, <2>3, SumStep
    <3>3. SumFunctionOnSet(f, A \cup T) = f[x] + SumFunctionOnSet(f, (A \cup T) \ {x})
      BY <2>1, <3>1, SumRemove
    <3>4. (A \cup T) \ {x} = A \cup Rest(T)
      BY <3>1
    <3>5. SumFunctionOnSet(f, A \cup T) = f[x] + SumFunctionOnSet(f, A \cup Rest(T))
      BY <3>3, <3>4
    <3>6. SumFunctionOnSet(f, Rest(T)) \in Int /\ f[x] \in Int
      BY <3>1, SumInt
    <3> QED BY <1>0, <3>1, <3>2, <3>5, <3>6
  <2> QED BY <2>2, <2>3
<1> HIDE DEF G
<1>2. B \in G
  BY <1>1, SetSteps
<1> QED BY <1>2 DEF G

\* The sum over a family of sets that share nothing is the sum of their sums.
Cover(F, T) == UNION {F[s] : s \in T}

LEMMA SumOfParts ==
  ASSUME NEW f, NEW g, NEW F, NEW S, IsFiniteSet(S),
         \A s \in S : IsFiniteSet(F[s]) /\ g[s] = SumFunctionOnSet(f, F[s]),
         \A s, t \in S : s # t => F[s] \cap F[t] = {},
         \A x \in Cover(F, S) : f[x] \in Int
  PROVE  /\ IsFiniteSet(Cover(F, S))
         /\ SumFunctionOnSet(g, S) = SumFunctionOnSet(f, Cover(F, S))
<1> DEFINE G == {T \in SUBSET S : /\ IsFiniteSet(Cover(F, T))
                                  /\ SumFunctionOnSet(g, T) = SumFunctionOnSet(f, Cover(F, T))}
<1>1. ASSUME NEW T \in SUBSET S, \A U \in SUBSET T : U # T => U \in G PROVE T \in G
  <2>1. IsFiniteSet(T)
    BY FS_Subset
  <2>2. CASE T = {}
    <3>1. Cover(F, T) = {}
      BY <2>2 DEF Cover
    <3> QED BY <2>2, <3>1, SumEmpty, FS_EmptySet
  <2>3. CASE T # {}
    <3> DEFINE x == Picked(T)  R == Rest(T)
    <3>1. x \in T /\ R \in G /\ IsFiniteSet(R) /\ T = R \cup {x} /\ x \notin R /\ R \in SUBSET S
      BY <1>1, <2>1, <2>3, RestSmaller
    <3>2. SumFunctionOnSet(g, T) = g[x] + SumFunctionOnSet(g, R)
      BY <2>1, <2>3, SumStep
    <3>3. Cover(F, T) = F[x] \cup Cover(F, R) /\ F[x] \cap Cover(F, R) = {}
      <4>1. \A s \in R : s \in S /\ x \in S /\ s # x
        BY <3>1
      <4>2. \A s \in R : F[x] \cap F[s] = {}
        BY <4>1
      <4> QED BY <3>1, <4>2 DEF Cover
    <3>4. \A y \in F[x] \cup Cover(F, R) : f[y] \in Int
      BY <3>3, Cover(F, T) \subseteq Cover(F, S) DEF Cover
    <3>5. IsFiniteSet(F[x]) /\ IsFiniteSet(Cover(F, R)) /\ IsFiniteSet(Cover(F, T))
      <4>1. IsFiniteSet(F[x]) /\ IsFiniteSet(Cover(F, R))
        BY <3>1
      <4>2. IsFiniteSet(F[x] \cup Cover(F, R))
        BY <4>1, FS_Union
      <4> QED BY <3>3, <4>1, <4>2
    <3>6. SumFunctionOnSet(f, Cover(F, T))
            = SumFunctionOnSet(f, F[x]) + SumFunctionOnSet(f, Cover(F, R))
      <4> HIDE DEF x, R
      <4> QED BY <3>3, <3>4, <3>5, SumUnion
    <3> QED BY <3>1, <3>2, <3>5, <3>6
  <2> QED BY <2>2, <2>3
<1> HIDE DEF G
<1>2. S \in G
  BY <1>1, SetSteps
<1> QED BY <1>2 DEF G

\* The size of a set is a sum of ones, so sizes of parts add up to the size of the whole.
LEMMA SizeIsSum ==
  ASSUME NEW f, NEW S, IsFiniteSet(S), \A x \in S : f[x] = 1
  PROVE  SumFunctionOnSet(f, S) = Cardinality(S)
<1> DEFINE G == {T \in SUBSET S : SumFunctionOnSet(f, T) = Cardinality(T)}
<1>1. ASSUME NEW T \in SUBSET S, \A U \in SUBSET T : U # T => U \in G PROVE T \in G
  <2>1. IsFiniteSet(T)
    BY FS_Subset
  <2>2. CASE T = {}
    BY <2>2, SumEmpty, FS_EmptySet
  <2>3. CASE T # {}
    <3>1. Picked(T) \in T /\ Rest(T) \in G
      BY <1>1, <2>1, <2>3, RestSmaller
    <3>2. SumFunctionOnSet(f, T) = f[Picked(T)] + SumFunctionOnSet(f, Rest(T))
      BY <2>1, <2>3, SumStep
    <3>3. Cardinality(Rest(T)) = Cardinality(T) - 1 /\ Cardinality(T) \in Nat
      BY <2>1, <3>1, FS_RemoveElement, FS_CardinalityType DEF Rest
    <3> QED BY <3>1, <3>2, <3>3
  <2> QED BY <2>2, <2>3
<1> HIDE DEF G
<1>2. S \in G
  BY <1>1, SetSteps
<1> QED BY <1>2 DEF G

LEMMA SumOfSizes ==
  ASSUME NEW g, NEW F, NEW S, IsFiniteSet(S),
         \A s \in S : IsFiniteSet(F[s]) /\ g[s] = Cardinality(F[s]),
         \A s, t \in S : s # t => F[s] \cap F[t] = {}
  PROVE  IsFiniteSet(Cover(F, S)) /\ SumFunctionOnSet(g, S) = Cardinality(Cover(F, S))
<1> DEFINE one == [x \in Cover(F, S) |-> 1]
<1>1. \A x \in Cover(F, S) : one[x] = 1 /\ one[x] \in Int
  OBVIOUS
<1>2. \A s \in S : \A x \in F[s] : one[x] = 1
  BY DEF Cover
<1> HIDE DEF one
<1>3. \A s \in S : g[s] = SumFunctionOnSet(one, F[s])
  BY <1>2, SizeIsSum
<1>4. /\ IsFiniteSet(Cover(F, S))
      /\ SumFunctionOnSet(g, S) = SumFunctionOnSet(one, Cover(F, S))
  BY <1>1, <1>3, SumOfParts
<1> QED BY <1>1, <1>4, SizeIsSum

-----------------------------------------------------------------------------
(* The factorial. *)

\* Tables of factorials up to n, and the whole table.
FactorialTo(n, g) == g = [i \in 0..n |-> IF i = 0 THEN 1 ELSE i * g[i - 1]]
IsFactorial(g) == g = [i \in Nat |-> IF i = 0 THEN 1 ELSE i * g[i - 1]]

LEMMA FactorialToAt ==
  ASSUME NEW n \in Nat, NEW g, FactorialTo(n, g), NEW i \in 0..n
  PROVE  g[i] = IF i = 0 THEN 1 ELSE i * g[i - 1]
BY Zenon DEF FactorialTo

LEMMA FactorialsAgree ==
  ASSUME NEW n \in Nat, NEW m \in Nat, NEW g, NEW h, FactorialTo(n, g), FactorialTo(m, h),
         NEW i \in Nat, i <= n, i <= m
  PROVE  g[i] = h[i]
<1> DEFINE G == {j \in Nat : j <= n /\ j <= m => g[j] = h[j]}
<1>1. 0 \in G
  BY FactorialToAt
<1>2. ASSUME NEW j \in Nat, j \in G PROVE j + 1 \in G
  <2> SUFFICES ASSUME j + 1 <= n, j + 1 <= m PROVE g[j + 1] = h[j + 1]
    OBVIOUS
  <2>1. g[j] = h[j]
    BY <1>2
  <2>2. j + 1 \in 0..n /\ j + 1 \in 0..m /\ j + 1 # 0 /\ (j + 1) - 1 = j
    OBVIOUS
  <2>3. g[j + 1] = (j + 1) * g[(j + 1) - 1] /\ h[j + 1] = (j + 1) * h[(j + 1) - 1]
    BY <2>2, FactorialToAt
  <2> QED BY <2>1, <2>2, <2>3
<1> HIDE DEF G
<1>3. i \in G
  BY <1>1, <1>2, NatSteps
<1> QED BY <1>3 DEF G

LEMMA FactorialToExists ==
  ASSUME NEW n \in Nat
  PROVE  \E g : FactorialTo(n, g)
<1> DEFINE G == {j \in Nat : \E g : FactorialTo(j, g)}
<1>1. 0 \in G
  <2> DEFINE g == [i \in 0..0 |-> 1]  k == [i \in 0..0 |-> IF i = 0 THEN 1 ELSE i * g[i - 1]]
  <2>1. g = k
    OBVIOUS
  <2>2. FactorialTo(0, g)
    BY <2>1, Zenon DEF FactorialTo
  <2> QED BY <2>2
<1>2. ASSUME NEW j \in Nat, j \in G PROVE j + 1 \in G
  <2>1. PICK g : FactorialTo(j, g)
    BY <1>2
  <2> DEFINE h == [i \in 0..(j + 1) |-> IF i <= j THEN g[i] ELSE (j + 1) * g[j]]
             k == [i \in 0..(j + 1) |-> IF i = 0 THEN 1 ELSE i * h[i - 1]]
  <2>2. ASSUME NEW i \in 0..(j + 1) PROVE h[i] = k[i]
    <3>1. CASE i <= j
      <4>1. i \in 0..j /\ g[i] = IF i = 0 THEN 1 ELSE i * g[i - 1]
        BY <2>1, <3>1, FactorialToAt
      <4>2. i # 0 => h[i - 1] = g[i - 1]
        BY <3>1
      <4> QED BY <4>1, <4>2
    <3>2. CASE i = j + 1
      <4>1. h[i] = (j + 1) * g[j] /\ h[j] = g[j] /\ i - 1 = j /\ i # 0
        BY <3>2
      <4> QED BY <3>2, <4>1
    <3> QED BY <3>1, <3>2
  <2>3. h = k
    <3>1. DOMAIN h = 0..(j + 1) /\ DOMAIN k = 0..(j + 1)
      OBVIOUS
    <3> HIDE DEF h, k
    <3>2. h = [i \in 0..(j + 1) |-> h[i]] /\ k = [i \in 0..(j + 1) |-> k[i]]
      BY <3>1 DEF h, k
    <3> QED BY <2>2, <3>2, Zenon
  <2>4. FactorialTo(j + 1, h)
    BY <2>3, Zenon DEF FactorialTo
  <2> HIDE DEF h
  <2> QED BY <2>4
<1> HIDE DEF G
<1>3. n \in G
  BY <1>1, <1>2, NatSteps
<1> QED BY <1>3 DEF G

LEMMA FactorialAt ==
  /\ Factorial[0] = 1
  /\ \A n \in Nat : Factorial[n + 1] = (n + 1) * Factorial[n]
<1> DEFINE F(n) == CHOOSE g : FactorialTo(n, g)
           f == [n \in Nat |-> F(n)[n]]
           k == [i \in Nat |-> IF i = 0 THEN 1 ELSE i * f[i - 1]]
<1>1. \A n \in Nat : FactorialTo(n, F(n))
  BY FactorialToExists
<1>2. ASSUME NEW n \in Nat PROVE f[n] = k[n]
  <2>1. CASE n = 0
    <3>1. F(0)[0] = 1
      BY <1>1, FactorialToAt
    <3> QED BY <2>1, <3>1
  <2>2. CASE n # 0
    <3>1. n - 1 \in Nat /\ n \in 0..n
      BY <2>2
    <3> HIDE DEF F
    <3>2. F(n)[n] = n * F(n)[n - 1]
      BY <1>1, <2>2, <3>1, FactorialToAt
    <3>3. F(n)[n - 1] = F(n - 1)[n - 1]
      BY <1>1, <3>1, FactorialsAgree
    <3> QED BY <2>2, <3>1, <3>2, <3>3
  <2> QED BY <2>1, <2>2
<1>3. f = k
  <2>1. f = [i \in Nat |-> f[i]] /\ k = [i \in Nat |-> k[i]]
    OBVIOUS
  <2> QED BY <1>2, <2>1, Zenon
<1> HIDE DEF f
<1>4. IsFactorial(f)
  BY <1>3, Zenon DEF IsFactorial
<1>5. IsFactorial(Factorial)
  BY <1>4, Zenon DEF IsFactorial, Factorial
<1>6. \A n \in Nat : Factorial[n] = IF n = 0 THEN 1 ELSE n * Factorial[n - 1]
  BY <1>5, Zenon DEF IsFactorial
<1> QED BY <1>6

\* A factorial is a natural number that each number up to its own divides.
LEMMA FactorialDivides ==
  ASSUME NEW n \in Nat
  PROVE  /\ Factorial[n] \in Nat
         /\ \A m \in 1..n : /\ Factorial[n] \div m \in Nat
                            /\ m * (Factorial[n] \div m) = Factorial[n]
<1> DEFINE G == {j \in Nat : /\ Factorial[j] \in Nat
                             /\ \A m \in 1..j : \E q \in Nat : Factorial[j] = m * q}
<1>1. 0 \in G
  BY FactorialAt
<1>2. ASSUME NEW j \in Nat, j \in G PROVE j + 1 \in G
  <2>1. Factorial[j + 1] = (j + 1) * Factorial[j] /\ Factorial[j] \in Nat
    BY <1>2, FactorialAt
  <2>2. Factorial[j + 1] \in Nat
    BY <2>1
  <2>3. ASSUME NEW m \in 1..(j + 1) PROVE \E q \in Nat : Factorial[j + 1] = m * q
    <3>1. CASE m = j + 1
      BY <2>1, <3>1
    <3>2. CASE m \in 1..j
      <4>1. PICK q \in Nat : Factorial[j] = m * q
        BY <1>2, <3>2
      <4>2. \A a, b, c \in Nat : a * (b * c) = b * (a * c)
        OBVIOUS
      <4>3. (j + 1) * (m * q) = m * ((j + 1) * q) /\ (j + 1) * q \in Nat
        BY <3>2, <4>2
      <4> QED BY <2>1, <4>1, <4>3
    <3> QED BY <3>1, <3>2
  <2> QED BY <2>2, <2>3
<1> HIDE DEF G
<1>3. n \in G
  BY <1>1, <1>2, NatSteps
<1>4. Factorial[n] \in Nat /\ \A m \in 1..n : \E q \in Nat : Factorial[n] = m * q
  BY <1>3 DEF G
<1>5. ASSUME NEW m \in 1..n
      PROVE  Factorial[n] \div m \in Nat /\ m * (Factorial[n] \div m) = Factorial[n]
  <2>1. PICK q \in Nat : Factorial[n] = m * q
    BY <1>4
  <2>2. \A a \in Nat \ {0}, b \in Nat : (a * b) \div a = b
    OBVIOUS
  <2>3. Factorial[n] \div m = q
    BY <2>1, <2>2
  <2> QED BY <2>1, <2>3
<1> QED BY <1>4, <1>5

-----------------------------------------------------------------------------
(* The score. *)

\* A sum of zeros and ones counts the ones.
LEMMA SumOfTicks ==
  ASSUME NEW f, NEW S, IsFiniteSet(S), \A x \in S : f[x] \in {0, 1}
  PROVE  SumFunctionOnSet(f, S) = Cardinality({x \in S : f[x] = 1})
<1> DEFINE F == [v \in {0, 1} |-> {x \in S : f[x] = v}]
<1>1. IsFiniteSet(F[0]) /\ IsFiniteSet(F[1]) /\ F[0] \cap F[1] = {} /\ F[0] \cup F[1] = S
  BY FS_Subset
<1>2. SumFunctionOnSet(f, F[1]) = Cardinality(F[1])
  <2>1. \A x \in F[1] : f[x] = 1
    OBVIOUS
  <2> HIDE DEF F
  <2> QED BY <1>1, <2>1, SizeIsSum
<1>3. SumFunctionOnSet(f, F[0]) = 0
  <2> DEFINE one == [x \in S |-> 1]
  <2>1. \A x \in F[0] : one[x] \in Int /\ f[x] = 0 * one[x] + 0 * one[x]
    OBVIOUS
  <2> HIDE DEF F, one
  <2>2. SumFunctionOnSet(f, F[0])
          = 0 * SumFunctionOnSet(one, F[0]) + 0 * SumFunctionOnSet(one, F[0])
    BY <1>1, <2>1, SumLinear
  <2>3. SumFunctionOnSet(one, F[0]) \in Int
    BY <1>1, <2>1, SumInt
  <2> QED BY <2>2, <2>3
<1>4. SumFunctionOnSet(f, F[0] \cup F[1]) = SumFunctionOnSet(f, F[0]) + SumFunctionOnSet(f, F[1])
  <2>1. \A x \in F[0] \cup F[1] : f[x] \in Int
    OBVIOUS
  <2> HIDE DEF F
  <2> QED BY <1>1, <2>1, SumUnion
<1>5. Cardinality(F[1]) \in Nat
  BY <1>1, FS_CardinalityType
<1>6. F[1] = {x \in S : f[x] = 1}
  OBVIOUS
<1> HIDE DEF F
<1>7. SumFunctionOnSet(f, F[0] \cup F[1]) = SumFunctionOnSet(f, S)
  BY <1>1
<1>8. SumFunctionOnSet(f, S) = Cardinality(F[1])
  BY <1>2, <1>3, <1>4, <1>5, <1>7
<1> QED BY <1>6, <1>8

\* Which forecasts a register may hold: finitely many, each a number.
IsRegister(preds, key) == IsFiniteSet(DOMAIN key) /\ \A i \in DOMAIN key : preds[i].p \in Int

\* The forecasts that are grouped together are the same number, and each is in one group.
LEMMA GroupsPartition ==
  ASSUME NEW preds, NEW key, IsRegister(preds, key)
  PROVE  LET R == Resolved(key)
             Q == Groups(preds, key)
         IN  /\ IsFiniteSet(R) /\ IsFiniteSet(Q) /\ UNION Q = R
             /\ \A g \in Q : g \subseteq R /\ g # {} /\ IsFiniteSet(g)
             /\ \A g, d \in Q : g # d => g \cap d = {}
             /\ \A g \in Q : \A i, j \in g : Forecast(preds, i) = Forecast(preds, j)
             /\ \A i \in R : Forecast(preds, i) \in Int
<1> DEFINE R == Resolved(key)
           Q == Groups(preds, key)
           class(i) == {j \in R : GroupOf(preds, j) = GroupOf(preds, i)}
           f == [i \in R |-> class(i)]
<1>1. IsFiniteSet(R)
  BY FS_Subset DEF IsRegister, Resolved
<1>2. Q = {class(i) : i \in R}
  BY DEF Groups
<1>3. f \in Surjection(R, Q)
  BY <1>2 DEF Surjection
<1>4. IsFiniteSet(Q)
  BY <1>1, <1>3, FS_Surjection
<1>5. UNION Q = R /\ \A g \in Q : g \subseteq R /\ g # {}
  BY <1>2
<1>6. \A g \in Q : IsFiniteSet(g)
  BY <1>1, <1>5, FS_Subset
<1>7. \A g, d \in Q : g # d => g \cap d = {}
  BY <1>2
<1>8. \A g \in Q : \A i, j \in g : Forecast(preds, i) = Forecast(preds, j)
  BY <1>2 DEF GroupOf
<1>9. \A i \in R : Forecast(preds, i) \in Int
  BY DEF IsRegister, Resolved, Forecast, Clip
<1> QED BY <1>1, <1>4, <1>5, <1>6, <1>7, <1>8, <1>9

\* What one group adds to the two sums of the decomposition.
LEMMA GroupTerms ==
  ASSUME NEW s \in Int, NEW m \in Int, NEW p \in Int, NEW n \in Int, NEW h \in Int,
         NEW k \in Int, NEW N \in Int, N = m * s
  PROVE  (n * n) * (s * ((m * p - 100 * h) * (m * p - 100 * h)))
           + (-10000) * (s * ((h * n - k * m) * (h * n - k * m)))
         = (n * n * N) * ((p * p) * m + (10000 - 200 * p) * h)
           + 1 * ((10000 * (2 * n * k * N - n * n * N)) * h + (-10000 * k * k * N) * m)
OBVIOUS

\* What is left of the decomposition after the sums over the groups.
LEMMA DecompositionCloses ==
  ASSUME NEW N \in Int, NEW n \in Int, NEW k \in Int, NEW b \in Int,
         NEW x \in Int, NEW y \in Int, NEW e \in Int,
         (n * n) * x + (-10000) * y = (n * n * N) * b + 1 * e,
         e = (10000 * (2 * n * k * N - n * n * N)) * k + (-10000 * k * k * N) * n
  PROVE  n * n * x - 10000 * y + 10000 * N * n * k * (n - k) = n * n * N * b
OBVIOUS

\* The decomposition of any family of groups: m[g] forecasts of p[g], h[g] of which came
\* true, and N a multiple of each m[g].
Decomposes(Q, n, k, N, m, h, p, s, rel, res, total) ==
  /\ n \in Int /\ k \in Int /\ N \in Int
  /\ \A g \in Q : /\ m[g] \in Int /\ h[g] \in Int /\ p[g] \in Int /\ s[g] \in Int
                  /\ N = m[g] * s[g]
                  /\ rel[g] = s[g] * ((m[g] * p[g] - 100 * h[g]) * (m[g] * p[g] - 100 * h[g]))
                  /\ res[g] = s[g] * ((h[g] * n - k * m[g]) * (h[g] * n - k * m[g]))
                  /\ total[g] = (p[g] * p[g]) * m[g] + (10000 - 200 * p[g]) * h[g]
  /\ n = SumFunctionOnSet(m, Q) /\ k = SumFunctionOnSet(h, Q)

LEMMA Decomposition ==
  ASSUME NEW Q, IsFiniteSet(Q), NEW n \in Int, NEW k \in Int, NEW N \in Int,
         NEW m, NEW h, NEW p, NEW s, NEW rel, NEW res, NEW total,
         Decomposes(Q, n, k, N, m, h, p, s, rel, res, total)
  PROVE  n * n * SumFunctionOnSet(rel, Q) - 10000 * SumFunctionOnSet(res, Q)
           + 10000 * N * n * k * (n - k) = n * n * N * SumFunctionOnSet(total, Q)
<1> DEFINE a == n * n
           b == -10000
           w == n * n * N
           one == 1
           c == 10000 * (2 * n * k * N - n * n * N)
           d == -10000 * k * k * N
           both == [g \in Q |-> a * rel[g] + b * res[g]]
           left == [g \in Q |-> c * h[g] + d * m[g]]
<1>1. a \in Int /\ b \in Int /\ w \in Int /\ c \in Int /\ d \in Int /\ one \in Int
  OBVIOUS
<1>2. ASSUME NEW g \in Q
      PROVE  /\ rel[g] \in Int /\ res[g] \in Int /\ total[g] \in Int /\ left[g] \in Int
             /\ both[g] = w * total[g] + one * left[g]
  <2>1. PICK mm \in Int : mm = m[g]
    BY DEF Decomposes
  <2>2. PICK hh \in Int : hh = h[g]
    BY DEF Decomposes
  <2>3. PICK pp \in Int : pp = p[g]
    BY DEF Decomposes
  <2>4. PICK ss \in Int : ss = s[g]
    BY DEF Decomposes
  <2>5. N = mm * ss
    BY <2>1, <2>4 DEF Decomposes
  <2>6. /\ rel[g] = ss * ((mm * pp - 100 * hh) * (mm * pp - 100 * hh))
        /\ res[g] = ss * ((hh * n - k * mm) * (hh * n - k * mm))
        /\ total[g] = (pp * pp) * mm + (10000 - 200 * pp) * hh
        /\ left[g] = c * hh + d * mm
        /\ both[g] = a * rel[g] + b * res[g]
    <3> HIDE DEF a, b, c, d
    <3> QED BY <2>1, <2>2, <2>3, <2>4 DEF Decomposes
  <2>7. a * (ss * ((mm * pp - 100 * hh) * (mm * pp - 100 * hh)))
          + b * (ss * ((hh * n - k * mm) * (hh * n - k * mm)))
        = w * ((pp * pp) * mm + (10000 - 200 * pp) * hh) + one * (c * hh + d * mm)
    BY <2>5, GroupTerms
  <2>8. rel[g] \in Int /\ res[g] \in Int /\ total[g] \in Int /\ left[g] \in Int
    <3> HIDE DEF a, b, c, d, left, both
    <3> QED BY <1>1, <2>6
  <2> HIDE DEF a, b, c, d, w, one, left, both
  <2> QED BY <2>6, <2>7, <2>8
<1> DEFINE x == SumFunctionOnSet(rel, Q)
           y == SumFunctionOnSet(res, Q)
           t == SumFunctionOnSet(total, Q)
           e == SumFunctionOnSet(left, Q)
<1>3. \A g \in Q : both[g] = a * rel[g] + b * res[g] /\ left[g] = c * h[g] + d * m[g]
  OBVIOUS
<1>0. n = SumFunctionOnSet(m, Q) /\ k = SumFunctionOnSet(h, Q)
      /\ \A g \in Q : m[g] \in Int /\ h[g] \in Int
  BY DEF Decomposes
<1>4. /\ SumFunctionOnSet(both, Q) = a * x + b * y
      /\ SumFunctionOnSet(both, Q) = w * t + one * e
      /\ e = c * k + d * n
      /\ x \in Int /\ y \in Int /\ t \in Int /\ e \in Int
  <2> HIDE DEF a, b, c, d, w, one, left, both
  <2>1. SumFunctionOnSet(both, Q) = a * x + b * y
    BY <1>1, <1>2, <1>3, SumLinear
  <2>2. SumFunctionOnSet(both, Q) = w * t + one * e
    <3>1. \A g \in Q : /\ total[g] \in Int /\ left[g] \in Int
                       /\ both[g] = w * total[g] + one * left[g]
      BY <1>2
    <3> QED BY <1>1, <3>1, SumLinear
  <2>3. e = c * SumFunctionOnSet(h, Q) + d * SumFunctionOnSet(m, Q)
    BY <1>0, <1>1, <1>3, SumLinear
  <2>4. x \in Int /\ y \in Int /\ t \in Int /\ e \in Int
    BY <1>2, SumInt
  <2> QED BY <1>0, <2>1, <2>2, <2>3, <2>4
<1>5. n * n * x - 10000 * y + 10000 * N * n * k * (n - k) = n * n * N * t
  <2>1. a * x + b * y = w * t + one * e
    BY <1>4
  <2> HIDE DEF x, y, t, e
  <2>2. (n * n) * x + (-10000) * y = (n * n * N) * t + 1 * e
    BY <2>1
  <2>3. e = (10000 * (2 * n * k * N - n * n * N)) * k + (-10000 * k * k * N) * n
    BY <1>4
  <2> QED BY <1>4, <2>2, <2>3, DecompositionCloses
<1> QED BY <1>5

\* "an exact identity": reliability minus resolution plus uncertainty is the Brier score, for
\* any number of forecasts, however they fall together.
LEMMA MurphyIdentity ==
  ASSUME NEW preds, NEW key, IsRegister(preds, key)
  PROVE  LET murphy == Murphy(preds, key)
         IN  murphy.reliability - murphy.resolution + murphy.uncertainty
               = score(preds, key).brier
<1> DEFINE R == Resolved(key)
           Q == Groups(preds, key)
           n == Cardinality(R)
           k == Hits(key, R)
           N == Factorial[n]
           forecast(g) == Forecast(preds, CHOOSE i \in g : TRUE)
           share(g) == N \div Cardinality(g)
           part == [g \in Q |-> g]
           hit == [g \in Q |-> {i \in g : key[i] = "true"}]
           m == [g \in Q |-> Cardinality(g)]
           h == [g \in Q |-> Hits(key, g)]
           rel == [g \in Q |-> share(g) * ((Cardinality(g) * forecast(g) - 100 * Hits(key, g))
                                           * (Cardinality(g) * forecast(g) - 100 * Hits(key, g)))]
           res == [g \in Q |-> share(g) * ((Hits(key, g) * n - k * Cardinality(g))
                                           * (Hits(key, g) * n - k * Cardinality(g)))]
           brier == [i \in R |-> Brier(preds, key, i)]
           one == [i \in R |-> 1]
           happened == [i \in R |-> Happened(key, i)]
           total == [g \in Q |-> SumFunctionOnSet(brier, g)]
<1>1. /\ IsFiniteSet(R) /\ IsFiniteSet(Q) /\ UNION Q = R
      /\ \A g \in Q : g \subseteq R /\ g # {} /\ IsFiniteSet(g)
      /\ \A g, d \in Q : g # d => g \cap d = {}
      /\ \A g \in Q : \A i, j \in g : Forecast(preds, i) = Forecast(preds, j)
      /\ \A i \in R : Forecast(preds, i) \in Int
  BY GroupsPartition
<1>2. n \in Nat /\ k \in Nat /\ N \in Nat
  <2>1. n \in Nat
    BY <1>1, FS_CardinalityType
  <2>2. k \in Nat
    BY <1>1, FS_Subset, FS_CardinalityType DEF Hits
  <2> QED BY <2>1, <2>2, FactorialDivides
<1>3. ASSUME NEW g \in Q
      PROVE  /\ m[g] \in 1..n /\ h[g] \in Nat /\ share(g) \in Nat /\ N = m[g] * share(g)
             /\ forecast(g) \in Int /\ \A i \in g : Forecast(preds, i) = forecast(g)
             /\ IsFiniteSet(hit[g]) /\ h[g] = Cardinality(hit[g])
  <2>1. Cardinality(g) \in Nat /\ Cardinality(g) # 0 /\ Cardinality(g) <= n
    BY <1>1, <1>3, FS_CardinalityType, FS_EmptySet, FS_Subset
  <2>2. m[g] \in 1..n
    BY <1>2, <2>1
  <2>3. IsFiniteSet(hit[g]) /\ h[g] = Cardinality(hit[g]) /\ h[g] \in Nat
    BY <1>1, <1>3, FS_Subset, FS_CardinalityType DEF Hits
  <2>4. share(g) \in Nat /\ N = m[g] * share(g)
    BY <1>2, <2>2, FactorialDivides
  <2>5. (CHOOSE i \in g : TRUE) \in g
    BY <1>1, <1>3
  <2>6. forecast(g) \in Int /\ \A i \in g : Forecast(preds, i) = forecast(g)
    BY <1>1, <1>3, <2>5
  <2> QED BY <2>2, <2>3, <2>4, <2>6
<1>4. n = SumFunctionOnSet(m, Q) /\ k = SumFunctionOnSet(h, Q)
  <2>1. Cover(part, Q) = R
    BY <1>1 DEF Cover
  <2>2. /\ \A g \in Q : IsFiniteSet(part[g]) /\ m[g] = Cardinality(part[g])
        /\ \A g, d \in Q : g # d => part[g] \cap part[d] = {}
    BY <1>1
  <2>3. Cover(hit, Q) = {i \in R : key[i] = "true"}
    BY <1>1 DEF Cover
  <2>4. /\ \A g \in Q : IsFiniteSet(hit[g]) /\ h[g] = Cardinality(hit[g])
        /\ \A g, d \in Q : g # d => hit[g] \cap hit[d] = {}
    BY <1>1, <1>3
  <2>5. k = Cardinality(Cover(hit, Q)) /\ n = Cardinality(Cover(part, Q))
    BY <2>1, <2>3 DEF Hits
  <2> HIDE DEF part, hit, m, h, Q, n, k
  <2> QED BY <1>1, <2>2, <2>4, <2>5, SumOfSizes
<1>5. ASSUME NEW g \in Q
      PROVE  total[g] = (forecast(g) * forecast(g)) * m[g] + (10000 - 200 * forecast(g)) * h[g]
  <2> DEFINE p == forecast(g)
  <2>1. p \in Int /\ \A i \in g : i \in R /\ Forecast(preds, i) = p
    BY <1>1, <1>3
  <2>2. ASSUME NEW i \in g
        PROVE  /\ one[i] \in Int /\ happened[i] \in Int
               /\ brier[i] = (p * p) * one[i] + (10000 - 200 * p) * happened[i]
    <3> HIDE DEF p
    <3>1. one[i] = 1 /\ happened[i] \in {0, 1}
      BY <2>1 DEF Happened
    <3>2. brier[i] = (p - 100 * happened[i]) * (p - 100 * happened[i])
      BY <2>1 DEF Brier
    <3>3. CASE happened[i] = 0
      BY <2>1, <3>1, <3>2, <3>3
    <3>4. CASE happened[i] = 1
      BY <2>1, <3>1, <3>2, <3>4
    <3> QED BY <3>1, <3>3, <3>4
  <2>3. IsFiniteSet(g)
    BY <1>1
  <2>4. \A i \in g : one[i] = 1 /\ happened[i] \in {0, 1}
    BY <2>1 DEF Happened
  <2>5. {i \in g : happened[i] = 1} = hit[g]
    BY <2>1 DEF Happened
  <2>6. total[g] = SumFunctionOnSet(brier, g) /\ m[g] = Cardinality(g)
    OBVIOUS
  <2>7. h[g] = Cardinality(hit[g])
    BY <1>3
  <2>8. p * p \in Int /\ 10000 - 200 * p \in Int
    BY <2>1
  <2> HIDE DEF p, one, happened, brier, hit, h, m, total
  <2>9. SumFunctionOnSet(brier, g) = (p * p) * SumFunctionOnSet(one, g)
                                     + (10000 - 200 * p) * SumFunctionOnSet(happened, g)
    <3> DEFINE u == p * p
               v == 10000 - 200 * p
    <3>1. \A i \in g : /\ one[i] \in Int /\ happened[i] \in Int
                       /\ brier[i] = u * one[i] + v * happened[i]
      BY <2>2
    <3>2. u \in Int /\ v \in Int
      BY <2>8
    <3> HIDE DEF u, v
    <3>3. SumFunctionOnSet(brier, g)
            = u * SumFunctionOnSet(one, g) + v * SumFunctionOnSet(happened, g)
      BY <2>3, <3>1, <3>2, SumLinear
    <3> QED BY <3>3 DEF u, v
  <2>10. SumFunctionOnSet(one, g) = m[g]
    BY <2>3, <2>4, <2>6, SizeIsSum
  <2>11. SumFunctionOnSet(happened, g) = h[g]
    BY <2>3, <2>4, <2>5, <2>7, SumOfTicks
  <2>12. total[g] = (p * p) * m[g] + (10000 - 200 * p) * h[g]
    BY <2>6, <2>9, <2>10, <2>11
  <2> QED BY <2>12 DEF p
<1>6. SumFunctionOnSet(total, Q) = SumFunctionOnSet(brier, R)
  <2>1. Cover(part, Q) = R
    BY <1>1 DEF Cover
  <2>2. /\ \A g \in Q : IsFiniteSet(part[g]) /\ total[g] = SumFunctionOnSet(brier, part[g])
        /\ \A g, d \in Q : g # d => part[g] \cap part[d] = {}
    BY <1>1
  <2>3. \A i \in R : brier[i] \in Int
    BY <1>1 DEF Brier, Happened
  <2> HIDE DEF part, total, brier, Q, R
  <2> QED BY <1>1, <2>1, <2>2, <2>3, SumOfParts
<1> DEFINE p == [g \in Q |-> forecast(g)]
           s == [g \in Q |-> share(g)]
           x == SumFunctionOnSet(rel, Q)
           y == SumFunctionOnSet(res, Q)
           b == SumFunctionOnSet(total, Q)
<1>7. ASSUME NEW g \in Q
      PROVE  /\ m[g] \in Int /\ h[g] \in Int /\ p[g] \in Int /\ s[g] \in Int
             /\ N = m[g] * s[g]
             /\ rel[g] = s[g] * ((m[g] * p[g] - 100 * h[g]) * (m[g] * p[g] - 100 * h[g]))
             /\ res[g] = s[g] * ((h[g] * n - k * m[g]) * (h[g] * n - k * m[g]))
             /\ total[g] = (p[g] * p[g]) * m[g] + (10000 - 200 * p[g]) * h[g]
  <2>1. p[g] = forecast(g) /\ s[g] = share(g) /\ m[g] = Cardinality(g) /\ h[g] = Hits(key, g)
    OBVIOUS
  <2>2. /\ rel[g] = share(g) * ((Cardinality(g) * forecast(g) - 100 * Hits(key, g))
                                * (Cardinality(g) * forecast(g) - 100 * Hits(key, g)))
        /\ res[g] = share(g) * ((Hits(key, g) * n - k * Cardinality(g))
                                * (Hits(key, g) * n - k * Cardinality(g)))
    OBVIOUS
  <2>3. /\ m[g] \in 1..n /\ h[g] \in Nat /\ share(g) \in Nat /\ N = m[g] * share(g)
        /\ forecast(g) \in Int
    BY <1>3
  <2>4. total[g] = (forecast(g) * forecast(g)) * m[g] + (10000 - 200 * forecast(g)) * h[g]
    BY <1>5
  <2> HIDE DEF forecast, share, n, N, k, m, h, p, s, rel, res, total, Q
  <2>5. m[g] \in Int /\ h[g] \in Int /\ p[g] \in Int /\ s[g] \in Int
    BY <1>2, <2>1, <2>3
  <2> QED BY <2>1, <2>2, <2>3, <2>4, <2>5
<1>10. n * n * x - 10000 * y + 10000 * N * n * k * (n - k) = n * n * N * b
  <2>1. n \in Int /\ k \in Int /\ N \in Int
    BY <1>2
  <2> HIDE DEF forecast, share, n, N, k, m, h, p, s, rel, res, total, Q
  <2>2. Decomposes(Q, n, k, N, m, h, p, s, rel, res, total)
    BY <1>4, <1>7, <2>1 DEF Decomposes
  <2> QED BY <1>1, <2>1, <2>2, Decomposition
<1>11. /\ Murphy(preds, key).reliability = n * n * x
       /\ Murphy(preds, key).resolution = 10000 * y
       /\ Murphy(preds, key).uncertainty = 10000 * N * n * k * (n - k)
       /\ score(preds, key).brier = n * n * N * SumFunctionOnSet(brier, R)
  <2>1. SumFunction(rel) = x /\ SumFunction(res) = y
        /\ SumFunction(brier) = SumFunctionOnSet(brier, R)
    BY DEF SumFunction
  <2>2. /\ Murphy(preds, key).reliability = n * n * SumFunction(rel)
        /\ Murphy(preds, key).resolution = 10000 * SumFunction(res)
        /\ Murphy(preds, key).uncertainty = 10000 * N * n * k * (n - k)
    BY DEF Murphy
  <2>3. score(preds, key).brier = n * n * N * SumFunction(brier)
    BY DEF score
  <2> QED BY <2>1, <2>2, <2>3
<1> HIDE DEF x, y, b, n, k, N, R, Q, brier, total
<1> QED BY <1>6, <1>10, <1>11 DEF b

\* A forecast is in exactly one interval of the table.
LEMMA OneBin ==
  ASSUME NEW preds, NEW i, preds[i].p \in Int
  PROVE  /\ \E b \in 0..(Bins - 1) : InBin(preds, i, b)
         /\ \A b, d \in 0..(Bins - 1) : InBin(preds, i, b) /\ InBin(preds, i, d) => b = d
<1> DEFINE p == Forecast(preds, i)
<1>1. p \in 1..99
  BY DEF Forecast, Clip
<1> HIDE DEF p
<1>2. \A b \in 0..4 : InBin(preds, i, b) <=> 100 * b <= 5 * p /\ 5 * p < 100 * (b + 1)
  BY <1>1 DEF InBin, Bins, p
<1>3. \/ 5 * p < 100
      \/ 100 <= 5 * p /\ 5 * p < 200
      \/ 200 <= 5 * p /\ 5 * p < 300
      \/ 300 <= 5 * p /\ 5 * p < 400
      \/ 400 <= 5 * p /\ 5 * p < 500
  BY <1>1
<1>4. \E b \in 0..4 : 100 * b <= 5 * p /\ 5 * p < 100 * (b + 1)
  <2>1. \A b \in 0..4 : 100 * b \in Int
    OBVIOUS
  <2> QED BY <1>1, <1>3
<1>5. \A b, d \in 0..4 : (/\ 100 * b <= 5 * p /\ 5 * p < 100 * (b + 1)
                          /\ 100 * d <= 5 * p /\ 5 * p < 100 * (d + 1)) => b = d
  <2> SUFFICES ASSUME NEW b \in 0..4, NEW d \in 0..4,
                      100 * b <= 5 * p, 5 * p < 100 * (b + 1),
                      100 * d <= 5 * p, 5 * p < 100 * (d + 1)
               PROVE  b = d
    OBVIOUS
  <2>1. 100 * b < 100 * (d + 1) /\ 100 * d < 100 * (b + 1)
    BY <1>1
  <2> QED BY <2>1
<1> QED BY <1>2, <1>4, <1>5 DEF Bins

\* Each resolved forecast is in one row of the table.
LEMMA TableAddsUp ==
  ASSUME NEW preds, NEW key, IsRegister(preds, key)
  PROVE  SumFunction(Table(preds, key)) = Cardinality(Resolved(key))
<1> DEFINE R == Resolved(key)
           row(b) == {i \in R : InBin(preds, i, b)}
           B == {b \in 0..(Bins - 1) : row(b) # {}}
           F == [b \in B |-> row(b)]
           table == Table(preds, key)
<1>1. IsFiniteSet(R) /\ \A i \in R : preds[i].p \in Int
  BY FS_Subset DEF IsRegister, Resolved
<1>2. DOMAIN table = B /\ \A b \in B : table[b] = Cardinality(F[b]) /\ IsFiniteSet(F[b])
  <2>1. \A b \in B : IsFiniteSet(F[b])
    BY <1>1, FS_Subset
  <2> QED BY <2>1 DEF Table
<1>3. IsFiniteSet(B)
  <2>1. IsFiniteSet(0..(Bins - 1))
    <3>1. 0 \in Int /\ Bins - 1 \in Int
      BY DEF Bins
    <3> QED BY <3>1, FS_Interval
  <2>2. B \in SUBSET (0..(Bins - 1))
    OBVIOUS
  <2> HIDE DEF B
  <2> QED BY <2>1, <2>2, FS_Subset
<1>4. \A b, d \in B : b # d => F[b] \cap F[d] = {}
  BY <1>1, OneBin
<1>5. Cover(F, B) = R
  <2>1. \A b \in B : F[b] \subseteq R
    OBVIOUS
  <2>2. ASSUME NEW i \in R PROVE \E b \in B : i \in F[b]
    <3>1. PICK b \in 0..(Bins - 1) : InBin(preds, i, b)
      BY <1>1, OneBin
    <3>2. i \in row(b)
      BY <3>1
    <3>3. b \in B
      BY <3>2
    <3> QED BY <3>2, <3>3
  <2> HIDE DEF F, B, R
  <2> QED BY <2>1, <2>2 DEF Cover
<1>6. SumFunctionOnSet(table, B) = Cardinality(Cover(F, B))
  <2> HIDE DEF F, B, table
  <2> QED BY <1>2, <1>3, <1>4, SumOfSizes
<1> QED BY <1>2, <1>5, <1>6 DEF SumFunction

\* No more forecasts beat their baseline than are resolved, nor are more resolved than made.
LEMMA CountsInOrder ==
  ASSUME NEW preds, NEW key, IsRegister(preds, key), DOMAIN key = DOMAIN preds
  PROVE  LET s == score(preds, key)
         IN  s.beat <= s.resolved /\ s.resolved <= s.predictions
<1>1. Resolved(key) \subseteq DOMAIN preds /\ IsFiniteSet(DOMAIN preds)
  BY DEF Resolved, IsRegister
<1>2. IsFiniteSet(Resolved(key)) /\ Cardinality(Resolved(key)) <= Cardinality(DOMAIN preds)
  BY <1>1, FS_Subset
<1>3. Cardinality({i \in Resolved(key) : BeatsIgnorance(preds, key, i)})
        <= Cardinality(Resolved(key))
  BY <1>2, FS_Subset
<1> QED BY <1>2, <1>3 DEF score
=============================================================================
