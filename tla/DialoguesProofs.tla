---------------------------- MODULE DialoguesProofs ----------------------------
(***************************************************************************)
(* Proofs about Dialogues, for any documents in any texture.               *)
(***************************************************************************)
EXTENDS Dialogues, SequenceTheorems, WellFoundedInduction, TLAPS

-----------------------------------------------------------------------------
(* Induction over the naturals, about a set of good cases. *)

LEMMA LeastNat ==
  ASSUME NEW T \in SUBSET Nat, T # {}
  PROVE  \E x \in T : \A y \in T : x <= y
<1>1. PICK x \in T : \A y \in T : ~(<<y, x>> \in OpToRel(<, Nat))
  BY NatLessThanWellFounded, WFMin
<1>2. \A y \in T : ~(y < x)
  BY <1>1 DEF OpToRel
<1> QED BY <1>2

LEMMA NatSteps ==
  ASSUME NEW G, 0 \in G, \A n \in Nat : n \in G => n + 1 \in G
  PROVE  Nat \subseteq G
<1>1. SUFFICES ASSUME Nat \ G # {} PROVE FALSE
  OBVIOUS
<1>2. PICK n \in Nat \ G : \A m \in Nat \ G : n <= m
  BY <1>1, LeastNat, Nat \ G \in SUBSET Nat
<1>3. n # 0 /\ n - 1 \in Nat /\ n - 1 \in G
  BY <1>2
<1> QED BY <1>2, <1>3

-----------------------------------------------------------------------------
(* Joining scripts.  Table(ss, g) says that g holds the joins of the first *)
(* entries of ss, as FlattenSeq has them.                                  *)

TableTo(ss, n, g) == g = [i \in 1..n |-> IF i = 1 THEN ss[i] ELSE g[i - 1] \o ss[i]]
Table(ss, g) == TableTo(ss, Len(ss), g)
TableOf(ss) == CHOOSE g : Table(ss, g)

LEMMA FlattenIsTable ==
  ASSUME NEW ss
  PROVE  FlattenSeq(ss) = IF Len(ss) = 0 THEN ss ELSE TableOf(ss)[Len(ss)]
BY DEF FlattenSeq, TableOf, Table, TableTo

LEMMA TableAt ==
  ASSUME NEW ss, NEW g, Table(ss, g), NEW i \in 1..Len(ss)
  PROVE  g[i] = IF i = 1 THEN ss[i] ELSE g[i - 1] \o ss[i]
BY Zenon DEF Table, TableTo

LEMMA TableExists ==
  ASSUME NEW ss, Len(ss) \in Nat
  PROVE  Table(ss, TableOf(ss))
<1> DEFINE G == {n \in Nat : \E g : TableTo(ss, n, g)}
<1>1. 0 \in G
  <2> DEFINE h == [i \in 1..0 |-> ss[i]]
  <2>1. TableTo(ss, 0, h)
    BY DEF TableTo
  <2> QED BY <2>1
<1>2. ASSUME NEW n \in Nat, n \in G PROVE n + 1 \in G
  <2>1. PICK g : TableTo(ss, n, g)
    BY <1>2
  <2> DEFINE h == [i \in 1..(n + 1) |-> IF i = n + 1 THEN IF i = 1 THEN ss[i] ELSE g[n] \o ss[i]
                                        ELSE g[i]]
             k == [i \in 1..(n + 1) |-> IF i = 1 THEN ss[i] ELSE h[i - 1] \o ss[i]]
  <2>2. \A i \in 1..(n + 1) : h[i] = k[i]
    <3> TAKE i \in 1..(n + 1)
    <3>1. CASE i = n + 1 /\ i = 1
      BY <3>1
    <3>2. CASE i = n + 1 /\ i # 1
      <4>1. h[i - 1] = g[n] /\ i - 1 \in 1..(n + 1)
        BY <3>2
      <4> QED BY <3>2, <4>1
    <3>3. CASE i # n + 1 /\ i = 1
      <4>1. g[i] = ss[i]
        BY <2>1, <3>3 DEF TableTo
      <4> QED BY <3>3, <4>1
    <3>4. CASE i # n + 1 /\ i # 1
      <4>1. i \in 1..n /\ i - 1 \in 1..n /\ i - 1 \in 1..(n + 1) /\ i - 1 # n + 1
        BY <3>4
      <4>2. g[i] = g[i - 1] \o ss[i]
        BY <2>1, <3>4, <4>1 DEF TableTo
      <4>3. h[i - 1] = g[i - 1]
        BY <4>1
      <4> QED BY <3>4, <4>2, <4>3
    <3> QED BY <3>1, <3>2, <3>3, <3>4
  <2>3. h = k
    <3>1. DOMAIN h = 1..(n + 1) /\ DOMAIN k = 1..(n + 1)
      OBVIOUS
    <3> QED BY <2>2, <3>1, Zenon
  <2>4. TableTo(ss, n + 1, h)
    BY <2>3, Zenon DEF TableTo
  <2> HIDE DEF h
  <2> QED BY <2>4
<1> HIDE DEF G
<1>3. Len(ss) \in G
  BY <1>1, <1>2, NatSteps
<1>4. \E g : Table(ss, g)
  BY <1>3 DEF G, Table
<1> QED BY <1>4 DEF TableOf

\* g[i] is the join of the first i entries.
Joins(ss, g) ==
  /\ FlattenSeq(ss) = g[Len(ss)] /\ g[1] = ss[1]
  /\ \A i \in 2..Len(ss) : g[i] = g[i - 1] \o ss[i]

LEMMA JoinsExist ==
  ASSUME NEW ss, Len(ss) \in Nat, Len(ss) > 0
  PROVE  \E g : Joins(ss, g)
<1>1. Table(ss, TableOf(ss))
  BY TableExists
<1>2. \A i \in 1..Len(ss) : TableOf(ss)[i] = IF i = 1 THEN ss[i] ELSE TableOf(ss)[i - 1] \o ss[i]
  BY <1>1, TableAt
<1>3. FlattenSeq(ss) = TableOf(ss)[Len(ss)]
  BY FlattenIsTable
<1> DEFINE g == TableOf(ss)
<1> HIDE DEF g
<1>4. 1 \in 1..Len(ss) /\ \A i \in 2..Len(ss) : i \in 1..Len(ss) /\ i # 1
  OBVIOUS
<1>5. g[1] = ss[1] /\ \A i \in 2..Len(ss) : g[i] = g[i - 1] \o ss[i]
  BY <1>2, <1>4, Zenon DEF g
<1>6. Joins(ss, TableOf(ss))
  BY <1>3, <1>5 DEF Joins, g
<1> QED BY <1>6

-----------------------------------------------------------------------------
(* Sequences of anything.                                                  *)

IsSeq(s) == s \in Seq({s[i] : i \in DOMAIN s})

LEMMA SeqHas ==
  ASSUME NEW s, IsSeq(s)
  PROVE  Len(s) \in Nat /\ DOMAIN s = 1..Len(s)
BY DEF IsSeq

LEMMA SeqWider ==
  ASSUME NEW S, NEW T, S \subseteq T, NEW s \in Seq(S)
  PROVE  s \in Seq(T)
OBVIOUS

LEMMA AnySeq ==
  ASSUME NEW S, NEW s \in Seq(S)
  PROVE  IsSeq(s)
<1> DEFINE R == {s[i] : i \in DOMAIN s}
<1>1. Len(s) \in Nat /\ s \in [1..Len(s) -> R]
  OBVIOUS
<1>2. s \in Seq(R)
  BY <1>1, SeqDef
<1> QED BY <1>2 DEF IsSeq

LEMMA Joined ==
  ASSUME NEW a, NEW b, IsSeq(a), IsSeq(b)
  PROVE  /\ IsSeq(a \o b) /\ Len(a \o b) = Len(a) + Len(b)
         /\ \A i \in 1..(Len(a) + Len(b)) :
              (a \o b)[i] = IF i <= Len(a) THEN a[i] ELSE b[i - Len(a)]
<1> DEFINE A == {a[i] : i \in DOMAIN a}
           B == {b[i] : i \in DOMAIN b}
<1>1. a \in Seq(A \cup B) /\ b \in Seq(A \cup B)
  BY SeqWider DEF IsSeq
<1> HIDE DEF A, B
<1>2. IsSeq(a \o b)
  <2>1. a \o b \in Seq(A \cup B)
    BY <1>1
  <2> QED BY <2>1, AnySeq
<1> QED BY <1>1, <1>2, ConcatProperties

LEMMA PairIsSeq ==
  ASSUME NEW a, NEW b
  PROVE  /\ IsSeq(<<a, b>>) /\ Len(<<a, b>>) = 2
         /\ IsSeq(<<a>>) /\ Len(<<a>>) = 1
         /\ IsSeq(<<>>) /\ Len(<<>>) = 0
<1>1. <<a, b>> \in Seq({a, b}) /\ <<a>> \in Seq({a}) /\ <<>> \in Seq({a})
  OBVIOUS
<1> QED BY <1>1, AnySeq

-----------------------------------------------------------------------------
(* Reading a script.  Runs(kind, z, s, y): what Zeek has read is y after   *)
(* the messages of s, if it was z before; on an FTP flow the data          *)
(* connection may change the files in between.                             *)

Fields == {"open", "sid", "tid", "handles", "at", "files", "calls", "bound", "rcpts", "port",
           "logs", "services", "odd"}
IsParser(z) == z = [x \in Fields |-> z[x]]
Same(kind, y, z) == IsParser(y) /\ \A x \in Fields : x # "files" \/ kind # "ftp" => y[x] = z[x]
Steps(kind, s, h) == \A i \in 1..Len(s) : Same(kind, h[i], Zeek!Read(kind, h[i - 1], s[i]))
RunsBy(kind, z, s, y, h) == Same(kind, h[0], z) /\ Steps(kind, s, h) /\ h[Len(s)] = y
Runs(kind, z, s, y) == \E h : RunsBy(kind, z, s, y, h)

LEMMA SameIs ==
  ASSUME NEW kind, NEW z, NEW y, Same(kind, y, z)
  PROVE  Same(kind, y, y) /\ (IsParser(z) /\ kind # "ftp" => y = z)
<1>1. IsParser(y) /\ (kind # "ftp" => \A x \in Fields : y[x] = z[x])
  BY DEF Same
<1>2. ASSUME IsParser(z), kind # "ftp" PROVE y = z
  <2>1. y = [x \in Fields |-> y[x]] /\ z = [x \in Fields |-> z[x]]
    BY <1>1, <1>2 DEF IsParser
  <2>2. [x \in Fields |-> y[x]] = [x \in Fields |-> z[x]]
    BY <1>1, <1>2
  <2> QED BY <2>1, <2>2
<1> QED BY <1>1, <1>2 DEF Same

\* What is read is a parser's state.
LEMMA RunsTo ==
  ASSUME NEW kind, NEW z, NEW s, NEW y, Len(s) \in Nat, Runs(kind, z, s, y)
  PROVE  IsParser(y)
<1>1. PICK h : RunsBy(kind, z, s, y, h)
  BY DEF Runs
<1>2. CASE Len(s) = 0
  BY <1>1, <1>2 DEF RunsBy, Same
<1>3. CASE Len(s) # 0
  <2>1. Len(s) \in 1..Len(s)
    BY <1>3
  <2>2. Same(kind, h[Len(s)], Zeek!Read(kind, h[Len(s) - 1], s[Len(s)]))
    BY <1>1, <2>1, Zenon DEF RunsBy, Steps
  <2> QED BY <1>1, <2>2 DEF RunsBy, Same
<1> QED BY <1>2, <1>3

LEMMA RunsNone ==
  ASSUME NEW kind, NEW z, NEW y, Runs(kind, z, <<>>, y)
  PROVE  Same(kind, y, z)
BY DEF Runs, RunsBy

LEMMA RunsOne ==
  ASSUME NEW kind, NEW z, NEW m, NEW y, Runs(kind, z, <<m>>, y)
  PROVE  \E w : Same(kind, w, z) /\ Same(kind, y, Zeek!Read(kind, w, m))
<1>1. PICK h : RunsBy(kind, z, <<m>>, y, h)
  BY DEF Runs
<1>2. Len(<<m>>) = 1 /\ <<m>>[1] = m /\ 1 \in 1..Len(<<m>>)
  OBVIOUS
<1>3. Same(kind, h[1], Zeek!Read(kind, h[1 - 1], <<m>>[1]))
  BY <1>1, <1>2, Zenon DEF RunsBy, Steps
<1> QED BY <1>1, <1>2, <1>3 DEF RunsBy

\* A script read in two parts.
LEMMA RunsJoined ==
  ASSUME NEW kind, NEW z, NEW a, NEW b, NEW y, IsSeq(a), IsSeq(b), Runs(kind, z, a \o b, y)
  PROVE  \E w : Runs(kind, z, a, w) /\ Runs(kind, w, b, y)
<1>1. PICK h : RunsBy(kind, z, a \o b, y, h)
  BY DEF Runs
<1>2. /\ Len(a) \in Nat /\ Len(b) \in Nat /\ Len(a \o b) = Len(a) + Len(b)
      /\ \A i \in 1..(Len(a) + Len(b)) : (a \o b)[i] = IF i <= Len(a) THEN a[i] ELSE b[i - Len(a)]
  BY Joined, SeqHas
<1>3. \A i \in 1..(Len(a) + Len(b)) : Same(kind, h[i], Zeek!Read(kind, h[i - 1], (a \o b)[i]))
  BY <1>1, <1>2 DEF RunsBy, Steps
<1>4. Steps(kind, a, h)
  <2>1. ASSUME NEW i \in 1..Len(a) PROVE i \in 1..(Len(a) + Len(b)) /\ i <= Len(a)
    BY <1>2
  <2>2. ASSUME NEW i \in 1..Len(a) PROVE Same(kind, h[i], Zeek!Read(kind, h[i - 1], a[i]))
    <3>1. (a \o b)[i] = a[i]
      BY <1>2, <2>1
    <3> QED BY <1>3, <2>1, <3>1
  <2> QED BY <2>2, Zenon DEF Steps
<1> DEFINE g == [i \in 0..Len(b) |-> h[Len(a) + i]]
<1>5. ASSUME NEW i \in 1..Len(b) PROVE Same(kind, g[i], Zeek!Read(kind, g[i - 1], b[i]))
  <2> DEFINE j == Len(a) + i
  <2>1. j \in 1..(Len(a) + Len(b)) /\ ~(j <= Len(a)) /\ j - Len(a) = i
    BY <1>2
  <2>2. (a \o b)[j] = b[i]
    BY <1>2, <2>1
  <2>3. g[i] = h[j] /\ g[i - 1] = h[j - 1]
    BY <1>2
  <2> HIDE DEF j, g
  <2> QED BY <1>3, <2>1, <2>2, <2>3
<1>6. g[0] = h[Len(a)] /\ g[Len(b)] = y
  BY <1>1, <1>2 DEF RunsBy
<1> HIDE DEF g
<1>7. Steps(kind, b, g)
  BY <1>5, Zenon DEF Steps
<1>8. Runs(kind, z, a, h[Len(a)])
  BY <1>1, <1>4 DEF Runs, RunsBy
<1>9. IsParser(h[Len(a)])
  BY <1>2, <1>8, RunsTo
<1>10. RunsBy(kind, h[Len(a)], b, y, g)
  BY <1>6, <1>7, <1>9 DEF RunsBy, Same
<1> QED BY <1>8, <1>10 DEF Runs

\* One more message.
LEMMA RunsMore ==
  ASSUME NEW kind, NEW z, NEW s, NEW y, NEW m, NEW x, IsSeq(s), Runs(kind, z, s, y),
         Same(kind, x, Zeek!Read(kind, y, m))
  PROVE  Runs(kind, z, s \o <<m>>, x)
<1>1. PICK h : RunsBy(kind, z, s, y, h)
  BY DEF Runs
<1> DEFINE n == Len(s)
           t == s \o <<m>>
           g == [i \in 0..(n + 1) |-> IF i = n + 1 THEN x ELSE h[i]]
<1>2. /\ n \in Nat /\ Len(t) = n + 1 /\ t[n + 1] = m
      /\ \A i \in 1..n : t[i] = s[i]
  <2>1. /\ Len(s) \in Nat /\ Len(s \o <<m>>) = Len(s) + 1
        /\ \A i \in 1..(Len(s) + 1) : (s \o <<m>>)[i] = IF i <= Len(s) THEN s[i] ELSE <<m>>[i - Len(s)]
    BY Joined, SeqHas, PairIsSeq
  <2> QED BY <2>1
<1> HIDE DEF t
<1>3. g[0] = h[0] /\ g[n + 1] = x /\ g[n] = y /\ \A i \in 1..n : g[i] = h[i] /\ g[i - 1] = h[i - 1]
  BY <1>1, <1>2 DEF RunsBy
<1> HIDE DEF n, g
<1>4. ASSUME NEW i \in 1..(n + 1) PROVE Same(kind, g[i], Zeek!Read(kind, g[i - 1], t[i]))
  <2>1. CASE i = n + 1
    <3>1. i - 1 = n
      BY <1>2, <2>1
    <3> QED BY <1>2, <1>3, <2>1, <3>1
  <2>2. CASE i # n + 1
    <3>1. i \in 1..n
      BY <1>2, <2>2
    <3>2. Same(kind, h[i], Zeek!Read(kind, h[i - 1], s[i]))
      BY <1>1, <3>1, Zenon DEF RunsBy, Steps, n
    <3> QED BY <1>2, <1>3, <3>1, <3>2
  <2> QED BY <2>1, <2>2
<1>5. Steps(kind, t, g)
  BY <1>2, <1>4, Zenon DEF Steps
<1>6. RunsBy(kind, z, t, x, g)
  BY <1>1, <1>2, <1>3, <1>5 DEF RunsBy
<1> QED BY <1>6 DEF Runs, t

\* The files of an FTP flow may change after any message.
LEMMA RunsAside ==
  ASSUME NEW kind, NEW z, NEW s, NEW y, NEW x, Len(s) \in Nat, Runs(kind, z, s, y), Same(kind, x, y)
  PROVE  Runs(kind, z, s, x)
<1>1. PICK h : RunsBy(kind, z, s, y, h)
  BY DEF Runs
<1> DEFINE n == Len(s)
           g == [i \in 0..n |-> IF i = n THEN x ELSE h[i]]
<1>2. g[n] = x /\ h[n] = y /\ \A i \in 0..n : i # n => g[i] = h[i]
  BY <1>1 DEF RunsBy
<1>3. \A w : Same(kind, y, w) => Same(kind, x, w)
  BY DEF Same
<1> HIDE DEF g
<1>4. Same(kind, g[0], z)
  <2>1. CASE n = 0
    BY <1>1, <1>2, <1>3, <2>1 DEF RunsBy
  <2>2. CASE n # 0
    <3>1. 0 \in 0..n /\ 0 # n
      BY <2>2
    <3> QED BY <1>1, <1>2, <3>1 DEF RunsBy
  <2> QED BY <2>1, <2>2
<1> HIDE DEF n
<1>5. ASSUME NEW i \in 1..n PROVE Same(kind, g[i], Zeek!Read(kind, g[i - 1], s[i]))
  <2>1. n \in Nat /\ i - 1 \in 0..n /\ i - 1 # n /\ i \in 0..n
    BY DEF n
  <2>2. g[i - 1] = h[i - 1] /\ (i # n => g[i] = h[i])
    BY <1>2, <2>1
  <2>3. Same(kind, h[i], Zeek!Read(kind, h[i - 1], s[i]))
    BY <1>1, Zenon DEF RunsBy, Steps, n
  <2>4. CASE i = n
    BY <1>2, <1>3, <2>2, <2>3, <2>4
  <2>5. CASE i # n
    BY <2>2, <2>3, <2>5
  <2> QED BY <2>4, <2>5
<1>6. RunsBy(kind, z, s, x, g)
  BY <1>2, <1>4, <1>5, Zenon DEF RunsBy, Steps, n
<1> QED BY <1>6 DEF Runs

-----------------------------------------------------------------------------
(* Scripts made of blocks. *)

LEMMA FlattenNone ==
  ASSUME NEW ss, IsSeq(ss), Len(ss) = 0
  PROVE  FlattenSeq(ss) = <<>>
<1>1. ss = <<>>
  BY DEF IsSeq
<1> QED BY <1>1, FlattenIsTable

LEMMA SeqOfSeqs ==
  ASSUME NEW S, NEW ss \in Seq(Seq(S))
  PROVE  Len(ss) \in Nat /\ IsSeq(ss) /\ \A i \in 1..Len(ss) : ss[i] \in Seq(S)
<1>1. IsSeq(ss)
  BY AnySeq
<1> QED BY <1>1

\* The messages of the whole are messages of the blocks.
LEMMA FlattenIn ==
  ASSUME NEW S, NEW ss \in Seq(Seq(S))
  PROVE  FlattenSeq(ss) \in Seq(S)
<1> USE SeqOfSeqs
<1>1. CASE Len(ss) = 0
  <2>1. FlattenSeq(ss) = <<>>
    BY <1>1, SeqOfSeqs, FlattenNone, Zenon
  <2> QED BY <1>1, <2>1
<1>2. CASE Len(ss) > 0
  <2>1. PICK g : Joins(ss, g)
    BY <1>2, JoinsExist
  <2> DEFINE G == {n \in Nat : n \in 1..Len(ss) => g[n] \in Seq(S)}
  <2>2. 0 \in G
    OBVIOUS
  <2>3. ASSUME NEW n \in Nat, n \in G PROVE n + 1 \in G
    <3>1. SUFFICES ASSUME n + 1 \in 1..Len(ss) PROVE g[n + 1] \in Seq(S)
      OBVIOUS
    <3>2. CASE n = 0
      BY <2>1, <3>1, <3>2 DEF Joins
    <3>3. CASE n # 0
      <4>1. n + 1 \in 2..Len(ss) /\ (n + 1) - 1 = n /\ n \in 1..Len(ss)
        BY <3>1, <3>3
      <4>2. g[n + 1] = g[n] \o ss[n + 1]
        BY <2>1, <4>1 DEF Joins
      <4>3. g[n] \in Seq(S) /\ ss[n + 1] \in Seq(S)
        BY <2>3, <3>1, <4>1
      <4> QED BY <4>2, <4>3
    <3> QED BY <3>2, <3>3
  <2> HIDE DEF G
  <2>4. Len(ss) \in G
    BY <2>2, <2>3, NatSteps
  <2> QED BY <1>2, <2>1, <2>4 DEF G, Joins
<1> QED BY <1>1, <1>2

\* Blocks of two messages.
LEMMA FlattenPairs ==
  ASSUME NEW S, NEW ss \in Seq(Seq(S)), \A i \in 1..Len(ss) : Len(ss[i]) = 2
  PROVE  Len(FlattenSeq(ss)) = 2 * Len(ss)
<1> USE SeqOfSeqs
<1>1. CASE Len(ss) = 0
  <2>1. FlattenSeq(ss) = <<>>
    BY <1>1, SeqOfSeqs, FlattenNone, Zenon
  <2> QED BY <1>1, <2>1
<1>2. CASE Len(ss) > 0
  <2>1. PICK g : Joins(ss, g)
    BY <1>2, JoinsExist
  <2> DEFINE G == {n \in Nat : n \in 1..Len(ss) => g[n] \in Seq(S) /\ Len(g[n]) = 2 * n}
  <2>2. 0 \in G
    OBVIOUS
  <2>3. ASSUME NEW n \in Nat, n \in G PROVE n + 1 \in G
    <3>1. SUFFICES ASSUME n + 1 \in 1..Len(ss)
                   PROVE g[n + 1] \in Seq(S) /\ Len(g[n + 1]) = 2 * (n + 1)
      OBVIOUS
    <3>2. CASE n = 0
      BY <2>1, <3>1, <3>2 DEF Joins
    <3>3. CASE n # 0
      <4>1. n + 1 \in 2..Len(ss) /\ (n + 1) - 1 = n /\ n \in 1..Len(ss)
        BY <3>1, <3>3
      <4>2. g[n + 1] = g[n] \o ss[n + 1]
        BY <2>1, <4>1 DEF Joins
      <4>3. g[n] \in Seq(S) /\ Len(g[n]) = 2 * n /\ ss[n + 1] \in Seq(S) /\ Len(ss[n + 1]) = 2
        BY <2>3, <3>1, <4>1
      <4>4. Len(g[n] \o ss[n + 1]) = Len(g[n]) + Len(ss[n + 1]) /\ g[n] \o ss[n + 1] \in Seq(S)
        BY <4>3, ConcatProperties
      <4> QED BY <4>2, <4>3, <4>4
    <3> QED BY <3>2, <3>3
  <2> HIDE DEF G
  <2>4. Len(ss) \in G
    BY <2>2, <2>3, NatSteps
  <2> QED BY <1>2, <2>1, <2>4 DEF G, Joins
<1> QED BY <1>1, <1>2

\* x[i] is what has been read after i blocks.
Stops(kind, z, ss, n, y, x) ==
  x[0] = z /\ x[n] = y /\ \A i \in 1..n : Runs(kind, x[i - 1], ss[i], x[i])

LEMMA Milestones ==
  ASSUME NEW kind, NEW z, NEW S, NEW ss \in Seq(Seq(S)), NEW y, Len(ss) > 0,
         Runs(kind, z, FlattenSeq(ss), y)
  PROVE  \E x : Stops(kind, z, ss, Len(ss), y, x)
<1> USE SeqOfSeqs
<1>1. PICK g : Joins(ss, g)
  BY JoinsExist
<1> DEFINE Stopped(n, w) == \E x : Stops(kind, z, ss, n, w, x)
           G == {n \in Nat : n \in 1..Len(ss) =>
                   g[n] \in Seq(S) /\ \A w : Runs(kind, z, g[n], w) => Stopped(n, w)}
<1>2. 0 \in G
  OBVIOUS
<1>3. ASSUME NEW n \in Nat, n \in G PROVE n + 1 \in G
  <2>1. SUFFICES ASSUME n + 1 \in 1..Len(ss)
                 PROVE  /\ g[n + 1] \in Seq(S)
                        /\ \A w : Runs(kind, z, g[n + 1], w) => Stopped(n + 1, w)
    OBVIOUS
  <2>2. CASE n = 0
    <3>1. g[n + 1] = ss[1] /\ ss[1] \in Seq(S)
      BY <1>1, <2>2 DEF Joins
    <3>2. ASSUME NEW w, Runs(kind, z, g[n + 1], w) PROVE Stopped(n + 1, w)
      <4> DEFINE x == [i \in 0..1 |-> IF i = 0 THEN z ELSE w]
      <4>1. x[0] = z /\ x[1] = w
        OBVIOUS
      <4> HIDE DEF x
      <4>2. \A i \in 1..1 : Runs(kind, x[i - 1], ss[i], x[i])
        <5>1. ASSUME NEW i \in 1..1 PROVE i = 1 /\ i - 1 = 0
          OBVIOUS
        <5> QED BY <3>1, <3>2, <4>1, <5>1
      <4>3. Stops(kind, z, ss, n + 1, w, x)
        BY <2>2, <4>1, <4>2 DEF Stops
      <4> QED BY <4>3
    <3> QED BY <3>1, <3>2
  <2>3. CASE n # 0
    <3>1. n + 1 \in 2..Len(ss) /\ (n + 1) - 1 = n /\ n \in 1..Len(ss)
      BY <2>1, <2>3
    <3>2. g[n + 1] = g[n] \o ss[n + 1]
      BY <1>1, <3>1 DEF Joins
    <3>3. g[n] \in Seq(S) /\ ss[n + 1] \in Seq(S)
      BY <1>3, <2>1, <3>1
    <3>4. ASSUME NEW w, Runs(kind, z, g[n + 1], w) PROVE Stopped(n + 1, w)
      <4>1. PICK v : Runs(kind, z, g[n], v) /\ Runs(kind, v, ss[n + 1], w)
        BY <3>2, <3>3, <3>4, AnySeq, RunsJoined
      <4>2. PICK u : Stops(kind, z, ss, n, v, u)
        BY <1>3, <3>1, <4>1
      <4> DEFINE x == [i \in 0..(n + 1) |-> IF i = n + 1 THEN w ELSE u[i]]
      <4>3. x[n + 1] = w /\ \A i \in 0..n : x[i] = u[i]
        OBVIOUS
      <4> HIDE DEF x
      <4>4. \A i \in 1..(n + 1) : Runs(kind, x[i - 1], ss[i], x[i])
        <5> TAKE i \in 1..(n + 1)
        <5>1. CASE i = n + 1
          <6>1. i - 1 = n /\ n \in 0..n
            BY <5>1
          <6> QED BY <4>1, <4>2, <4>3, <5>1, <6>1 DEF Stops
        <5>2. CASE i # n + 1
          <6>1. i \in 1..n /\ i - 1 \in 0..n /\ i \in 0..n
            BY <5>2
          <6> QED BY <4>2, <4>3, <6>1 DEF Stops
        <5> QED BY <5>1, <5>2
      <4>5. Stops(kind, z, ss, n + 1, w, x)
        BY <4>2, <4>3, <4>4 DEF Stops
      <4> QED BY <4>5
    <3> QED BY <3>2, <3>3, <3>4
  <2> QED BY <2>2, <2>3
<1> HIDE DEF G
<1>4. Len(ss) \in G
  BY <1>2, <1>3, NatSteps
<1> QED BY <1>1, <1>4 DEF G, Joins

-----------------------------------------------------------------------------
(* What one message does, for the analyzers that are neither SMB's nor     *)
(* RPC's nor HTTP's.                                                       *)

LEMMA Put ==
  ASSUME NEW w, IsParser(w), NEW x \in Fields, NEW v
  PROVE  LET u == [w EXCEPT ![x] = v]
         IN  IsParser(u) /\ u[x] = v /\ \A a \in Fields : a # x => u[a] = w[a]
<1> DEFINE u == [w EXCEPT ![x] = v]
<1>1. w = [a \in Fields |-> w[a]]
  BY DEF IsParser
<1>2. u = [a \in Fields |-> IF a = x THEN v ELSE w[a]]
  BY <1>1
<1> QED BY <1>2 DEF IsParser

Plainly(kind) == kind \notin {"smb", "dcerpc", "http"}
Unmatched(kind, m) == kind \in Zeek!Streams \/ m.op \in Zeek!Unprompted
Key(m) == <<m.op, m.id>>

LEMMA ReadPlainly ==
  ASSUME NEW kind, Plainly(kind), NEW w, NEW m
  PROVE  Zeek!Read(kind, w, m) = Zeek!Plain(kind, w, m)
BY DEF Zeek!Read, Plainly

LEMMA Matched ==
  ASSUME NEW w, IsParser(w), NEW from, NEW key
  PROVE  LET y == Zeek!Match(w, from, key)
         IN  /\ IsParser(y)
             /\ \A x \in Fields : x \notin {"open", "odd"} => y[x] = w[x]
             /\ from = "orig" => y.open = w.open \cup {key} /\ y.odd = w.odd
             /\ from # "orig" => /\ y.open = w.open \ {key}
                                 /\ y.odd <=> w.odd \/ key \notin w.open
<1>1. CASE from = "orig"
  <2>1. Zeek!Match(w, from, key) = [w EXCEPT !.open = w.open \cup {key}]
    BY <1>1 DEF Zeek!Match
  <2>2. "open" \in Fields /\ "odd" \in Fields /\ "odd" # "open"
    BY DEF Fields
  <2> QED BY <1>1, <2>1, <2>2, Put
<1>2. CASE from # "orig"
  <2> DEFINE u == [w EXCEPT !.open = w.open \ {key}]
             y == [u EXCEPT !.odd = w.odd \/ key \notin w.open]
  <2>1. Zeek!Match(w, from, key) = y
    BY <1>2 DEF Zeek!Match
  <2>2. "open" \in Fields /\ "odd" \in Fields /\ "open" # "odd"
    BY DEF Fields
  <2>3. IsParser(u) /\ u["open"] = w.open \ {key} /\ \A x \in Fields : x # "open" => u[x] = w[x]
    BY <2>2, Put
  <2> HIDE DEF u
  <2>4. IsParser(y) /\ y["odd"] = (w.odd \/ key \notin w.open) /\ \A x \in Fields : x # "odd" => y[x] = u[x]
    BY <2>2, <2>3, Put
  <2> HIDE DEF y
  <2>5. y.open = w.open \ {key} /\ (y.odd <=> w.odd \/ key \notin w.open)
    BY <2>2, <2>3, <2>4
  <2>6. \A x \in Fields : x \notin {"open", "odd"} => y[x] = w[x]
    BY <2>3, <2>4
  <2> QED BY <1>2, <2>1, <2>4, <2>5, <2>6
<1> QED BY <1>1, <1>2

PlainIs(kind, w, m) ==
  LET z == Zeek!Plain(kind, w, m)
      y == IF Unmatched(kind, m) THEN w
           ELSE Zeek!Match(w, m.from, <<m.op, IF kind = "http" THEN 0 ELSE m.id>>)
  IN  /\ IsParser(z) /\ IsParser(y)
      /\ \A x \in Fields : x \notin {"rcpts", "port", "logs", "services"} => z[x] = y[x]
      /\ z.rcpts = IF m.op = "RCPT" THEN w.rcpts \cup {m.id} ELSE w.rcpts
      /\ z.port = (w.port \/ (m.op = "PASV" /\ m.n = 1))
      /\ z.logs = w.logs \cup Zeek!Rows(kind, w, m)
      /\ z.services = IF m.from = "resp" /\ m.op # "greeting"
                      THEN w.services \cup Zeek!Confirmed(kind) ELSE w.services

LEMMA PlainFields ==
  ASSUME NEW kind, NEW w, IsParser(w), NEW m
  PROVE  PlainIs(kind, w, m)
<1> DEFINE y == IF Unmatched(kind, m) THEN w
                ELSE Zeek!Match(w, m.from, <<m.op, IF kind = "http" THEN 0 ELSE m.id>>)
<1>1. IsParser(y) /\ \A x \in Fields : x \notin {"open", "odd"} => y[x] = w[x]
  BY Matched
<1>2. Zeek!Plain(kind, w, m) =
        [y EXCEPT !.rcpts = IF m.op = "RCPT" THEN @ \cup {m.id} ELSE @,
                  !.port = @ \/ (m.op = "PASV" /\ m.n = 1),
                  !.logs = @ \cup Zeek!Rows(kind, w, m),
                  !.services = IF m.from = "resp" /\ m.op # "greeting"
                               THEN @ \cup Zeek!Confirmed(kind) ELSE @]
  BY DEF Zeek!Plain, Unmatched
<1> HIDE DEF y
<1> DEFINE a == [y EXCEPT !.rcpts = IF m.op = "RCPT" THEN y.rcpts \cup {m.id} ELSE y.rcpts]
           b == [a EXCEPT !.port = y.port \/ (m.op = "PASV" /\ m.n = 1)]
           c == [b EXCEPT !.logs = y.logs \cup Zeek!Rows(kind, w, m)]
           d == [c EXCEPT !.services = IF m.from = "resp" /\ m.op # "greeting"
                               THEN y.services \cup Zeek!Confirmed(kind) ELSE y.services]
<1>3. {"rcpts", "port", "logs", "services"} \subseteq Fields
  BY DEF Fields
<1>4. /\ IsParser(a) /\ a["rcpts"] = IF m.op = "RCPT" THEN y.rcpts \cup {m.id} ELSE y.rcpts
      /\ \A x \in Fields : x # "rcpts" => a[x] = y[x]
  BY <1>1, <1>3, Put
<1> HIDE DEF a
<1>5. /\ IsParser(b) /\ b["port"] = (y.port \/ (m.op = "PASV" /\ m.n = 1))
      /\ \A x \in Fields : x # "port" => b[x] = a[x]
  BY <1>3, <1>4, Put
<1> HIDE DEF b
<1>6. /\ IsParser(c) /\ c["logs"] = y.logs \cup Zeek!Rows(kind, w, m)
      /\ \A x \in Fields : x # "logs" => c[x] = b[x]
  BY <1>3, <1>5, Put
<1> HIDE DEF c
<1>7. /\ IsParser(d) /\ d["services"] = IF m.from = "resp" /\ m.op # "greeting"
                               THEN y.services \cup Zeek!Confirmed(kind) ELSE y.services
      /\ \A x \in Fields : x # "services" => d[x] = c[x]
  BY <1>3, <1>6, Put
<1>8. Zeek!Plain(kind, w, m) = d
  BY <1>2, <1>4, <1>5, <1>6, <1>3, SMT DEF a, b, c
<1> HIDE DEF d
<1>9. \A x \in Fields : x \notin {"rcpts", "port", "logs", "services"} => d[x] = y[x]
  BY <1>4, <1>5, <1>6, <1>7
<1>10. d["rcpts"] = a["rcpts"] /\ d["port"] = b["port"] /\ d["logs"] = c["logs"]
  BY <1>3, <1>5, <1>6, <1>7
<1>11. /\ d.rcpts = IF m.op = "RCPT" THEN y.rcpts \cup {m.id} ELSE y.rcpts
       /\ d.port = (y.port \/ (m.op = "PASV" /\ m.n = 1))
       /\ d.logs = y.logs \cup Zeek!Rows(kind, w, m)
       /\ d.services = IF m.from = "resp" /\ m.op # "greeting"
                       THEN y.services \cup Zeek!Confirmed(kind) ELSE y.services
  BY <1>4, <1>5, <1>6, <1>7, <1>10
<1>12. y.rcpts = w.rcpts /\ y.port = w.port /\ y.logs = w.logs /\ y.services = w.services
  BY <1>1, <1>3
<1> QED BY <1>1, <1>7, <1>8, <1>9, <1>11, <1>12 DEF y, PlainIs

\* What a script tells a plain analyzer: rows for its logs, names and the
\* service, and nothing odd.
Tells(kind, z, rows, names, y) ==
  /\ IsParser(y) /\ (~z.odd => ~y.odd) /\ y.services = z.services \cup Zeek!Confirmed(kind)
  /\ y.logs = z.logs \cup rows /\ y.rcpts = z.rcpts \cup names

LEMMA SameFields ==
  ASSUME NEW kind, NEW z, NEW y, Same(kind, y, z)
  PROVE  /\ IsParser(y) /\ y.open = z.open /\ y.odd = z.odd /\ y.services = z.services
         /\ y.logs = z.logs /\ y.rcpts = z.rcpts /\ y.port = z.port
BY DEF Same, Fields

\* One message.
OneTells(kind, z, m, y) ==
  /\ IsParser(y)
  /\ m.from = "orig" \/ Unmatched(kind, m) \/ Key(m) \in z.open => (~z.odd => ~y.odd)
  /\ m.from = "orig" /\ ~Unmatched(kind, m) => Key(m) \in y.open
  /\ y.rcpts = IF m.op = "RCPT" THEN z.rcpts \cup {m.id} ELSE z.rcpts
  /\ y.logs = z.logs \cup Zeek!Rows(kind, z, m)
  /\ y.services = IF m.from = "resp" /\ m.op # "greeting"
                  THEN z.services \cup Zeek!Confirmed(kind) ELSE z.services

LEMMA PlainOne ==
  ASSUME NEW kind, Plainly(kind), NEW z, IsParser(z), NEW m, NEW y, Runs(kind, z, <<m>>, y)
  PROVE  OneTells(kind, z, m, y)
<1>1. PICK w : Same(kind, w, z) /\ Same(kind, y, Zeek!Read(kind, w, m))
  BY RunsOne
<1> DEFINE x == Zeek!Plain(kind, w, m)
           u == IF Unmatched(kind, m) THEN w ELSE Zeek!Match(w, m.from, Key(m))
<1>2. Same(kind, y, x)
  BY <1>1, ReadPlainly
<1>3. /\ IsParser(w) /\ w.open = z.open /\ w.odd = z.odd /\ w.services = z.services
      /\ w.logs = z.logs /\ w.rcpts = z.rcpts
  BY <1>1, SameFields
<1>4. Zeek!Rows(kind, w, m) = Zeek!Rows(kind, z, m)
  BY <1>3 DEF Zeek!Rows
<1>5. "open" \in Fields /\ "odd" \in Fields
  BY DEF Fields
<1>6. /\ IsParser(u)
      /\ \A a \in Fields : a \notin {"rcpts", "port", "logs", "services"} => x[a] = u[a]
      /\ x.rcpts = IF m.op = "RCPT" THEN w.rcpts \cup {m.id} ELSE w.rcpts
      /\ x.logs = w.logs \cup Zeek!Rows(kind, w, m)
      /\ x.services = IF m.from = "resp" /\ m.op # "greeting"
                      THEN w.services \cup Zeek!Confirmed(kind) ELSE w.services
  <2>1. PlainIs(kind, w, m)
    BY <1>3, PlainFields
  <2>2. IF kind = "http" THEN FALSE ELSE TRUE
    BY DEF Plainly
  <2> QED BY <2>1, <2>2, Zenon DEF PlainIs, Key
<1>7. y.open = u.open /\ y.odd = u.odd
  <2>1. x.open = u.open /\ x.odd = u.odd
    BY <1>5, <1>6
  <2> QED BY <1>2, <2>1, SameFields
<1>8. /\ m.from = "orig" \/ Unmatched(kind, m) \/ Key(m) \in z.open => (~z.odd => ~y.odd)
      /\ m.from = "orig" /\ ~Unmatched(kind, m) => Key(m) \in y.open
  <2> HIDE DEF x
  <2>1. CASE Unmatched(kind, m)
    BY <1>3, <1>7, <2>1
  <2>2. CASE ~Unmatched(kind, m) /\ m.from = "orig"
    BY <1>3, <1>7, <2>2, Matched
  <2>3. CASE ~Unmatched(kind, m) /\ m.from # "orig"
    <3>1. u.odd <=> w.odd \/ Key(m) \notin w.open
      BY <1>3, <2>3, Matched
    <3> QED BY <1>3, <1>7, <2>3, <3>1
  <2> QED BY <2>1, <2>2, <2>3
<1> HIDE DEF x
<1>9. IsParser(y) /\ y.rcpts = x.rcpts /\ y.logs = x.logs /\ y.services = x.services
  BY <1>2, SameFields
<1> QED BY <1>3, <1>4, <1>6, <1>8, <1>9 DEF OneTells

Named(op, id) == IF op = "RCPT" THEN {id} ELSE {}
Both(kind, z, op, id, n, answer) ==
  Zeek!Rows(kind, z, Request(op, id, n)) \cup Zeek!Rows(kind, z, Reply(op, id, answer))

\* A request and its answer.
LEMMA PlainExchange ==
  ASSUME NEW kind, Plainly(kind), kind \notin Zeek!Streams, NEW z, IsParser(z), NEW y,
         NEW op, op \notin Zeek!Unprompted, NEW id, NEW n, NEW answer,
         Runs(kind, z, Exchange(op, id, n, answer), y)
  PROVE  Tells(kind, z, Both(kind, z, op, id, n, answer), Named(op, id), y)
<1> DEFINE a == Request(op, id, n)
           b == Reply(op, id, answer)
<1>1. Exchange(op, id, n, answer) = <<a>> \o <<b>>
  BY DEF Exchange
<1>2. PICK w : Runs(kind, z, <<a>>, w) /\ Runs(kind, w, <<b>>, y)
  BY <1>1, PairIsSeq, RunsJoined
<1>3. /\ a.from = "orig" /\ a.op = op /\ Key(a) = Key(b) /\ a.id = id
      /\ b.from = "resp" /\ b.op = op /\ b.id = id /\ op # "greeting"
      /\ ~Unmatched(kind, a) /\ ~Unmatched(kind, b)
  BY DEF Request, Reply, Key, Unmatched, Zeek!Unprompted
<1> HIDE DEF a, b
<1>4. /\ IsParser(w) /\ (~z.odd => ~w.odd) /\ Key(a) \in w.open
      /\ w.rcpts = IF op = "RCPT" THEN z.rcpts \cup {id} ELSE z.rcpts
      /\ w.logs = z.logs \cup Zeek!Rows(kind, z, a) /\ w.services = z.services
  <2>1. OneTells(kind, z, a, w)
    BY <1>2, PlainOne
  <2> QED BY <1>3, <2>1 DEF OneTells
<1>5. /\ IsParser(y) /\ (~w.odd => ~y.odd)
      /\ y.rcpts = IF op = "RCPT" THEN w.rcpts \cup {id} ELSE w.rcpts
      /\ y.logs = w.logs \cup Zeek!Rows(kind, w, b)
      /\ y.services = w.services \cup Zeek!Confirmed(kind)
  <2>1. OneTells(kind, w, b, y)
    BY <1>2, <1>4, PlainOne
  <2> QED BY <1>3, <1>4, <2>1 DEF OneTells
<1>6. Zeek!Rows(kind, w, b) = Zeek!Rows(kind, z, b)
  <2>1. op = "body" => w.rcpts = z.rcpts
    BY <1>4
  <2> QED BY <1>3, <2>1 DEF Zeek!Rows
<1> QED BY <1>4, <1>5, <1>6 DEF a, b, Tells, Both, Named

\* The last exchange of a script.
LEMMA LastTells ==
  ASSUME NEW kind, Plainly(kind), kind \notin Zeek!Streams, NEW z, NEW y, NEW s, IsSeq(s),
         NEW op, op \notin Zeek!Unprompted, NEW id, NEW n, NEW answer,
         Runs(kind, z, s \o Exchange(op, id, n, answer), y)
  PROVE  \E w : /\ Runs(kind, z, s, w) /\ IsParser(w)
               /\ Tells(kind, w, Both(kind, w, op, id, n, answer), Named(op, id), y)
<1>1. PICK w : Runs(kind, z, s, w) /\ Runs(kind, w, Exchange(op, id, n, answer), y)
  BY PairIsSeq, RunsJoined DEF Exchange
<1>2. IsParser(w)
  BY <1>1, RunsTo, SeqHas
<1> QED BY <1>1, <1>2, PlainExchange

LEMMA FreshIs ==
  /\ IsParser(Zeek!Fresh) /\ ~Zeek!Fresh.odd /\ Zeek!Fresh.services = {} /\ Zeek!Fresh.logs = {}
  /\ Zeek!Fresh.rcpts = {} /\ ~Zeek!Fresh.port /\ Zeek!Fresh.files = <<>> /\ Zeek!Fresh.open = {}
BY DEF Zeek!Fresh, IsParser, Fields

-----------------------------------------------------------------------------
(* Repeated exchanges, and streams. *)

\* Block i of ss is an exchange about ids[i] whose rows are `rows`, whatever was read before.
Uniform(kind, op, ids, rows, ss) ==
  \A i \in 1..Len(ss) : \E n, answer : /\ ss[i] = Exchange(op, ids[i], n, answer)
                                       /\ \A w : Both(kind, w, op, ids[i], n, answer) = rows
NamedUpTo(op, ids, n) == IF op = "RCPT" THEN {ids[i] : i \in 1..n} ELSE {}

LEMMA BlocksTell ==
  ASSUME NEW kind, Plainly(kind), kind \notin Zeek!Streams, NEW z, IsParser(z), NEW y,
         NEW op, op \notin Zeek!Unprompted, NEW ids, NEW rows,
         NEW S, NEW ss \in Seq(Seq(S)), Len(ss) > 0, Uniform(kind, op, ids, rows, ss),
         Runs(kind, z, FlattenSeq(ss), y)
  PROVE  Tells(kind, z, rows, NamedUpTo(op, ids, Len(ss)), y)
<1> USE SeqOfSeqs
<1>1. PICK x : Stops(kind, z, ss, Len(ss), y, x)
  BY Milestones
<1> DEFINE G == {n \in Nat : n \in 1..Len(ss) => Tells(kind, z, rows, NamedUpTo(op, ids, n), x[n])}
<1>2. 0 \in G
  OBVIOUS
<1>3. ASSUME NEW n \in Nat, n \in G PROVE n + 1 \in G
  <2>1. SUFFICES ASSUME n + 1 \in 1..Len(ss)
                 PROVE  Tells(kind, z, rows, NamedUpTo(op, ids, n + 1), x[n + 1])
    OBVIOUS
  <2>2. PICK q, answer : /\ ss[n + 1] = Exchange(op, ids[n + 1], q, answer)
                         /\ \A w : Both(kind, w, op, ids[n + 1], q, answer) = rows
    BY <2>1 DEF Uniform
  <2>3. Runs(kind, x[n], Exchange(op, ids[n + 1], q, answer), x[n + 1])
    <3>1. (n + 1) - 1 = n
      OBVIOUS
    <3> QED BY <1>1, <2>1, <2>2, <3>1 DEF Stops
  <2>4. IsParser(x[n])
    <3>1. CASE n = 0
      BY <1>1, <3>1 DEF Stops
    <3>2. CASE n # 0
      BY <1>3, <2>1, <3>2 DEF Tells
    <3> QED BY <3>1, <3>2
  <2>5. Tells(kind, x[n], rows, Named(op, ids[n + 1]), x[n + 1])
    <3>1. Tells(kind, x[n], Both(kind, x[n], op, ids[n + 1], q, answer), Named(op, ids[n + 1]), x[n + 1])
      BY <2>3, <2>4, PlainExchange
    <3> QED BY <2>2, <3>1
  <2>6. NamedUpTo(op, ids, n + 1) = NamedUpTo(op, ids, n) \cup Named(op, ids[n + 1])
    <3>1. 1..(n + 1) = (1..n) \cup {n + 1}
      OBVIOUS
    <3> QED BY <3>1 DEF NamedUpTo, Named
  <2>7. CASE n = 0
    <3>1. NamedUpTo(op, ids, n) = {}
      BY <2>7 DEF NamedUpTo
    <3> QED BY <1>1, <2>5, <2>6, <2>7, <3>1 DEF Stops
  <2>8. CASE n # 0
    <3>1. Tells(kind, z, rows, NamedUpTo(op, ids, n), x[n])
      BY <1>3, <2>1, <2>8
    <3> QED BY <2>5, <2>6, <3>1 DEF Tells
  <2> QED BY <2>7, <2>8
<1> HIDE DEF G
<1>4. Len(ss) \in G
  BY <1>2, <1>3, NatSteps
<1> QED BY <1>1, <1>4 DEF G, Stops

\* The last message of a stream.
StreamTells(kind, z, s, n, y) ==
  /\ IsParser(y) /\ (~z.odd => ~y.odd)
  /\ \A i \in 1..n : Zeek!Rows(kind, z, s[i]) \subseteq y.logs
  /\ y.services = z.services \cup (IF \E i \in 1..n : s[i].from = "resp" /\ s[i].op # "greeting"
                                   THEN Zeek!Confirmed(kind) ELSE {})

LEMMA StreamsTell ==
  ASSUME NEW kind, kind \in Zeek!Streams, NEW z, IsParser(z), NEW s, NEW y, Len(s) \in Nat,
         Runs(kind, z, s, y)
  PROVE  StreamTells(kind, z, s, Len(s), y)
<1>1. PICK h : RunsBy(kind, z, s, y, h)
  BY DEF Runs
<1>2. kind # "ftp" /\ kind # "smtp" /\ Plainly(kind)
  BY DEF Zeek!Streams, Plainly
<1>3. h[0] = z
  BY <1>1, <1>2, SameIs DEF RunsBy
<1> DEFINE G == {n \in Nat : n \in 0..Len(s) => StreamTells(kind, z, s, n, h[n])}
<1>4. 0 \in G
  <2>1. StreamTells(kind, z, s, 0, z)
    BY DEF StreamTells
  <2> QED BY <1>3, <2>1
<1>5. ASSUME NEW n \in Nat, n \in G PROVE n + 1 \in G
  <2>1. SUFFICES ASSUME n + 1 \in 0..Len(s) PROVE StreamTells(kind, z, s, n + 1, h[n + 1])
    OBVIOUS
  <2>2. StreamTells(kind, z, s, n, h[n])
    BY <1>5, <2>1
  <2> DEFINE m == s[n + 1]
             w == h[n]
             v == h[n + 1]
  <2>3. Same(kind, v, Zeek!Read(kind, w, m))
    <3>1. (n + 1) - 1 = n /\ n + 1 \in 1..Len(s)
      BY <2>1
    <3> QED BY <1>1, <3>1 DEF RunsBy, Steps
  <2>4. Runs(kind, w, <<m>>, v)
    <3> DEFINE g == [i \in 0..1 |-> IF i = 0 THEN w ELSE v]
    <3>1. g[0] = w /\ g[1] = v
      OBVIOUS
    <3> HIDE DEF g, w, v, m
    <3>2. Steps(kind, <<m>>, g)
      <4>1. ASSUME NEW i \in 1..1 PROVE i = 1 /\ i - 1 = 0 /\ <<m>>[i] = m
        OBVIOUS
      <4>2. \A i \in 1..1 : Same(kind, g[i], Zeek!Read(kind, g[i - 1], <<m>>[i]))
        BY <2>3, <3>1, <4>1
      <4> QED BY <4>2, PairIsSeq DEF Steps
    <3>3. IsParser(w)
      BY <2>2 DEF StreamTells, w
    <3>4. RunsBy(kind, w, <<m>>, v, g)
      BY <3>1, <3>2, <3>3, PairIsSeq DEF RunsBy, Same
    <3> QED BY <3>4 DEF Runs
  <2>5. OneTells(kind, w, m, v)
    BY <1>2, <2>2, <2>4, PlainOne DEF StreamTells
  <2>6. Unmatched(kind, m)
    BY DEF Unmatched
  <2>7. \A i \in 1..(n + 1) : Zeek!Rows(kind, w, s[i]) = Zeek!Rows(kind, z, s[i])
    BY <1>2 DEF Zeek!Rows
  <2>8. 1..(n + 1) = (1..n) \cup {n + 1} /\ n + 1 \in 1..(n + 1)
    OBVIOUS
  <2> HIDE DEF w, v
  <2>9. IsParser(v) /\ (~z.odd => ~v.odd)
    BY <2>2, <2>5, <2>6 DEF StreamTells, OneTells, w
  <2>10. \A i \in 1..(n + 1) : Zeek!Rows(kind, z, s[i]) \subseteq v.logs
    <3>1. v.logs = w.logs \cup Zeek!Rows(kind, z, s[n + 1])
      BY <2>5, <2>7, <2>8 DEF OneTells
    <3>2. \A i \in 1..n : Zeek!Rows(kind, z, s[i]) \subseteq w.logs
      BY <2>2 DEF StreamTells, w
    <3> HIDE DEF m
    <3> QED BY <2>8, <3>1, <3>2
  <2>11. v.services = z.services \cup
           (IF \E i \in 1..(n + 1) : s[i].from = "resp" /\ s[i].op # "greeting"
            THEN Zeek!Confirmed(kind) ELSE {})
    <3>1. v.services = IF m.from = "resp" /\ m.op # "greeting"
                       THEN w.services \cup Zeek!Confirmed(kind) ELSE w.services
      BY <2>5 DEF OneTells
    <3>2. w.services = z.services \cup
           (IF \E i \in 1..n : s[i].from = "resp" /\ s[i].op # "greeting"
            THEN Zeek!Confirmed(kind) ELSE {})
      BY <2>2 DEF StreamTells, w
    <3>3. (\E i \in 1..(n + 1) : s[i].from = "resp" /\ s[i].op # "greeting")
            <=> (\E i \in 1..n : s[i].from = "resp" /\ s[i].op # "greeting")
                \/ (m.from = "resp" /\ m.op # "greeting")
      BY <2>8
    <3> HIDE DEF m
    <3> QED BY <3>1, <3>2, <3>3
  <2> QED BY <2>9, <2>10, <2>11 DEF StreamTells, v
<1> HIDE DEF G
<1>6. Len(s) \in G
  BY <1>4, <1>5, NatSteps
<1> QED BY <1>1, <1>6 DEF G, RunsBy

-----------------------------------------------------------------------------
(* Flows that load, and their fields. *)

LEMMA FieldIs ==
  ASSUME NEW f, IsFlow(f), NEW x \in DOMAIN L7Spec[f.kind]
  PROVE  \/ L7Spec[f.kind][x] # Required /\ Loaded(f)[x] = L7Spec[f.kind][x]
         \/ x \in DOMAIN f.given /\ Loaded(f)[x] = f.given[x]
BY DEF IsFlow, Loaded, Filled

\* The fields whose sizes and lengths matter.
Typical(f) ==
  LET s == Loaded(f)
  IN  /\ f.kind \in {"modbus", "ntp", "snmp", "icmp"} => s.count \in Int
      /\ f.kind = "http" => s.response_body_len \in Int /\ s.response_body_b64 \in Nat \cup {None}
      /\ f.kind \in {"ftp", "smb"} => s.file_bytes \in Int
      /\ f.kind = "ftp" => IsSeq(s.commands)
      /\ f.kind = "smtp" => IsSeq(s.rcpt_to)
      /\ f.kind = "ldap" => IsSeq(s.searches)
      /\ f.kind = "dcerpc" => IsSeq(s.operations)
      /\ f.kind \in {"opaque_tcp", "opaque_udp"} =>
           s.orig_bytes \in Int /\ s.resp_bytes \in Int /\ s.orig_literal_hex \in Int
      /\ f.kind = "opaque_tcp" => s.resp_literal_hex \in Int

LEMMA ListIs ==
  ASSUME NEW given, Typed(given), NEW x \in DOMAIN given \cap Lists
  PROVE  IsSeq(given[x])
<1>1. given[x] \in Seq(ToSet(given[x]))
  BY DEF Typed
<1> QED BY <1>1, AnySeq

LEMMA ListField ==
  ASSUME NEW f, IsFlow(f), NEW x \in DOMAIN L7Spec[f.kind], x \in Lists,
         L7Spec[f.kind][x] = Required \/ IsSeq(L7Spec[f.kind][x])
  PROVE  IsSeq(Loaded(f)[x])
<1>1. Typed(f.given)
  BY DEF IsFlow
<1>2. CASE L7Spec[f.kind][x] # Required /\ Loaded(f)[x] = L7Spec[f.kind][x]
  BY <1>2, Zenon
<1>3. CASE x \in DOMAIN f.given /\ Loaded(f)[x] = f.given[x]
  BY <1>1, <1>3, ListIs, Zenon
<1> QED BY <1>2, <1>3, FieldIs, Zenon

LEMMA FlowIsTypical ==
  ASSUME NEW f, IsFlow(f)
  PROVE  Typical(f)
<1>1. f.kind \in {"modbus", "ntp", "snmp", "icmp"} => Loaded(f).count \in Int
  <2>1. SUFFICES ASSUME f.kind \in {"modbus", "ntp", "snmp", "icmp"} PROVE Loaded(f)["count"] \in Int
    OBVIOUS
  <2>2. "count" \in DOMAIN L7Spec[f.kind] /\ L7Spec[f.kind]["count"] \in Int
    BY <2>1 DEF L7Spec, ModbusL7, NtpL7, SnmpL7, IcmpL7
  <2> QED BY <2>2, FieldIs DEF IsFlow, Typed, Integral
<1>2. f.kind = "http" => Loaded(f).response_body_len \in Int
                         /\ Loaded(f).response_body_b64 \in Nat \cup {None}
  <2>1. SUFFICES ASSUME f.kind = "http"
                 PROVE  Loaded(f)["response_body_len"] \in Int
                         /\ Loaded(f)["response_body_b64"] \in Nat \cup {None}
    OBVIOUS
  <2>2. L7Spec[f.kind] = HttpL7
    BY <2>1 DEF L7Spec
  <2>3. /\ "response_body_len" \in DOMAIN HttpL7 /\ HttpL7["response_body_len"] \in Int
        /\ "response_body_b64" \in DOMAIN HttpL7 /\ HttpL7["response_body_b64"] = None
    BY DEF HttpL7
  <2> QED BY <2>2, <2>3, FieldIs DEF IsFlow, Typed, Integral
<1>3. f.kind \in {"ftp", "smb"} => Loaded(f).file_bytes \in Int
  <2>1. SUFFICES ASSUME f.kind \in {"ftp", "smb"} PROVE Loaded(f)["file_bytes"] \in Int
    OBVIOUS
  <2>2. "file_bytes" \in DOMAIN L7Spec[f.kind] /\ L7Spec[f.kind]["file_bytes"] \in Int
    BY <2>1 DEF L7Spec, FtpL7, SmbL7
  <2> QED BY <2>2, FieldIs DEF IsFlow, Typed, Integral
<1>4. f.kind = "ftp" => IsSeq(Loaded(f).commands)
  <2>1. SUFFICES ASSUME f.kind = "ftp" PROVE IsSeq(Loaded(f)["commands"])
    OBVIOUS
  <2>2. "commands" \in DOMAIN L7Spec[f.kind] /\ L7Spec[f.kind]["commands"] = <<"SYST", "PWD", "TYPE">>
    BY <2>1 DEF L7Spec, FtpL7
  <2>3. <<"SYST", "PWD", "TYPE">> \in Seq({"SYST", "PWD", "TYPE"})
    OBVIOUS
  <2>4. IsSeq(<<"SYST", "PWD", "TYPE">>)
    BY <2>3, AnySeq
  <2>5. "commands" \in Lists
    BY DEF Lists
  <2> QED BY <2>2, <2>4, <2>5, ListField, Zenon
<1>5. f.kind = "smtp" => IsSeq(Loaded(f).rcpt_to)
  <2>1. SUFFICES ASSUME f.kind = "smtp" PROVE IsSeq(Loaded(f)["rcpt_to"])
    OBVIOUS
  <2>2. "rcpt_to" \in DOMAIN L7Spec[f.kind] /\ L7Spec[f.kind]["rcpt_to"] = Required
    BY <2>1 DEF L7Spec, SmtpL7
  <2>3. "rcpt_to" \in Lists
    BY DEF Lists
  <2> QED BY <2>2, <2>3, ListField, Zenon
<1>6. f.kind = "ldap" => IsSeq(Loaded(f).searches)
  <2>1. SUFFICES ASSUME f.kind = "ldap" PROVE IsSeq(Loaded(f)["searches"])
    OBVIOUS
  <2>2. "searches" \in DOMAIN L7Spec[f.kind] /\ L7Spec[f.kind]["searches"] = <<>>
    BY <2>1 DEF L7Spec, LdapL7
  <2>3. "searches" \in Lists /\ IsSeq(<<>>)
    BY PairIsSeq DEF Lists
  <2> QED BY <2>2, <2>3, ListField, Zenon
<1>7. f.kind = "dcerpc" => IsSeq(Loaded(f).operations)
  <2>1. SUFFICES ASSUME f.kind = "dcerpc" PROVE IsSeq(Loaded(f)["operations"])
    OBVIOUS
  <2>2. "operations" \in DOMAIN L7Spec[f.kind] /\ L7Spec[f.kind]["operations"] = <<>>
    BY <2>1 DEF L7Spec, DceRpcL7
  <2>3. "operations" \in Lists /\ IsSeq(<<>>)
    BY PairIsSeq DEF Lists
  <2> QED BY <2>2, <2>3, ListField, Zenon
<1>8. f.kind \in {"opaque_tcp", "opaque_udp"} =>
        /\ Loaded(f).orig_bytes \in Int /\ Loaded(f).resp_bytes \in Int
        /\ Loaded(f).orig_literal_hex \in Int
  <2>1. SUFFICES ASSUME f.kind \in {"opaque_tcp", "opaque_udp"},
                        NEW x \in {"orig_bytes", "resp_bytes", "orig_literal_hex"}
                 PROVE  Loaded(f)[x] \in Int
    OBVIOUS
  <2>2. x \in DOMAIN L7Spec[f.kind] /\ L7Spec[f.kind][x] \in Int
    BY <2>1 DEF L7Spec, OpaqueTcpL7, OpaqueUdpL7
  <2> QED BY <2>2, FieldIs DEF IsFlow, Typed, Integral
<1>9. f.kind = "opaque_tcp" => Loaded(f).resp_literal_hex \in Int
  <2>1. SUFFICES ASSUME f.kind = "opaque_tcp" PROVE Loaded(f)["resp_literal_hex"] \in Int
    OBVIOUS
  <2>2. "resp_literal_hex" \in DOMAIN L7Spec[f.kind] /\ L7Spec[f.kind]["resp_literal_hex"] \in Int
    BY <2>1 DEF L7Spec, OpaqueTcpL7
  <2> QED BY <2>2, FieldIs DEF IsFlow, Typed, Integral
<1> QED BY <1>1, <1>2, <1>3, <1>4, <1>5, <1>6, <1>7, <1>8, <1>9 DEF Typical

-----------------------------------------------------------------------------
(* The messages of a script. *)

\* Its sender, and the numbers by which files are counted.
Message(kind, m) ==
  /\ m.from \in {"orig", "resp"}
  /\ kind = "smb" => m.n \in Nat
  /\ kind = "dcerpc" /\ m.op = "create" => m.n \in Nat
  /\ kind = "http" /\ m.from = "resp" => m.id.announced \in Nat /\ m.n \in Nat
Said(kind, s) == IsSeq(s) /\ \A i \in 1..Len(s) : Message(kind, s[i])

LEMMA SaidJoined ==
  ASSUME NEW kind, NEW a, NEW b, Said(kind, a), Said(kind, b)
  PROVE  Said(kind, a \o b)
<1>1. /\ Len(a) \in Nat /\ Len(b) \in Nat /\ Len(a \o b) = Len(a) + Len(b)
      /\ \A i \in 1..(Len(a) + Len(b)) : (a \o b)[i] = IF i <= Len(a) THEN a[i] ELSE b[i - Len(a)]
      /\ IsSeq(a \o b)
  BY Joined, SeqHas DEF Said
<1>2. ASSUME NEW i \in 1..(Len(a) + Len(b)) PROVE Message(kind, (a \o b)[i])
  <2>1. CASE i <= Len(a)
    <3>1. i \in 1..Len(a) /\ (a \o b)[i] = a[i]
      BY <1>1, <2>1
    <3> QED BY <3>1, Zenon DEF Said
  <2>2. CASE ~(i <= Len(a))
    <3>1. i - Len(a) \in 1..Len(b) /\ (a \o b)[i] = b[i - Len(a)]
      BY <1>1, <2>2
    <3> QED BY <3>1, Zenon DEF Said
  <2> QED BY <2>1, <2>2
<1> QED BY <1>1, <1>2, Zenon DEF Said

LEMMA SaidOnce ==
  ASSUME NEW kind, NEW m, Message(kind, m)
  PROVE  Said(kind, <<m>>) /\ Said(kind, <<>>)
<1>1. \A i \in 1..0 : FALSE
  OBVIOUS
<1>2. \A i \in 1..1 : <<m>>[i] = m
  OBVIOUS
<1> QED BY <1>1, <1>2, PairIsSeq, Zenon DEF Said

LEMMA SaidTwice ==
  ASSUME NEW kind, NEW m, NEW k, Message(kind, m), Message(kind, k)
  PROVE  Said(kind, <<m, k>>)
<1>2. \A i \in 1..2 : <<m, k>>[i] = m \/ <<m, k>>[i] = k
  OBVIOUS
<1> QED BY <1>2, PairIsSeq, Zenon DEF Said

\* The blocks of a script, and the messages in them.
Within(ss) == UNION {{ss[i][j] : j \in DOMAIN ss[i]} : i \in DOMAIN ss}
IsBlocks(ss, n) == ss = [i \in 1..n |-> ss[i]] /\ \A i \in 1..n : IsSeq(ss[i])

LEMMA BlocksAre ==
  ASSUME NEW ss, NEW n \in Int, IsBlocks(ss, n)
  PROVE  ss \in Seq(Seq(Within(ss))) /\ Len(ss) = IF n > 0 THEN n ELSE 0
<1> DEFINE S == Within(ss)
           m == IF n > 0 THEN n ELSE 0
<1>1. DOMAIN ss = 1..n /\ m \in Nat /\ 1..n = 1..m
  BY DEF IsBlocks
<1>2. ASSUME NEW i \in 1..n PROVE ss[i] \in Seq(S)
  <2>1. {ss[i][j] : j \in DOMAIN ss[i]} \subseteq S
    BY <1>1 DEF Within
  <2>2. ss[i] \in Seq({ss[i][j] : j \in DOMAIN ss[i]})
    BY DEF IsBlocks, IsSeq
  <2> HIDE DEF S
  <2> QED BY <2>1, <2>2, SeqWider
<1> HIDE DEF S
<1>3. ss \in [1..m -> Seq(S)]
  BY <1>1, <1>2 DEF IsBlocks
<1> HIDE DEF m
<1> QED BY <1>1, <1>3 DEF S, m

LEMMA SaidBlocks ==
  ASSUME NEW kind, NEW ss, NEW n \in Int, IsBlocks(ss, n), \A i \in 1..n : Said(kind, ss[i])
  PROVE  Said(kind, FlattenSeq(ss))
<1>1. ss \in Seq(Seq(Within(ss)))
  BY BlocksAre
<1>2. FlattenSeq(ss) \in Seq(Within(ss))
  BY <1>1, FlattenIn
<1>3. DOMAIN ss = 1..n
  BY DEF IsBlocks
<1>4. \A m \in Within(ss) : Message(kind, m)
  <2>1. ASSUME NEW i \in 1..n PROVE \A j \in DOMAIN ss[i] : Message(kind, ss[i][j])
    BY SeqHas DEF Said
  <2> QED BY <1>3, <2>1 DEF Within
<1>5. \A i \in 1..Len(FlattenSeq(ss)) : FlattenSeq(ss)[i] \in Within(ss)
  BY <1>2
<1> QED BY <1>2, <1>4, <1>5, AnySeq DEF Said

LEMMA SaidExchange ==
  ASSUME NEW kind, kind \notin {"smb", "http"}, NEW op, kind = "dcerpc" => op # "create",
         NEW id, NEW n, NEW answer
  PROVE  Said(kind, Exchange(op, id, n, answer))
<1>1. Message(kind, Request(op, id, n)) /\ Message(kind, Reply(op, id, answer))
  BY DEF Message, Request, Reply
<1> QED BY <1>1, SaidTwice DEF Exchange

LEMMA SaidLine ==
  ASSUME NEW kind, kind \notin {"smb", "http"}, NEW op, kind = "dcerpc" => op # "create"
  PROVE  Said(kind, Line(op))
BY SaidExchange DEF Line

\* The renderers that repeat an exchange.
LEMMA SaidRepeatedly ==
  ASSUME NEW kind, kind \notin {"smb", "http", "dcerpc"}, NEW s
  PROVE  /\ s.count \in Int => /\ Said(kind, render_ntp(s)) /\ Said(kind, render_snmp(s))
                               /\ Said(kind, render_icmp(s)) /\ Said(kind, render_modbus(s))
         /\ IsSeq(s.searches) => Said(kind, render_ldap(s))
         /\ IsSeq(s.rcpt_to) => Said(kind, render_smtp(s))
<1>1. ASSUME s.count \in Int
      PROVE  /\ Said(kind, render_ntp(s)) /\ Said(kind, render_snmp(s))
             /\ Said(kind, render_icmp(s)) /\ Said(kind, render_modbus(s))
  <2> DEFINE ntp == [i \in 1..s.count |-> Exchange("time", i, 0, s.stratum)]
             snmp == [i \in 1..s.count |-> Exchange("get", i, 0, 0)]
             icmp == [i \in 1..s.count |-> Exchange("echo", i - 1, s.payload_len, s.payload_len)]
             modbus == [i \in 1..s.count |-> Exchange("registers", i % 65536, 0, s.quantity)]
  <2>1. /\ \A i \in 1..s.count : Said(kind, ntp[i])
        /\ \A i \in 1..s.count : Said(kind, snmp[i])
        /\ \A i \in 1..s.count : Said(kind, icmp[i])
        /\ \A i \in 1..s.count : Said(kind, modbus[i])
    BY SaidExchange
  <2>2. /\ IsBlocks(ntp, s.count) /\ IsBlocks(snmp, s.count)
        /\ IsBlocks(icmp, s.count) /\ IsBlocks(modbus, s.count)
    <3>1. /\ ntp = [i \in 1..s.count |-> ntp[i]] /\ snmp = [i \in 1..s.count |-> snmp[i]]
          /\ icmp = [i \in 1..s.count |-> icmp[i]] /\ modbus = [i \in 1..s.count |-> modbus[i]]
      OBVIOUS
    <3> HIDE DEF ntp, snmp, icmp, modbus
    <3> QED BY <2>1, <3>1, Zenon DEF IsBlocks, Said
  <2> HIDE DEF ntp, snmp, icmp, modbus
  <2>3. /\ Said(kind, FlattenSeq(ntp)) /\ Said(kind, FlattenSeq(snmp))
        /\ Said(kind, FlattenSeq(icmp)) /\ Said(kind, FlattenSeq(modbus))
    BY <1>1, <2>1, <2>2, SaidBlocks
  <2> QED
    BY <2>3 DEF render_ntp, render_snmp, render_icmp, render_modbus, Times, ntp, snmp, icmp, modbus
<1>2. ASSUME IsSeq(s.searches) PROVE Said(kind, render_ldap(s))
  <2> DEFINE n == Len(s.searches)
             ss == [i \in 1..n |-> Exchange("search", i + 1, 0, 0)]
  <2>1. n \in Int /\ \A i \in 1..n : Said(kind, ss[i])
    BY <1>2, SeqHas, SaidExchange
  <2>2. IsBlocks(ss, n)
    BY <2>1 DEF IsBlocks, Said
  <2> HIDE DEF ss, n
  <2>3. Said(kind, FlattenSeq(ss)) /\ Said(kind, Exchange("bind", 1, 0, 0))
    BY <2>1, <2>2, SaidBlocks, SaidExchange
  <2> QED BY <2>3, SaidJoined DEF render_ldap, Times, ss, n
<1>3. ASSUME IsSeq(s.rcpt_to) PROVE Said(kind, render_smtp(s))
  <2> DEFINE n == Len(s.rcpt_to)
             ss == [i \in DOMAIN s.rcpt_to |-> Exchange("RCPT", s.rcpt_to[i], 0, 0)]
  <2>1. n \in Int /\ DOMAIN s.rcpt_to = 1..n /\ \A i \in 1..n : Said(kind, ss[i])
    BY <1>3, SeqHas, SaidExchange
  <2>2. IsBlocks(ss, n)
    BY <2>1 DEF IsBlocks, Said
  <2>3. Each(s.rcpt_to, LAMBDA r : Exchange("RCPT", r, 0, 0)) = FlattenSeq(ss)
    BY DEF Each
  <2> HIDE DEF ss, n
  <2>4. Said(kind, FlattenSeq(ss)) /\ Said(kind, Greeting)
    BY <2>1, <2>2, SaidBlocks, SaidOnce DEF Greeting, Message, Reply
  <2> QED BY <2>3, <2>4, SaidJoined, SaidLine DEF render_smtp
<1> QED BY <1>1, <1>2, <1>3

\* A script of n messages.
Long(kind, s, n) == Said(kind, s) /\ n \in Nat /\ Len(s) = n

LEMMA LongJoined ==
  ASSUME NEW kind, NEW a, NEW b, NEW n, NEW k, Long(kind, a, n), Long(kind, b, k)
  PROVE  Long(kind, a \o b, n + k)
<1>1. IsSeq(a) /\ IsSeq(b) /\ n \in Nat /\ k \in Nat /\ Len(a) = n /\ Len(b) = k
  BY DEF Long, Said
<1>2. Len(a \o b) = n + k
  BY <1>1, Joined
<1>3. Said(kind, a \o b)
  BY SaidJoined DEF Long
<1> QED BY <1>1, <1>2, <1>3 DEF Long

\* The messages of a come first, then those of b.
InTurn(a, b, n, k) == /\ \A i \in 1..n : (a \o b)[i] = a[i]
                      /\ \A i \in 1..k : (a \o b)[n + i] = b[i]

LEMMA JoinedInTurn ==
  ASSUME NEW kind, NEW a, NEW b, NEW n, NEW k, Long(kind, a, n), Long(kind, b, k)
  PROVE  InTurn(a, b, n, k)
<1>1. IsSeq(a) /\ IsSeq(b) /\ Len(a) = n /\ Len(b) = k /\ n \in Nat /\ k \in Nat
  BY DEF Long, Said
<1>2. \A i \in 1..(n + k) : (a \o b)[i] = IF i <= n THEN a[i] ELSE b[i - n]
  BY <1>1, Joined
<1>3. ASSUME NEW i \in 1..n PROVE (a \o b)[i] = a[i]
  BY <1>1, <1>2
<1>4. ASSUME NEW i \in 1..k PROVE (a \o b)[n + i] = b[i]
  <2>1. n + i \in 1..(n + k) /\ ~(n + i <= n) /\ (n + i) - n = i
    BY <1>1
  <2> QED BY <1>2, <2>1
<1> QED BY <1>3, <1>4 DEF InTurn

LEMMA LongLine ==
  ASSUME NEW kind, kind \notin {"smb", "http"}, NEW op, kind = "dcerpc" => op # "create",
         NEW id, NEW n, NEW answer
  PROVE  Long(kind, Exchange(op, id, n, answer), 2) /\ Long(kind, Line(op), 2)
<1>1. Said(kind, Exchange(op, id, n, answer)) /\ Len(Exchange(op, id, n, answer)) = 2
  BY SaidExchange, PairIsSeq DEF Exchange
<1>2. Said(kind, Line(op)) /\ Len(Line(op)) = 2
  BY SaidLine, PairIsSeq DEF Line, Exchange
<1> QED BY <1>1, <1>2 DEF Long

LEMMA LongReply ==
  ASSUME NEW kind, kind \notin {"smb", "http"}, NEW op, kind = "dcerpc" => op # "create"
  PROVE  Long(kind, <<Reply(op, 0, 0)>>, 1)
<1>1. Message(kind, Reply(op, 0, 0))
  BY DEF Message, Reply
<1> QED BY <1>1, SaidOnce, PairIsSeq DEF Long

LEMMA LongPassive ==
  ASSUME NEW v6
  PROVE  Long("ftp", Passive(v6), 5) /\ Passive(v6)[2] = Reply("PASV", 0, IF v6 THEN 0 ELSE 1)
<1> DEFINE n == IF v6 THEN 0 ELSE 1
           a == Exchange("PASV", 0, 0, n)
           b == Line("RETR")
           c == <<Reply("226", 0, 0)>>
<1>1. Long("ftp", a, 2) /\ Long("ftp", b, 2) /\ Long("ftp", c, 1)
  BY LongLine, LongReply
<1>2. a[2] = Reply("PASV", 0, n)
  BY DEF Exchange
<1>3. Passive(v6) = a \o b \o c
  BY DEF Passive
<1> HIDE DEF a, b, c, n
<1>4. Long("ftp", a \o b, 4)
  <2>1. Long("ftp", a \o b, 2 + 2)
    BY <1>1, LongJoined
  <2> QED BY <2>1
<1>5. Long("ftp", a \o b \o c, 5)
  <2>1. Long("ftp", a \o b \o c, 4 + 1)
    BY <1>1, <1>4, LongJoined
  <2> QED BY <2>1
<1>8. 2 \in 1..2 /\ 2 \in 1..4
  OBVIOUS
<1>6. (a \o b)[2] = a[2]
  <2>1. InTurn(a, b, 2, 2)
    BY <1>1, JoinedInTurn
  <2> QED BY <1>8, <2>1 DEF InTurn
<1>7. (a \o b \o c)[2] = (a \o b)[2]
  <2>1. InTurn(a \o b, c, 4, 1)
    BY <1>1, <1>4, JoinedInTurn
  <2> QED BY <1>8, <2>1 DEF InTurn
<1> QED BY <1>2, <1>3, <1>5, <1>6, <1>7 DEF n

LEMMA LongPrologue ==
  ASSUME NEW s, IsSeq(s.commands)
  PROVE  Long("ftp", Greeting \o Line("USER") \o Line("PASS") \o Each(s.commands, Line),
              5 + 2 * Len(s.commands))
<1> DEFINE n == Len(s.commands)
           ss == [i \in DOMAIN s.commands |-> Line(s.commands[i])]
           all == FlattenSeq(ss)
<1>1. n \in Nat /\ DOMAIN s.commands = 1..n
  BY SeqHas
<1>2. \A i \in 1..n : Said("ftp", ss[i]) /\ Len(ss[i]) = 2
  <2>1. \A op : Long("ftp", Line(op), 2)
    BY LongLine
  <2> QED BY <1>1, <2>1 DEF Long
<1>3. IsBlocks(ss, n)
  BY <1>1, <1>2 DEF IsBlocks, Said
<1>4. Each(s.commands, Line) = all
  BY DEF Each
<1> HIDE DEF ss
<1>5. ss \in Seq(Seq(Within(ss))) /\ Len(ss) = n
  BY <1>1, <1>3, BlocksAre
<1>6. Long("ftp", all, 2 * n)
  <2>1. Len(all) = 2 * n
    BY <1>2, <1>5, FlattenPairs
  <2>2. Said("ftp", all)
    BY <1>1, <1>2, <1>3, SaidBlocks
  <2> QED BY <1>1, <2>1, <2>2 DEF Long
<1> HIDE DEF all, n
<1> DEFINE a == Line("USER")
           b == Line("PASS")
<1>7. Long("ftp", Greeting, 1) /\ Long("ftp", a, 2) /\ Long("ftp", b, 2)
  BY LongReply, LongLine DEF Greeting
<1> HIDE DEF a, b
<1>8. Long("ftp", Greeting \o a, 1 + 2)
  BY <1>7, LongJoined
<1>9. Long("ftp", Greeting \o a \o b, 3 + 2)
  BY <1>7, <1>8, LongJoined
<1>10. Long("ftp", Greeting \o a \o b \o all, 5 + 2 * n)
  BY <1>6, <1>9, LongJoined
<1> QED BY <1>4, <1>10 DEF a, b, n

\* The commands of an FTP script take two messages each, so the reply that announces the port
\* is where UpToPort says.
LEMMA FtpSays ==
  ASSUME NEW s, IsSeq(s.commands), NEW v6
  PROVE  /\ Said("ftp", render_ftp(s, v6))
         /\ s.retrieve_file # None =>
              /\ Len(render_ftp(s, v6)) > UpToPort(s)
              /\ render_ftp(s, v6)[UpToPort(s)] = Reply("PASV", 0, IF v6 THEN 0 ELSE 1)
<1> DEFINE n == Len(s.commands)
           pre == Greeting \o Line("USER") \o Line("PASS") \o Each(s.commands, Line)
           file == IF s.retrieve_file # None THEN Passive(v6) ELSE <<>>
           quit == Line("QUIT")
<1>1. n \in Nat /\ Long("ftp", pre, 5 + 2 * n)
  BY SeqHas, LongPrologue
<1>2. render_ftp(s, v6) = pre \o file \o quit
  BY DEF render_ftp
<1>3. Long("ftp", quit, 2)
  BY LongLine
<1> HIDE DEF pre, quit
<1>4. Said("ftp", file)
  <2>1. Said("ftp", Passive(v6))
    BY LongPassive DEF Long
  <2>2. Said("ftp", <<>>)
    <3>1. Message("ftp", Reply("226", 0, 0))
      BY DEF Message, Reply
    <3> QED BY <3>1, SaidOnce
  <2> QED BY <2>1, <2>2 DEF file
<1> HIDE DEF file
<1>5. Said("ftp", render_ftp(s, v6))
  BY <1>1, <1>2, <1>3, <1>4, SaidJoined DEF Long
<1>6. ASSUME s.retrieve_file # None
      PROVE  /\ Len(render_ftp(s, v6)) > UpToPort(s)
             /\ render_ftp(s, v6)[UpToPort(s)] = Reply("PASV", 0, IF v6 THEN 0 ELSE 1)
  <2>1. file = Passive(v6)
    BY <1>6 DEF file
  <2>2. Long("ftp", file, 5)
    BY <2>1, LongPassive
  <2> HIDE DEF n
  <2>3. Long("ftp", pre \o file, 10 + 2 * n)
    <3>1. Long("ftp", pre \o file, (5 + 2 * n) + 5)
      BY <1>1, <2>2, LongJoined
    <3>2. (5 + 2 * n) + 5 = 10 + 2 * n
      BY <1>1
    <3> QED BY <3>1, <3>2, Zenon
  <2>4. Long("ftp", pre \o file \o quit, (10 + 2 * n) + 2)
    BY <1>3, <2>3, LongJoined
  <2>5. (pre \o file)[2 * n + 7] = file[2]
    <3>1. 2 * n + 7 = (5 + 2 * n) + 2 /\ 2 \in 1..5
      BY <1>1
    <3>2. InTurn(pre, file, 5 + 2 * n, 5)
      BY <1>1, <2>2, JoinedInTurn
    <3> QED BY <3>1, <3>2 DEF InTurn
  <2>6. (pre \o file \o quit)[2 * n + 7] = (pre \o file)[2 * n + 7]
    <3>1. 2 * n + 7 \in 1..(10 + 2 * n)
      BY <1>1
    <3>2. InTurn(pre \o file, quit, 10 + 2 * n, 2)
      BY <1>3, <2>3, JoinedInTurn
    <3> QED BY <3>1, <3>2 DEF InTurn
  <2>7. file[2] = Reply("PASV", 0, IF v6 THEN 0 ELSE 1)
    BY <2>1, LongPassive
  <2>8. UpToPort(s) = 2 * n + 7 /\ (10 + 2 * n) + 2 > 2 * n + 7
    BY <1>1 DEF UpToPort, n
  <2> QED BY <1>2, <2>4, <2>5, <2>6, <2>7, <2>8 DEF Long
<1> QED BY <1>5, <1>6

\* A file takes the bytes that were asked for, unless its format needs more.
LEMMA FileSize ==
  ASSUME NEW type, NEW size \in Int
  PROVE  /\ file_for(type, size) \in Nat
         /\ file_for(type, size) = size \/ (size < 312 /\ file_for(type, size) < 313)
<1>1. /\ AtLeast(size, 0) \in Nat /\ AtLeast(size, 89) \in Nat
      /\ AtLeast(size, 119) \in Nat /\ AtLeast(size, 312) \in Nat
      /\ AtLeast(size, 0) = size \/ (AtLeast(size, 0) = 0 /\ size < 1)
      /\ AtLeast(size, 89) = size \/ (AtLeast(size, 89) = 89 /\ size < 90)
      /\ AtLeast(size, 119) = size \/ (AtLeast(size, 119) = 119 /\ size < 120)
      /\ AtLeast(size, 312) = size \/ (AtLeast(size, 312) = 312 /\ size <= 312)
  BY DEF AtLeast
<1>2. CASE size < Small
  <2>1. file_for(type, size) = AtLeast(size, 0)
    BY <1>2 DEF file_for
  <2> QED BY <1>1, <1>2, <2>1 DEF Small
<1>3. CASE ~(size < Small)
  <2>1. file_for(type, size) \in {69, AtLeast(size, 89), AtLeast(size, 119), AtLeast(size, 312), size}
    BY <1>3 DEF file_for
  <2>2. file_for(type, size) = 69 => size < 312
    <3>1. CASE type = "png"
      BY <1>1, <1>3, <3>1 DEF file_for
    <3>2. CASE type # "png"
      <4>1. file_for(type, size) \in {AtLeast(size, 119), AtLeast(size, 312), size}
        BY <1>3, <3>2 DEF file_for
      <4> QED BY <1>1, <4>1
    <3> QED BY <3>1, <3>2
  <2> QED BY <1>1, <1>3, <2>1, <2>2 DEF Small
<1> QED BY <1>2, <1>3

LEMMA SaidFour ==
  ASSUME NEW kind, NEW a, NEW b, NEW c, NEW d,
         Message(kind, a), Message(kind, b), Message(kind, c), Message(kind, d)
  PROVE  Said(kind, <<a, b, c, d>>)
<1>1. \A i \in 1..4 : <<a, b, c, d>>[i] \in {a, b, c, d}
  OBVIOUS
<1>2. <<a, b, c, d>> \in Seq({a, b, c, d}) /\ Len(<<a, b, c, d>>) = 4
  OBVIOUS
<1>3. IsSeq(<<a, b, c, d>>)
  BY <1>2, AnySeq
<1>4. ASSUME NEW i \in 1..4 PROVE Message(kind, <<a, b, c, d>>[i])
  BY <1>1
<1> QED BY <1>2, <1>3, <1>4, Zenon DEF Said

\* The parts of a conversation with a file server.
LEMMA SaidBySmb ==
  ASSUME NEW kind, kind \in {"smb", "dcerpc"}, NEW ntlm, NEW tid, NEW fid, NEW size \in Nat, NEW pipe
  PROVE  /\ Said(kind, SetUp(ntlm)) /\ Said(kind, Tree(tid, pipe))
         /\ Said(kind, Open(tid, fid, size)) /\ Said(kind, Close(tid, fid))
<1>1. \A id, n : n \in Nat => \A op : Message(kind, Request(op, id, n)) /\ Message(kind, Reply(op, id, n))
  BY DEF Message, Request, Reply
<1>2. Said(kind, Tree(tid, pipe)) /\ Said(kind, Open(tid, fid, size)) /\ Said(kind, Close(tid, fid))
  BY <1>1, SaidTwice DEF Tree, Open, Close
<1>3. Said(kind, Exchange("negotiate", <<0, 0, 0>>, 0, 0))
  BY <1>1, SaidTwice DEF Exchange
<1> DEFINE auth == <<Request("session", <<0, 0, 0>>, 1), Reply("session", <<Sid, 0, 0>>, 2),
                     Request("session", <<Sid, 0, 0>>, 3), Reply("session", <<Sid, 0, 0>>, 0)>>
           anon == <<Request("session", <<0, 0, 0>>, 0), Reply("session", <<Sid, 0, 0>>, 0)>>
<1>4. Said(kind, auth) /\ Said(kind, anon)
  BY <1>1, SaidTwice, SaidFour
<1>5. SetUp(ntlm) = Exchange("negotiate", <<0, 0, 0>>, 0, 0) \o (IF ntlm # None THEN auth ELSE anon)
  BY DEF SetUp
<1> HIDE DEF auth, anon
<1>6. Said(kind, SetUp(ntlm))
  BY <1>3, <1>4, <1>5, SaidJoined
<1> QED BY <1>2, <1>6

LEMMA SaidTransfer ==
  ASSUME NEW op, NEW content \in Nat
  PROVE  Said("smb", Transfer(op, content))
<1> DEFINE a == Request(op, <<Sid, Tid, HandleOf(op)>>, content)
           b == Reply(op, <<Sid, Tid, 0>>, content)
<1>1. Message("smb", a) /\ Message("smb", b)
  BY DEF Message, Request, Reply
<1> HIDE DEF a, b
<1>2. Said("smb", <<a, b>>)
  BY <1>1, SaidTwice
<1>3. Said("smb", Open(Tid, HandleOf(op), content)) /\ Said("smb", Close(Tid, HandleOf(op)))
  BY SaidBySmb
<1>4. Transfer(op, content) = Open(Tid, HandleOf(op), content) \o <<a, b>> \o Close(Tid, HandleOf(op))
  BY DEF Transfer, a, b
<1> QED BY <1>2, <1>3, <1>4, SaidJoined

LEMMA SaidSmb ==
  ASSUME NEW s, s.file_bytes \in Int
  PROVE  Said("smb", render_smb(s))
<1> DEFINE r == IF s.read_file # None THEN Transfer("read", file_for(s.read_file, s.file_bytes))
                ELSE <<>>
           w == IF s.write_file # None THEN Transfer("write", file_for(s.write_file, s.file_bytes))
                ELSE <<>>
<1>0. Said("smb", <<>>)
  <2>1. Message("smb", Request("read", 0, 0))
    BY DEF Message, Request
  <2> QED BY <2>1, SaidOnce
<1>1. Said("smb", r) /\ Said("smb", w)
  BY <1>0, FileSize, SaidTransfer
<1>2. Said("smb", SetUp(s.ntlm)) /\ Said("smb", Tree(Tid, s.share = "IPC$"))
  <2>1. 0 \in Nat
    OBVIOUS
  <2> QED BY <2>1, SaidBySmb
<1>3. render_smb(s) = SetUp(s.ntlm) \o Tree(Tid, s.share = "IPC$") \o r \o w
  BY DEF render_smb
<1> HIDE DEF r, w
<1> QED BY <1>1, <1>2, <1>3, SaidJoined

LEMMA SaidPiped ==
  ASSUME NEW op, NEW id
  PROVE  Said("dcerpc", Piped(op, id))
<1>1. \A i, n : \A x \in {"read", "write"} :
        Message("dcerpc", Request(x, i, n)) /\ Message("dcerpc", Reply(x, i, n))
  BY DEF Message, Request, Reply
<1> QED BY <1>1, SaidFour DEF Piped

\* The calls of a DCE-RPC conversation.
LEMMA SaidDceRpc ==
  ASSUME NEW s, IsSeq(s.operations)
  PROVE  Said("dcerpc", render_dcerpc(s))
<1> DEFINE direct == s.transport = "ncacn_ip_tcp"
           n == Len(s.operations)
           ss == [i \in 1..n |-> IF direct THEN Exchange("call", CallId(i), s.operations[i], 0)
                                 ELSE Piped("call", CallId(i))]
           calls == Times(n, LAMBDA i : IF direct THEN Exchange("call", CallId(i), s.operations[i], 0)
                                        ELSE Piped("call", CallId(i)))
<1>1. n \in Int
  BY SeqHas
<1>2. \A i \in 1..n : Said("dcerpc", ss[i])
  BY SaidExchange, SaidPiped
<1>3. IsBlocks(ss, n)
  BY <1>2 DEF IsBlocks, Said
<1>4. calls = FlattenSeq(ss)
  BY DEF Times
<1>5. render_dcerpc(s) = IF direct THEN Exchange("rpc_bind", 1, 0, 0) \o calls
                         ELSE SetUp(None) \o Tree(0, TRUE) \o Open(0, HandleOf("read"), 0)
                              \o Piped("rpc_bind", 1) \o calls \o Close(0, HandleOf("read"))
  BY DEF render_dcerpc
<1> HIDE DEF ss, n, direct
<1>6. Said("dcerpc", FlattenSeq(ss))
  BY <1>1, <1>2, <1>3, SaidBlocks
<1> HIDE DEF calls
<1>7. Said("dcerpc", calls)
  BY <1>4, <1>6
<1>8. Said("dcerpc", Exchange("rpc_bind", 1, 0, 0) \o calls)
  BY <1>7, SaidExchange, SaidJoined
<1>9. /\ Said("dcerpc", SetUp(None)) /\ Said("dcerpc", Tree(0, TRUE))
      /\ Said("dcerpc", Open(0, HandleOf("read"), 0)) /\ Said("dcerpc", Close(0, HandleOf("read")))
  BY SaidBySmb
<1>10. Said("dcerpc", SetUp(None) \o Tree(0, TRUE) \o Open(0, HandleOf("read"), 0))
  BY <1>9, SaidJoined
<1>11. Said("dcerpc", SetUp(None) \o Tree(0, TRUE) \o Open(0, HandleOf("read"), 0)
                              \o Piped("rpc_bind", 1) \o calls \o Close(0, HandleOf("read")))
  BY <1>7, <1>9, <1>10, SaidPiped, SaidJoined
<1> QED BY <1>5, <1>8, <1>11

LEMMA SaidHttp ==
  ASSUME NEW s, s.response_body_len \in Int, s.response_body_b64 \in Nat \cup {None}
  PROVE  /\ Said("http", render_http(s)) /\ Response(s).sent \in Nat
         /\ Response(s).announced = Response(s).sent
<1>1. Response(s).sent \in Nat /\ Response(s).announced = Response(s).sent
  <2> DEFINE body == IF s.status \in {204, 304} THEN 0
                     ELSE IF s.response_body_b64 # None THEN s.response_body_b64
                     ELSE file_for(s.uri, s.response_body_len)
  <2>1. body \in Nat
    BY FileSize
  <2>2. Response(s) = [announced |-> body, sent |-> body]
    BY DEF Response
  <2> QED BY <2>1, <2>2
<1> DEFINE a == Request("page", 0, s.request_body_len)
           b == Reply("page", [method |-> s.method, status |-> s.status,
                               announced |-> Response(s).announced], Response(s).sent)
<1>2. Message("http", a) /\ Message("http", b)
  <2>1. Message("http", a)
    BY DEF Message, Request
  <2>2. Message("http", b)
    BY <1>1 DEF Message, Reply
  <2> QED BY <2>1, <2>2
<1>3. render_http(s) = <<a, b>>
  BY DEF render_http
<1> HIDE DEF a, b
<1> QED BY <1>1, <1>2, <1>3, SaidTwice

\* The kinds whose messages need a sender only.
Loose == {"dns", "tls", "dhcp", "ssh", "radius", "kerberos", "pop3", "imap", "irc", "sip",
          "namequery", "opaque_tcp", "opaque_udp"}

LEMMA SaidPlainly ==
  ASSUME NEW kind, kind \in Loose, NEW s
  PROVE  /\ Said(kind, render_dns(s)) /\ Said(kind, render_tls(s)) /\ Said(kind, render_dhcp)
         /\ Said(kind, render_ssh(s)) /\ Said(kind, render_radius(s))
         /\ Said(kind, render_kerberos(s)) /\ Said(kind, render_pop3) /\ Said(kind, render_imap)
         /\ Said(kind, render_irc) /\ Said(kind, render_sip(s)) /\ Said(kind, render_namequery(s))
         /\ Said(kind, render_opaque_tcp(s)) /\ Said(kind, render_opaque_udp(s))
<1> USE DEF Loose
<1>1. kind \notin {"smb", "http", "dcerpc"}
  OBVIOUS
<1>2. /\ \A op, id, n : Message(kind, Request(op, id, n)) /\ Message(kind, Reply(op, id, n))
      /\ \A from, op, id, n : from \in {"orig", "resp"} =>
           Message(kind, [from |-> from, op |-> op, id |-> id, n |-> n])
  BY <1>1 DEF Message, Request, Reply
<1>3. \A m, k : Message(kind, m) /\ Message(kind, k) => Said(kind, <<m>>) /\ Said(kind, <<m, k>>)
  BY SaidOnce, SaidTwice
<1>4. Said(kind, <<>>)
  BY <1>2, SaidOnce
<1>5. \A op, id, n, answer : Said(kind, Exchange(op, id, n, answer)) /\ Said(kind, Line(op))
  BY <1>1, SaidExchange, SaidLine
<1>6. Said(kind, Greeting)
  BY <1>2, <1>3 DEF Greeting
<1>7. Said(kind, render_dns(s)) /\ Said(kind, render_namequery(s))
  BY <1>2, <1>3, <1>4, SaidJoined DEF render_dns, render_namequery
<1>8. Said(kind, render_dhcp) /\ Said(kind, render_radius(s)) /\ Said(kind, render_kerberos(s))
      /\ Said(kind, render_sip(s))
  BY <1>5, SaidJoined DEF render_dhcp, render_radius, render_kerberos, render_sip
<1>9. Said(kind, render_pop3) /\ Said(kind, render_imap)
  BY <1>5, <1>6, SaidJoined DEF render_pop3, render_imap
<1>10. Said(kind, render_ssh(s))
  <2>1. ASSUME NEW half
        PROVE  Said(kind, Exchange("banner", 0, 0, 0) \o Exchange("kexinit", 0, 0, 0)
                          \o Exchange("newkeys", 0, 0, 0) \o Exchange("data", 0, half, half))
    BY <1>5, SaidJoined
  <2> QED BY <2>1 DEF render_ssh
<1>11. Said(kind, render_irc)
  <2> DEFINE S == {Request("NICK", 0, 0), Request("USER", 0, 0), Reply("001", 0, 0),
                   Request("JOIN", 0, 0), Reply("JOIN", 0, 0),
                   Request("PRIVMSG", 0, 0), Request("QUIT", 0, 0)}
  <2>1. render_irc \in Seq(S)
    BY DEF render_irc
  <2>2. \A m \in S : Message(kind, m)
    BY <1>2
  <2> HIDE DEF S
  <2>3. \A i \in 1..Len(render_irc) : render_irc[i] \in S
    BY <2>1
  <2> QED BY <2>1, <2>2, <2>3, AnySeq DEF Said
<1>12. Said(kind, render_tls(s))
  <2> DEFINE a == Request("client_hello", 0, 0)
             b == Reply("server_hello", s.version, NextProtocol(s))
             c == Request("finished_c", 0, 0)
             d == IF s.version = "TLS1.3" THEN <<>> ELSE <<Reply("finished_s", 0, 0)>>
             e == IF s.app_data_orig_bytes > 0
                  THEN <<Request("data", 0, s.app_data_orig_bytes)>> ELSE <<>>
             g == IF s.app_data_resp_bytes > 0
                  THEN <<Reply("data", 0, s.app_data_resp_bytes)>> ELSE <<>>
  <2>1. Message(kind, a) /\ Message(kind, b) /\ Message(kind, c)
    BY <1>2
  <2>2. Said(kind, d) /\ Said(kind, e) /\ Said(kind, g)
    BY <1>2, <1>3, <1>4
  <2>3. Said(kind, <<a, b, c>>)
    <3> HIDE DEF a, b, c
    <3>1. \A i \in 1..3 : <<a, b, c>>[i] \in {a, b, c}
      OBVIOUS
    <3>2. <<a, b, c>> \in Seq({a, b, c}) /\ Len(<<a, b, c>>) = 3
      OBVIOUS
    <3>3. IsSeq(<<a, b, c>>)
      BY <3>2, AnySeq
    <3>4. ASSUME NEW i \in 1..3 PROVE Message(kind, <<a, b, c>>[i])
      BY <2>1, <3>1
    <3> QED BY <3>2, <3>3, <3>4, Zenon DEF Said
  <2>4. render_tls(s) = <<a, b, c>> \o d \o e \o g
    BY DEF render_tls
  <2> HIDE DEF a, b, c, d, e, g
  <2> QED BY <2>2, <2>3, <2>4, SaidJoined
<1>13. Said(kind, render_opaque_tcp(s)) /\ Said(kind, render_opaque_udp(s))
  <2>0. ASSUME NEW from \in {"orig", "resp"}, NEW n
        PROVE  Said(kind, <<[from |-> from, op |-> "data", id |-> 0, n |-> n]>>)
    <3> DEFINE m == [from |-> from, op |-> "data", id |-> 0, n |-> n]
    <3>1. Message(kind, m)
      BY <1>2
    <3> HIDE DEF m
    <3>2. Said(kind, <<m>>)
      BY <3>1, SaidOnce
    <3> QED BY <3>2 DEF m
  <2>1. \A n : Said(kind, Stream("orig", n)) /\ Said(kind, Stream("resp", n))
    BY <1>4, <2>0 DEF Stream
  <2>2. \A asked, n : Said(kind, Datagram("orig", asked, n)) /\ Said(kind, Datagram("resp", asked, n))
    BY <1>4, <2>0 DEF Datagram
  <2> QED BY <2>1, <2>2, SaidJoined DEF render_opaque_tcp, render_opaque_udp
<1> QED BY <1>7, <1>8, <1>9, <1>10, <1>11, <1>12, <1>13

\* Whatever a renderer makes are messages.
LEMMA ScriptSaid ==
  ASSUME NEW f, IsFlow(f)
  PROVE  Said(f.kind, Script(f))
<1> DEFINE s == Loaded(f)
<1>1. f.kind \in DOMAIN L7Spec /\ Typical(f)
  BY FlowIsTypical DEF IsFlow
<1>2. CASE f.kind \in Loose
  <2> HIDE DEF s
  <2>1. /\ Said(f.kind, render_dns(s)) /\ Said(f.kind, render_tls(s)) /\ Said(f.kind, render_dhcp)
        /\ Said(f.kind, render_ssh(s)) /\ Said(f.kind, render_radius(s))
        /\ Said(f.kind, render_kerberos(s)) /\ Said(f.kind, render_pop3) /\ Said(f.kind, render_imap)
        /\ Said(f.kind, render_irc) /\ Said(f.kind, render_sip(s)) /\ Said(f.kind, render_namequery(s))
        /\ Said(f.kind, render_opaque_tcp(s)) /\ Said(f.kind, render_opaque_udp(s))
    BY <1>2, SaidPlainly
  <2> QED BY <1>2, <2>1 DEF Script, Loose, s
<1>3. CASE f.kind \in {"ntp", "snmp", "icmp", "modbus", "ldap", "smtp"}
  <2>1. f.kind \notin {"smb", "http", "dcerpc"}
    BY <1>3
  <2>2. /\ s.count \in Int => /\ Said(f.kind, render_ntp(s)) /\ Said(f.kind, render_snmp(s))
                              /\ Said(f.kind, render_icmp(s)) /\ Said(f.kind, render_modbus(s))
        /\ IsSeq(s.searches) => Said(f.kind, render_ldap(s))
        /\ IsSeq(s.rcpt_to) => Said(f.kind, render_smtp(s))
    BY <2>1, SaidRepeatedly
  <2>3. /\ f.kind \in {"ntp", "snmp", "icmp", "modbus"} => s.count \in Int
        /\ f.kind = "ldap" => IsSeq(s.searches)
        /\ f.kind = "smtp" => IsSeq(s.rcpt_to)
    BY <1>1 DEF Typical
  <2> HIDE DEF s
  <2> QED BY <1>3, <2>2, <2>3 DEF Script, s
<1>4. CASE f.kind = "http"
  <2>1. Script(f) = render_http(s)
    BY <1>4 DEF Script
  <2> QED BY <1>1, <1>4, <2>1, SaidHttp DEF Typical
<1>5. CASE f.kind = "ftp"
  <2>1. Script(f) = render_ftp(s, f.v6)
    BY <1>5 DEF Script
  <2>2. IsSeq(s.commands)
    BY <1>1, <1>5 DEF Typical
  <2> QED BY <1>5, <2>1, <2>2, FtpSays
<1>6. CASE f.kind = "smb"
  <2>1. Script(f) = render_smb(s)
    BY <1>6 DEF Script
  <2> QED BY <1>1, <1>6, <2>1, SaidSmb DEF Typical
<1>7. CASE f.kind = "dcerpc"
  <2>1. Script(f) = render_dcerpc(s)
    BY <1>7 DEF Script
  <2> QED BY <1>1, <1>7, <2>1, SaidDceRpc DEF Typical
<1> QED BY <1>1, <1>2, <1>3, <1>4, <1>5, <1>6, <1>7 DEF L7Spec, Loose

-----------------------------------------------------------------------------
(* What one message does to the analyzers of SMB and DCE-RPC. *)

RpcIs(w, from, op, id, y) ==
  /\ IsParser(y)
  /\ \A x \in Fields : x \notin {"open", "odd", "calls", "bound", "services", "logs"} => y[x] = w[x]
  /\ y.calls = IF from = "orig" THEN w.calls \cup {id} ELSE w.calls
  /\ from = "orig" => /\ y.open = w.open \cup {<<op, id>>}
                      /\ y.odd <=> w.odd \/ id \in w.calls \/ (op = "call" /\ ~w.bound)
                      /\ y.bound = w.bound /\ y.services = w.services /\ y.logs = w.logs
  /\ from # "orig" => /\ y.odd <=> w.odd \/ <<op, id>> \notin w.open
                      /\ y.bound = TRUE /\ y.services = w.services \cup {"dce_rpc"}
                      /\ y.logs = w.logs \cup IF op = "call" THEN {<<"dce_rpc", 0>>} ELSE {}

LEMMA RpcFields ==
  ASSUME NEW w, IsParser(w), NEW from, NEW op, NEW id
  PROVE  RpcIs(w, from, op, id, Zeek!Rpc(w, from, op, id))
<1> DEFINE u == Zeek!Match(w, from, <<op, id>>)
           y == Zeek!Rpc(w, from, op, id)
<1>1. /\ IsParser(u)
      /\ \A x \in Fields : x \notin {"open", "odd"} => u[x] = w[x]
      /\ from = "orig" => u.open = w.open \cup {<<op, id>>} /\ u.odd = w.odd
      /\ from # "orig" => (u.odd <=> w.odd \/ <<op, id>> \notin w.open)
  BY Matched
<1>2. y = IF from = "orig"
          THEN [u EXCEPT !.calls = @ \cup {id},
                         !.odd = @ \/ id \in w.calls \/ (op = "call" /\ ~w.bound)]
          ELSE [u EXCEPT !.bound = TRUE, !.services = @ \cup {"dce_rpc"},
                         !.logs = IF op = "call" THEN @ \cup {<<"dce_rpc", 0>>} ELSE @]
  BY DEF Zeek!Rpc
<1>3. {"open", "odd", "calls", "bound", "services", "logs"} \subseteq Fields
  BY DEF Fields
<1> HIDE DEF u, y
<1>4. CASE from = "orig"
  <2> DEFINE a == [u EXCEPT !.calls = u.calls \cup {id}]
             b == [a EXCEPT !.odd = u.odd \/ id \in w.calls \/ (op = "call" /\ ~w.bound)]
  <2>1. IsParser(a) /\ a["calls"] = u.calls \cup {id} /\ \A x \in Fields : x # "calls" => a[x] = u[x]
    BY <1>1, <1>3, Put, SMTT(40)
  <2>2. y = b
    BY <1>2, <1>4
  <2> HIDE DEF a
  <2>3. /\ IsParser(b) /\ b["odd"] = (u.odd \/ id \in w.calls \/ (op = "call" /\ ~w.bound))
        /\ \A x \in Fields : x # "odd" => b[x] = a[x]
    BY <1>3, <2>1, Put
  <2> HIDE DEF b
  <2>4. /\ y.calls = w.calls \cup {id} /\ y.open = w.open \cup {<<op, id>>}
        /\ y.odd <=> w.odd \/ id \in w.calls \/ (op = "call" /\ ~w.bound)
    BY <1>1, <1>3, <1>4, <2>1, <2>2, <2>3
  <2>5. /\ IsParser(y) /\ y.bound = w.bound /\ y.services = w.services /\ y.logs = w.logs
        /\ \A x \in Fields : x \notin {"open", "odd", "calls", "bound", "services", "logs"} => y[x] = w[x]
    BY <1>1, <1>3, <1>4, <2>1, <2>2, <2>3
  <2> QED BY <1>4, <2>4, <2>5 DEF RpcIs, y
<1>5. CASE from # "orig"
  <2> DEFINE a == [u EXCEPT !.bound = TRUE]
             b == [a EXCEPT !.services = u.services \cup {"dce_rpc"}]
             c == [b EXCEPT !.logs = IF op = "call" THEN u.logs \cup {<<"dce_rpc", 0>>} ELSE u.logs]
  <2>1. IsParser(a) /\ a["bound"] = TRUE /\ \A x \in Fields : x # "bound" => a[x] = u[x]
    BY <1>1, <1>3, Put
  <2>2. y = c
    BY <1>2, <1>5
  <2> HIDE DEF a
  <2>3. /\ IsParser(b) /\ b["services"] = u.services \cup {"dce_rpc"}
        /\ \A x \in Fields : x # "services" => b[x] = a[x]
    BY <1>3, <2>1, Put
  <2> HIDE DEF b
  <2>4. /\ IsParser(c) /\ c["logs"] = IF op = "call" THEN u.logs \cup {<<"dce_rpc", 0>>} ELSE u.logs
        /\ \A x \in Fields : x # "logs" => c[x] = b[x]
    BY <1>3, <2>3, Put
  <2> HIDE DEF c
  <2>5. y.bound = TRUE /\ y.services = w.services \cup {"dce_rpc"}
        /\ y.logs = w.logs \cup IF op = "call" THEN {<<"dce_rpc", 0>>} ELSE {}
    BY <1>1, <1>3, <2>1, <2>2, <2>3, <2>4
  <2>6. IsParser(y) /\ y.calls = w.calls /\ y.odd = u.odd
        /\ \A x \in Fields : x \notin {"open", "odd", "calls", "bound", "services", "logs"} => y[x] = w[x]
    BY <1>1, <1>3, <2>1, <2>2, <2>3, <2>4
  <2> QED BY <1>1, <1>5, <2>5, <2>6 DEF RpcIs, y
<1> QED BY <1>4, <1>5

\* A message as any SMB message is read, before what it does of its own.
Heard(w, m) == [Zeek!Match(w, m.from, <<m.op, 0>>) EXCEPT !.odd = @ \/ Zeek!Misplaced(w, m)]
HeardIs(w, m, u) ==
  /\ IsParser(u)
  /\ \A x \in Fields : x \notin {"open", "odd"} => u[x] = w[x]
  /\ m.from = "orig" => u.open = w.open \cup {<<m.op, 0>>}
  /\ m.from # "orig" => u.open = w.open \ {<<m.op, 0>>}
  /\ ~w.odd /\ ~Zeek!Misplaced(w, m) /\ (m.from = "orig" \/ <<m.op, 0>> \in w.open) => ~u.odd

LEMMA HeardFields ==
  ASSUME NEW w, IsParser(w), NEW m
  PROVE  HeardIs(w, m, Heard(w, m))
<1> DEFINE a == Zeek!Match(w, m.from, <<m.op, 0>>)
           u == [a EXCEPT !.odd = a.odd \/ Zeek!Misplaced(w, m)]
<1>1. /\ IsParser(a)
      /\ \A x \in Fields : x \notin {"open", "odd"} => a[x] = w[x]
      /\ m.from = "orig" => a.open = w.open \cup {<<m.op, 0>>} /\ a.odd = w.odd
      /\ m.from # "orig" => /\ a.open = w.open \ {<<m.op, 0>>}
                            /\ a.odd <=> w.odd \/ <<m.op, 0>> \notin w.open
  BY Matched
<1> HIDE DEF a
<1>2. "odd" \in Fields /\ "open" \in Fields
  BY DEF Fields
<1>3. /\ IsParser(u) /\ u["odd"] = (a.odd \/ Zeek!Misplaced(w, m))
      /\ \A x \in Fields : x # "odd" => u[x] = a[x]
  BY <1>1, <1>2, Put
<1>4. Heard(w, m) = u
  BY DEF Heard, a
<1> HIDE DEF u
<1> QED BY <1>1, <1>2, <1>3, <1>4 DEF HeardIs

\* The messages that carry a PDU of DCE-RPC.
Carries(m, piped) == piped /\ IF m.from = "orig" THEN m.op = "write" ELSE m.op = "read"

\* What the others do.
SmbDoes(u, m, y) ==
  LET mine == m.from = "orig"
  IN  /\ IsParser(y)
      /\ \A x \in {"open", "calls", "bound", "rcpts", "port", "odd"} : y[x] = u[x]
      /\ y.sid = IF ~mine /\ m.op = "session" THEN m.id[1] ELSE u.sid
      /\ y.tid = IF ~mine /\ m.op = "tree" THEN m.id[2] ELSE u.tid
      /\ y.handles = IF ~mine /\ m.op = "create" THEN u.handles \cup {m.id[3]}
                     ELSE IF mine /\ m.op = "close" THEN u.handles \ {m.id[3]} ELSE u.handles
      /\ y.at = IF mine /\ m.op = "read" THEN m.id[3] ELSE u.at
      /\ y.files = IF mine /\ m.op = "write" THEN Zeek!Arrived(u.files, m.id[3], m.n)
                   ELSE IF ~mine /\ m.op = "read" THEN Zeek!Arrived(u.files, u.at, m.n)
                   ELSE IF ~mine /\ m.op = "create" THEN Zeek!Announced(u.files, m.id[3], m.n)
                   ELSE u.files
      /\ y.logs = u.logs \cup (IF mine /\ m.op = "session" /\ m.n = 3 THEN {<<"ntlm", 0>>}
                               ELSE IF ~mine /\ m.op = "tree" THEN {<<"smb_mapping", 0>>} ELSE {})
      /\ y.services = u.services \cup (IF ~mine /\ m.op = "negotiate" THEN {"smb"} ELSE {})

LEMMA RequestDoes ==
  ASSUME NEW u, IsParser(u), NEW m, m.from = "orig", NEW piped, ~Carries(m, piped)
  PROVE  SmbDoes(u, m, Zeek!SmbRequest(u, m, piped))
<1> DEFINE y == Zeek!SmbRequest(u, m, piped)
<1>0. {"open", "calls", "bound", "rcpts", "port", "odd", "sid", "tid", "handles", "at", "files",
       "logs", "services"} \subseteq Fields
  BY DEF Fields
<1>1. CASE m.op = "session" /\ m.n = 3
  <2> DEFINE v == u.logs \cup {<<"ntlm", 0>>}
  <2>1. y = [u EXCEPT !.logs = v]
    BY <1>1 DEF Zeek!SmbRequest
  <2> HIDE DEF y, v
  <2>2. IsParser(y) /\ y["logs"] = v /\ \A x \in Fields : x # "logs" => y[x] = u[x]
    BY <1>0, <2>1, Put
  <2> QED BY <1>0, <1>1, <2>2 DEF SmbDoes, v, y
<1>2. CASE m.op = "read"
  <2>1. y = [u EXCEPT !.at = m.id[3]]
    BY <1>2 DEF Zeek!SmbRequest
  <2> HIDE DEF y
  <2>2. IsParser(y) /\ y["at"] = m.id[3] /\ \A x \in Fields : x # "at" => y[x] = u[x]
    BY <1>0, <2>1, Put
  <2> QED BY <1>0, <1>2, <2>2 DEF SmbDoes, y
<1>3. CASE m.op = "write"
  <2> DEFINE v == Zeek!Arrived(u.files, m.id[3], m.n)
  <2>1. y = [u EXCEPT !.files = v]
    BY <1>3 DEF Zeek!SmbRequest, Carries
  <2> HIDE DEF y, v
  <2>2. IsParser(y) /\ y["files"] = v /\ \A x \in Fields : x # "files" => y[x] = u[x]
    BY <1>0, <2>1, Put
  <2> QED BY <1>0, <1>3, <2>2 DEF SmbDoes, v, y
<1>4. CASE m.op = "close"
  <2> DEFINE v == u.handles \ {m.id[3]}
  <2>1. y = [u EXCEPT !.handles = v]
    BY <1>4 DEF Zeek!SmbRequest
  <2> HIDE DEF y, v
  <2>2. IsParser(y) /\ y["handles"] = v /\ \A x \in Fields : x # "handles" => y[x] = u[x]
    BY <1>0, <2>1, Put
  <2> QED BY <1>0, <1>4, <2>2 DEF SmbDoes, v, y
<1>5. CASE ~(m.op = "session" /\ m.n = 3) /\ m.op \notin {"read", "write", "close"}
  <2>1. y = u
    BY <1>5 DEF Zeek!SmbRequest
  <2> HIDE DEF y
  <2> QED BY <1>5, <2>1 DEF SmbDoes, y
<1> QED BY <1>1, <1>2, <1>3, <1>4, <1>5

LEMMA ReplyDoes ==
  ASSUME NEW u, IsParser(u), NEW m, m.from # "orig", NEW piped, ~Carries(m, piped)
  PROVE  SmbDoes(u, m, Zeek!SmbReply(u, m, piped))
<1> DEFINE y == Zeek!SmbReply(u, m, piped)
<1>0. {"open", "calls", "bound", "rcpts", "port", "odd", "sid", "tid", "handles", "at", "files",
       "logs", "services"} \subseteq Fields
  BY DEF Fields
<1>1. CASE m.op = "negotiate"
  <2> DEFINE v == u.services \cup {"smb"}
  <2>1. y = [u EXCEPT !.services = v]
    BY <1>1 DEF Zeek!SmbReply
  <2> HIDE DEF y, v
  <2>2. IsParser(y) /\ y["services"] = v /\ \A x \in Fields : x # "services" => y[x] = u[x]
    BY <1>0, <2>1, Put
  <2> QED BY <1>0, <1>1, <2>2 DEF SmbDoes, v, y
<1>2. CASE m.op = "session"
  <2>1. y = [u EXCEPT !.sid = m.id[1]]
    BY <1>2 DEF Zeek!SmbReply
  <2> HIDE DEF y
  <2>2. IsParser(y) /\ y["sid"] = m.id[1] /\ \A x \in Fields : x # "sid" => y[x] = u[x]
    BY <1>0, <2>1, Put
  <2> QED BY <1>0, <1>2, <2>2 DEF SmbDoes, y
<1>3. CASE m.op = "tree"
  <2> DEFINE v == u.logs \cup {<<"smb_mapping", 0>>}
             a == [u EXCEPT !.tid = m.id[2]]
  <2>0. IsParser(a) /\ a["tid"] = m.id[2] /\ \A x \in Fields : x # "tid" => a[x] = u[x]
    BY <1>0, Put
  <2>1. y = [a EXCEPT !.logs = v]
    BY <1>3 DEF Zeek!SmbReply
  <2> HIDE DEF y, v, a
  <2>2. IsParser(y) /\ y["logs"] = v /\ \A x \in Fields : x # "logs" => y[x] = a[x]
    BY <1>0, <2>0, <2>1, Put
  <2> QED BY <1>0, <1>3, <2>0, <2>2 DEF SmbDoes, v, y
<1>4. CASE m.op = "create"
  <2> DEFINE v == Zeek!Announced(u.files, m.id[3], m.n)
             a == [u EXCEPT !.handles = u.handles \cup {m.id[3]}]
  <2>0. IsParser(a) /\ a["handles"] = u.handles \cup {m.id[3]}
        /\ \A x \in Fields : x # "handles" => a[x] = u[x]
    BY <1>0, Put
  <2>1. y = [a EXCEPT !.files = v]
    BY <1>4 DEF Zeek!SmbReply
  <2> HIDE DEF y, v, a
  <2>2. IsParser(y) /\ y["files"] = v /\ \A x \in Fields : x # "files" => y[x] = a[x]
    BY <1>0, <2>0, <2>1, Put
  <2> QED BY <1>0, <1>4, <2>0, <2>2 DEF SmbDoes, v, y
<1>5. CASE m.op = "read"
  <2> DEFINE v == Zeek!Arrived(u.files, u.at, m.n)
  <2>1. y = [u EXCEPT !.files = v]
    BY <1>5 DEF Zeek!SmbReply, Carries
  <2> HIDE DEF y, v
  <2>2. IsParser(y) /\ y["files"] = v /\ \A x \in Fields : x # "files" => y[x] = u[x]
    BY <1>0, <2>1, Put
  <2> QED BY <1>0, <1>5, <2>2 DEF SmbDoes, v, y
<1>6. CASE m.op \notin {"negotiate", "session", "tree", "create", "read"}
  <2>1. y = u
    BY <1>6 DEF Zeek!SmbReply
  <2> HIDE DEF y
  <2> QED BY <1>6, <2>1 DEF SmbDoes, y
<1> QED BY <1>1, <1>2, <1>3, <1>4, <1>5, <1>6

\* An SMB message, on its own or around a PDU.
SmbIs(w, m, piped, y) ==
  \E u : /\ HeardIs(w, m, u)
         /\ ~Carries(m, piped) => SmbDoes(u, m, y)
         /\ Carries(m, piped) => RpcIs(u, m.from, m.n.op, m.n.id, y)

LEMMA SmbFields ==
  ASSUME NEW w, IsParser(w), NEW m, m.from \in {"orig", "resp"}, NEW piped
  PROVE  SmbIs(w, m, piped, Zeek!Smb(w, m, piped))
<1> DEFINE u == Heard(w, m)
           y == Zeek!Smb(w, m, piped)
<1>1. HeardIs(w, m, u)
  BY HeardFields
<1>2. y = IF m.from = "orig" THEN Zeek!SmbRequest(u, m, piped) ELSE Zeek!SmbReply(u, m, piped)
  BY DEF Zeek!Smb, Heard
<1> HIDE DEF u, y
<1>3. IsParser(u)
  BY <1>1 DEF HeardIs
<1>4. CASE ~Carries(m, piped)
  <2>1. SmbDoes(u, m, y)
    BY <1>2, <1>3, <1>4, RequestDoes, ReplyDoes
  <2> QED BY <1>1, <1>4, <2>1 DEF SmbIs, y
<1>5. CASE Carries(m, piped)
  <2>1. CASE m.from = "orig"
    <3>1. m.op = "write" /\ piped
      BY <1>5, <2>1 DEF Carries
    <3>2. Zeek!SmbRequest(u, m, piped) = Zeek!Rpc(u, "orig", m.n.op, m.n.id)
      BY <3>1 DEF Zeek!SmbRequest
    <3>3. RpcIs(u, m.from, m.n.op, m.n.id, y)
      BY <1>2, <1>3, <2>1, <3>2, RpcFields
    <3> QED BY <1>1, <1>5, <3>3 DEF SmbIs, y
  <2>2. CASE m.from # "orig"
    <3>1. m.op = "read" /\ piped
      BY <1>5, <2>2 DEF Carries
    <3>2. Zeek!SmbReply(u, m, piped) = Zeek!Rpc(u, "resp", m.n.op, m.n.id)
      BY <3>1 DEF Zeek!SmbReply
    <3>3. RpcIs(u, m.from, m.n.op, m.n.id, y)
      BY <1>2, <1>3, <2>2, <3>2, RpcFields
    <3> QED BY <1>1, <1>5, <3>3 DEF SmbIs, y
  <2> QED BY <2>1, <2>2
<1> QED BY <1>4, <1>5

\* A page.
PageIs(z, m, y) ==
  /\ IsParser(y)
  /\ \A x \in Fields : x \notin {"files", "odd"} => y[x] = z[x]
  /\ m.from = "orig" => y.files = z.files /\ y.odd = z.odd
  /\ m.from # "orig" => /\ y.files = <<[announced |-> m.id.announced, got |-> m.n]>>
                        /\ y.odd <=> z.odd \/ m.id.announced # m.n \/ (m.id.method = "HEAD" /\ m.n > 0)

LEMMA PageFields ==
  ASSUME NEW z, IsParser(z), NEW m
  PROVE  PageIs(z, m, Zeek!Page(z, m))
<1>0. "files" \in Fields /\ "odd" \in Fields /\ "files" # "odd"
  BY DEF Fields
<1>1. CASE m.from = "orig"
  BY <1>1 DEF Zeek!Page, PageIs
<1>2. CASE m.from # "orig"
  <2> DEFINE v == <<[announced |-> m.id.announced, got |-> m.n]>>
             w == z.odd \/ m.id.announced # m.n \/ (m.id.method = "HEAD" /\ m.n > 0)
             a == [z EXCEPT !.files = v]
             y == [a EXCEPT !.odd = w]
  <2>1. Zeek!Page(z, m) = y
    BY <1>2 DEF Zeek!Page
  <2> HIDE DEF v
  <2>2. IsParser(a) /\ a["files"] = v /\ \A x \in Fields : x # "files" => a[x] = z[x]
    BY <1>0, Put
  <2> HIDE DEF a, w
  <2>3. IsParser(y) /\ y["odd"] = w /\ \A x \in Fields : x # "odd" => y[x] = a[x]
    BY <1>0, <2>2, Put
  <2> HIDE DEF y
  <2>4. y.files = v /\ (y.odd <=> w)
    BY <1>0, <2>2, <2>3
  <2>5. \A x \in Fields : x \notin {"files", "odd"} => y[x] = z[x]
    BY <2>2, <2>3
  <2> QED BY <1>2, <2>1, <2>3, <2>4, <2>5 DEF PageIs, v, w
<1> QED BY <1>1, <1>2

-----------------------------------------------------------------------------
(* What Zeek has read stays what it is, and its files stay counted. *)

Counted(files) == \A h \in DOMAIN files : files[h].announced \in Nat /\ files[h].got \in Nat
KeepsCount(kind, z, m, y) ==
  /\ IsParser(y)
  /\ Plainly(kind) => y.files = z.files
  /\ Message(kind, m) /\ Counted(z.files) => Counted(y.files)

LEMMA ArrivedCounted ==
  ASSUME NEW files, Counted(files), NEW h, NEW n \in Nat
  PROVE  Counted(Zeek!Arrived(files, h, n))
<1> DEFINE g == [files EXCEPT ![h].got = @ + n]
<1>1. CASE h \in DOMAIN files
  <2>1. DOMAIN g = DOMAIN files /\ \A x \in DOMAIN files : x # h => g[x] = files[x]
    OBVIOUS
  <2>2. g[h] = [files[h] EXCEPT !.got = files[h].got + n]
    BY <1>1
  <2>3. files[h].announced \in Nat /\ files[h].got \in Nat
    BY <1>1 DEF Counted
  <2>4. g[h].announced \in Nat /\ g[h].got \in Nat
    BY <2>2, <2>3
  <2>5. Zeek!Arrived(files, h, n) = g
    BY <1>1 DEF Zeek!Arrived
  <2> HIDE DEF g
  <2> QED BY <2>1, <2>4, <2>5 DEF Counted
<1>2. CASE h \notin DOMAIN files
  BY <1>2 DEF Zeek!Arrived
<1> QED BY <1>1, <1>2

AnnouncedIn(files, h, n, g) ==
  /\ DOMAIN g = DOMAIN files \cup {h}
  /\ g[h] = [announced |-> n, got |-> IF h \in DOMAIN files THEN files[h].got ELSE 0]
  /\ \A x \in DOMAIN files : x # h => g[x] = files[x]

LEMMA AnnouncedIs ==
  ASSUME NEW files, NEW h, NEW n
  PROVE  AnnouncedIn(files, h, n, Zeek!Announced(files, h, n))
BY DEF Zeek!Announced, AnnouncedIn

LEMMA AnnouncedCounted ==
  ASSUME NEW files, Counted(files), NEW h, NEW n \in Nat
  PROVE  Counted(Zeek!Announced(files, h, n))
<1> DEFINE g == Zeek!Announced(files, h, n)
<1>1. AnnouncedIn(files, h, n, g)
  BY AnnouncedIs
<1> HIDE DEF g
<1>2. g[h].announced \in Nat /\ g[h].got \in Nat
  BY <1>1 DEF Counted, AnnouncedIn
<1> QED BY <1>1, <1>2 DEF Counted, AnnouncedIn, g

SmbKeeps(z, m, piped, y) ==
  /\ IsParser(y)
  /\ Counted(z.files) /\ (m.n \in Nat \/ (piped /\ m.op # "create")) => Counted(y.files)

LEMMA SmbKeepsCount ==
  ASSUME NEW z, IsParser(z), NEW m, m.from \in {"orig", "resp"}, NEW piped
  PROVE  SmbKeeps(z, m, piped, Zeek!Smb(z, m, piped))
<1> DEFINE y == Zeek!Smb(z, m, piped)
<1>1. SmbIs(z, m, piped, y)
  BY SmbFields
<1> HIDE DEF y
<1>2. PICK u : /\ HeardIs(z, m, u)
               /\ ~Carries(m, piped) => SmbDoes(u, m, y)
               /\ Carries(m, piped) => RpcIs(u, m.from, m.n.op, m.n.id, y)
  BY <1>1 DEF SmbIs
<1>3. u.files = z.files /\ "files" \in Fields
  BY <1>2 DEF HeardIs, Fields
<1>4. CASE Carries(m, piped)
  <2>1. IsParser(y) /\ y.files = u.files
    BY <1>2, <1>3, <1>4 DEF RpcIs
  <2> QED BY <1>3, <2>1 DEF y, SmbKeeps
<1>5. CASE ~Carries(m, piped)
  <2>1. SmbDoes(u, m, y)
    BY <1>2, <1>5
  <2>2. IsParser(y)
    BY <2>1 DEF SmbDoes
  <2>3. ASSUME Counted(z.files), m.n \in Nat PROVE Counted(y.files)
    <3>1. y.files \in {Zeek!Arrived(u.files, m.id[3], m.n), Zeek!Arrived(u.files, u.at, m.n),
                       Zeek!Announced(u.files, m.id[3], m.n), u.files}
      BY <2>1 DEF SmbDoes
    <3> QED BY <1>3, <2>3, <3>1, ArrivedCounted, AnnouncedCounted
  <2>4. ASSUME Counted(z.files), piped, m.op # "create" PROVE Counted(y.files)
    <3>1. m.op = "write" => m.from # "orig"
      BY <1>5, <2>4 DEF Carries
    <3>2. m.op = "read" => m.from = "orig"
      BY <1>5, <2>4 DEF Carries
    <3>3. y.files = u.files
      BY <2>1, <2>4, <3>1, <3>2 DEF SmbDoes
    <3> QED BY <1>3, <2>4, <3>3
  <2> QED BY <2>2, <2>3, <2>4 DEF y, SmbKeeps
<1> QED BY <1>4, <1>5

LEMMA ReadKeepsCount ==
  ASSUME NEW kind, NEW z, IsParser(z), NEW m, m.from \in {"orig", "resp"}
  PROVE  KeepsCount(kind, z, m, Zeek!Read(kind, z, m))
<1> DEFINE y == Zeek!Read(kind, z, m)
<1>0. "files" \in Fields
  BY DEF Fields
<1>1. CASE kind = "smb"
  <2> DEFINE piped == FALSE
  <2>1. y = Zeek!Smb(z, m, piped)
    BY <1>1 DEF Zeek!Read
  <2> HIDE DEF y
  <2>2. IsParser(y) /\ (Counted(z.files) /\ m.n \in Nat => Counted(y.files))
    <3> HIDE DEF piped
    <3>1. SmbKeeps(z, m, piped, y)
      BY <2>1, SmbKeepsCount
    <3> QED BY <3>1 DEF SmbKeeps, piped
  <2> QED BY <1>1, <2>2 DEF KeepsCount, Message, Plainly, y
<1>2. CASE kind = "dcerpc" /\ m.op \in Zeek!SmbOps
  <2> DEFINE piped == TRUE
  <2>1. y = Zeek!Smb(z, m, piped)
    BY <1>2 DEF Zeek!Read
  <2> HIDE DEF y
  <2>2. /\ IsParser(y)
        /\ Counted(z.files) /\ (m.n \in Nat \/ m.op # "create") => Counted(y.files)
    <3> HIDE DEF piped
    <3>1. SmbKeeps(z, m, piped, y)
      BY <2>1, SmbKeepsCount
    <3> QED BY <3>1 DEF SmbKeeps, piped
  <2> QED BY <1>2, <2>2 DEF KeepsCount, Message, Plainly, y
<1>3. CASE kind = "dcerpc" /\ m.op \notin Zeek!SmbOps
  <2>1. y = Zeek!Rpc(z, m.from, m.op, m.id)
    BY <1>3 DEF Zeek!Read
  <2> HIDE DEF y
  <2>2. RpcIs(z, m.from, m.op, m.id, y)
    BY <2>1, RpcFields
  <2>3. IsParser(y) /\ y.files = z.files
    BY <1>0, <2>2 DEF RpcIs
  <2> QED BY <1>3, <2>3 DEF KeepsCount, Plainly, y
<1>4. CASE kind = "http"
  <2> DEFINE w == Zeek!Plain(kind, z, m)
  <2>1. PlainIs(kind, z, m)
    BY PlainFields
  <2>2. IsParser(w) /\ w.files = z.files
    <3> DEFINE x == IF Unmatched(kind, m) THEN z
                    ELSE Zeek!Match(z, m.from, <<m.op, IF kind = "http" THEN 0 ELSE m.id>>)
    <3>1. IsParser(w) /\ \A a \in Fields : a \notin {"rcpts", "port", "logs", "services"} => w[a] = x[a]
      BY <2>1 DEF PlainIs
    <3>2. \A a \in Fields : a \notin {"open", "odd"} => x[a] = z[a]
      BY Matched
    <3> HIDE DEF w, x
    <3> QED BY <1>0, <3>1, <3>2
  <2>3. y = Zeek!Page(w, m)
    BY <1>4 DEF Zeek!Read
  <2> HIDE DEF w, y
  <2>4. PageIs(w, m, y)
    BY <2>2, <2>3, PageFields
  <2>5. IsParser(y)
    BY <2>4 DEF PageIs
  <2>6. ASSUME Message(kind, m), Counted(z.files) PROVE Counted(y.files)
    <3>1. CASE m.from = "orig"
      BY <2>2, <2>4, <2>6, <3>1 DEF PageIs
    <3>2. CASE m.from # "orig"
      <4>1. m.id.announced \in Nat /\ m.n \in Nat
        BY <1>4, <2>6, <3>2 DEF Message
      <4>2. y.files = <<[announced |-> m.id.announced, got |-> m.n]>>
        BY <2>4, <3>2 DEF PageIs
      <4>3. DOMAIN y.files = {1} /\ y.files[1].announced = m.id.announced /\ y.files[1].got = m.n
        BY <4>2
      <4> QED BY <4>1, <4>3 DEF Counted
    <3> QED BY <3>1, <3>2
  <2> QED BY <1>4, <2>5, <2>6 DEF KeepsCount, Plainly, y
<1>5. CASE Plainly(kind)
  <2> DEFINE x == IF Unmatched(kind, m) THEN z
                  ELSE Zeek!Match(z, m.from, <<m.op, IF kind = "http" THEN 0 ELSE m.id>>)
  <2>1. y = Zeek!Plain(kind, z, m)
    BY <1>5, ReadPlainly
  <2>2. PlainIs(kind, z, m)
    BY PlainFields
  <2> HIDE DEF y
  <2>3. IsParser(y) /\ \A a \in Fields : a \notin {"rcpts", "port", "logs", "services"} => y[a] = x[a]
    BY <2>1, <2>2 DEF PlainIs
  <2>4. \A a \in Fields : a \notin {"open", "odd"} => x[a] = z[a]
    BY Matched
  <2> HIDE DEF x
  <2>5. y.files = z.files
    BY <1>0, <2>3, <2>4
  <2> QED BY <2>3, <2>5 DEF KeepsCount, y
<1> QED BY <1>1, <1>2, <1>3, <1>4, <1>5 DEF Plainly

-----------------------------------------------------------------------------
(* Protocols with a greeting.  After a script that Leads to it, nothing is *)
(* odd, the service is known or not yet, the recipients are `names` and    *)
(* the logs hold `rows`.                                                   *)

Greeters == {"smtp", "pop3", "imap", "ftp"}
Sound(kind, y, known, names, rows) ==
  /\ IsParser(y) /\ ~y.odd
  /\ y.services \subseteq {kind} /\ (known => y.services = {kind})
  /\ kind = "smtp" => y.rcpts = names
  /\ rows \subseteq y.logs
Leads(kind, s, known, names, rows) ==
  IsSeq(s) /\ \A y : Runs(kind, Zeek!Fresh, s, y) => Sound(kind, y, known, names, rows)

LEMMA GreetersPlainly ==
  ASSUME NEW kind \in Greeters
  PROVE  Plainly(kind) /\ kind \notin Zeek!Streams /\ Zeek!Confirmed(kind) = {kind}
         /\ kind \notin {"smb", "http", "dcerpc"}
BY DEF Greeters, Plainly, Zeek!Streams, Zeek!Confirmed

\* Any request and its answer: nothing odd, and no service but the protocol's own.
Calm(kind, z, y) ==
  /\ IsParser(y) /\ (~z.odd => ~y.odd) /\ z.logs \subseteq y.logs
  /\ z.services \subseteq y.services /\ y.services \subseteq z.services \cup Zeek!Confirmed(kind)

LEMMA OneCalm ==
  ASSUME NEW kind, Plainly(kind), NEW z, IsParser(z), NEW m, NEW y,
         m.from = "orig" \/ Unmatched(kind, m) \/ Key(m) \in z.open, Runs(kind, z, <<m>>, y)
  PROVE  Calm(kind, z, y) /\ (m.from = "orig" /\ ~Unmatched(kind, m) => Key(m) \in y.open)
<1>1. OneTells(kind, z, m, y)
  BY PlainOne
<1> QED BY <1>1 DEF OneTells, Calm

LEMMA ExchangeCalm ==
  ASSUME NEW kind, Plainly(kind), NEW z, IsParser(z), NEW y,
         NEW op, NEW id, NEW n, NEW answer, Runs(kind, z, Exchange(op, id, n, answer), y)
  PROVE  Calm(kind, z, y)
<1> DEFINE a == Request(op, id, n)
           b == Reply(op, id, answer)
<1>1. Exchange(op, id, n, answer) = <<a>> \o <<b>>
  BY DEF Exchange
<1>2. a.from = "orig" /\ Key(a) = Key(b) /\ (Unmatched(kind, a) <=> Unmatched(kind, b))
  BY DEF Request, Reply, Key, Unmatched
<1> HIDE DEF a, b
<1>3. PICK w : Runs(kind, z, <<a>>, w) /\ Runs(kind, w, <<b>>, y)
  BY <1>1, PairIsSeq, RunsJoined
<1>4. Calm(kind, z, w) /\ (~Unmatched(kind, a) => Key(a) \in w.open)
  BY <1>2, <1>3, OneCalm
<1>5. IsParser(w) /\ (Unmatched(kind, b) \/ Key(b) \in w.open)
  BY <1>2, <1>4 DEF Calm
<1>6. Calm(kind, w, y)
  BY <1>3, <1>5, OneCalm
<1> QED BY <1>4, <1>6 DEF Calm

\* Whatever the exchanges are about.
AreExchanges(ss) ==
  \A i \in 1..Len(ss) : \E op, id, n, answer : ss[i] = Exchange(op, id, n, answer)

LEMMA BlocksCalm ==
  ASSUME NEW kind, Plainly(kind), NEW z, IsParser(z), NEW y,
         NEW S, NEW ss \in Seq(Seq(S)), AreExchanges(ss), Runs(kind, z, FlattenSeq(ss), y)
  PROVE  Calm(kind, z, y)
<1> USE SeqOfSeqs
<1>1. CASE Len(ss) = 0
  <2>1. FlattenSeq(ss) = <<>>
    BY <1>1, FlattenNone
  <2>2. Same(kind, y, z)
    BY <2>1, RunsNone
  <2> QED BY <2>2, SameFields DEF Calm
<1>2. CASE Len(ss) > 0
  <2>1. PICK x : Stops(kind, z, ss, Len(ss), y, x)
    BY <1>2, Milestones
  <2> DEFINE G == {n \in Nat : n \in 0..Len(ss) => Calm(kind, z, x[n])}
  <2>2. 0 \in G
    BY <2>1 DEF Stops, Calm
  <2>3. ASSUME NEW n \in Nat, n \in G PROVE n + 1 \in G
    <3>1. SUFFICES ASSUME n + 1 \in 0..Len(ss) PROVE Calm(kind, z, x[n + 1])
      OBVIOUS
    <3>2. n \in 0..Len(ss) /\ n + 1 \in 1..Len(ss) /\ (n + 1) - 1 = n
      BY <3>1
    <3>3. Calm(kind, z, x[n])
      BY <2>3, <3>2
    <3>4. Runs(kind, x[n], ss[n + 1], x[n + 1])
      BY <2>1, <3>2 DEF Stops
    <3>5. PICK op, id, q, answer : ss[n + 1] = Exchange(op, id, q, answer)
      BY <3>2 DEF AreExchanges
    <3>6. Calm(kind, x[n], x[n + 1])
      BY <3>3, <3>4, <3>5, ExchangeCalm DEF Calm
    <3> QED BY <3>3, <3>6 DEF Calm
  <2> HIDE DEF G
  <2>4. Len(ss) \in G
    BY <2>2, <2>3, NatSteps
  <2> QED BY <2>1, <2>4 DEF G, Stops
<1> QED BY <1>1, <1>2

LEMMA GreetingLeads ==
  ASSUME NEW kind \in Greeters
  PROVE  Leads(kind, Greeting, FALSE, {}, {}) /\ IsSeq(Greeting)
<1> DEFINE m == Reply("greeting", 0, 0)
<1>1. IsSeq(Greeting) /\ Greeting = <<m>>
  BY PairIsSeq DEF Greeting
<1>2. ASSUME NEW y, Runs(kind, Zeek!Fresh, Greeting, y) PROVE Sound(kind, y, FALSE, {}, {})
  <2>1. OneTells(kind, Zeek!Fresh, m, y)
    BY <1>1, <1>2, FreshIs, GreetersPlainly, PlainOne
  <2>2. m.op = "greeting" /\ Unmatched(kind, m)
    BY DEF Reply, Unmatched, Zeek!Unprompted
  <2> HIDE DEF m
  <2> QED BY <2>1, <2>2, FreshIs DEF OneTells, Sound
<1> QED BY <1>1, <1>2 DEF Leads

\* What an exchange adds to what a greeter's logs hold.
Mailed(kind, op, names) ==
  IF kind = "smtp" /\ op = "body" THEN {<<"smtp", [rcptto |-> names]>>} ELSE {}

LEMMA ExchangeLeads ==
  ASSUME NEW kind \in Greeters, NEW s, NEW known, NEW names, NEW rows,
         Leads(kind, s, known, names, rows),
         NEW op, op \notin {"greeting", "226", "RCPT"}, NEW answer
  PROVE  Leads(kind, s \o Exchange(op, 0, 0, answer), TRUE, names, rows \cup Mailed(kind, op, names))
<1> DEFINE e == Exchange(op, 0, 0, answer)
<1>1. IsSeq(s) /\ IsSeq(e)
  BY PairIsSeq DEF Leads, Exchange
<1>2. IsSeq(s \o e)
  BY <1>1, Joined
<1>3. ASSUME NEW y, Runs(kind, Zeek!Fresh, s \o e, y)
      PROVE  Sound(kind, y, TRUE, names, rows \cup Mailed(kind, op, names))
  <2>1. op \notin Zeek!Unprompted
    BY DEF Zeek!Unprompted
  <2>2. PICK w : /\ Runs(kind, Zeek!Fresh, s, w) /\ IsParser(w)
                 /\ Tells(kind, w, Both(kind, w, op, 0, 0, answer), Named(op, 0), y)
    BY <1>1, <1>3, <2>1, GreetersPlainly, LastTells
  <2>3. Sound(kind, w, known, names, rows)
    BY <2>2 DEF Leads
  <2>4. Named(op, 0) = {}
    BY DEF Named
  <2>5. Zeek!Confirmed(kind) = {kind}
    BY GreetersPlainly
  <2>6. Mailed(kind, op, names) \subseteq Both(kind, w, op, 0, 0, answer)
    <3>1. CASE kind = "smtp" /\ op = "body"
      <4>1. w.rcpts = names
        BY <2>3, <3>1 DEF Sound
      <4>2. Zeek!Rows(kind, w, Request(op, 0, 0)) = {<<"smtp", [rcptto |-> w.rcpts]>>}
        BY <3>1 DEF Zeek!Rows, Request
      <4> QED BY <3>1, <4>1, <4>2 DEF Both, Mailed
    <3>2. CASE ~(kind = "smtp" /\ op = "body")
      BY <3>2 DEF Mailed
    <3> QED BY <3>1, <3>2
  <2>7. IsParser(y) /\ ~y.odd /\ y.services = {kind} /\ (kind = "smtp" => y.rcpts = names)
    BY <2>2, <2>3, <2>4, <2>5 DEF Tells, Sound
  <2>8. rows \cup Mailed(kind, op, names) \subseteq y.logs
    BY <2>2, <2>3, <2>6 DEF Tells, Sound
  <2> QED BY <2>7, <2>8 DEF Sound
<1> HIDE DEF e
<1>4. Leads(kind, s \o e, TRUE, names, rows \cup Mailed(kind, op, names))
  BY <1>2, <1>3 DEF Leads
<1> QED BY <1>4 DEF e

LEMMA LineLeads ==
  ASSUME NEW kind \in Greeters, NEW s, NEW known, NEW names, NEW rows,
         Leads(kind, s, known, names, rows), NEW op, op \notin {"greeting", "226", "RCPT", "body"}
  PROVE  Leads(kind, s \o Line(op), TRUE, names, rows)
<1>1. Leads(kind, s \o Exchange(op, 0, 0, 0), TRUE, names, rows \cup Mailed(kind, op, names))
  BY ExchangeLeads
<1>2. rows \cup Mailed(kind, op, names) = rows
  BY DEF Mailed
<1> QED BY <1>1, <1>2, Zenon DEF Line

\* Anything calm leaves what is known.
CalmAlong(kind, e) == \A w, y : IsParser(w) /\ Runs(kind, w, e, y) => Calm(kind, w, y)

LEMMA CalmLeads ==
  ASSUME NEW kind \in Greeters, kind # "smtp", NEW s, NEW names, NEW rows,
         Leads(kind, s, TRUE, names, rows), NEW e, IsSeq(e), CalmAlong(kind, e)
  PROVE  Leads(kind, s \o e, TRUE, names, rows)
<1>1. IsSeq(s) /\ IsSeq(s \o e)
  BY Joined DEF Leads
<1>2. ASSUME NEW y, Runs(kind, Zeek!Fresh, s \o e, y)
      PROVE  Sound(kind, y, TRUE, names, rows)
  <2>1. PICK w : Runs(kind, Zeek!Fresh, s, w) /\ Runs(kind, w, e, y)
    BY <1>1, <1>2, RunsJoined
  <2>2. Sound(kind, w, TRUE, names, rows)
    BY <2>1 DEF Leads
  <2>3. Calm(kind, w, y)
    BY <2>1, <2>2 DEF CalmAlong, Sound
  <2>4. Zeek!Confirmed(kind) = {kind}
    BY GreetersPlainly
  <2> QED BY <2>2, <2>3, <2>4 DEF Calm, Sound
<1> QED BY <1>1, <1>2 DEF Leads

\* Each recipient is named.
Recipients(s) == Each(s.rcpt_to, LAMBDA r : Exchange("RCPT", r, 0, 0))

LEMMA RecipientsLead ==
  ASSUME NEW s, IsSeq(s.rcpt_to), NEW a, NEW known, Leads("smtp", a, known, {}, {})
  PROVE  Leads("smtp", a \o Recipients(s), known, ToSet(s.rcpt_to), {}) /\ IsSeq(Recipients(s))
<1> DEFINE r == s.rcpt_to
           n == Len(r)
           ss == [i \in DOMAIN r |-> Exchange("RCPT", r[i], 0, 0)]
<1>1. n \in Nat /\ DOMAIN r = 1..n
  BY SeqHas
<1>2. Recipients(s) = FlattenSeq(ss)
  BY DEF Recipients, Each
<1>3. IsBlocks(ss, n)
  BY <1>1, PairIsSeq DEF IsBlocks, Exchange
<1>4. ToSet(r) = {r[i] : i \in 1..n}
  BY <1>1 DEF ToSet
<1>5. \A i \in 1..n : ss[i] = Exchange("RCPT", r[i], 0, 0)
  BY <1>1
<1> HIDE DEF ss, n, r
<1>6. ss \in Seq(Seq(Within(ss))) /\ Len(ss) = n
  BY <1>1, <1>3, BlocksAre
<1>7. IsSeq(FlattenSeq(ss))
  BY <1>6, FlattenIn, AnySeq
<1>8. "smtp" \in Greeters /\ Plainly("smtp") /\ "smtp" \notin Zeek!Streams
      /\ Zeek!Confirmed("smtp") = {"smtp"}
  BY GreetersPlainly DEF Greeters
<1>9. Uniform("smtp", "RCPT", r, {}, ss)
  <2>1. \A w, i : Both("smtp", w, "RCPT", r[i], 0, 0) = {}
    BY DEF Both, Zeek!Rows, Request, Reply
  <2> QED BY <1>5, <1>6, <2>1 DEF Uniform
<1>10. IsSeq(a) /\ IsSeq(a \o FlattenSeq(ss))
  BY <1>7, Joined DEF Leads
<1>11. ASSUME NEW y, Runs("smtp", Zeek!Fresh, a \o FlattenSeq(ss), y)
       PROVE  Sound("smtp", y, known, {r[i] : i \in 1..n}, {})
  <2>1. PICK w : Runs("smtp", Zeek!Fresh, a, w) /\ Runs("smtp", w, FlattenSeq(ss), y)
    BY <1>7, <1>10, <1>11, RunsJoined
  <2>2. Sound("smtp", w, known, {}, {})
    BY <2>1 DEF Leads
  <2>3. CASE n = 0
    <3>1. FlattenSeq(ss) = <<>>
      BY <1>6, <2>3, SeqOfSeqs, FlattenNone
    <3>2. Same("smtp", y, w)
      BY <2>1, <3>1, RunsNone
    <3>3. {r[i] : i \in 1..n} = {}
      BY <2>3
    <3> QED BY <2>2, <3>2, <3>3, SameFields DEF Sound
  <2>4. CASE n # 0
    <3>1. Len(ss) > 0 /\ IsParser(w) /\ "RCPT" \notin Zeek!Unprompted
      BY <1>1, <1>6, <2>2, <2>4 DEF Sound, Zeek!Unprompted
    <3>2. Tells("smtp", w, {}, NamedUpTo("RCPT", r, n), y)
      BY <1>6, <1>8, <1>9, <2>1, <3>1, BlocksTell
    <3>3. NamedUpTo("RCPT", r, n) = {r[i] : i \in 1..n}
      BY DEF NamedUpTo
    <3> QED BY <1>8, <2>2, <3>2, <3>3 DEF Tells, Sound
  <2> QED BY <2>3, <2>4
<1>12. Leads("smtp", a \o FlattenSeq(ss), known, {r[i] : i \in 1..n}, {})
  BY <1>10, <1>11 DEF Leads
<1> QED BY <1>2, <1>4, <1>7, <1>12 DEF r

\* What is read of the mail and text protocols.
LEMMA MailRead ==
  ASSUME NEW s, IsSeq(s.rcpt_to)
  PROVE  Leads("smtp", render_smtp(s), TRUE, ToSet(s.rcpt_to),
               {<<"smtp", [rcptto |-> ToSet(s.rcpt_to)]>>})
<1> DEFINE to == ToSet(s.rcpt_to)
           a == Greeting \o Line("EHLO") \o Line("MAIL")
           r == Recipients(s)
           b == a \o r \o Line("DATA")
<1>1. "smtp" \in Greeters
  BY DEF Greeters
<1>2. Leads("smtp", Greeting, FALSE, {}, {})
  BY <1>1, GreetingLeads
<1>3. Leads("smtp", Greeting \o Line("EHLO"), TRUE, {}, {})
  BY <1>1, <1>2, LineLeads
<1>4. Leads("smtp", a, TRUE, {}, {})
  BY <1>1, <1>3, LineLeads
<1>5. render_smtp(s) = b \o Line("body") \o Line("QUIT")
  BY DEF render_smtp, Recipients
<1> HIDE DEF a
<1>6. Leads("smtp", a \o r, TRUE, to, {})
  BY <1>4, RecipientsLead
<1> HIDE DEF r, to
<1>7. Leads("smtp", b, TRUE, to, {})
  BY <1>1, <1>6, LineLeads
<1> HIDE DEF b
<1>8. Leads("smtp", b \o Exchange("body", 0, 0, 0), TRUE, to, {} \cup Mailed("smtp", "body", to))
  BY <1>1, <1>7, ExchangeLeads
<1>9. {} \cup Mailed("smtp", "body", to) = {<<"smtp", [rcptto |-> to]>>}
  BY DEF Mailed
<1>10. Leads("smtp", b \o Line("body"), TRUE, to, {<<"smtp", [rcptto |-> to]>>})
  BY <1>8, <1>9 DEF Line
<1>11. Leads("smtp", b \o Line("body") \o Line("QUIT"), TRUE, to, {<<"smtp", [rcptto |-> to]>>})
  BY <1>1, <1>10, LineLeads
<1> QED BY <1>5, <1>11 DEF to

LEMMA MailboxesRead == Leads("pop3", render_pop3, TRUE, {}, {}) /\ Leads("imap", render_imap, TRUE, {}, {})
<1>1. "pop3" \in Greeters /\ "imap" \in Greeters
  BY DEF Greeters
<1>2. Leads("pop3", Greeting, FALSE, {}, {}) /\ Leads("imap", Greeting, FALSE, {}, {})
  BY <1>1, GreetingLeads
<1>3. Leads("pop3", Greeting \o Line("USER"), TRUE, {}, {})
      /\ Leads("imap", Greeting \o Line("LOGIN"), TRUE, {}, {})
  BY <1>1, <1>2, LineLeads
<1>4. Leads("pop3", Greeting \o Line("USER") \o Line("PASS"), TRUE, {}, {})
      /\ Leads("imap", Greeting \o Line("LOGIN") \o Line("SELECT"), TRUE, {}, {})
  BY <1>1, <1>3, LineLeads
<1>5. Leads("pop3", Greeting \o Line("USER") \o Line("PASS") \o Line("STAT"), TRUE, {}, {})
      /\ Leads("imap", render_imap, TRUE, {}, {})
  BY <1>1, <1>4, LineLeads DEF render_imap
<1>6. Leads("pop3", render_pop3, TRUE, {}, {})
  BY <1>1, <1>5, LineLeads DEF render_pop3
<1> QED BY <1>5, <1>6

LEMMA PassiveCalm ==
  ASSUME NEW v6
  PROVE  CalmAlong("ftp", Passive(v6)) /\ IsSeq(Passive(v6))
<1> DEFINE a == Exchange("PASV", 0, 0, IF v6 THEN 0 ELSE 1)
           b == Line("RETR")
           m == Reply("226", 0, 0)
<1>1. IsSeq(a) /\ IsSeq(b) /\ IsSeq(<<m>>)
  BY PairIsSeq DEF Exchange, Line
<1>2. IsSeq(a \o b) /\ Passive(v6) = (a \o b) \o <<m>>
  BY <1>1, Joined DEF Passive
<1>3. IsSeq((a \o b) \o <<m>>)
  BY <1>1, <1>2, Joined
<1>4. Plainly("ftp") /\ Unmatched("ftp", m)
  BY DEF Plainly, Unmatched, Reply, Zeek!Unprompted
<1>5. ASSUME NEW w, NEW y, IsParser(w), Runs("ftp", w, (a \o b) \o <<m>>, y)
      PROVE  Calm("ftp", w, y)
  <2>1. PICK v : Runs("ftp", w, a \o b, v) /\ Runs("ftp", v, <<m>>, y)
    BY <1>1, <1>2, <1>5, RunsJoined
  <2>2. PICK u : Runs("ftp", w, a, u) /\ Runs("ftp", u, b, v)
    BY <1>1, <2>1, RunsJoined
  <2>3. Calm("ftp", w, u)
    BY <1>4, <1>5, <2>2, ExchangeCalm
  <2>4. Calm("ftp", u, v)
    BY <1>4, <2>2, <2>3, ExchangeCalm DEF Calm, Line
  <2> HIDE DEF m
  <2>5. Calm("ftp", v, y)
    BY <1>4, <2>1, <2>4, OneCalm DEF Calm
  <2> QED BY <2>3, <2>4, <2>5 DEF Calm
<1> HIDE DEF a, b, m
<1> QED BY <1>2, <1>3, <1>5 DEF CalmAlong

LEMMA CommandsCalm ==
  ASSUME NEW s, IsSeq(s.commands)
  PROVE  CalmAlong("ftp", Each(s.commands, Line)) /\ IsSeq(Each(s.commands, Line))
<1> DEFINE c == s.commands
           n == Len(c)
           ss == [i \in DOMAIN c |-> Line(c[i])]
<1>1. n \in Nat /\ DOMAIN c = 1..n
  BY SeqHas
<1>2. Each(c, Line) = FlattenSeq(ss)
  BY DEF Each
<1>3. IsBlocks(ss, n)
  BY <1>1, PairIsSeq DEF IsBlocks, Line, Exchange
<1>4. \A i \in 1..n : ss[i] = Exchange(c[i], 0, 0, 0)
  BY <1>1 DEF Line
<1> HIDE DEF ss, n
<1>5. ss \in Seq(Seq(Within(ss))) /\ Len(ss) = n
  BY <1>1, <1>3, BlocksAre
<1>6. AreExchanges(ss)
  BY <1>4, <1>5 DEF AreExchanges
<1>7. IsSeq(FlattenSeq(ss))
  BY <1>5, FlattenIn, AnySeq
<1>8. CalmAlong("ftp", FlattenSeq(ss))
  <2>1. Plainly("ftp")
    BY DEF Plainly
  <2>2. ASSUME NEW w, NEW y, IsParser(w), Runs("ftp", w, FlattenSeq(ss), y)
        PROVE  Calm("ftp", w, y)
    BY <1>5, <1>6, <2>1, <2>2, BlocksCalm
  <2> QED BY <2>2 DEF CalmAlong
<1> QED BY <1>2, <1>7, <1>8

LEMMA TransferRead ==
  ASSUME NEW s, IsSeq(s.commands), NEW v6
  PROVE  Leads("ftp", render_ftp(s, v6), TRUE, {}, {})
<1> DEFINE a == Greeting \o Line("USER") \o Line("PASS")
           c == Each(s.commands, Line)
           p == IF s.retrieve_file # None THEN Passive(v6) ELSE <<>>
<1>1. "ftp" \in Greeters
  BY DEF Greeters
<1>2. Leads("ftp", Greeting, FALSE, {}, {})
  BY <1>1, GreetingLeads
<1>3. Leads("ftp", Greeting \o Line("USER"), TRUE, {}, {})
  BY <1>1, <1>2, LineLeads
<1>4. Leads("ftp", a, TRUE, {}, {})
  BY <1>1, <1>3, LineLeads
<1>5. CalmAlong("ftp", c) /\ IsSeq(c)
  BY CommandsCalm
<1>6. CalmAlong("ftp", p) /\ IsSeq(p)
  <2>1. CASE s.retrieve_file # None
    BY <2>1, PassiveCalm
  <2>2. CASE s.retrieve_file = None
    <3>1. \A w, y : IsParser(w) /\ Runs("ftp", w, <<>>, y) => Calm("ftp", w, y)
      BY RunsNone, SameFields DEF Calm
    <3> QED BY <2>2, <3>1, PairIsSeq DEF CalmAlong
  <2> QED BY <2>1, <2>2
<1>7. render_ftp(s, v6) = a \o c \o p \o Line("QUIT")
  BY DEF render_ftp
<1> HIDE DEF a, c, p
<1>8. Leads("ftp", a \o c, TRUE, {}, {})
  BY <1>1, <1>4, <1>5, CalmLeads
<1>9. Leads("ftp", a \o c \o p, TRUE, {}, {})
  BY <1>1, <1>6, <1>8, CalmLeads
<1>10. Leads("ftp", a \o c \o p \o Line("QUIT"), TRUE, {}, {})
  BY <1>1, <1>9, LineLeads
<1> QED BY <1>7, <1>10

-----------------------------------------------------------------------------
(* Numbered requests. *)

\* A script opens with the first message of its first block.
LEMMA FlattenHead ==
  ASSUME NEW S, NEW ss \in Seq(Seq(S)), Len(ss) > 0, Len(ss[1]) > 0
  PROVE  FlattenSeq(ss) # <<>> /\ Head(FlattenSeq(ss)) = ss[1][1]
<1> DEFINE N == Len(ss)
<1>1. N \in Nat /\ N > 0 /\ \A i \in 1..N : ss[i] \in Seq(S)
  BY SeqOfSeqs
<1>2. PICK g : Joins(ss, g)
  BY <1>1, JoinsExist
<1> DEFINE v == ss[1][1]
           Opens(s) == s \in Seq(S) /\ Len(s) > 0 /\ s[1] = v
           G == {n \in Nat : n + 1 <= N => Opens(g[n + 1])}
<1>3. g[1] = ss[1] /\ \A i \in 2..N : g[i] = g[i - 1] \o ss[i]
  BY <1>2 DEF Joins
<1> HIDE DEF v
<1>4. Opens(ss[1])
  BY <1>1 DEF v
<1> HIDE DEF N
<1>5. 0 \in G
  BY <1>3, <1>4
<1>6. ASSUME NEW n \in Nat, n \in G PROVE n + 1 \in G
  <2>1. SUFFICES ASSUME (n + 1) + 1 <= N PROVE Opens(g[(n + 1) + 1])
    OBVIOUS
  <2>2. n + 1 <= N /\ (n + 1) + 1 \in 2..N /\ (n + 1) + 1 \in 1..N /\ ((n + 1) + 1) - 1 = n + 1
    BY <1>1, <2>1
  <2>3. Opens(g[n + 1])
    BY <1>6, <2>2
  <2>4. g[(n + 1) + 1] = g[n + 1] \o ss[(n + 1) + 1] /\ ss[(n + 1) + 1] \in Seq(S)
    BY <1>1, <1>3, <2>2
  <2> DEFINE a == g[n + 1]
             b == ss[(n + 1) + 1]
  <2>5. Opens(a) /\ b \in Seq(S) /\ g[(n + 1) + 1] = a \o b
    BY <2>3, <2>4
  <2> HIDE DEF a, b
  <2>6. Opens(a \o b)
    <3>1. a \o b \in Seq(S) /\ Len(a \o b) = Len(a) + Len(b) /\ (a \o b)[1] = a[1]
      BY <2>5
    <3> QED BY <2>5, <3>1
  <2> QED BY <2>5, <2>6
<1> HIDE DEF G
<1>7. Nat \subseteq G
  BY <1>5, <1>6, NatSteps
<1>8. N - 1 \in G /\ (N - 1) + 1 = N
  BY <1>1, <1>7
<1>9. Opens(g[N])
  BY <1>8 DEF G
<1>10. Opens(FlattenSeq(ss))
  BY <1>2, <1>9 DEF Joins, N
<1> QED BY <1>10 DEF v

\* What a conversation leaves behind: nothing odd, a service and rows.
Outcome(z, services, rows) == ~z.odd /\ z.services = services /\ rows \subseteq z.logs
Nothing(z) == ~z.odd /\ z.services = {} /\ z.logs = {}
\* A script of `from`'s that opens, or none.
Repeated(kind, n, rows, script, z) ==
  /\ n > 0 => /\ Outcome(z, Zeek!Confirmed(kind), rows)
              /\ script # <<>> /\ Head(script).from = "orig"
  /\ ~(n > 0) => Nothing(z) /\ script = <<>>

Repeating == {"modbus", "ntp", "snmp", "icmp"}

LEMMA RepeatsRead ==
  ASSUME NEW kind \in Repeating, NEW op, op \notin {"greeting", "226", "RCPT"}, NEW ids, NEW rows,
         NEW n \in Int, NEW ss, IsBlocks(ss, n), Uniform(kind, op, ids, rows, ss),
         NEW z, Runs(kind, Zeek!Fresh, FlattenSeq(ss), z)
  PROVE  Repeated(kind, n, rows, FlattenSeq(ss), z)
<1>1. Plainly(kind) /\ kind \notin Zeek!Streams /\ op \notin Zeek!Unprompted
  BY DEF Repeating, Plainly, Zeek!Streams, Zeek!Unprompted
<1>2. ss \in Seq(Seq(Within(ss))) /\ Len(ss) = IF n > 0 THEN n ELSE 0
  BY BlocksAre
<1>3. CASE n > 0
  <2>1. Tells(kind, Zeek!Fresh, rows, NamedUpTo(op, ids, Len(ss)), z)
    BY <1>1, <1>2, <1>3, FreshIs, BlocksTell
  <2>2. Outcome(z, Zeek!Confirmed(kind), rows)
    BY <2>1, FreshIs DEF Tells, Outcome
  <2>3. 1 \in 1..Len(ss)
    BY <1>2, <1>3
  <2>4. PICK q, answer : ss[1] = Exchange(op, ids[1], q, answer)
    BY <2>3 DEF Uniform
  <2>5. Len(ss[1]) > 0 /\ ss[1][1].from = "orig"
    BY <2>4, PairIsSeq DEF Exchange, Request
  <2>6. FlattenSeq(ss) # <<>> /\ Head(FlattenSeq(ss)) = ss[1][1]
    BY <1>2, <1>3, <2>5, FlattenHead
  <2> QED BY <1>3, <2>2, <2>5, <2>6 DEF Repeated
<1>4. CASE ~(n > 0)
  <2>1. FlattenSeq(ss) = <<>>
    BY <1>2, <1>4, SeqOfSeqs, FlattenNone
  <2>2. Same(kind, z, Zeek!Fresh)
    BY <2>1, RunsNone
  <2>3. Nothing(z)
    BY <2>2, FreshIs, SameFields DEF Nothing
  <2> QED BY <1>4, <2>1, <2>3 DEF Repeated
<1> QED BY <1>3, <1>4

ScriptOf(kind, s) == CASE kind = "modbus" -> render_modbus(s) [] kind = "ntp" -> render_ntp(s)
                       [] kind = "snmp" -> render_snmp(s) [] kind = "icmp" -> render_icmp(s)
Answered(kind) == IF kind = "icmp" THEN {} ELSE {<<kind, 0>>}

\* Exchanges numbered by ids.
Numbered(op, ids, n, q, answer) == FlattenSeq([i \in 1..n |-> Exchange(op, ids[i], q, answer)])

LEMMA NumberedRead ==
  ASSUME NEW kind \in Repeating, NEW op, op \notin {"greeting", "226", "RCPT"}, NEW ids,
         NEW n \in Int, NEW q, NEW answer,
         NEW z, Runs(kind, Zeek!Fresh, Numbered(op, ids, n, q, answer), z)
  PROVE  Repeated(kind, n, Answered(kind), Numbered(op, ids, n, q, answer), z)
<1> DEFINE ss == [i \in 1..n |-> Exchange(op, ids[i], q, answer)]
<1>1. IsBlocks(ss, n)
  BY PairIsSeq DEF IsBlocks, Exchange
<1>2. \A w, id : Both(kind, w, op, id, q, answer) = Answered(kind)
  BY DEF Repeating, Both, Zeek!Rows, Request, Reply, Answered
<1>3. \A i \in 1..n : ss[i] = Exchange(op, ids[i], q, answer)
  OBVIOUS
<1>4. Numbered(op, ids, n, q, answer) = FlattenSeq(ss)
  BY DEF Numbered
<1> HIDE DEF ss
<1>5. Len(ss) = IF n > 0 THEN n ELSE 0
  BY <1>1, BlocksAre
<1>6. Uniform(kind, op, ids, Answered(kind), ss)
  BY <1>2, <1>3, <1>5 DEF Uniform
<1>7. Repeated(kind, n, Answered(kind), FlattenSeq(ss), z)
  BY <1>1, <1>4, <1>6, RepeatsRead
<1> QED BY <1>4, <1>7

LEMMA CountedRead ==
  ASSUME NEW kind \in Repeating, NEW s, s.count \in Int,
         NEW z, Runs(kind, Zeek!Fresh, ScriptOf(kind, s), z)
  PROVE  Repeated(kind, s.count, Answered(kind), ScriptOf(kind, s), z)
<1> DEFINE n == s.count
<1>1. CASE kind = "modbus"
  <2> DEFINE ids == [i \in 1..n |-> i % 65536]
             q == s.quantity
             ss == [i \in 1..n |-> Exchange("registers", i % 65536, 0, q)]
  <2>1. ScriptOf(kind, s) = FlattenSeq(ss)
    BY <1>1 DEF ScriptOf, render_modbus, Times
  <2>2. IsBlocks(ss, n)
    <3>1. ss = [i \in 1..n |-> ss[i]]
      OBVIOUS
    <3>2. \A i \in 1..n : IsSeq(ss[i])
      <4>1. \A id : IsSeq(Exchange("registers", id, 0, q))
        BY PairIsSeq DEF Exchange
      <4> QED BY <4>1
    <3> HIDE DEF ss
    <3> QED BY <3>1, <3>2, Zenon DEF IsBlocks
  <2>3. \A i \in 1..n : ss[i] = Exchange("registers", ids[i], 0, q)
    OBVIOUS
  <2>4. \A w, id : Both(kind, w, "registers", id, 0, q) = Answered(kind)
    BY DEF Repeating, Both, Zeek!Rows, Request, Reply, Answered
  <2> HIDE DEF ids, q, ss
  <2>5. Len(ss) = IF n > 0 THEN n ELSE 0
    BY <2>2, BlocksAre
  <2>6. Uniform(kind, "registers", ids, Answered(kind), ss)
    BY <2>3, <2>4, <2>5 DEF Uniform
  <2> QED BY <2>1, <2>2, <2>6, RepeatsRead
<1>2. CASE kind = "ntp"
  <2> DEFINE ids == [i \in 1..n |-> i]
  <2>1. [i \in 1..n |-> Exchange("time", i, 0, s.stratum)]
        = [i \in 1..n |-> Exchange("time", ids[i], 0, s.stratum)]
    OBVIOUS
  <2>2. ScriptOf(kind, s) = Numbered("time", ids, n, 0, s.stratum)
    BY <1>2, <2>1 DEF ScriptOf, render_ntp, Times, Numbered
  <2> HIDE DEF ids
  <2> QED BY <2>2, NumberedRead
<1>3. CASE kind = "snmp"
  <2> DEFINE ids == [i \in 1..n |-> i]
  <2>1. [i \in 1..n |-> Exchange("get", i, 0, 0)] = [i \in 1..n |-> Exchange("get", ids[i], 0, 0)]
    OBVIOUS
  <2>2. ScriptOf(kind, s) = Numbered("get", ids, n, 0, 0)
    BY <1>3, <2>1 DEF ScriptOf, render_snmp, Times, Numbered
  <2> HIDE DEF ids
  <2> QED BY <2>2, NumberedRead
<1>4. CASE kind = "icmp"
  <2> DEFINE ids == [i \in 1..n |-> i - 1]
             p == s.payload_len
  <2>1. [i \in 1..n |-> Exchange("echo", i - 1, p, p)] = [i \in 1..n |-> Exchange("echo", ids[i], p, p)]
    OBVIOUS
  <2>2. ScriptOf(kind, s) = Numbered("echo", ids, n, p, p)
    BY <1>4, <2>1 DEF ScriptOf, render_icmp, Times, Numbered
  <2> HIDE DEF ids
  <2> QED BY <2>2, NumberedRead
<1> QED BY <1>1, <1>2, <1>3, <1>4 DEF Repeating

LEMMA DirectoryRead ==
  ASSUME NEW s, IsSeq(s.searches), NEW z, Runs("ldap", Zeek!Fresh, render_ldap(s), z)
  PROVE  Outcome(z, {}, {<<"ldap", 0>>})
<1> DEFINE n == Len(s.searches)
           a == Exchange("bind", 1, 0, 0)
           ss == [i \in 1..n |-> Exchange("search", i + 1, 0, 0)]
<1>1. n \in Nat /\ IsSeq(a)
  BY SeqHas, PairIsSeq DEF Exchange
<1>2. render_ldap(s) = a \o FlattenSeq(ss)
  BY DEF render_ldap, Times
<1>3. IsBlocks(ss, n)
  BY PairIsSeq DEF IsBlocks, Exchange
<1>4. \A i \in 1..n : ss[i] = Exchange("search", i + 1, 0, 0)
  OBVIOUS
<1>5. Plainly("ldap") /\ "ldap" \notin Zeek!Streams /\ "bind" \notin Zeek!Unprompted
      /\ Zeek!Confirmed("ldap") = {}
  BY DEF Plainly, Zeek!Streams, Zeek!Unprompted, Zeek!Confirmed
<1> HIDE DEF ss, n
<1>6. ss \in Seq(Seq(Within(ss))) /\ Len(ss) = n
  BY <1>1, <1>3, BlocksAre
<1>7. AreExchanges(ss)
  BY <1>4, <1>6 DEF AreExchanges
<1>8. IsSeq(FlattenSeq(ss))
  BY <1>6, FlattenIn, AnySeq
<1>9. PICK w : Runs("ldap", Zeek!Fresh, a, w) /\ Runs("ldap", w, FlattenSeq(ss), z)
  BY <1>1, <1>2, <1>8, RunsJoined
<1>10. Tells("ldap", Zeek!Fresh, Both("ldap", Zeek!Fresh, "bind", 1, 0, 0), Named("bind", 1), w)
  BY <1>5, <1>9, FreshIs, PlainExchange
<1>11. <<"ldap", 0>> \in Both("ldap", Zeek!Fresh, "bind", 1, 0, 0)
  BY DEF Both, Zeek!Rows, Request, Reply
<1>12. Calm("ldap", w, z)
  <2>1. IsParser(w)
    BY <1>10 DEF Tells
  <2> QED BY <1>5, <1>6, <1>7, <1>9, <2>1, BlocksCalm
<1> QED BY <1>5, <1>10, <1>11, <1>12, FreshIs DEF Tells, Calm, Outcome

\* One exchange.
LEMMA ExchangeRead ==
  ASSUME NEW kind, Plainly(kind), kind \notin Zeek!Streams,
         NEW op, op \notin Zeek!Unprompted, NEW id, NEW n, NEW answer,
         NEW z, Runs(kind, Zeek!Fresh, Exchange(op, id, n, answer), z)
  PROVE  Outcome(z, Zeek!Confirmed(kind), Both(kind, Zeek!Fresh, op, id, n, answer))
<1>1. Tells(kind, Zeek!Fresh, Both(kind, Zeek!Fresh, op, id, n, answer), Named(op, id), z)
  BY FreshIs, PlainExchange
<1> QED BY <1>1, FreshIs DEF Tells, Outcome

LEMMA TicketsRead ==
  ASSUME NEW s, NEW z
  PROVE  /\ s.request_type \in {"AS", "TGS"} /\ Runs("kerberos", Zeek!Fresh, render_kerberos(s), z)
              => Outcome(z, {"krb_tcp"}, {<<"kerberos", 0>>})
         /\ s.method \in {"REGISTER", "INVITE", "OPTIONS"} /\ Runs("sip", Zeek!Fresh, render_sip(s), z)
              => Outcome(z, {}, {<<"sip", 0>>})
         /\ Runs("radius", Zeek!Fresh, render_radius(s), z) => Outcome(z, {}, {<<"radius", 0>>})
<1> DEFINE a == IF s.accept THEN 2 ELSE 3
<1>1. /\ Plainly("kerberos") /\ "kerberos" \notin Zeek!Streams
      /\ Plainly("sip") /\ "sip" \notin Zeek!Streams
      /\ Plainly("radius") /\ "radius" \notin Zeek!Streams
      /\ Zeek!Confirmed("kerberos") = {"krb_tcp"} /\ Zeek!Confirmed("sip") = {}
      /\ Zeek!Confirmed("radius") = {}
  BY DEF Plainly, Zeek!Streams, Zeek!Confirmed
<1>2. \A op : op \in {"AS", "TGS", "REGISTER", "INVITE", "OPTIONS", "access"} => op \notin Zeek!Unprompted
  BY DEF Zeek!Unprompted
<1>3. \A op, id, n, answer :
        /\ <<"kerberos", 0>> \in Both("kerberos", Zeek!Fresh, op, id, n, answer)
        /\ <<"sip", 0>> \in Both("sip", Zeek!Fresh, op, id, n, answer)
        /\ <<"radius", 0>> \in Both("radius", Zeek!Fresh, op, id, n, answer)
  BY DEF Both, Zeek!Rows, Request, Reply
<1>4. ASSUME s.request_type \in {"AS", "TGS"}, Runs("kerberos", Zeek!Fresh, render_kerberos(s), z)
      PROVE  Outcome(z, {"krb_tcp"}, {<<"kerberos", 0>>})
  <2> DEFINE kind == "kerberos"
             op == s.request_type
             n == 0
             answer == s.etype
  <2>1. Runs(kind, Zeek!Fresh, Exchange(op, n, n, answer), z)
    BY <1>4 DEF render_kerberos
  <2>2. Plainly(kind) /\ kind \notin Zeek!Streams /\ Zeek!Confirmed(kind) = {"krb_tcp"}
    BY <1>1
  <2>3. op \notin Zeek!Unprompted /\ <<"kerberos", 0>> \in Both(kind, Zeek!Fresh, op, n, n, answer)
    BY <1>2, <1>3, <1>4
  <2> HIDE DEF kind, op, n, answer
  <2>4. Outcome(z, Zeek!Confirmed(kind), Both(kind, Zeek!Fresh, op, n, n, answer))
    BY <2>1, <2>2, <2>3, ExchangeRead
  <2> QED BY <2>2, <2>3, <2>4 DEF Outcome
<1>5. ASSUME s.method \in {"REGISTER", "INVITE", "OPTIONS"}, Runs("sip", Zeek!Fresh, render_sip(s), z)
      PROVE  Outcome(z, {}, {<<"sip", 0>>})
  <2> DEFINE kind == "sip"
             op == s.method
             id == 1
             n == 0
             answer == 200
  <2>1. Runs(kind, Zeek!Fresh, Exchange(op, id, n, answer), z)
    BY <1>5 DEF render_sip
  <2>2. Plainly(kind) /\ kind \notin Zeek!Streams /\ Zeek!Confirmed(kind) = {}
    BY <1>1
  <2>3. op \notin Zeek!Unprompted /\ <<"sip", 0>> \in Both(kind, Zeek!Fresh, op, id, n, answer)
    BY <1>2, <1>3, <1>5
  <2> HIDE DEF kind, op, id, n, answer
  <2>4. Outcome(z, Zeek!Confirmed(kind), Both(kind, Zeek!Fresh, op, id, n, answer))
    BY <2>1, <2>2, <2>3, ExchangeRead
  <2> QED BY <2>2, <2>3, <2>4 DEF Outcome
<1>6. ASSUME Runs("radius", Zeek!Fresh, render_radius(s), z)
      PROVE  Outcome(z, {}, {<<"radius", 0>>})
  <2> DEFINE kind == "radius"
             op == "access"
             id == 5
             n == 0
  <2>1. Runs(kind, Zeek!Fresh, Exchange(op, id, n, a), z)
    BY <1>6 DEF render_radius
  <2>2. Plainly(kind) /\ kind \notin Zeek!Streams /\ Zeek!Confirmed(kind) = {}
    BY <1>1
  <2>3. op \notin Zeek!Unprompted /\ <<"radius", 0>> \in Both(kind, Zeek!Fresh, op, id, n, a)
    BY <1>2, <1>3
  <2> HIDE DEF kind, op, id, n, a
  <2>4. Outcome(z, Zeek!Confirmed(kind), Both(kind, Zeek!Fresh, op, id, n, a))
    BY <2>1, <2>2, <2>3, ExchangeRead
  <2> QED BY <2>2, <2>3, <2>4 DEF Outcome
<1> QED BY <1>4, <1>5, <1>6

LEMMA LeaseRead ==
  ASSUME NEW z, Runs("dhcp", Zeek!Fresh, render_dhcp, z)
  PROVE  Outcome(z, {}, {<<"dhcp", 0>>})
<1>1. Plainly("dhcp") /\ "dhcp" \notin Zeek!Streams /\ Zeek!Confirmed("dhcp") = {}
      /\ "request" \notin Zeek!Unprompted /\ "discover" \notin Zeek!Unprompted
  BY DEF Plainly, Zeek!Streams, Zeek!Confirmed, Zeek!Unprompted
<1> DEFINE a == Exchange("discover", 9, 0, 1)
<1>2. IsSeq(a)
  BY PairIsSeq DEF Exchange
<1>3. Runs("dhcp", Zeek!Fresh, a \o Exchange("request", 9, 0, 1), z)
  BY DEF render_dhcp
<1> HIDE DEF a
<1>4. PICK w : /\ Runs("dhcp", Zeek!Fresh, a, w) /\ IsParser(w)
               /\ Tells("dhcp", w, Both("dhcp", w, "request", 9, 0, 1), Named("request", 9), z)
  BY <1>1, <1>2, <1>3, LastTells
<1>5. Outcome(w, {}, Both("dhcp", Zeek!Fresh, "discover", 9, 0, 1))
  BY <1>1, <1>4, ExchangeRead DEF a
<1>6. <<"dhcp", 0>> \in Both("dhcp", w, "request", 9, 0, 1)
  BY DEF Both, Zeek!Rows, Request, Reply
<1> QED BY <1>1, <1>4, <1>5, <1>6 DEF Outcome, Tells

-----------------------------------------------------------------------------
(* Names. *)

\* What a reader of the dns log has: the row of the answer, if there is one.
DnsRow(s, rcode) == <<"dns", [rcode |-> rcode, answers |-> AnswersOf(s)]>>

LEMMA AsPair ==
  ASSUME NEW a, NEW b
  PROVE  <<a>> \o <<b>> = <<a, b>> /\ <<a>> \o <<>> = <<a>>
<1>1. <<a>> \o <<b>> = <<a, b>>
  <2> DEFINE s == <<a>> \o <<b>>
             t == <<a, b>>
  <2>1. s \in Seq({a, b}) /\ t \in Seq({a, b}) /\ Len(s) = 2 /\ Len(t) = 2
        /\ s[1] = t[1] /\ s[2] = t[2]
    OBVIOUS
  <2> HIDE DEF s, t
  <2>2. \A i \in 1..2 : i = 1 \/ i = 2
    OBVIOUS
  <2>3. s = t
    BY <2>1, <2>2, SeqEqual
  <2> QED BY <2>3 DEF s, t
<1>2. <<a>> \in Seq({a})
  OBVIOUS
<1>3. <<a>> \o <<>> = <<a>>
  BY <1>2, ConcatEmptySeq
<1> QED BY <1>1, <1>3

LEMMA NamesRead ==
  ASSUME NEW s, NEW z, Runs("dns", Zeek!Fresh, render_dns(s), z)
  PROVE  /\ s.respond => ~z.odd /\ z.services = {"dns"} /\ z.logs = {DnsRow(s, RcodeOf(s))}
         /\ ~s.respond => Nothing(z)
<1> DEFINE a == Request("query", 7, 0)
           n == [rcode |-> RcodeOf(s), answers |-> AnswersOf(s)]
<1>1. Plainly("dns") /\ "dns" \notin Zeek!Streams /\ Zeek!Confirmed("dns") = {"dns"}
      /\ "query" \notin Zeek!Unprompted
  BY DEF Plainly, Zeek!Streams, Zeek!Confirmed, Zeek!Unprompted
<1>2. ASSUME s.respond PROVE ~z.odd /\ z.services = {"dns"} /\ z.logs = {DnsRow(s, RcodeOf(s))}
  <2> DEFINE b == Reply("query", 7, n)
  <2>1. render_dns(s) = Exchange("query", 7, 0, n)
    <3>1. render_dns(s) = <<a>> \o <<b>> /\ Exchange("query", 7, 0, n) = <<a, b>>
      BY <1>2 DEF render_dns, Exchange
    <3> HIDE DEF a, b
    <3> QED BY <3>1, AsPair
  <2>2. n = [rcode |-> RcodeOf(s), answers |-> AnswersOf(s)]
    OBVIOUS
  <2> HIDE DEF n
  <2>3. Tells("dns", Zeek!Fresh, Both("dns", Zeek!Fresh, "query", 7, 0, n), Named("query", 7), z)
    BY <1>1, <2>1, FreshIs, PlainExchange
  <2>4. Both("dns", Zeek!Fresh, "query", 7, 0, n) = {<<"dns", n>>}
    BY DEF Both, Zeek!Rows, Request, Reply
  <2> QED BY <1>1, <2>2, <2>3, <2>4, FreshIs DEF Tells, DnsRow
<1>3. ASSUME ~s.respond PROVE Nothing(z)
  <2>1. render_dns(s) = <<a>>
    BY <1>3 DEF render_dns
  <2>2. OneTells("dns", Zeek!Fresh, a, z)
    BY <1>1, <2>1, FreshIs, PlainOne
  <2>3. Zeek!Rows("dns", Zeek!Fresh, a) = {} /\ a.from = "orig"
    BY DEF Zeek!Rows, Request
  <2> HIDE DEF a
  <2> QED BY <2>2, <2>3, FreshIs DEF OneTells, Nothing
<1> QED BY <1>2, <1>3

LEMMA QueriesRead ==
  ASSUME NEW s, NEW z, Runs("namequery", Zeek!Fresh, render_namequery(s), z)
  PROVE  Outcome(z, {}, {<<"dns", [rcode |-> None, answers |-> 0]>>})
<1> DEFINE a == Request("query", 7, 0)
           n == [rcode |-> "NOERROR", answers |-> 1]
           row == <<"dns", [rcode |-> None, answers |-> 0]>>
<1>1. Plainly("namequery") /\ "namequery" \notin Zeek!Streams /\ Zeek!Confirmed("namequery") = {}
      /\ "query" \notin Zeek!Unprompted
  BY DEF Plainly, Zeek!Streams, Zeek!Confirmed, Zeek!Unprompted
<1>2. \A w, m : Zeek!Rows("namequery", w, m) = {row}
  BY DEF Zeek!Rows
<1> HIDE DEF row
<1>3. CASE s.poison_from # None
  <2> DEFINE b == Reply("query", 7, n)
  <2>1. render_namequery(s) = Exchange("query", 7, 0, n)
    <3>1. render_namequery(s) = <<a>> \o <<b>> /\ Exchange("query", 7, 0, n) = <<a, b>>
      BY <1>3 DEF render_namequery, Exchange
    <3> HIDE DEF a, b
    <3> QED BY <3>1, AsPair
  <2> HIDE DEF n
  <2>2. Outcome(z, {}, Both("namequery", Zeek!Fresh, "query", 7, 0, n))
    BY <1>1, <2>1, ExchangeRead
  <2> QED BY <1>2, <2>2 DEF Outcome, Both, row
<1>4. CASE s.poison_from = None
  <2>1. render_namequery(s) = <<a>>
    BY <1>4 DEF render_namequery
  <2>2. OneTells("namequery", Zeek!Fresh, a, z)
    BY <1>1, <2>1, FreshIs, PlainOne
  <2>3. a.from = "orig"
    BY DEF Request
  <2> HIDE DEF a
  <2> QED BY <1>2, <2>2, <2>3, FreshIs DEF OneTells, Outcome, row
<1> QED BY <1>3, <1>4

-----------------------------------------------------------------------------
(* Streams. *)

\* A message of a stream is seen wherever it stands.
LEMMA SeenInStream ==
  ASSUME NEW kind \in Zeek!Streams, NEW s, IsSeq(s), NEW i \in 1..Len(s), s[i].from = "resp",
         s[i].op # "greeting", NEW z, Runs(kind, Zeek!Fresh, s, z)
  PROVE  Outcome(z, Zeek!Confirmed(kind), Zeek!Rows(kind, Zeek!Fresh, s[i]))
<1>1. StreamTells(kind, Zeek!Fresh, s, Len(s), z)
  BY SeqHas, FreshIs, StreamsTell
<1> QED BY <1>1, FreshIs DEF StreamTells, Outcome

\* The messages of the first of two scripts are those of both.
At(s, i, m) == IsSeq(s) /\ i \in 1..Len(s) /\ s[i] = m

LEMMA EarlyIn ==
  ASSUME NEW a, NEW b, NEW i, NEW m, At(a, i, m), IsSeq(b)
  PROVE  At(a \o b, i, m)
<1>1. Len(a) \in Nat /\ Len(b) \in Nat /\ IsSeq(a)
  BY SeqHas DEF At
<1> QED BY <1>1, Joined DEF At

LEMMA ChannelsRead ==
  ASSUME NEW s, NEW z
  PROVE  /\ Runs("tls", Zeek!Fresh, render_tls(s), z)
              => Outcome(z, {"ssl"}, {<<"ssl", [version |-> s.version, next |-> NextProtocol(s)]>>})
         /\ Runs("ssh", Zeek!Fresh, render_ssh(s), z) => Outcome(z, {"ssh"}, {<<"ssh", 0>>})
         /\ Runs("irc", Zeek!Fresh, render_irc, z) => Outcome(z, {}, {<<"irc", 0>>})
<1>1. /\ {"tls", "ssh", "irc"} \subseteq Zeek!Streams
      /\ Zeek!Confirmed("tls") = {"ssl"} /\ Zeek!Confirmed("ssh") = {"ssh"}
      /\ Zeek!Confirmed("irc") = {}
  BY DEF Zeek!Streams, Zeek!Confirmed
<1>2. ASSUME Runs("tls", Zeek!Fresh, render_tls(s), z)
      PROVE  Outcome(z, {"ssl"}, {<<"ssl", [version |-> s.version, next |-> NextProtocol(s)]>>})
  <2> DEFINE m == Reply("server_hello", s.version, NextProtocol(s))
             a == <<Request("client_hello", 0, 0), m, Request("finished_c", 0, 0)>>
             b == IF s.version = "TLS1.3" THEN <<>> ELSE <<Reply("finished_s", 0, 0)>>
             c == IF s.app_data_orig_bytes > 0 THEN <<Request("data", 0, s.app_data_orig_bytes)>>
                  ELSE <<>>
             d == IF s.app_data_resp_bytes > 0 THEN <<Reply("data", 0, s.app_data_resp_bytes)>>
                  ELSE <<>>
  <2>1. At(a, 2, m)
    BY DEF IsSeq, At
  <2>2. IsSeq(b) /\ IsSeq(c) /\ IsSeq(d)
    BY PairIsSeq
  <2>3. render_tls(s) = a \o b \o c \o d
    BY DEF render_tls
  <2>4. m.from = "resp" /\ m.op # "greeting"
        /\ Zeek!Rows("tls", Zeek!Fresh, m) = {<<"ssl", [version |-> s.version, next |-> NextProtocol(s)]>>}
    BY DEF Reply, Zeek!Rows
  <2> HIDE DEF a, b, c, d, m
  <2>5. At(a \o b, 2, m)
    BY <2>1, <2>2, EarlyIn
  <2>6. At(a \o b \o c, 2, m)
    BY <2>2, <2>5, EarlyIn
  <2>7. At(a \o b \o c \o d, 2, m)
    BY <2>2, <2>6, EarlyIn
  <2> DEFINE t == a \o b \o c \o d
  <2>8. At(t, 2, m) /\ Runs("tls", Zeek!Fresh, t, z)
    BY <1>2, <2>3, <2>7
  <2> HIDE DEF t
  <2>9. Outcome(z, Zeek!Confirmed("tls"), Zeek!Rows("tls", Zeek!Fresh, t[2]))
    BY <1>1, <2>4, <2>8, SeenInStream DEF At
  <2> QED BY <1>1, <2>4, <2>8, <2>9 DEF At
<1>3. ASSUME Runs("ssh", Zeek!Fresh, render_ssh(s), z) PROVE Outcome(z, {"ssh"}, {<<"ssh", 0>>})
  <2> DEFINE half == AtLeast(s.payload_bytes \div 2, 1)
             m == Reply("banner", 0, 0)
             a == Exchange("banner", 0, 0, 0)
             b == Exchange("kexinit", 0, 0, 0)
             c == Exchange("newkeys", 0, 0, 0)
             d == Exchange("data", 0, half, half)
  <2>1. At(a, 2, m)
    <3> DEFINE r == Request("banner", 0, 0)
    <3>1. a = <<r, m>>
      BY DEF Exchange
    <3> HIDE DEF a, r, m
    <3>2. 2 \in 1..2 /\ a[2] = m
      BY <3>1
    <3> QED BY <3>1, <3>2, PairIsSeq DEF At
  <2>2. IsSeq(b) /\ IsSeq(c) /\ IsSeq(d)
    BY PairIsSeq DEF Exchange
  <2>3. render_ssh(s) = a \o b \o c \o d
    BY DEF render_ssh
  <2>4. m.from = "resp" /\ m.op # "greeting" /\ Zeek!Rows("ssh", Zeek!Fresh, m) = {<<"ssh", 0>>}
    BY DEF Reply, Zeek!Rows
  <2> HIDE DEF a, b, c, d, m
  <2>5. At(a \o b, 2, m)
    BY <2>1, <2>2, EarlyIn
  <2>6. At(a \o b \o c, 2, m)
    BY <2>2, <2>5, EarlyIn
  <2>7. At(a \o b \o c \o d, 2, m)
    BY <2>2, <2>6, EarlyIn
  <2> DEFINE t == a \o b \o c \o d
  <2>8. At(t, 2, m) /\ Runs("ssh", Zeek!Fresh, t, z)
    BY <1>3, <2>3, <2>7
  <2> HIDE DEF t
  <2>9. Outcome(z, Zeek!Confirmed("ssh"), Zeek!Rows("ssh", Zeek!Fresh, t[2]))
    BY <1>1, <2>4, <2>8, SeenInStream DEF At
  <2> QED BY <1>1, <2>4, <2>8, <2>9 DEF At
<1>4. ASSUME Runs("irc", Zeek!Fresh, render_irc, z) PROVE Outcome(z, {}, {<<"irc", 0>>})
  <2> DEFINE m == Reply("JOIN", 0, 0)
             t == render_irc
  <2>1. IsSeq(t) /\ 5 \in 1..Len(t) /\ t[5] = m
    BY DEF IsSeq, render_irc
  <2>2. m.from = "resp" /\ m.op # "greeting" /\ Zeek!Rows("irc", Zeek!Fresh, m) = {<<"irc", 0>>}
    BY DEF Reply, Zeek!Rows
  <2> HIDE DEF m, t
  <2>3. Runs("irc", Zeek!Fresh, t, z)
    BY <1>4 DEF t
  <2>4. Outcome(z, Zeek!Confirmed("irc"), Zeek!Rows("irc", Zeek!Fresh, t[5]))
    BY <1>1, <2>1, <2>2, <2>3, SeenInStream
  <2> QED BY <1>1, <2>1, <2>2, <2>4
<1> QED BY <1>2, <1>3, <1>4

LEMMA OpaqueRead ==
  ASSUME NEW kind \in {"opaque_tcp", "opaque_udp"}, NEW s, IsSeq(s),
         NEW z, Runs(kind, Zeek!Fresh, s, z)
  PROVE  Outcome(z, {}, {})
<1>1. StreamTells(kind, Zeek!Fresh, s, Len(s), z)
  BY SeqHas, FreshIs, StreamsTell DEF Zeek!Streams
<1>2. Zeek!Confirmed(kind) = {}
  BY DEF Zeek!Confirmed
<1> QED BY <1>1, <1>2, FreshIs DEF StreamTells, Outcome

\* A datagram conversation opens with what the originator sends, if it sends anything.
LEMMA DatagramsOpen ==
  ASSUME NEW s, s.orig_bytes \in Int, s.orig_literal_hex \in Int
  PROVE  (render_opaque_udp(s) # <<>> /\ Head(render_opaque_udp(s)).from = "orig")
         <=> (s.orig_bytes # 0 \/ s.orig_literal_hex > 0)
<1> DEFINE first == s.orig_bytes # 0 \/ s.orig_literal_hex > 0
           a == Datagram("orig", first, AtLeast(AtLeast(s.orig_bytes, s.orig_literal_hex), 0))
           b == Datagram("resp", s.resp_bytes # 0, AtLeast(s.resp_bytes, 0))
<1>1. render_opaque_udp(s) = a \o b
  BY DEF render_opaque_udp
<1>2. IsSeq(a) /\ IsSeq(b) /\ (first => Len(a) = 1 /\ a[1].from = "orig") /\ (~first => a = <<>>)
      /\ (b # <<>> => Len(b) = 1 /\ b[1].from = "resp")
  BY PairIsSeq DEF Datagram
<1> HIDE DEF a, b
<1>3. CASE first
  <2>1. At(a, 1, a[1])
    BY <1>2, <1>3 DEF At
  <2>2. At(a \o b, 1, a[1])
    BY <1>2, <2>1, EarlyIn
  <2>3. a \o b # <<>> /\ Head(a \o b) = (a \o b)[1]
    BY <2>2, PairIsSeq DEF At
  <2> QED BY <1>1, <1>2, <1>3, <2>2, <2>3 DEF At
<1>4. CASE ~first
  <2>1. a \o b = b
    BY <1>2, <1>4, ConcatEmptySeq DEF IsSeq
  <2>2. b = <<>> \/ Head(b) = b[1]
    BY <1>2, PairIsSeq
  <2> QED BY <1>1, <1>2, <1>4, <2>1, <2>2
<1> QED BY <1>3, <1>4

-----------------------------------------------------------------------------
(* Pages. *)

\* A message of a flow other than FTP's is read as it stands.
LEMMA RunsExactly ==
  ASSUME NEW kind, kind # "ftp", NEW z, IsParser(z), NEW m, m.from \in {"orig", "resp"},
         NEW y, Runs(kind, z, <<m>>, y)
  PROVE  IsParser(y) /\ y = Zeek!Read(kind, z, m)
<1>1. PICK w : Same(kind, w, z) /\ Same(kind, y, Zeek!Read(kind, w, m))
  BY RunsOne
<1>2. w = z
  BY <1>1, SameIs
<1> DEFINE v == Zeek!Read(kind, z, m)
<1>3. Same(kind, y, v)
  BY <1>1, <1>2
<1>4. IsParser(v)
  BY ReadKeepsCount DEF KeepsCount
<1>5. y = v
  BY <1>3, <1>4, SameIs
<1> HIDE DEF v
<1> QED BY <1>4, <1>5 DEF v

PageLeft(s, z) ==
  /\ IsParser(z) /\ z.services = {"http"}
  /\ <<"http", [status |-> s.status, body |-> Response(s).sent]>> \in z.logs
  /\ z.odd <=> s.method = "HEAD" /\ Response(s).sent > 0
  /\ z.files = <<[announced |-> Response(s).sent, got |-> Response(s).sent]>>

LEMMA PageRead ==
  ASSUME NEW s, s.response_body_len \in Int, s.response_body_b64 \in Nat \cup {None},
         NEW z, Runs("http", Zeek!Fresh, render_http(s), z)
  PROVE  PageLeft(s, z)
<1> DEFINE a == Request("page", 0, s.request_body_len)
           id == [method |-> s.method, status |-> s.status, announced |-> Response(s).announced]
           sent == Response(s).sent
           b == Reply("page", id, sent)
           row == <<"http", [status |-> s.status, body |-> sent]>>
<1>1. render_http(s) = <<a>> \o <<b>> /\ IsSeq(<<a>>) /\ IsSeq(<<b>>)
  <2>1. render_http(s) = <<a, b>>
    BY DEF render_http
  <2> HIDE DEF a, b
  <2> QED BY <2>1, AsPair, PairIsSeq
<1>2. a.from = "orig" /\ a.op = "page" /\ a.id = 0
  BY DEF Request
<1>3. b.from = "resp" /\ b.op = "page" /\ b.id = id /\ b.n = sent
  BY DEF Reply
<1>4. id.method = s.method /\ id.announced = Response(s).announced /\ id.status = s.status
  OBVIOUS
<1>5. ~Unmatched("http", a) /\ ~Unmatched("http", b)
  BY DEF Unmatched, Zeek!Streams, Zeek!Unprompted, Request, Reply
<1>6. Zeek!Rows("http", Zeek!Fresh, a) = {} /\ \A w : Zeek!Rows("http", w, b) = {row}
  BY DEF Zeek!Rows, Request, Reply
<1>7. sent \in Nat /\ Response(s).announced = sent
  BY SaidHttp
<1> HIDE DEF a, b, id, row, sent
<1>8. PICK y : Runs("http", Zeek!Fresh, <<a>>, y) /\ Runs("http", y, <<b>>, z)
  BY <1>1, RunsJoined
<1>9. IsParser(y) /\ y = Zeek!Read("http", Zeek!Fresh, a)
  BY <1>2, <1>8, FreshIs, RunsExactly
<1>10. IsParser(z) /\ z = Zeek!Read("http", y, b)
  BY <1>3, <1>8, <1>9, RunsExactly
<1>11. Zeek!Confirmed("http") = {"http"}
  BY DEF Zeek!Confirmed
<1>12. y.services = {} /\ ~y.odd /\ <<"page", 0>> \in y.open
  <2> DEFINE w == Zeek!Plain("http", Zeek!Fresh, a)
             v == Zeek!Match(Zeek!Fresh, "orig", <<"page", 0>>)
  <2>1. y = Zeek!Page(w, a)
    BY <1>9 DEF Zeek!Read
  <2>2. PlainIs("http", Zeek!Fresh, a)
    BY FreshIs, PlainFields
  <2>3. v.open = {} \cup {<<"page", 0>>} /\ ~v.odd
    BY FreshIs, Matched
  <2>4. IsParser(w) /\ w.services = {} /\ w.open = v.open /\ w.odd = v.odd
    BY <1>2, <1>5, <2>2, FreshIs DEF PlainIs, Fields
  <2> HIDE DEF w, v
  <2>5. PageIs(w, a, y)
    BY <2>1, <2>4, PageFields
  <2> QED BY <1>2, <2>3, <2>4, <2>5 DEF PageIs, Fields
<1> DEFINE w == Zeek!Plain("http", y, b)
           v == Zeek!Match(y, "resp", <<"page", 0>>)
<1>13. z = Zeek!Page(w, b)
  BY <1>10 DEF Zeek!Read
<1>14. ~v.odd
  BY <1>9, <1>12, Matched
<1>15. PlainIs("http", y, b)
  BY <1>9, PlainFields
<1>16. IsParser(w) /\ w.services = {"http"} /\ row \in w.logs /\ w.odd = v.odd
  BY <1>3, <1>5, <1>6, <1>11, <1>12, <1>15 DEF PlainIs, Fields
<1> HIDE DEF w, v
<1>17. PageIs(w, b, z)
  BY <1>13, <1>16, PageFields
<1> QED BY <1>3, <1>4, <1>7, <1>14, <1>16, <1>17 DEF PageIs, PageLeft, Fields, row, sent

-----------------------------------------------------------------------------
(* Requests to a file server and their replies. *)

ToServer(kind, op) == \/ kind = "smb" /\ op \in Zeek!SmbOps
                      \/ kind = "dcerpc" /\ op \in Zeek!SmbOps \ {"read", "write"}

\* What a request about i (session, tree, handle) and a reply about j leave.
PairDoes(z, op, i, n, j, k, y) ==
  /\ IsParser(y)
  /\ /\ ~z.odd /\ i[1] = z.sid /\ i[2] = z.tid
     /\ op \in {"read", "write", "close"} => i[3] \in z.handles
     /\ j[1] = z.sid \/ op = "session"
     /\ j[2] = z.tid \/ op = "tree"
     => ~y.odd
  /\ y.sid = IF op = "session" THEN j[1] ELSE z.sid
  /\ y.tid = IF op = "tree" THEN j[2] ELSE z.tid
  /\ y.handles = IF op = "create" THEN z.handles \cup {j[3]}
                 ELSE IF op = "close" THEN z.handles \ {i[3]} ELSE z.handles
  /\ y.files = IF op = "write" THEN Zeek!Arrived(z.files, i[3], n)
               ELSE IF op = "read" THEN Zeek!Arrived(z.files, i[3], k)
               ELSE IF op = "create" THEN Zeek!Announced(z.files, j[3], k) ELSE z.files
  /\ z.logs \subseteq y.logs /\ (op = "tree" => <<"smb_mapping", 0>> \in y.logs)
  /\ y.services = z.services \cup (IF op = "negotiate" THEN {"smb"} ELSE {})
  /\ y.calls = z.calls /\ y.bound = z.bound

\* One message that carries nothing.
SmbReads(z, m, y) == \E u : HeardIs(z, m, u) /\ SmbDoes(u, m, y)

LEMMA SmbOne ==
  ASSUME NEW kind, NEW z, IsParser(z), NEW m, m.from \in {"orig", "resp"}, ToServer(kind, m.op),
         NEW y, Runs(kind, z, <<m>>, y)
  PROVE  SmbReads(z, m, y)
<1> DEFINE piped == kind = "dcerpc"
<1>1. y = Zeek!Read(kind, z, m)
  BY RunsExactly DEF ToServer
<1>2. CASE kind = "smb"
  <2> DEFINE p == FALSE
  <2>1. y = Zeek!Smb(z, m, p) /\ ~Carries(m, p)
    BY <1>1, <1>2 DEF Zeek!Read, Carries
  <2> HIDE DEF p
  <2>2. SmbIs(z, m, p, y)
    BY <2>1, SmbFields
  <2> QED BY <2>1, <2>2 DEF SmbIs, SmbReads
<1>3. CASE kind = "dcerpc"
  <2> DEFINE p == TRUE
  <2>1. y = Zeek!Smb(z, m, p) /\ ~Carries(m, p)
    BY <1>1, <1>3 DEF Zeek!Read, Carries, ToServer
  <2> HIDE DEF p
  <2>2. SmbIs(z, m, p, y)
    BY <2>1, SmbFields
  <2> QED BY <2>1, <2>2 DEF SmbIs, SmbReads
<1> QED BY <1>2, <1>3 DEF ToServer

LEMMA SmbPair ==
  ASSUME NEW kind, NEW op, ToServer(kind, op), NEW z, IsParser(z),
         NEW i, NEW n, NEW j, NEW k, NEW y, Runs(kind, z, <<Request(op, i, n), Reply(op, j, k)>>, y)
  PROVE  PairDoes(z, op, i, n, j, k, y)
<1> DEFINE a == Request(op, i, n)
           b == Reply(op, j, k)
<1>1. /\ a.from = "orig" /\ a.op = op /\ a.id = i /\ a.n = n
      /\ b.from = "resp" /\ b.op = op /\ b.id = j /\ b.n = k
  BY DEF Request, Reply
<1>2. Runs(kind, z, <<a, b>>, y)
  OBVIOUS
<1> HIDE DEF a, b
<1>3. <<a, b>> = <<a>> \o <<b>> /\ IsSeq(<<a>>) /\ IsSeq(<<b>>)
  BY AsPair, PairIsSeq
<1>4. PICK w : Runs(kind, z, <<a>>, w) /\ Runs(kind, w, <<b>>, y)
  BY <1>2, <1>3, RunsJoined
<1>5. SmbReads(z, a, w)
  BY <1>1, <1>4, SmbOne
<1>6. PICK u : HeardIs(z, a, u) /\ SmbDoes(u, a, w)
  BY <1>5 DEF SmbReads
<1>7. IsParser(w)
  BY <1>6 DEF SmbDoes
<1>8. SmbReads(w, b, y)
  BY <1>1, <1>4, <1>7, SmbOne
<1>9. PICK v : HeardIs(w, b, v) /\ SmbDoes(v, b, y)
  BY <1>8 DEF SmbReads
<1>10. /\ u.sid = z.sid /\ u.tid = z.tid /\ u.handles = z.handles /\ u.files = z.files
       /\ u.logs = z.logs /\ u.services = z.services /\ u.calls = z.calls /\ u.bound = z.bound
       /\ u.open = z.open \cup {<<op, 0>>}
  BY <1>1, <1>6 DEF HeardIs, Fields
<1>11. /\ v.sid = w.sid /\ v.tid = w.tid /\ v.handles = w.handles /\ v.files = w.files
       /\ v.logs = w.logs /\ v.services = w.services /\ v.calls = w.calls /\ v.bound = w.bound
       /\ v.at = w.at
  BY <1>9 DEF HeardIs, Fields
<1>12. w.sid = z.sid /\ w.tid = z.tid /\ w.open = z.open \cup {<<op, 0>>} /\ w.odd = u.odd
       /\ z.logs \subseteq w.logs /\ w.services = z.services /\ w.calls = z.calls /\ w.bound = z.bound
       /\ (op = "read" => w.at = i[3])
       /\ w.handles = (IF op = "close" THEN z.handles \ {i[3]} ELSE z.handles)
       /\ w.files = (IF op = "write" THEN Zeek!Arrived(z.files, i[3], n) ELSE z.files)
  BY <1>1, <1>6, <1>10 DEF SmbDoes
<1>13. ASSUME ~z.odd, i[1] = z.sid, i[2] = z.tid,
              op \in {"read", "write", "close"} => i[3] \in z.handles,
              j[1] = z.sid \/ op = "session", j[2] = z.tid \/ op = "tree"
       PROVE  ~y.odd
  <2>1. ~Zeek!Misplaced(z, a)
    BY <1>1, <1>13 DEF Zeek!Misplaced
  <2>2. ~u.odd
    BY <1>1, <1>6, <1>13, <2>1 DEF HeardIs
  <2>3. ~Zeek!Misplaced(w, b)
    BY <1>1, <1>12, <1>13 DEF Zeek!Misplaced
  <2>4. ~v.odd
    BY <1>1, <1>9, <1>12, <2>2, <2>3 DEF HeardIs
  <2> QED BY <1>9, <2>4 DEF SmbDoes
<1>14. /\ y.sid = (IF op = "session" THEN j[1] ELSE z.sid)
       /\ y.tid = (IF op = "tree" THEN j[2] ELSE z.tid)
       /\ y.handles = (IF op = "create" THEN z.handles \cup {j[3]}
                       ELSE IF op = "close" THEN z.handles \ {i[3]} ELSE z.handles)
       /\ z.logs \subseteq y.logs /\ (op = "tree" => <<"smb_mapping", 0>> \in y.logs)
       /\ y.services = z.services \cup (IF op = "negotiate" THEN {"smb"} ELSE {})
       /\ y.calls = z.calls /\ y.bound = z.bound /\ IsParser(y)
  <2>1. y.sid = (IF op = "session" THEN j[1] ELSE z.sid) /\ y.tid = (IF op = "tree" THEN j[2] ELSE z.tid)
    BY <1>1, <1>9, <1>11, <1>12 DEF SmbDoes
  <2>2. y.handles = (IF op = "create" THEN z.handles \cup {j[3]}
                     ELSE IF op = "close" THEN z.handles \ {i[3]} ELSE z.handles)
    BY <1>1, <1>9, <1>11, <1>12 DEF SmbDoes
  <2>3. v.logs \subseteq y.logs /\ (op = "tree" => <<"smb_mapping", 0>> \in y.logs)
    BY <1>1, <1>9 DEF SmbDoes
  <2>4. y.services = z.services \cup (IF op = "negotiate" THEN {"smb"} ELSE {})
    BY <1>1, <1>9, <1>11, <1>12 DEF SmbDoes
  <2>5. y.calls = z.calls /\ y.bound = z.bound /\ IsParser(y)
    BY <1>9, <1>11, <1>12 DEF SmbDoes
  <2>6. z.logs \subseteq y.logs
    BY <1>11, <1>12, <2>3
  <2> QED BY <2>1, <2>2, <2>3, <2>4, <2>5, <2>6
<1>15. y.files = (IF op = "write" THEN Zeek!Arrived(z.files, i[3], n)
                  ELSE IF op = "read" THEN Zeek!Arrived(z.files, i[3], k)
                  ELSE IF op = "create" THEN Zeek!Announced(z.files, j[3], k) ELSE z.files)
  BY <1>1, <1>9, <1>11, <1>12 DEF SmbDoes
<1> QED BY <1>13, <1>14, <1>15 DEF PairDoes

LEMMA AsFour ==
  ASSUME NEW a, NEW b, NEW c, NEW d
  PROVE  <<a, b, c, d>> = <<a, b>> \o <<c, d>>
<1> DEFINE s == <<a, b, c, d>>
           t == <<a, b>> \o <<c, d>>
<1>1. /\ s \in Seq({a, b, c, d}) /\ t \in Seq({a, b, c, d}) /\ Len(s) = 4 /\ Len(t) = 4
      /\ s[1] = t[1] /\ s[2] = t[2] /\ s[3] = t[3] /\ s[4] = t[4]
  OBVIOUS
<1> HIDE DEF s, t
<1>2. \A i \in 1..4 : i = 1 \/ i = 2 \/ i = 3 \/ i = 4
  OBVIOUS
<1>3. s = t
  BY <1>1, <1>2, SeqEqual
<1> QED BY <1>3 DEF s, t

\* Where a conversation with a server stands.
Placed(z, sid, tid, handles, services) ==
  /\ IsParser(z) /\ ~z.odd /\ z.sid = sid /\ z.tid = tid /\ z.handles = handles
  /\ z.services = services /\ z.calls = {}

LEMMA FreshPlaced == Placed(Zeek!Fresh, 0, 0, {}, {})
BY FreshIs DEF Placed, Zeek!Fresh

\* A session takes one exchange, or two with NTLM.
LEMMA SessionPair ==
  ASSUME NEW kind, kind \in {"smb", "dcerpc"}, NEW z, NEW sid, Placed(z, sid, 0, {}, {"smb"}),
         NEW i, i[1] = sid, i[2] = 0, NEW n, NEW k,
         NEW y, Runs(kind, z, <<Request("session", i, n), Reply("session", <<Sid, 0, 0>>, k)>>, y)
  PROVE  Placed(y, Sid, 0, {}, {"smb"}) /\ y.files = z.files
<1> DEFINE j == <<Sid, 0, 0>>
           op == "session"
<1>1. j[1] = Sid /\ j[2] = 0 /\ Runs(kind, z, <<Request(op, i, n), Reply(op, j, k)>>, y)
  OBVIOUS
<1>2. ToServer(kind, op) /\ IsParser(z) /\ op = "session"
  BY DEF ToServer, Zeek!SmbOps, Placed
<1> HIDE DEF j, op
<1>3. PairDoes(z, op, i, n, j, k, y)
  BY <1>1, <1>2, SmbPair
<1> QED BY <1>1, <1>2, <1>3 DEF PairDoes, Placed

LEMMA SetUpRead ==
  ASSUME NEW kind, kind \in {"smb", "dcerpc"}, NEW ntlm, NEW y, Runs(kind, Zeek!Fresh, SetUp(ntlm), y)
  PROVE  Placed(y, Sid, 0, {}, {"smb"}) /\ y.files = <<>>
<1> DEFINE zero == <<0, 0, 0>>
           mine == <<Sid, 0, 0>>
           op == "negotiate"
           a == <<Request(op, zero, 0), Reply(op, zero, 0)>>
           c == <<Request("session", zero, 1), Reply("session", mine, 2)>>
           d == <<Request("session", mine, 3), Reply("session", mine, 0)>>
           e == <<Request("session", zero, 0), Reply("session", mine, 0)>>
           b == IF ntlm # None
                THEN <<Request("session", zero, 1), Reply("session", mine, 2),
                       Request("session", mine, 3), Reply("session", mine, 0)>>
                ELSE e
<1>1. SetUp(ntlm) = a \o b
  BY DEF SetUp, Exchange
<1>2. IsSeq(a) /\ IsSeq(c) /\ IsSeq(d) /\ IsSeq(e)
  BY PairIsSeq
<1>3. b = IF ntlm # None THEN c \o d ELSE e
  <2> DEFINE m == Request("session", zero, 1)
             n == Reply("session", mine, 2)
             p == Request("session", mine, 3)
             q == Reply("session", mine, 0)
  <2>1. (ntlm # None => b = <<m, n, p, q>>) /\ (ntlm = None => b = e) /\ c = <<m, n>> /\ d = <<p, q>>
    OBVIOUS
  <2> HIDE DEF b, c, d, e, m, n, p, q
  <2>2. <<m, n, p, q>> = <<m, n>> \o <<p, q>>
    BY AsFour
  <2>3. ntlm # None => b = c \o d
    BY Zenon, <2>1, <2>2
  <2> QED BY <2>1, <2>3
<1>4. IsSeq(b)
  <2> HIDE DEF b, c, d, e
  <2> QED BY <1>2, <1>3, Joined
<1>5. zero[1] = 0 /\ zero[2] = 0 /\ mine[1] = Sid /\ mine[2] = 0
  OBVIOUS
<1>6. ToServer(kind, op) /\ op = "negotiate" /\ Placed(Zeek!Fresh, 0, 0, {}, {})
  BY FreshPlaced DEF ToServer, Zeek!SmbOps
<1>7. a = <<Request(op, zero, 0), Reply(op, zero, 0)>>
      /\ c = <<Request("session", zero, 1), Reply("session", mine, 2)>>
      /\ d = <<Request("session", mine, 3), Reply("session", mine, 0)>>
      /\ e = <<Request("session", zero, 0), Reply("session", mine, 0)>> /\ mine = <<Sid, 0, 0>>
  OBVIOUS
<1> HIDE DEF a, b, c, d, e, zero, mine, op
<1>8. PICK w : Runs(kind, Zeek!Fresh, a, w) /\ Runs(kind, w, b, y)
  BY <1>1, <1>2, <1>4, RunsJoined
<1>9. PairDoes(Zeek!Fresh, op, zero, 0, zero, 0, w)
  BY <1>6, <1>7, <1>8, FreshIs, SmbPair
<1>10. Placed(w, 0, 0, {}, {"smb"}) /\ w.files = <<>>
  BY <1>5, <1>6, <1>9, FreshIs DEF PairDoes, Placed
<1>11. CASE ntlm # None
  <2>1. PICK v : Runs(kind, w, c, v) /\ Runs(kind, v, d, y)
    BY <1>2, <1>3, <1>8, <1>11, RunsJoined
  <2>2. Placed(v, Sid, 0, {}, {"smb"}) /\ v.files = w.files
    BY <1>5, <1>7, <1>10, <2>1, SessionPair
  <2>3. Placed(y, Sid, 0, {}, {"smb"}) /\ y.files = v.files
    BY <1>5, <1>7, <2>1, <2>2, SessionPair
  <2> QED BY <1>10, <2>2, <2>3
<1>12. CASE ntlm = None
  <2>1. Placed(y, Sid, 0, {}, {"smb"}) /\ y.files = w.files
    BY <1>3, <1>5, <1>7, <1>8, <1>10, <1>12, SessionPair
  <2> QED BY <1>10, <2>1
<1> QED BY <1>11, <1>12

LEMMA TreeRead ==
  ASSUME NEW kind, kind \in {"smb", "dcerpc"}, NEW z, Placed(z, Sid, 0, {}, {"smb"}),
         NEW tid, NEW pipe, NEW y, Runs(kind, z, Tree(tid, pipe), y)
  PROVE  Placed(y, Sid, tid, {}, {"smb"}) /\ y.files = z.files /\ <<"smb_mapping", 0>> \in y.logs
<1> DEFINE op == "tree"
           i == <<Sid, 0, 0>>
           j == <<Sid, tid, 0>>
           k == IF pipe THEN 2 ELSE 1
<1>1. i[1] = Sid /\ i[2] = 0 /\ j[1] = Sid /\ j[2] = tid
  OBVIOUS
<1>2. Runs(kind, z, <<Request(op, i, 0), Reply(op, j, k)>>, y)
  BY DEF Tree
<1>3. ToServer(kind, op) /\ IsParser(z) /\ op = "tree"
  BY DEF ToServer, Zeek!SmbOps, Placed
<1> HIDE DEF i, j, k, op
<1>4. PairDoes(z, op, i, 0, j, k, y)
  BY <1>2, <1>3, SmbPair
<1> QED BY <1>1, <1>3, <1>4 DEF PairDoes, Placed

\* A file that arrives whole under a new handle.
Filed(files, h, n, g) ==
  /\ DOMAIN g = DOMAIN files \cup {h} /\ g[h] = [announced |-> n, got |-> n]
  /\ \A x \in DOMAIN files : g[x] = files[x]

LEMMA AnnouncedArrives ==
  ASSUME NEW files, NEW h, h \notin DOMAIN files, NEW n \in Nat
  PROVE  Filed(files, h, n, Zeek!Arrived(Zeek!Announced(files, h, n), h, n))
<1> DEFINE a == Zeek!Announced(files, h, n)
<1>1. /\ DOMAIN a = DOMAIN files \cup {h} /\ a[h] = [announced |-> n, got |-> 0]
      /\ \A x \in DOMAIN files : a[x] = files[x]
  <2>1. AnnouncedIn(files, h, n, a)
    BY AnnouncedIs
  <2> DEFINE got == IF h \in DOMAIN files THEN files[h].got ELSE 0
  <2>2. a[h] = [announced |-> n, got |-> got]
    BY <2>1 DEF AnnouncedIn
  <2>3. got = 0
    OBVIOUS
  <2> HIDE DEF a, got
  <2> QED BY <2>1, <2>2, <2>3 DEF AnnouncedIn
<1>2. a = [x \in DOMAIN a |-> a[x]]
  BY DEF Zeek!Announced
<1> HIDE DEF a
<1>3. Zeek!Arrived(a, h, n) = [a EXCEPT ![h].got = @ + n]
  BY <1>1 DEF Zeek!Arrived
<1> DEFINE g == [a EXCEPT ![h].got = @ + n]
<1>4. DOMAIN g = DOMAIN a /\ \A x \in DOMAIN a : x # h => g[x] = a[x]
  BY <1>2
<1>5. g[h] = [a[h] EXCEPT !.got = @ + n]
  BY <1>1, <1>2
<1>6. g[h] = [announced |-> n, got |-> n]
  BY <1>1, <1>5
<1> HIDE DEF g
<1>7. Filed(files, h, n, g)
  BY <1>1, <1>4, <1>6 DEF Filed
<1> QED BY <1>3, <1>7 DEF g, a

LEMMA TransferredWhole ==
  ASSUME NEW op \in {"read", "write"}, NEW n \in Nat, NEW z, Placed(z, Sid, Tid, {}, {"smb"}),
         HandleOf(op) \notin DOMAIN z.files, NEW y, Runs("smb", z, Transfer(op, n), y)
  PROVE  Placed(y, Sid, Tid, {}, {"smb"}) /\ z.logs \subseteq y.logs
         /\ Filed(z.files, HandleOf(op), n, y.files)
<1> DEFINE h == HandleOf(op)
           none == <<Sid, Tid, 0>>
           file == <<Sid, Tid, h>>
           opens == "create"
           closes == "close"
           kind == "smb"
           a == <<Request(opens, none, 0), Reply(opens, file, n)>>
           b == <<Request(op, file, n), Reply(op, none, n)>>
           c == <<Request(closes, file, 0), Reply(closes, none, 0)>>
<1>1. Transfer(op, n) = a \o b \o c /\ Runs(kind, z, Transfer(op, n), y)
  BY DEF Transfer, Open, Close
<1>2. IsSeq(a) /\ IsSeq(b) /\ IsSeq(c)
  BY PairIsSeq
<1>3. none[1] = Sid /\ none[2] = Tid /\ file[1] = Sid /\ file[2] = Tid /\ file[3] = h
  OBVIOUS
<1>4. ToServer(kind, op) /\ ToServer(kind, opens) /\ ToServer(kind, closes) /\ IsParser(z)
  BY DEF ToServer, Zeek!SmbOps, Placed
<1>5. opens = "create" /\ closes = "close"
  OBVIOUS
<1> HIDE DEF none, file, opens, closes, kind
<1>6. a = <<Request(opens, none, 0), Reply(opens, file, n)>>
      /\ b = <<Request(op, file, n), Reply(op, none, n)>>
      /\ c = <<Request(closes, file, 0), Reply(closes, none, 0)>> /\ h \notin DOMAIN z.files
  OBVIOUS
<1> HIDE DEF a, b, c, h
<1>7. PICK v : Runs(kind, z, a \o b, v) /\ Runs(kind, v, c, y)
  BY <1>1, <1>2, RunsJoined, Joined
<1>8. PICK w : Runs(kind, z, a, w) /\ Runs(kind, w, b, v)
  BY <1>2, <1>7, RunsJoined
<1>9. PairDoes(z, opens, none, 0, file, n, w)
  BY <1>4, <1>6, <1>8, SmbPair
<1>10. /\ Placed(w, Sid, Tid, {h}, {"smb"}) /\ z.logs \subseteq w.logs
       /\ w.files = Zeek!Announced(z.files, h, n)
  BY <1>3, <1>5, <1>9 DEF PairDoes, Placed
<1>11. IsParser(w)
  BY <1>10 DEF Placed
<1>12. PairDoes(w, op, file, n, none, n, v)
  BY <1>4, <1>6, <1>8, <1>11, SmbPair
<1>13. /\ Placed(v, Sid, Tid, {h}, {"smb"}) /\ w.logs \subseteq v.logs
       /\ v.files = Zeek!Arrived(w.files, h, n)
  BY <1>3, <1>10, <1>12 DEF PairDoes, Placed
<1>14. IsParser(v)
  BY <1>13 DEF Placed
<1>15. PairDoes(v, closes, file, 0, none, 0, y)
  BY <1>4, <1>6, <1>7, <1>14, SmbPair
<1>16. Placed(y, Sid, Tid, {}, {"smb"}) /\ v.logs \subseteq y.logs /\ y.files = v.files
  BY <1>3, <1>5, <1>13, <1>15 DEF PairDoes, Placed
<1>17. Filed(z.files, h, n, y.files)
  BY <1>6, <1>10, <1>13, <1>16, AnnouncedArrives
<1> QED BY <1>10, <1>13, <1>16, <1>17 DEF h

\* What a server's share has received: each file that was asked for, whole.
FileIn(files, n) == \E h \in DOMAIN files : files[h].got = n
Whole(files) == \A h \in DOMAIN files : files[h].got = files[h].announced
SharesLeft(s, z) ==
  /\ ~z.odd /\ z.services = {"smb"} /\ <<"smb_mapping", 0>> \in z.logs /\ Whole(z.files)
  /\ s.read_file # None => FileIn(z.files, file_for(s.read_file, s.file_bytes))
  /\ s.write_file # None => FileIn(z.files, file_for(s.write_file, s.file_bytes))

LEMMA SharesRead ==
  ASSUME NEW s, s.file_bytes \in Int, NEW z, Runs("smb", Zeek!Fresh, render_smb(s), z)
  PROVE  SharesLeft(s, z)
<1> DEFINE kind == "smb"
           p == s.share = "IPC$"
           rn == file_for(s.read_file, s.file_bytes)
           wn == file_for(s.write_file, s.file_bytes)
           a == SetUp(s.ntlm)
           b == Tree(Tid, p)
           c == IF s.read_file # None THEN Transfer("read", rn) ELSE <<>>
           d == IF s.write_file # None THEN Transfer("write", wn) ELSE <<>>
<1>1. render_smb(s) = a \o b \o c \o d /\ Runs(kind, Zeek!Fresh, render_smb(s), z) /\ kind = "smb"
  BY DEF render_smb
<1>2. rn \in Nat /\ wn \in Nat
  BY FileSize
<1>3. IsSeq(a) /\ IsSeq(b)
  BY SaidBySmb DEF Said
<1>4. IsSeq(c) /\ IsSeq(d)
  BY <1>2, SaidTransfer, PairIsSeq DEF Said
<1>5. /\ (s.read_file # None => c = Transfer("read", rn)) /\ (s.read_file = None => c = <<>>)
      /\ (s.write_file # None => d = Transfer("write", wn)) /\ (s.write_file = None => d = <<>>)
  OBVIOUS
<1>6. HandleOf("read") = 33 /\ HandleOf("write") = 44
  BY DEF HandleOf
<1>7. a = SetUp(s.ntlm) /\ b = Tree(Tid, p)
  OBVIOUS
<1> HIDE DEF kind, p, a, b, c, d, rn, wn
<1>8. IsSeq(a \o b) /\ IsSeq(a \o b \o c)
  BY <1>3, <1>4, Joined
<1>9. PICK y : Runs(kind, Zeek!Fresh, a \o b \o c, y) /\ Runs(kind, y, d, z)
  BY <1>1, <1>4, <1>8, RunsJoined
<1>10. PICK x : Runs(kind, Zeek!Fresh, a \o b, x) /\ Runs(kind, x, c, y)
  BY <1>4, <1>8, <1>9, RunsJoined
<1>11. PICK w : Runs(kind, Zeek!Fresh, a, w) /\ Runs(kind, w, b, x)
  BY <1>3, <1>10, RunsJoined
<1>12. Placed(w, Sid, 0, {}, {"smb"}) /\ w.files = <<>>
  BY <1>1, <1>7, <1>11, SetUpRead
<1>13. Placed(x, Sid, Tid, {}, {"smb"}) /\ x.files = <<>> /\ <<"smb_mapping", 0>> \in x.logs
  BY <1>1, <1>7, <1>11, <1>12, TreeRead
<1>14. DOMAIN x.files = {}
  BY <1>13
<1>15. /\ Placed(y, Sid, Tid, {}, {"smb"}) /\ <<"smb_mapping", 0>> \in y.logs
       /\ DOMAIN y.files = (IF s.read_file # None THEN {33} ELSE {})
       /\ s.read_file # None => y.files[33] = [announced |-> rn, got |-> rn]
  <2>1. CASE s.read_file # None
    <3>1. /\ Placed(y, Sid, Tid, {}, {"smb"}) /\ x.logs \subseteq y.logs
          /\ Filed(x.files, 33, rn, y.files)
      BY <1>1, <1>2, <1>5, <1>6, <1>10, <1>13, <1>14, <2>1, TransferredWhole
    <3> QED BY <1>13, <1>14, <2>1, <3>1 DEF Filed
  <2>2. CASE s.read_file = None
    <3>1. Same(kind, y, x)
      BY <1>5, <1>10, <2>2, RunsNone
    <3>2. y = x
      BY <1>1, <1>13, <3>1, SameIs DEF Placed
    <3> QED BY <1>13, <1>14, <2>2, <3>2
  <2> QED BY <2>1, <2>2
<1>16. /\ Placed(z, Sid, Tid, {}, {"smb"}) /\ <<"smb_mapping", 0>> \in z.logs
       /\ DOMAIN z.files = DOMAIN y.files \cup (IF s.write_file # None THEN {44} ELSE {})
       /\ \A h \in DOMAIN y.files : z.files[h] = y.files[h]
       /\ s.write_file # None => z.files[44] = [announced |-> wn, got |-> wn]
  <2>1. CASE s.write_file # None
    <3>1. 44 \notin DOMAIN y.files
      BY <1>15
    <3>2. /\ Placed(z, Sid, Tid, {}, {"smb"}) /\ y.logs \subseteq z.logs
          /\ Filed(y.files, 44, wn, z.files)
      BY <1>1, <1>2, <1>5, <1>6, <1>9, <1>15, <2>1, <3>1, TransferredWhole
    <3> QED BY <1>15, <2>1, <3>2 DEF Filed
  <2>2. CASE s.write_file = None
    <3>1. Same(kind, z, y)
      BY <1>5, <1>9, <2>2, RunsNone
    <3>2. z = y
      BY <1>1, <1>15, <3>1, SameIs DEF Placed
    <3> QED BY <1>15, <2>2, <3>2
  <2> QED BY <2>1, <2>2
<1>17. Whole(z.files)
  <2>1. SUFFICES ASSUME NEW h \in DOMAIN z.files PROVE z.files[h].got = z.files[h].announced
    BY DEF Whole
  <2>2. h = 33 \/ h = 44
    BY <1>15, <1>16
  <2> QED BY <1>15, <1>16, <2>1, <2>2
<1>18. /\ s.read_file # None => FileIn(z.files, rn)
       /\ s.write_file # None => FileIn(z.files, wn)
  BY <1>15, <1>16 DEF FileIn
<1> QED BY <1>16, <1>17, <1>18 DEF SharesLeft, Placed, rn, wn

-----------------------------------------------------------------------------
(* Calls, directly or inside writes and reads of a pipe. *)

\* A call or a bind and its answer.
RpcDoes(z, op, id, y) ==
  /\ IsParser(y)
  /\ ~z.odd /\ id \notin z.calls /\ (op = "call" => z.bound) => ~y.odd
  /\ y.calls = z.calls \cup {id} /\ y.bound = TRUE
  /\ y.services = z.services \cup {"dce_rpc"}
  /\ z.logs \subseteq y.logs /\ (op = "call" => <<"dce_rpc", 0>> \in y.logs)

Pdus == {"rpc_bind", "call"}

LEMMA DirectCall ==
  ASSUME NEW op \in Pdus, NEW z, IsParser(z), NEW id, NEW n, NEW k,
         NEW y, Runs("dcerpc", z, Exchange(op, id, n, k), y)
  PROVE  RpcDoes(z, op, id, y)
<1> DEFINE a == Request(op, id, n)
           b == Reply(op, id, k)
           kind == "dcerpc"
<1>1. /\ a.from = "orig" /\ a.op = op /\ a.id = id /\ b.from = "resp" /\ b.op = op /\ b.id = id
      /\ op \notin Zeek!SmbOps /\ kind = "dcerpc"
  BY DEF Request, Reply, Pdus, Zeek!SmbOps
<1>2. Exchange(op, id, n, k) = <<a, b>> /\ Runs(kind, z, Exchange(op, id, n, k), y)
  BY DEF Exchange
<1> HIDE DEF a, b, kind
<1>3. <<a, b>> = <<a>> \o <<b>> /\ IsSeq(<<a>>) /\ IsSeq(<<b>>)
  BY AsPair, PairIsSeq
<1>4. PICK w : Runs(kind, z, <<a>>, w) /\ Runs(kind, w, <<b>>, y)
  BY <1>2, <1>3, RunsJoined
<1>5. w = Zeek!Read(kind, z, a) /\ IsParser(w)
  BY <1>1, <1>4, RunsExactly
<1>6. y = Zeek!Read(kind, w, b)
  BY <1>1, <1>4, <1>5, RunsExactly
<1>7. w = Zeek!Rpc(z, "orig", op, id) /\ y = Zeek!Rpc(w, "resp", op, id)
  BY <1>1, <1>5, <1>6 DEF Zeek!Read
<1>8. RpcIs(z, "orig", op, id, w) /\ RpcIs(w, "resp", op, id, y)
  BY <1>5, <1>7, RpcFields
<1> QED BY <1>8 DEF RpcIs, RpcDoes

\* A message around a PDU, or one of the pipe's own.
PipedReads(z, m, y) ==
  \E u : /\ HeardIs(z, m, u)
         /\ IF (m.from = "orig" /\ m.op = "write") \/ (m.from # "orig" /\ m.op = "read")
            THEN RpcIs(u, m.from, m.n.op, m.n.id, y) ELSE SmbDoes(u, m, y)

LEMMA PipedOne ==
  ASSUME NEW z, IsParser(z), NEW m, m.from \in {"orig", "resp"}, m.op \in Zeek!SmbOps,
         NEW y, Runs("dcerpc", z, <<m>>, y)
  PROVE  PipedReads(z, m, y)
<1> DEFINE p == TRUE
           kind == "dcerpc"
<1>1. Runs(kind, z, <<m>>, y) /\ kind = "dcerpc" /\ kind # "ftp"
  OBVIOUS
<1> HIDE DEF kind
<1>2. y = Zeek!Read(kind, z, m)
  BY <1>1, RunsExactly
<1>3. y = Zeek!Smb(z, m, p)
  BY <1>1, <1>2 DEF Zeek!Read
<1>4. Carries(m, p) <=> (m.from = "orig" /\ m.op = "write") \/ (m.from # "orig" /\ m.op = "read")
  BY DEF Carries
<1> HIDE DEF p
<1>5. SmbIs(z, m, p, y)
  BY <1>3, SmbFields
<1> QED BY <1>4, <1>5 DEF SmbIs, PipedReads

\* The pipe is open.
AtPipe(z) == z.sid = Sid /\ z.tid = 0 /\ 33 \in z.handles

LEMMA PipedCall ==
  ASSUME NEW op \in Pdus, NEW z, IsParser(z), AtPipe(z), NEW id,
         NEW y, Runs("dcerpc", z, Piped(op, id), y)
  PROVE  RpcDoes(z, op, id, y) /\ AtPipe(y)
<1> DEFINE pdu == [op |-> op, id |-> id]
           file == <<Sid, 0, 33>>
           none == <<Sid, 0, 0>>
           a == Request("write", file, pdu)
           b == Reply("write", none, 0)
           c == Request("read", file, 0)
           d == Reply("read", none, pdu)
           kind == "dcerpc"
<1>1. /\ a.from = "orig" /\ a.op = "write" /\ a.id = file /\ a.n.op = op /\ a.n.id = id
      /\ b.from = "resp" /\ b.op = "write" /\ b.id = none
      /\ c.from = "orig" /\ c.op = "read" /\ c.id = file
      /\ d.from = "resp" /\ d.op = "read" /\ d.id = none /\ d.n.op = op /\ d.n.id = id
  BY DEF Request, Reply
<1>2. file[1] = Sid /\ file[2] = 0 /\ file[3] = 33 /\ none[1] = Sid /\ none[2] = 0
  OBVIOUS
<1>3. Piped(op, id) = <<a, b, c, d>> /\ Runs(kind, z, Piped(op, id), y) /\ kind = "dcerpc"
  BY DEF Piped, HandleOf
<1>4. "write" \in Zeek!SmbOps /\ "read" \in Zeek!SmbOps /\ op \notin Zeek!SmbOps
  BY DEF Zeek!SmbOps, Pdus
<1> HIDE DEF a, b, c, d, file, none, pdu, kind
<1>5. /\ <<a, b, c, d>> = <<a, b>> \o <<c, d>> /\ <<a, b>> = <<a>> \o <<b>>
      /\ <<c, d>> = <<c>> \o <<d>>
  <2>1. <<a, b, c, d>> = <<a, b>> \o <<c, d>>
    BY AsFour
  <2>2. <<a, b>> = <<a>> \o <<b>>
    BY AsPair
  <2>3. <<c, d>> = <<c>> \o <<d>>
    BY AsPair
  <2> QED BY <2>1, <2>2, <2>3, Zenon
<1>6. /\ IsSeq(<<a, b>>) /\ IsSeq(<<c, d>>) /\ IsSeq(<<a>>) /\ IsSeq(<<b>>)
      /\ IsSeq(<<c>>) /\ IsSeq(<<d>>)
  BY PairIsSeq
<1>7. PICK x : Runs(kind, z, <<a, b>>, x) /\ Runs(kind, x, <<c, d>>, y)
  BY <1>3, <1>5, <1>6, RunsJoined
<1>8. PICK w : Runs(kind, z, <<a>>, w) /\ Runs(kind, w, <<b>>, x)
  BY <1>5, <1>6, <1>7, RunsJoined
<1>9. PICK v : Runs(kind, x, <<c>>, v) /\ Runs(kind, v, <<d>>, y)
  BY <1>5, <1>6, <1>7, RunsJoined
<1>10. PipedReads(z, a, w)
  BY <1>1, <1>3, <1>4, <1>8, PipedOne
<1>11. PICK za : HeardIs(z, a, za) /\ RpcIs(za, "orig", op, id, w)
  BY <1>1, <1>10 DEF PipedReads
<1>12. IsParser(w)
  BY <1>11 DEF RpcIs
<1>13. PipedReads(w, b, x)
  BY <1>1, <1>3, <1>4, <1>8, <1>12, PipedOne
<1>14. PICK wb : HeardIs(w, b, wb) /\ SmbDoes(wb, b, x)
  BY <1>1, <1>13 DEF PipedReads
<1>15. IsParser(x)
  BY <1>14 DEF SmbDoes
<1>16. PipedReads(x, c, v)
  BY <1>1, <1>3, <1>4, <1>9, <1>15, PipedOne
<1>17. PICK xc : HeardIs(x, c, xc) /\ SmbDoes(xc, c, v)
  BY <1>1, <1>16 DEF PipedReads
<1>18. IsParser(v)
  BY <1>17 DEF SmbDoes
<1>19. PipedReads(v, d, y)
  BY <1>1, <1>3, <1>4, <1>9, <1>18, PipedOne
<1>20. PICK vd : HeardIs(v, d, vd) /\ RpcIs(vd, "resp", op, id, y)
  BY <1>1, <1>19 DEF PipedReads
<1>21. /\ w.sid = z.sid /\ w.tid = z.tid /\ w.handles = z.handles
       /\ w.calls = z.calls \cup {id} /\ w.services = z.services /\ w.logs = z.logs
       /\ w.open = (z.open \cup {<<"write", 0>>}) \cup {<<op, id>>}
       /\ w.odd <=> za.odd \/ id \in z.calls \/ (op = "call" /\ ~z.bound)
  BY <1>1, <1>11 DEF HeardIs, RpcIs, Fields
<1>22. /\ x.sid = w.sid /\ x.tid = w.tid /\ x.handles = w.handles
       /\ x.calls = w.calls /\ x.services = w.services /\ x.logs = w.logs
       /\ x.open = w.open \ {<<"write", 0>>} /\ x.odd = wb.odd
  BY <1>1, <1>14 DEF HeardIs, SmbDoes, Fields
<1>23. /\ v.sid = x.sid /\ v.tid = x.tid /\ v.handles = x.handles
       /\ v.calls = x.calls /\ v.services = x.services /\ v.logs = x.logs
       /\ v.open = x.open \cup {<<"read", 0>>} /\ v.odd = xc.odd
  BY <1>1, <1>17 DEF HeardIs, SmbDoes, Fields
<1>24. /\ y.sid = v.sid /\ y.tid = v.tid /\ y.handles = v.handles
       /\ y.calls = v.calls /\ y.bound = TRUE /\ y.services = v.services \cup {"dce_rpc"}
       /\ y.logs = v.logs \cup (IF op = "call" THEN {<<"dce_rpc", 0>>} ELSE {})
       /\ y.odd <=> vd.odd \/ <<op, id>> \notin v.open \ {<<"read", 0>>}
       /\ IsParser(y)
  BY <1>1, <1>20 DEF HeardIs, RpcIs, Fields
<1>25. <<op, id>> # <<"write", 0>> /\ <<op, id>> # <<"read", 0>>
  BY DEF Pdus
<1>26. ASSUME ~z.odd, id \notin z.calls, op = "call" => z.bound PROVE ~y.odd
  <2>1. ~Zeek!Misplaced(z, a)
    BY <1>1, <1>2 DEF Zeek!Misplaced, AtPipe
  <2>2. ~w.odd
    BY <1>1, <1>11, <1>21, <1>26, <2>1 DEF HeardIs
  <2>3. ~Zeek!Misplaced(w, b) /\ <<"write", 0>> \in w.open
    BY <1>1, <1>2, <1>21 DEF Zeek!Misplaced, AtPipe
  <2>4. ~x.odd
    BY <1>1, <1>14, <1>22, <2>2, <2>3 DEF HeardIs
  <2>5. ~Zeek!Misplaced(x, c)
    BY <1>1, <1>2, <1>21, <1>22 DEF Zeek!Misplaced, AtPipe
  <2>6. ~v.odd
    BY <1>1, <1>17, <1>23, <2>4, <2>5 DEF HeardIs
  <2>7. ~Zeek!Misplaced(v, d) /\ <<"read", 0>> \in v.open
    BY <1>1, <1>2, <1>21, <1>22, <1>23 DEF Zeek!Misplaced, AtPipe
  <2>8. ~vd.odd
    BY <1>1, <1>20, <2>6, <2>7 DEF HeardIs
  <2>9. <<op, id>> \in v.open \ {<<"read", 0>>}
    BY <1>21, <1>22, <1>23, <1>25
  <2> QED BY <1>24, <2>8, <2>9
<1>27. AtPipe(y)
  BY <1>21, <1>22, <1>23, <1>24 DEF AtPipe
<1>28. RpcDoes(z, op, id, y)
  BY <1>21, <1>22, <1>23, <1>24, <1>26 DEF RpcDoes
<1> QED BY <1>27, <1>28

\* After the bind and the calls up to number n.
Direct == "ncacn_ip_tcp"
InCall(transport, z, n) ==
  /\ IsParser(z) /\ ~z.odd /\ z.calls \subseteq 1..n /\ z.bound = TRUE
  /\ z.services = (IF transport = Direct THEN {"dce_rpc"} ELSE {"smb", "dce_rpc"})
  /\ transport # Direct => AtPipe(z)
CallLogged(z) == <<"dce_rpc", 0>> \in z.logs
CallOf(transport, i, q) == IF transport = Direct THEN Exchange("call", CallId(i), q, 0)
                           ELSE Piped("call", CallId(i))

LEMMA CallMade ==
  ASSUME NEW transport, NEW i \in Nat, NEW z, InCall(transport, z, i), NEW q,
         NEW y, Runs("dcerpc", z, CallOf(transport, i, q), y)
  PROVE  InCall(transport, y, i + 1) /\ CallLogged(y)
<1> DEFINE op == "call"
           id == CallId(i)
<1>1. op \in Pdus /\ op = "call" /\ IsParser(z)
  BY DEF Pdus, InCall
<1>2. id \notin z.calls /\ z.calls \cup {id} \subseteq 1..(i + 1)
  BY DEF InCall, CallId
<1> HIDE DEF op, id
<1>3. RpcDoes(z, op, id, y) /\ (transport # Direct => AtPipe(y))
  <2>1. CASE transport = Direct
    <3>1. Runs("dcerpc", z, Exchange(op, id, q, 0), y)
      BY <2>1 DEF CallOf, op, id
    <3> QED BY <1>1, <2>1, <3>1, DirectCall
  <2>2. CASE transport # Direct
    <3>1. Runs("dcerpc", z, Piped(op, id), y) /\ AtPipe(z)
      BY <2>2 DEF CallOf, op, id, InCall
    <3> QED BY <1>1, <2>2, <3>1, PipedCall
  <2> QED BY <2>1, <2>2
<1> QED BY <1>1, <1>2, <1>3 DEF RpcDoes, InCall, CallLogged

CallsUpTo(transport, z, n) == InCall(transport, z, n + 1) /\ (n > 0 => CallLogged(z))

LEMMA CallsMade ==
  ASSUME NEW transport, NEW S, NEW ss \in Seq(Seq(S)), Len(ss) > 0, NEW ops,
         \A i \in 1..Len(ss) : ss[i] = CallOf(transport, i, ops[i]),
         NEW z, InCall(transport, z, 1), NEW y, Runs("dcerpc", z, FlattenSeq(ss), y)
  PROVE  InCall(transport, y, Len(ss) + 1) /\ CallLogged(y)
<1> DEFINE N == Len(ss)
<1>1. N \in Nat /\ N > 0
  BY SeqOfSeqs
<1>2. PICK x : Stops("dcerpc", z, ss, N, y, x)
  BY Milestones
<1> DEFINE G == {n \in Nat : n \in 0..N => CallsUpTo(transport, x[n], n)}
<1>3. \A i \in 1..N : ss[i] = CallOf(transport, i, ops[i])
  OBVIOUS
<1> HIDE DEF N
<1>4. 0 \in G
  <2>1. x[0] = z /\ 0 + 1 = 1 /\ ~(0 > 0)
    BY <1>2 DEF Stops
  <2>2. CallsUpTo(transport, x[0], 0)
    BY <2>1 DEF CallsUpTo
  <2> QED BY <2>2
<1>5. ASSUME NEW n \in Nat, n \in G PROVE n + 1 \in G
  <2>1. SUFFICES ASSUME n + 1 \in 0..N PROVE CallsUpTo(transport, x[n + 1], n + 1)
    OBVIOUS
  <2>2. n \in 0..N /\ n + 1 \in 1..N /\ (n + 1) - 1 = n /\ n + 1 \in Nat
    BY <1>1, <2>1
  <2>3. InCall(transport, x[n], n + 1)
    BY <1>5, <2>2 DEF CallsUpTo
  <2>4. Runs("dcerpc", x[n], ss[n + 1], x[n + 1])
    BY <1>2, <2>2 DEF Stops
  <2>5. ss[n + 1] = CallOf(transport, n + 1, ops[n + 1])
    BY <1>3, <2>2
  <2> DEFINE i == n + 1
             q == ops[i]
  <2>6. /\ i \in Nat /\ InCall(transport, x[n], i)
        /\ Runs("dcerpc", x[n], CallOf(transport, i, q), x[i])
    BY <2>2, <2>3, <2>4, <2>5
  <2> HIDE DEF i, q
  <2>7. InCall(transport, x[i], i + 1) /\ CallLogged(x[i])
    BY <2>6, CallMade
  <2> QED BY <2>7 DEF i, CallsUpTo
<1> HIDE DEF G
<1>6. N \in G
  BY <1>1, <1>4, <1>5, NatSteps
<1>7. CallsUpTo(transport, x[N], N)
  BY <1>1, <1>6 DEF G
<1>8. x[N] = y
  BY <1>2 DEF Stops
<1> QED BY <1>1, <1>7, <1>8 DEF CallsUpTo, N

CallsLeft(transport, z) ==
  /\ ~z.odd /\ CallLogged(z)
  /\ z.services = (IF transport = Direct THEN {"dce_rpc"} ELSE {"smb", "dce_rpc"})

LEMMA FreshQuiet == Zeek!Fresh.calls = {} /\ ~Zeek!Fresh.bound
<1> QED BY DEF Zeek!Fresh

\* The bind, directly.
LEMMA BoundDirectly ==
  ASSUME NEW w, Runs("dcerpc", Zeek!Fresh, Exchange("rpc_bind", 1, 0, 0), w)
  PROVE  InCall(Direct, w, 1)
<1> DEFINE op == "rpc_bind"
           z == Zeek!Fresh
           n == 0
<1>1. op \in Pdus /\ op # "call" /\ Runs("dcerpc", z, Exchange(op, 1, n, n), w)
  BY DEF Pdus
<1>2. IsParser(z) /\ ~z.odd /\ z.calls = {} /\ z.services = {}
  BY FreshIs, FreshQuiet
<1> HIDE DEF op, z, n
<1>3. RpcDoes(z, op, 1, w)
  BY <1>1, <1>2, DirectCall
<1>4. IsParser(w) /\ ~w.odd /\ w.calls = {1} /\ w.bound = TRUE /\ w.services = {"dce_rpc"}
  BY <1>1, <1>2, <1>3 DEF RpcDoes
<1> QED BY <1>4 DEF InCall

\* A pipe is opened and bound.
LEMMA BoundByPipe ==
  ASSUME NEW transport, transport # Direct,
         NEW w, Runs("dcerpc", Zeek!Fresh,
                     SetUp(None) \o Tree(0, TRUE) \o Open(0, HandleOf("read"), 0) \o Piped("rpc_bind", 1), w)
  PROVE  InCall(transport, w, 1)
<1> DEFINE op == "rpc_bind"
           pipe == TRUE
           kind == "dcerpc"
           create == "create"
           i == <<Sid, 0, 0>>
           j == <<Sid, 0, 33>>
           n == 0
           a == SetUp(None)
           b == Tree(n, pipe)
           c == <<Request(create, i, n), Reply(create, j, n)>>
           d == Piped(op, 1)
<1>1. /\ op \in Pdus /\ op # "call" /\ kind \in {"smb", "dcerpc"} /\ kind = "dcerpc"
      /\ ToServer(kind, create) /\ create = "create" /\ create \notin {"session", "tree", "close", "negotiate", "read", "write"}
  BY DEF Pdus, ToServer, Zeek!SmbOps
<1>2. Runs(kind, Zeek!Fresh, a \o b \o c \o d, w)
  BY DEF Open, HandleOf
<1>3. IsSeq(a) /\ IsSeq(b) /\ IsSeq(d)
  BY SaidBySmb, SaidPiped DEF Said
<1>4. IsSeq(c)
  BY PairIsSeq
<1>5. i[1] = Sid /\ i[2] = 0 /\ j[1] = Sid /\ j[2] = 0 /\ j[3] = 33 /\ n = 0
  OBVIOUS
<1>6. /\ a = SetUp(None) /\ b = Tree(n, pipe) /\ d = Piped(op, 1)
      /\ c = <<Request(create, i, n), Reply(create, j, n)>>
  OBVIOUS
<1> HIDE DEF op, kind, create, i, j, n, a, b, c, d, pipe
<1>7. IsSeq(a \o b) /\ IsSeq(a \o b \o c)
  BY <1>3, <1>4, Joined
<1>8. PICK x : Runs(kind, Zeek!Fresh, a \o b \o c, x) /\ Runs(kind, x, d, w)
  BY <1>2, <1>3, <1>7, RunsJoined
<1>9. PICK u : Runs(kind, Zeek!Fresh, a \o b, u) /\ Runs(kind, u, c, x)
  BY <1>4, <1>7, <1>8, RunsJoined
<1>10. PICK v : Runs(kind, Zeek!Fresh, a, v) /\ Runs(kind, v, b, u)
  BY <1>3, <1>9, RunsJoined
<1>11. Placed(v, Sid, 0, {}, {"smb"})
  BY <1>1, <1>6, <1>10, SetUpRead
<1>12. Placed(u, Sid, n, {}, {"smb"})
  BY <1>1, <1>6, <1>10, <1>11, TreeRead
<1>13. PairDoes(u, create, i, n, j, n, x)
  BY <1>1, <1>6, <1>9, <1>12, SmbPair DEF Placed
<1>14. IsParser(x) /\ ~x.odd /\ AtPipe(x) /\ x.calls = {} /\ x.services = {"smb"}
  BY <1>1, <1>5, <1>12, <1>13 DEF PairDoes, Placed, AtPipe
<1>15. RpcDoes(x, op, 1, w) /\ AtPipe(w)
  BY <1>1, <1>6, <1>8, <1>14, PipedCall
<1>16. IsParser(w) /\ ~w.odd /\ w.calls = {1} /\ w.bound = TRUE /\ w.services = {"smb", "dce_rpc"}
  BY <1>1, <1>14, <1>15 DEF RpcDoes
<1> QED BY <1>15, <1>16 DEF InCall

\* The pipe is closed after the calls.
LEMMA ClosedAfter ==
  ASSUME NEW transport, transport # Direct, NEW n, NEW z, InCall(transport, z, n), CallLogged(z),
         NEW y, Runs("dcerpc", z, Close(0, HandleOf("read")), y)
  PROVE  CallsLeft(transport, y)
<1> DEFINE close == "close"
           kind == "dcerpc"
           i == <<Sid, 0, 33>>
           j == <<Sid, 0, 0>>
           k == 0
<1>1. ToServer(kind, close) /\ kind = "dcerpc" /\ close = "close"
  BY DEF ToServer, Zeek!SmbOps
<1>2. Runs(kind, z, <<Request(close, i, k), Reply(close, j, k)>>, y)
  BY DEF Close, HandleOf
<1>3. i[1] = Sid /\ i[2] = 0 /\ i[3] = 33 /\ j[1] = Sid /\ j[2] = 0
  OBVIOUS
<1> HIDE DEF close, kind, i, j, k
<1>4. IsParser(z) /\ ~z.odd /\ AtPipe(z) /\ z.services = {"smb", "dce_rpc"}
  BY DEF InCall
<1>5. PairDoes(z, close, i, k, j, k, y)
  BY <1>1, <1>2, <1>4, SmbPair
<1>6. ~y.odd /\ z.logs \subseteq y.logs /\ y.services = {"smb", "dce_rpc"}
  BY <1>1, <1>3, <1>4, <1>5 DEF PairDoes, AtPipe
<1> QED BY <1>6 DEF CallsLeft, CallLogged

LEMMA CallsRead ==
  ASSUME NEW s, IsSeq(s.operations), s.operations # <<>>,
         NEW z, Runs("dcerpc", Zeek!Fresh, render_dcerpc(s), z)
  PROVE  CallsLeft(s.transport, z)
<1> DEFINE N == Len(s.operations)
           ops == s.operations
           tr == s.transport
           ss == [i \in 1..N |-> IF tr = Direct THEN Exchange("call", CallId(i), ops[i], 0)
                                 ELSE Piped("call", CallId(i))]
           calls == FlattenSeq(ss)
           kind == "dcerpc"
<1>1. N \in Nat /\ N > 0
  <2>1. N \in Nat /\ ops \in Seq({ops[i] : i \in DOMAIN ops})
    BY SeqHas DEF IsSeq
  <2>2. N # 0
    BY <2>1, EmptySeq
  <2> QED BY <2>1, <2>2
<1>2. \A i \in 1..N : ss[i] = CallOf(tr, i, ops[i])
  BY DEF CallOf
<1>3. ss = [i \in 1..N |-> ss[i]]
  OBVIOUS
<1>4. kind = "dcerpc" /\ Runs(kind, Zeek!Fresh, render_dcerpc(s), z)
  OBVIOUS
<1>5. tr = Direct => render_dcerpc(s) = Exchange("rpc_bind", 1, 0, 0) \o calls
  BY DEF render_dcerpc, Times, Direct
<1>6. tr # Direct => render_dcerpc(s) = SetUp(None) \o Tree(0, TRUE) \o Open(0, HandleOf("read"), 0)
                                        \o Piped("rpc_bind", 1) \o calls \o Close(0, HandleOf("read"))
  BY DEF render_dcerpc, Times, Direct
<1> DEFINE T == Within(ss)
<1>7. ss \in Seq(Seq(T)) /\ Len(ss) = N
  <2>1. \A i \in 1..N : IsSeq(ss[i])
    <3> DEFINE call == "call"
    <3>1. kind \notin {"smb", "http"} /\ call # "create" /\ kind = "dcerpc"
      OBVIOUS
    <3> HIDE DEF call
    <3>2. \A id, q, k : IsSeq(Exchange(call, id, q, k)) /\ IsSeq(Piped(call, id))
      BY <3>1, SaidExchange, SaidPiped DEF Said
    <3>3. \A id, q : IsSeq(Exchange("call", id, q, 0)) /\ IsSeq(Piped("call", id))
      BY <3>2 DEF call
    <3> QED BY <1>2, <3>3 DEF CallOf
  <2> HIDE DEF ss
  <2>2. IsBlocks(ss, N)
    BY <1>3, <2>1 DEF IsBlocks
  <2> QED BY <1>1, <2>2, BlocksAre
<1> HIDE DEF ss, T, N
<1>8. IsSeq(calls)
  BY <1>7, FlattenIn, AnySeq
<1>9. ASSUME NEW w, InCall(tr, w, 1), NEW y, Runs(kind, w, calls, y)
      PROVE  InCall(tr, y, N + 1) /\ CallLogged(y)
  BY <1>1, <1>2, <1>4, <1>7, <1>9, CallsMade
<1> HIDE DEF calls, tr, kind
<1>10. CASE tr = Direct
  <2> DEFINE b == Exchange("rpc_bind", 1, 0, 0)
  <2>1. IsSeq(b)
    BY PairIsSeq DEF Exchange
  <2>2. b = Exchange("rpc_bind", 1, 0, 0) /\ render_dcerpc(s) = b \o calls
    BY <1>5, <1>10
  <2> HIDE DEF b
  <2>3. PICK w : Runs(kind, Zeek!Fresh, b, w) /\ Runs(kind, w, calls, z)
    BY <1>4, <1>8, <2>1, <2>2, RunsJoined
  <2>4. InCall(tr, w, 1)
    BY <1>4, <1>10, <2>2, <2>3, BoundDirectly
  <2>5. InCall(tr, z, N + 1) /\ CallLogged(z)
    BY <1>9, <2>3, <2>4
  <2>6. CallsLeft(tr, z)
    BY <2>5 DEF CallsLeft, InCall
  <2> QED BY <2>6 DEF tr
<1>11. CASE tr # Direct
  <2> DEFINE a == SetUp(None)
             b == Tree(0, TRUE)
             c == Open(0, HandleOf("read"), 0)
             d == Piped("rpc_bind", 1)
             e == Close(0, HandleOf("read"))
  <2>1. IsSeq(a) /\ IsSeq(b) /\ IsSeq(c) /\ IsSeq(d) /\ IsSeq(e)
    BY SaidBySmb, SaidPiped, PairIsSeq DEF Said, Open, Close, Tree
  <2>2. /\ render_dcerpc(s) = a \o b \o c \o d \o calls \o e
        /\ a \o b \o c \o d = SetUp(None) \o Tree(0, TRUE) \o Open(0, HandleOf("read"), 0)
                              \o Piped("rpc_bind", 1)
        /\ e = Close(0, HandleOf("read"))
    BY <1>6, <1>11
  <2> HIDE DEF a, b, c, d, e
  <2>3. IsSeq(a \o b)
    BY <2>1, Joined
  <2>4. IsSeq(a \o b \o c)
    BY <2>1, <2>3, Joined
  <2> DEFINE p == a \o b \o c \o d
  <2>5. IsSeq(p)
    BY <2>1, <2>4, Joined
  <2> HIDE DEF p
  <2>6. IsSeq(p \o calls) /\ render_dcerpc(s) = p \o calls \o e
    BY <1>8, <2>2, <2>5, Joined DEF p
  <2>7. PICK y : Runs(kind, Zeek!Fresh, p \o calls, y) /\ Runs(kind, y, e, z)
    BY <1>4, <2>1, <2>6, RunsJoined
  <2>8. PICK w : Runs(kind, Zeek!Fresh, p, w) /\ Runs(kind, w, calls, y)
    BY <1>8, <2>5, <2>7, RunsJoined
  <2>9. InCall(tr, w, 1)
    BY <1>4, <1>11, <2>2, <2>8, BoundByPipe DEF p
  <2>10. InCall(tr, y, N + 1) /\ CallLogged(y)
    BY <1>9, <2>8, <2>9
  <2>11. CallsLeft(tr, z)
    BY <1>4, <1>11, <2>2, <2>7, <2>10, ClosedAfter
  <2> QED BY <2>11 DEF tr
<1> QED BY <1>10, <1>11

-----------------------------------------------------------------------------
(* The verdict: what is read is compared with what was asked for.          *)

\* The script as it is put on the wire.
Told(f) == IF Delivers(f) THEN Script(f) ELSE <<>>

\* What the gate asks of a flow's capture.
Asks(f, services, row, logs) == ServiceOf(f) = services /\ RowOf(f) = row /\ Produces(f) = logs

LEMMA Satisfied ==
  ASSUME NEW f, NEW z, NEW services, NEW row, NEW logs, NEW known, NEW rows, ConnFound(f),
         Asks(f, services, row, logs), Outcome(z, known, rows),
         services # {} => known = services, row # <<>> => row \in rows,
         \A x \in logs : \E r \in rows : r[1] = x
  PROVE  Passes(f, z)
<1>1. ~z.odd /\ z.services = known /\ rows \subseteq z.logs
  BY DEF Outcome
<1>2. Produces(f) \subseteq {r[1] : r \in z.logs}
  BY <1>1 DEF Asks
<1> QED BY <1>1, <1>2 DEF Passes, Asks

Judged(f, z) == Passes(f, z) <=> Sayable(f)

\* The kinds whose every delivered flow can be said.
Willing == {"smtp", "pop3", "imap", "ftp", "ldap", "kerberos", "radius", "sip", "dhcp", "tls", "ssh",
            "irc", "smb", "dcerpc", "opaque_tcp"}

LEMMA WillingSayable ==
  ASSUME NEW f, f.kind \in Willing, Delivers(f)
  PROVE  Sayable(f) /\ ConnFound(f)
<1>1. Sayable(f)
  BY DEF Sayable, Willing
<1>2. ConnFound(f)
  BY DEF ConnFound, Willing
<1> QED BY <1>1, <1>2

\* What the gate asks, kind by kind.
LEMMA MailAsks ==
  ASSUME NEW f
  PROVE  /\ f.kind = "smtp" => Asks(f, {"smtp"}, <<"smtp", [rcptto |-> ToSet(Loaded(f).rcpt_to)]>>, {})
         /\ f.kind \in {"pop3", "imap", "ftp"} => Asks(f, {f.kind}, <<>>, {})
<1>1. f.kind = "smtp" => Asks(f, {"smtp"}, <<"smtp", [rcptto |-> ToSet(Loaded(f).rcpt_to)]>>, {})
  BY DEF Asks, ServiceOf, RowOf, Produces
<1>2. f.kind \in {"pop3", "imap", "ftp"} => Asks(f, {f.kind}, <<>>, {})
  BY DEF Asks, ServiceOf, RowOf, Produces
<1> QED BY <1>1, <1>2

LEMMA NumberedAsk ==
  ASSUME NEW f
  PROVE  /\ f.kind = "modbus" => Asks(f, {"modbus"}, <<>>, {"modbus"})
         /\ f.kind \in {"ntp", "snmp", "ldap", "radius", "sip", "dhcp", "irc"}
              => Asks(f, {}, <<>>, {f.kind})
         /\ f.kind \in {"icmp", "opaque_tcp", "opaque_udp"} => Asks(f, {}, <<>>, {})
         /\ f.kind = "kerberos" => Asks(f, {"krb_tcp"}, <<>>, {"kerberos"})
         /\ f.kind = "ssh" => Asks(f, {"ssh"}, <<>>, {"ssh"})
<1>1. f.kind = "modbus" => Asks(f, {"modbus"}, <<>>, {"modbus"})
  BY DEF Asks, ServiceOf, RowOf, Produces
<1>2. f.kind \in {"ntp", "snmp", "ldap", "radius", "sip", "dhcp", "irc"} => Asks(f, {}, <<>>, {f.kind})
  BY DEF Asks, ServiceOf, RowOf, Produces
<1>3. f.kind \in {"icmp", "opaque_tcp", "opaque_udp"} => Asks(f, {}, <<>>, {})
  BY DEF Asks, ServiceOf, RowOf, Produces
<1>4. f.kind = "kerberos" => Asks(f, {"krb_tcp"}, <<>>, {"kerberos"})
  BY DEF Asks, ServiceOf, RowOf, Produces
<1>5. f.kind = "ssh" => Asks(f, {"ssh"}, <<>>, {"ssh"})
  BY DEF Asks, ServiceOf, RowOf, Produces
<1> QED BY <1>1, <1>2, <1>3, <1>4, <1>5

LEMMA OthersAsk ==
  ASSUME NEW f
  PROVE  /\ f.kind = "dns" => Asks(f, {"dns"}, DnsRow(Loaded(f), Loaded(f).rcode), {})
         /\ f.kind = "namequery" => Asks(f, {}, <<>>, {"dns"})
         /\ f.kind = "http" => Asks(f, {"http"}, <<"http", [status |-> Loaded(f).status,
                                                         body |-> Response(Loaded(f)).sent]>>, {})
         /\ f.kind = "tls" => Asks(f, {"ssl"}, <<"ssl", [version |-> Loaded(f).version,
                                                        next |-> NextProtocol(Loaded(f))]>>, {})
         /\ f.kind = "smb" => Asks(f, {"smb"}, <<>>, {"smb_mapping"})
         /\ f.kind = "dcerpc" => Asks(f, IF Loaded(f).transport = Direct THEN {"dce_rpc"}
                                         ELSE {"smb", "dce_rpc"}, <<>>, {"dce_rpc"})
<1>1. f.kind = "dns" => Asks(f, {"dns"}, DnsRow(Loaded(f), Loaded(f).rcode), {})
  BY DEF Asks, ServiceOf, RowOf, Produces, DnsRow
<1>2. f.kind = "namequery" => Asks(f, {}, <<>>, {"dns"})
  BY DEF Asks, ServiceOf, RowOf, Produces
<1>3. f.kind = "http" => Asks(f, {"http"}, <<"http", [status |-> Loaded(f).status,
                                                         body |-> Response(Loaded(f)).sent]>>, {})
  BY DEF Asks, ServiceOf, RowOf, Produces
<1>4. f.kind = "tls" => Asks(f, {"ssl"}, <<"ssl", [version |-> Loaded(f).version,
                                                        next |-> NextProtocol(Loaded(f))]>>, {})
  BY DEF Asks, ServiceOf, RowOf, Produces
<1>5. f.kind = "smb" => Asks(f, {"smb"}, <<>>, {"smb_mapping"})
  BY DEF Asks, ServiceOf, RowOf, Produces
<1>6. f.kind = "dcerpc" => Asks(f, IF Loaded(f).transport = Direct THEN {"dce_rpc"}
                                         ELSE {"smb", "dce_rpc"}, <<>>, {"dce_rpc"})
  BY DEF Asks, ServiceOf, RowOf, Produces, Direct
<1> QED BY <1>1, <1>2, <1>3, <1>4, <1>5, <1>6

\* Refused or unanswered, a connection says nothing.
LEMMA SilentJudged ==
  ASSUME NEW f, IsFlow(f), ~Delivers(f), NEW z, Runs(f.kind, Zeek!Fresh, <<>>, z)
  PROVE  Judged(f, z)
<1>1. ~z.odd /\ z.services = {} /\ z.logs = {}
  <2>1. Same(f.kind, z, Zeek!Fresh)
    BY RunsNone
  <2> QED BY <2>1, SameFields, FreshIs
<1>2. f.kind \in {"http", "tls", "smtp", "opaque_tcp", "ssh", "ftp", "modbus", "ldap", "smb",
                  "dcerpc", "kerberos", "pop3", "imap", "irc"}
  <2>1. f.kind \in {"dns", "http", "tls", "smtp", "icmp", "opaque_tcp", "opaque_udp", "dhcp", "ntp",
                    "ssh", "ftp", "snmp", "modbus", "radius", "ldap", "smb", "dcerpc", "namequery",
                    "kerberos", "pop3", "imap", "irc", "sip"}
    BY DEF IsFlow, L7Spec
  <2>2. f.kind \notin {"dns", "icmp", "opaque_udp", "dhcp", "ntp", "snmp", "radius", "namequery", "sip"}
    <3>1. Transports(f.kind) = {"tcp"}
      BY DEF Delivers
    <3>2. "udp" # "tcp" /\ "icmp" # "tcp"
      OBVIOUS
    <3> QED BY <3>1, <3>2, SMTT(40) DEF Transports
  <2> QED BY <2>1, <2>2
<1>3. CASE f.kind = "opaque_tcp"
  <2>1. Sayable(f)
    BY <1>3 DEF Sayable
  <2>2. ConnFound(f)
    BY <1>3 DEF ConnFound
  <2>3. Asks(f, {}, <<>>, {})
    BY <1>3, NumberedAsk
  <2>4. Passes(f, z)
    BY <1>1, <2>2, <2>3 DEF Passes, Asks
  <2> QED BY <2>1, <2>4 DEF Judged
<1>4. CASE f.kind # "opaque_tcp"
  <2>1. ~Sayable(f)
    BY <1>4 DEF Sayable
  <2>2. ServiceOf(f) # {} \/ Produces(f) # {}
    BY <1>2, <1>4 DEF ServiceOf, Produces
  <2>3. Produces(f) # {} => ~(Produces(f) \subseteq {r[1] : r \in z.logs})
    BY <1>1
  <2>4. ~Passes(f, z)
    BY <1>1, <2>2, <2>3 DEF Passes
  <2> QED BY <2>1, <2>4 DEF Judged
<1> QED BY <1>3, <1>4

\* A delivered flow of one of these kinds, and what is read of it.
Heeded(f, z) == IsFlow(f) /\ ~Raises(f) /\ Delivers(f) /\ Runs(f.kind, Zeek!Fresh, Script(f), z)

LEMMA WillingJudged ==
  ASSUME NEW f, f.kind \in Willing, Delivers(f), NEW z, NEW services, NEW row, NEW logs, NEW known,
         NEW rows, Asks(f, services, row, logs), Outcome(z, known, rows),
         services # {} => known = services, row # <<>> => row \in rows,
         \A x \in logs : \E r \in rows : r[1] = x
  PROVE  Judged(f, z)
<1>1. Sayable(f) /\ ConnFound(f)
  BY WillingSayable
<1>2. Passes(f, z)
  BY <1>1, Satisfied
<1> QED BY <1>1, <1>2 DEF Judged

LEMMA MailJudged ==
  ASSUME NEW f, f.kind \in {"smtp", "pop3", "imap", "ftp"}, NEW z, Heeded(f, z)
  PROVE  Judged(f, z)
<1> DEFINE s == Loaded(f)
           k == f.kind
<1>1. Typical(f) /\ k \in Willing /\ Delivers(f) /\ Runs(k, Zeek!Fresh, Script(f), z)
  BY FlowIsTypical DEF Willing, Heeded
<1>2. CASE k = "smtp"
  <2> DEFINE r == <<"smtp", [rcptto |-> ToSet(s.rcpt_to)]>>
  <2>1. Leads("smtp", render_smtp(s), TRUE, ToSet(s.rcpt_to), {r})
    BY <1>1, <1>2, MailRead DEF Typical
  <2>2. Script(f) = render_smtp(s)
    BY <1>2 DEF Script
  <2>3. Asks(f, {"smtp"}, r, {})
    BY <1>2, MailAsks
  <2> HIDE DEF r
  <2>4. Sound("smtp", z, TRUE, ToSet(s.rcpt_to), {r})
    BY <1>1, <1>2, <2>1, <2>2 DEF Leads
  <2>5. Outcome(z, {"smtp"}, {r})
    BY <2>4 DEF Sound, Outcome
  <2> QED BY <1>1, <2>3, <2>5, WillingJudged
<1>3. CASE k \in {"pop3", "imap", "ftp"}
  <2>1. Leads(k, Script(f), TRUE, {}, {})
    <3>1. CASE k = "pop3"
      BY <3>1, MailboxesRead DEF Script
    <3>2. CASE k = "imap"
      BY <3>2, MailboxesRead DEF Script
    <3>3. CASE k = "ftp"
      <4>1. Leads("ftp", render_ftp(s, f.v6), TRUE, {}, {})
        BY <1>1, <3>3, TransferRead DEF Typical
      <4> QED BY <3>3, <4>1 DEF Script
    <3> QED BY <1>3, <3>1, <3>2, <3>3
  <2>2. Asks(f, {k}, <<>>, {})
    BY <1>3, MailAsks
  <2>3. Sound(k, z, TRUE, {}, {})
    BY <1>1, <2>1 DEF Leads
  <2>4. Outcome(z, {k}, {})
    BY <2>3 DEF Sound, Outcome
  <2> QED BY <1>1, <2>2, <2>4, WillingJudged
<1> QED BY <1>2, <1>3

LEMMA TicketsJudged ==
  ASSUME NEW f, f.kind \in {"ldap", "kerberos", "radius", "sip", "dhcp", "ssh", "irc"},
         NEW z, Heeded(f, z)
  PROVE  Judged(f, z)
<1> DEFINE s == Loaded(f)
           k == f.kind
           service == CASE k = "kerberos" -> {"krb_tcp"} [] k = "ssh" -> {"ssh"} [] OTHER -> {}
           rows == {<<k, 0>>}
<1>1. Typical(f) /\ k \in Willing /\ Delivers(f) /\ Runs(k, Zeek!Fresh, Script(f), z)
  BY FlowIsTypical DEF Willing, Heeded
<1>2. Asks(f, service, <<>>, {k})
  BY NumberedAsk
<1>3. Outcome(z, service, rows)
  <2>1. CASE k = "ldap"
    <3>1. IsSeq(s.searches) /\ Script(f) = render_ldap(s)
      BY <1>1, <2>1 DEF Typical, Script
    <3>2. Outcome(z, {}, {<<"ldap", 0>>})
      BY <1>1, <2>1, <3>1, DirectoryRead
    <3> QED BY <2>1, <3>2
  <2>2. CASE k = "kerberos"
    <3>1. s.request_type \in {"AS", "TGS"} /\ Script(f) = render_kerberos(s)
      BY <2>2 DEF Heeded, IsFlow, Literals, Script
    <3>2. Outcome(z, {"krb_tcp"}, {<<"kerberos", 0>>})
      BY <1>1, <2>2, <3>1, TicketsRead
    <3> QED BY <2>2, <3>2
  <2>3. CASE k = "radius"
    <3>1. Script(f) = render_radius(s)
      BY <2>3 DEF Script
    <3>2. Outcome(z, {}, {<<"radius", 0>>})
      BY <1>1, <2>3, <3>1, TicketsRead
    <3> QED BY <2>3, <3>2
  <2>4. CASE k = "sip"
    <3>1. s.method \in {"REGISTER", "INVITE", "OPTIONS"} /\ Script(f) = render_sip(s)
      BY <2>4 DEF Heeded, IsFlow, Literals, Script
    <3>2. Outcome(z, {}, {<<"sip", 0>>})
      BY <1>1, <2>4, <3>1, TicketsRead
    <3> QED BY <2>4, <3>2
  <2>5. CASE k = "dhcp"
    <3>1. Script(f) = render_dhcp
      BY <2>5 DEF Script
    <3>2. Outcome(z, {}, {<<"dhcp", 0>>})
      BY <1>1, <2>5, <3>1, LeaseRead
    <3> QED BY <2>5, <3>2
  <2>6. CASE k = "ssh"
    <3>1. Script(f) = render_ssh(s)
      BY <2>6 DEF Script
    <3>2. Outcome(z, {"ssh"}, {<<"ssh", 0>>})
      BY <1>1, <2>6, <3>1, ChannelsRead
    <3> QED BY <2>6, <3>2
  <2>7. CASE k = "irc"
    <3>1. Script(f) = render_irc
      BY <2>7 DEF Script
    <3>2. Outcome(z, {}, {<<"irc", 0>>})
      BY <1>1, <2>7, <3>1, ChannelsRead
    <3> QED BY <2>7, <3>2
  <2> QED BY <2>1, <2>2, <2>3, <2>4, <2>5, <2>6, <2>7
<1> HIDE DEF service
<1>4. \A x \in {k} : \E r \in rows : r[1] = x
  OBVIOUS
<1> HIDE DEF rows
<1> DEFINE none == <<>>
<1>5. Asks(f, service, none, {k}) /\ none = <<>>
  BY <1>2
<1> HIDE DEF none
<1> QED BY <1>1, <1>3, <1>4, <1>5, WillingJudged

LEMMA ChannelsJudged ==
  ASSUME NEW f, f.kind \in {"tls", "opaque_tcp", "smb", "dcerpc"}, NEW z, Heeded(f, z)
  PROVE  Judged(f, z)
<1> DEFINE s == Loaded(f)
           k == f.kind
<1>1. /\ Typical(f) /\ k \in Willing /\ Delivers(f) /\ IsFlow(f) /\ ~Raises(f)
      /\ Runs(k, Zeek!Fresh, Script(f), z)
  BY FlowIsTypical DEF Willing, Heeded
<1>2. CASE k = "tls"
  <2> DEFINE r == <<"ssl", [version |-> s.version, next |-> NextProtocol(s)]>>
  <2>1. Script(f) = render_tls(s)
    BY <1>2 DEF Script
  <2>2. Outcome(z, {"ssl"}, {r})
    BY <1>1, <1>2, <2>1, ChannelsRead
  <2>3. Asks(f, {"ssl"}, r, {})
    BY <1>2, OthersAsk
  <2> HIDE DEF r
  <2> QED BY <1>1, <2>2, <2>3, WillingJudged
<1>3. CASE k = "opaque_tcp"
  <2> DEFINE none == <<>>
             script == render_opaque_tcp(s)
  <2>1. Script(f) = script
    BY <1>3 DEF Script
  <2>2. IsSeq(script)
    BY <1>1, <1>3, <2>1, ScriptSaid DEF Said
  <2> HIDE DEF script
  <2>3. Outcome(z, {}, {})
    BY <1>1, <1>3, <2>1, <2>2, OpaqueRead
  <2>4. Asks(f, {}, none, {}) /\ none = <<>>
    BY <1>3, NumberedAsk
  <2> HIDE DEF none
  <2> QED BY <1>1, <2>3, <2>4, WillingJudged
<1>4. CASE k = "smb"
  <2> DEFINE none == <<>>
             rows == {<<"smb_mapping", 0>>}
  <2>1. Script(f) = render_smb(s) /\ s.file_bytes \in Int
    BY <1>1, <1>4 DEF Script, Typical
  <2>2. SharesLeft(s, z)
    BY <1>1, <1>4, <2>1, SharesRead
  <2>3. Outcome(z, {"smb"}, rows)
    BY <2>2 DEF SharesLeft, Outcome
  <2>4. Asks(f, {"smb"}, none, {"smb_mapping"}) /\ none = <<>>
    BY <1>4, OthersAsk
  <2>5. \A x \in {"smb_mapping"} : \E r \in rows : r[1] = x
    OBVIOUS
  <2> HIDE DEF none, rows
  <2> QED BY <1>1, <2>3, <2>4, <2>5, WillingJudged
<1>5. CASE k = "dcerpc"
  <2> DEFINE none == <<>>
             rows == {<<"dce_rpc", 0>>}
             service == IF s.transport = Direct THEN {"dce_rpc"} ELSE {"smb", "dce_rpc"}
  <2>1. Script(f) = render_dcerpc(s) /\ IsSeq(s.operations) /\ s.operations # <<>>
    BY <1>1, <1>5 DEF Script, Typical, Raises
  <2>2. CallsLeft(s.transport, z)
    BY <1>1, <1>5, <2>1, CallsRead
  <2>3. Outcome(z, service, rows)
    BY <2>2 DEF CallsLeft, CallLogged, Outcome
  <2>4. Asks(f, service, none, {"dce_rpc"}) /\ none = <<>>
    BY <1>5, OthersAsk
  <2>5. \A x \in {"dce_rpc"} : \E r \in rows : r[1] = x
    OBVIOUS
  <2> HIDE DEF none, rows, service
  <2> QED BY <1>1, <2>3, <2>4, <2>5, WillingJudged
<1> QED BY <1>2, <1>3, <1>4, <1>5

\* A page passes unless it answers HEAD with a body.
LEMMA PageJudged ==
  ASSUME NEW f, f.kind = "http", NEW z, Heeded(f, z)
  PROVE  Judged(f, z)
<1> DEFINE s == Loaded(f)
           r == <<"http", [status |-> s.status, body |-> Response(s).sent]>>
<1>1. /\ s.response_body_len \in Int /\ s.response_body_b64 \in Nat \cup {None}
      /\ Delivers(f) /\ Runs("http", Zeek!Fresh, render_http(s), z)
  BY FlowIsTypical DEF Heeded, Typical, Script
<1>2. PageLeft(s, z) /\ Response(s).sent \in Nat
  BY <1>1, PageRead, SaidHttp
<1>3. Asks(f, {"http"}, r, {})
  BY OthersAsk
<1>4. ConnFound(f)
  BY DEF ConnFound
<1>5. Sayable(f) <=> s.method # "HEAD" \/ Response(s).sent = 0
  BY <1>1 DEF Sayable
<1>6. z.services = {"http"} /\ r \in z.logs /\ (z.odd <=> s.method = "HEAD" /\ Response(s).sent > 0)
  BY <1>2 DEF PageLeft
<1>7. Passes(f, z) <=> ~z.odd
  BY <1>3, <1>4, <1>6 DEF Passes, Asks
<1> QED BY <1>2, <1>5, <1>6, <1>7 DEF Judged

\* A name passes if it is answered over udp with a code that has a number.
LEMMA NameJudged ==
  ASSUME NEW f, f.kind = "dns", NEW z, Heeded(f, z)
  PROVE  Judged(f, z)
<1> DEFINE s == Loaded(f)
           r == DnsRow(s, s.rcode)
<1>1. Delivers(f) /\ Runs("dns", Zeek!Fresh, render_dns(s), z)
  BY DEF Heeded, Script
<1>2. /\ s.respond => ~z.odd /\ z.services = {"dns"} /\ z.logs = {DnsRow(s, RcodeOf(s))}
      /\ ~s.respond => Nothing(z)
  BY <1>1, NamesRead
<1>3. Asks(f, {"dns"}, r, {}) /\ r # <<>>
  BY OthersAsk DEF DnsRow
<1>4. ConnFound(f) <=> f.transport = "udp"
  BY DEF ConnFound
<1>5. Sayable(f) <=> f.transport = "udp" /\ s.respond /\ s.rcode \in Rcodes
  BY <1>1 DEF Sayable
<1>6. r = DnsRow(s, RcodeOf(s)) <=> s.rcode \in Rcodes
  <2>1. r = DnsRow(s, RcodeOf(s)) <=> s.rcode = RcodeOf(s)
    BY DEF DnsRow
  <2> QED BY <2>1 DEF RcodeOf, Rcodes
<1> HIDE DEF r
<1>7. CASE s.respond
  BY <1>2, <1>3, <1>4, <1>5, <1>6, <1>7 DEF Judged, Passes, Asks
<1>8. CASE ~s.respond
  <2>1. z.services # {"dns"}
    BY <1>2, <1>8 DEF Nothing
  <2> QED BY <1>3, <1>5, <1>8, <2>1 DEF Judged, Passes, Asks
<1> QED BY <1>7, <1>8

LEMMA QueryJudged ==
  ASSUME NEW f, f.kind = "namequery", NEW z, Heeded(f, z)
  PROVE  Judged(f, z)
<1> DEFINE s == Loaded(f)
           rows == {<<"dns", [rcode |-> None, answers |-> 0]>>}
<1>1. Delivers(f) /\ Runs("namequery", Zeek!Fresh, render_namequery(s), z)
  BY DEF Heeded, Script
<1>2. Outcome(z, {}, rows)
  BY <1>1, QueriesRead
<1>3. ConnFound(f) <=> f.dport = PortOf(s)
  BY DEF ConnFound
<1>4. Sayable(f) <=> f.dport = PortOf(s)
  BY <1>1 DEF Sayable
<1>5. Asks(f, {}, <<>>, {"dns"})
  BY OthersAsk
<1>6. \A x \in {"dns"} : \E r \in rows : r[1] = x
  OBVIOUS
<1> HIDE DEF rows
<1>7. {"dns"} \subseteq {r[1] : r \in z.logs}
  BY <1>2, <1>6 DEF Outcome
<1>8. Passes(f, z) <=> ConnFound(f)
  BY <1>2, <1>5, <1>7 DEF Passes, Asks, Outcome
<1> QED BY <1>3, <1>4, <1>8 DEF Judged

\* A repeated request passes if it is made at all.
LEMMA CountJudged ==
  ASSUME NEW f, f.kind \in Repeating, NEW z, Heeded(f, z)
  PROVE  Judged(f, z)
<1> DEFINE s == Loaded(f)
           k == f.kind
           script == Script(f)
           n == s.count
<1>1. Delivers(f) /\ Runs(k, Zeek!Fresh, script, z) /\ n \in Int
  BY FlowIsTypical DEF Heeded, Typical, Repeating
<1>2. script = ScriptOf(k, s)
  BY DEF Script, ScriptOf, Repeating
<1> HIDE DEF script
<1>3. Repeated(k, n, Answered(k), script, z)
  BY <1>1, <1>2, CountedRead
<1>4. Sayable(f) <=> n > 0
  BY <1>1 DEF Sayable, Repeating
<1>5. ConnFound(f) <=> k = "modbus" \/ (script # <<>> /\ Head(script).from = "orig")
  BY DEF ConnFound, Repeating, script
<1>6. CASE n > 0
  <2>1. ConnFound(f) /\ Outcome(z, Zeek!Confirmed(k), Answered(k))
    BY <1>3, <1>5, <1>6 DEF Repeated
  <2>2. CASE k = "icmp"
    <3>1. Asks(f, {}, <<>>, {})
      BY <2>2, NumberedAsk
    <3> QED BY <1>4, <1>6, <2>1, <3>1 DEF Judged, Passes, Asks, Outcome
  <2>3. CASE k # "icmp"
    <3>1. Answered(k) = {<<k, 0>>} /\ Zeek!Confirmed(k) = (IF k = "modbus" THEN {"modbus"} ELSE {})
      BY <2>3 DEF Answered, Zeek!Confirmed, Repeating
    <3>2. Asks(f, Zeek!Confirmed(k), <<>>, {k})
      BY <2>3, <3>1, NumberedAsk DEF Repeating
    <3>3. {k} \subseteq {r[1] : r \in z.logs}
      <4>1. <<k, 0>> \in z.logs
        BY <2>1, <3>1 DEF Outcome
      <4> QED BY <4>1
    <3>4. Passes(f, z)
      BY <2>1, <3>2, <3>3 DEF Passes, Asks, Outcome
    <3> QED BY <1>4, <1>6, <3>4 DEF Judged
  <2> QED BY <2>2, <2>3
<1>7. CASE ~(n > 0)
  <2>1. Nothing(z) /\ script = <<>>
    BY <1>3, <1>7 DEF Repeated
  <2>2. CASE k = "modbus"
    <3>1. Asks(f, {"modbus"}, <<>>, {"modbus"}) /\ z.services # {"modbus"}
      BY <2>1, <2>2, NumberedAsk DEF Nothing
    <3> QED BY <1>4, <1>7, <3>1 DEF Judged, Passes, Asks
  <2>3. CASE k # "modbus"
    BY <1>4, <1>5, <1>7, <2>1, <2>3 DEF Judged, Passes
  <2> QED BY <2>2, <2>3
<1> QED BY <1>6, <1>7

\* A datagram conversation passes if its originator speaks.
LEMMA DatagramsJudged ==
  ASSUME NEW f, f.kind = "opaque_udp", NEW z, Heeded(f, z)
  PROVE  Judged(f, z)
<1> DEFINE s == Loaded(f)
           script == render_opaque_udp(s)
           kind == "opaque_udp"
<1>1. /\ Delivers(f) /\ Runs(kind, Zeek!Fresh, script, z) /\ Script(f) = script
      /\ s.orig_bytes \in Int /\ s.orig_literal_hex \in Int
  BY FlowIsTypical DEF Heeded, Script, Typical
<1>2. IsSeq(script) /\ kind \in {"opaque_tcp", "opaque_udp"}
  BY <1>1, ScriptSaid DEF Said, Heeded
<1>3. ConnFound(f) <=> script # <<>> /\ Head(script).from = "orig"
  BY <1>1 DEF ConnFound
<1>4. (script # <<>> /\ Head(script).from = "orig") <=> (s.orig_bytes # 0 \/ s.orig_literal_hex > 0)
  BY <1>1, DatagramsOpen
<1> HIDE DEF script, kind
<1>5. Outcome(z, {}, {})
  BY <1>1, <1>2, OpaqueRead
<1>6. Asks(f, {}, <<>>, {})
  BY NumberedAsk
<1>7. Sayable(f) <=> s.orig_bytes # 0 \/ s.orig_literal_hex > 0
  BY <1>1 DEF Sayable
<1>8. Passes(f, z) <=> ConnFound(f)
  BY <1>5, <1>6 DEF Passes, Asks, Outcome
<1> QED BY <1>3, <1>4, <1>7, <1>8 DEF Judged

\* Whatever a flow is.
LEMMA AllJudged ==
  ASSUME NEW f, IsFlow(f), ~Raises(f), NEW z, Runs(f.kind, Zeek!Fresh, Told(f), z)
  PROVE  Judged(f, z)
<1>1. CASE ~Delivers(f)
  BY <1>1, SilentJudged DEF Told
<1>2. CASE Delivers(f)
  <2>1. Heeded(f, z)
    BY <1>2 DEF Heeded, Told
  <2>2. f.kind \in {"dns", "http", "tls", "smtp", "icmp", "opaque_tcp", "opaque_udp", "dhcp", "ntp",
                    "ssh", "ftp", "snmp", "modbus", "radius", "ldap", "smb", "dcerpc", "namequery",
                    "kerberos", "pop3", "imap", "irc", "sip"}
    BY DEF IsFlow, L7Spec
  <2> QED BY <2>1, <2>2, MailJudged, TicketsJudged, ChannelsJudged, PageJudged, NameJudged,
             QueryJudged, CountJudged, DatagramsJudged DEF Repeating
<1> QED BY <1>1, <1>2

-----------------------------------------------------------------------------
(* What is left of a script, and the port an FTP server announces. *)

LEMMA SaidRest ==
  ASSUME NEW kind, NEW a, NEW b, IsSeq(a), IsSeq(b), Said(kind, a \o b)
  PROVE  Said(kind, b)
<1>1. /\ Len(a) \in Nat /\ Len(b) \in Nat /\ Len(a \o b) = Len(a) + Len(b)
      /\ \A i \in 1..(Len(a) + Len(b)) : (a \o b)[i] = IF i <= Len(a) THEN a[i] ELSE b[i - Len(a)]
  BY Joined, SeqHas
<1>2. ASSUME NEW i \in 1..Len(b) PROVE Message(kind, b[i])
  <2> DEFINE j == Len(a) + i
  <2>1. j \in 1..(Len(a) + Len(b)) /\ ~(j <= Len(a)) /\ j - Len(a) = i
    BY <1>1
  <2>2. (a \o b)[j] = b[i]
    BY <1>1, <2>1
  <2> HIDE DEF j
  <2>3. Message(kind, (a \o b)[j])
    BY <1>1, <2>1 DEF Said
  <2> QED BY <2>2, <2>3
<1> QED BY <1>2 DEF Said

Moved(a, b) ==
  /\ IsSeq(a \o <<Head(b)>>) /\ IsSeq(Tail(b)) /\ Len(a \o <<Head(b)>>) = Len(a) + 1
  /\ (a \o <<Head(b)>>) \o Tail(b) = a \o b /\ Head(b) = b[1] /\ 1 \in 1..Len(b)

\* The next message is delivered.
LEMMA MoveOne ==
  ASSUME NEW a, NEW b, IsSeq(a), IsSeq(b), b # <<>>
  PROVE  Moved(a, b)
<1> DEFINE S == {a[i] : i \in DOMAIN a} \cup {b[i] : i \in DOMAIN b}
           m == Head(b)
           t == Tail(b)
<1>1. a \in Seq(S) /\ b \in Seq(S)
  <2>1. a \in Seq({a[i] : i \in DOMAIN a}) /\ b \in Seq({b[i] : i \in DOMAIN b})
    BY DEF IsSeq
  <2> QED BY <2>1, SeqWider
<1> HIDE DEF S
<1>2. m \in S /\ t \in Seq(S) /\ <<m>> \o t = b /\ m = b[1] /\ 1 \in 1..Len(b)
  BY <1>1, HeadTailProperties
<1> HIDE DEF m, t
<1>3. <<m>> \in Seq(S)
  BY <1>2
<1>4. (a \o <<m>>) \o t = a \o (<<m>> \o t)
  <2> DEFINE c == <<m>>
  <2>1. c \in Seq(S)
    BY <1>3
  <2> HIDE DEF c
  <2>2. (a \o c) \o t = a \o (c \o t)
    BY SMTT(60), <1>1, <1>2, <2>1, ConcatAssociative
  <2> QED BY <2>2 DEF c
<1>5. IsSeq(a \o <<m>>) /\ Len(a \o <<m>>) = Len(a) + 1
  <2> DEFINE c == <<m>>
  <2>1. IsSeq(c) /\ Len(c) = 1
    BY PairIsSeq
  <2> HIDE DEF c
  <2>2. IsSeq(a \o c) /\ Len(a \o c) = Len(a) + 1
    BY <2>1, Joined
  <2> QED BY <2>2 DEF c
<1>6. IsSeq(t)
  BY <1>2, AnySeq
<1> QED BY <1>2, <1>4, <1>5, <1>6 DEF Moved, m, t

\* An announced port stays announced.
LEMMA PortAfter ==
  ASSUME NEW kind, Plainly(kind), NEW z, NEW s, Len(s) \in Nat, NEW y, Runs(kind, z, s, y),
         NEW i \in 1..Len(s), s[i].op = "PASV", s[i].n = 1
  PROVE  y.port
<1>1. PICK h : RunsBy(kind, z, s, y, h)
  BY DEF Runs
<1>2. \A j \in 1..Len(s) : Same(kind, h[j], Zeek!Read(kind, h[j - 1], s[j]))
  BY <1>1 DEF RunsBy, Steps
<1>3. \A j \in 0..Len(s) : IsParser(h[j])
  <2>1. IsParser(h[0])
    BY <1>1 DEF RunsBy, Same
  <2>2. \A j \in 1..Len(s) : IsParser(h[j])
    BY <1>2 DEF Same
  <2> QED BY <2>1, <2>2
<1>4. ASSUME NEW j \in 1..Len(s), h[j - 1].port \/ (s[j].op = "PASV" /\ s[j].n = 1) PROVE h[j].port
  <2>1. IsParser(h[j - 1])
    BY <1>3
  <2>2. PlainIs(kind, h[j - 1], s[j])
    BY <2>1, PlainFields
  <2>3. Zeek!Plain(kind, h[j - 1], s[j]).port
    BY <1>4, <2>2 DEF PlainIs
  <2>4. Same(kind, h[j], Zeek!Plain(kind, h[j - 1], s[j]))
    BY <1>2, ReadPlainly
  <2> QED BY <2>3, <2>4, SameFields
<1> DEFINE G == {n \in Nat : i + n \in 1..Len(s) => h[i + n].port}
<1>5. 0 \in G
  BY <1>4
<1>6. ASSUME NEW n \in Nat, n \in G PROVE n + 1 \in G
  <2>1. SUFFICES ASSUME i + (n + 1) \in 1..Len(s) PROVE h[i + (n + 1)].port
    OBVIOUS
  <2>2. i + n \in 1..Len(s) /\ (i + (n + 1)) - 1 = i + n
    BY <2>1
  <2>3. h[i + n].port
    BY <1>6, <2>2
  <2> QED BY <1>4, <2>1, <2>2, <2>3
<1> HIDE DEF G
<1>7. Len(s) - i \in G /\ i + (Len(s) - i) = Len(s) /\ Len(s) \in 1..Len(s)
  BY <1>5, <1>6, NatSteps
<1> QED BY <1>1, <1>7 DEF G, RunsBy

LEMMA PortHeard ==
  ASSUME NEW f, IsFlow(f), f.kind = "ftp", ~f.v6, Loaded(f).retrieve_file # None,
         NEW a, NEW b, IsSeq(a), IsSeq(b), a \o b = Script(f), NEW z, Runs("ftp", Zeek!Fresh, a, z),
         Len(a) >= UpToPort(Loaded(f))
  PROVE  z.port
<1> DEFINE s == Loaded(f)
           i == UpToPort(s)
<1>1. IsSeq(s.commands)
  BY FlowIsTypical DEF Typical
<1>2. i \in Nat /\ i > 0 /\ Len(a) \in Nat
  <2>1. Len(s.commands) \in Nat
    BY <1>1, SeqHas
  <2>2. Len(a) \in Nat
    BY SeqHas
  <2> QED BY <2>1, <2>2 DEF UpToPort
<1>3. Script(f) = render_ftp(s, f.v6)
  BY DEF Script
<1>4. Script(f)[i] = Reply("PASV", 0, 1)
  <2>1. render_ftp(s, f.v6)[i] = Reply("PASV", 0, IF f.v6 THEN 0 ELSE 1)
    BY <1>1, FtpSays
  <2> QED BY <1>3, <2>1
<1>5. i \in 1..Len(a) /\ i \in 1..(Len(a) + Len(b)) /\ i <= Len(a)
  <2>1. Len(b) \in Nat
    BY SeqHas
  <2> HIDE DEF i
  <2> QED BY <1>2, <2>1 DEF i
<1>6. a[i] = Script(f)[i]
  BY <1>5, Joined
<1> HIDE DEF i, s
<1>7. a[i].op = "PASV" /\ a[i].n = 1
  BY <1>4, <1>6 DEF Reply
<1> QED BY <1>2, <1>5, <1>7, PortAfter DEF Plainly

-----------------------------------------------------------------------------
(* The inductive invariant: what Zeek has read is what has been delivered  *)
(* of the flow's script, and that took no longer than its texture allows.  *)

\* There is a longest time a message may take.
Bounded(f) == f.texture = "conditioned" => f.rtt = 0

LEMMA PacedIs ==
  ASSUME NEW f \in Documents
  PROVE  /\ f.rtt \in Nat /\ Handshake(f) \in Nat /\ Handshake(f) <= f.rtt /\ Slowest(f) \in Nat
         /\ \A g \in Nat, d \in Nat : Bounded(f) /\ Paced(f, g, d) =>
              100 * f.rtt + 100 * g <= Slowest(f) /\ 100 * g + 100 * d <= Slowest(f)
<1>1. f.rtt \in Nat /\ f.texture \in {"clean", "realistic", "conditioned"}
  BY DocumentsAssumption
<1>2. Handshake(f) \in Nat /\ Handshake(f) <= f.rtt
  BY <1>1 DEF Handshake
<1> DEFINE r == f.rtt
<1>3. r \in Nat
  BY <1>1
<1>4. CASE f.texture = "clean"
  <2>1. Slowest(f) = 100 * r + 1000
    BY <1>4 DEF Slowest
  <2>2. \A g, d : Paced(f, g, d) => g \in 1..10 /\ d = r
    BY <1>4 DEF Paced
  <2> HIDE DEF r
  <2>3. \A g \in Nat, d \in Nat : g \in 1..10 /\ d = r =>
          100 * r + 100 * g <= 100 * r + 1000 /\ 100 * g + 100 * d <= 100 * r + 1000
    BY <1>3
  <2>4. 100 * r + 1000 \in Nat
    BY <1>3
  <2> QED BY <1>1, <1>2, <2>1, <2>2, <2>3, <2>4 DEF r
<1>5. CASE f.texture = "realistic"
  <2>1. Slowest(f) = 312 * r + 1500
    BY <1>5 DEF Slowest
  <2>2. \A g, d : Paced(f, g, d) => 100 * g <= 145 * r + 1500 /\ 100 * (g + d) <= 312 * r + 1500
    BY <1>5 DEF Paced
  <2> HIDE DEF r
  <2>3. \A g \in Nat, d \in Nat :
          100 * g <= 145 * r + 1500 /\ 100 * (g + d) <= 312 * r + 1500 =>
            100 * r + 100 * g <= 312 * r + 1500 /\ 100 * g + 100 * d <= 312 * r + 1500
    BY <1>3
  <2>4. 312 * r + 1500 \in Nat
    BY <1>3
  <2> QED BY <1>1, <1>2, <2>1, <2>2, <2>3, <2>4 DEF r
<1>6. CASE f.texture = "conditioned"
  <2>1. Slowest(f) = 0
    BY <1>6 DEF Slowest
  <2>2. \A g, d : Bounded(f) /\ Paced(f, g, d) => f.rtt = 0 /\ g = 0 /\ d = 0
    BY <1>6 DEF Paced, Bounded
  <2> QED BY <1>1, <1>2, <2>1, <2>2
<1> QED BY <1>1, <1>4, <1>5, <1>6

Progress(f, read, rest, z, t) ==
  /\ IsSeq(read) /\ IsSeq(rest) /\ read \o rest = Told(f)
  /\ Runs(f.kind, Zeek!Fresh, read, z)
  /\ Bounded(f) => 100 * t <= 100 * f.rtt + Len(read) * Slowest(f)

Begun == {"wire", "passed", "failed"}

PhaseInv == phase \in {"choose", "refused", "raised"} \cup Begun
FlowInv == phase \in {"raised"} \cup Begun => flow \in Documents /\ IsFlow(flow)
RenderInv == phase \in Begun => ~Raises(flow) /\ \E read : Progress(flow, read, todo, parser, clock)
QuietInv == phase \in {"choose", "refused", "raised"} =>
              todo = <<>> /\ data = <<>> /\ parser = Zeek!Fresh
CountInv == clock \in Nat /\ data \in Seq(Nat) /\ Counted(parser.files)
DataInv == data # <<>> => /\ phase = "wire" /\ flow.kind = "ftp"
                          /\ Loaded(flow).retrieve_file # None /\ parser.files = <<>>
VerdictInv == phase \in {"passed", "failed"} =>
                todo = <<>> /\ data = <<>> /\ (phase = "passed" <=> Passes(flow, parser))

IInv == PhaseInv /\ FlowInv /\ RenderInv /\ QuietInv /\ CountInv /\ DataInv /\ VerdictInv
        /\ PortAnnounced

LEMMA ToldIs ==
  ASSUME NEW f, IsFlow(f)
  PROVE  Said(f.kind, Told(f))
<1>1. Said(f.kind, <<>>)
  <2>1. \A i \in 1..0 : FALSE
    OBVIOUS
  <2> QED BY <2>1, PairIsSeq DEF Said
<1> QED BY <1>1, ScriptSaid DEF Told

LEMMA ProgressBegins ==
  ASSUME NEW f \in Documents, IsFlow(f)
  PROVE  Progress(f, <<>>, Told(f), Zeek!Fresh, Handshake(f))
<1>1. IsSeq(<<>>) /\ Len(<<>>) = 0 /\ IsSeq(Told(f))
  BY PairIsSeq, ToldIs DEF Said
<1>2. <<>> \o Told(f) = Told(f)
  <2>1. Told(f) \in Seq({Told(f)[i] : i \in DOMAIN Told(f)})
    BY <1>1 DEF IsSeq
  <2> QED BY <2>1, ConcatEmptySeq
<1>3. Runs(f.kind, Zeek!Fresh, <<>>, Zeek!Fresh)
  <2> DEFINE h == [i \in 0..0 |-> Zeek!Fresh]
  <2>1. h[0] = Zeek!Fresh /\ Len(<<>>) = 0
    BY PairIsSeq
  <2> HIDE DEF h
  <2>2. Same(f.kind, Zeek!Fresh, Zeek!Fresh)
    BY FreshIs DEF Same
  <2>3. Steps(f.kind, <<>>, h)
    BY <2>1 DEF Steps
  <2>4. RunsBy(f.kind, Zeek!Fresh, <<>>, Zeek!Fresh, h)
    BY <2>1, <2>2, <2>3 DEF RunsBy
  <2> QED BY <2>4 DEF Runs
<1>4. 100 * Handshake(f) <= 100 * f.rtt + 0 * Slowest(f)
  <2> DEFINE h == Handshake(f)
             c == Slowest(f)
             r == f.rtt
  <2>1. h \in Nat /\ r \in Nat /\ h <= r /\ c \in Nat
    BY PacedIs
  <2> HIDE DEF h, r, c
  <2>2. 0 * c = 0
    BY <2>1
  <2>3. 100 * h <= 100 * r + 0
    BY <2>1
  <2> QED BY <2>2, <2>3 DEF h, r, c
<1> QED BY <1>1, <1>2, <1>3, <1>4 DEF Progress

LEMMA ProgressMore ==
  ASSUME NEW f \in Documents, NEW read, NEW rest, NEW z, NEW t \in Nat, NEW g \in Nat, NEW d \in Nat,
         Paced(f, g, d), NEW y, Progress(f, read, rest, z, t), rest # <<>>,
         Message(f.kind, Head(rest)), y = Zeek!Read(f.kind, z, Head(rest))
  PROVE  Progress(f, read \o <<Head(rest)>>, Tail(rest), y, t + g + d) /\ IsParser(y)
<1>1. Moved(read, rest)
  BY MoveOne DEF Progress
<1>2. IsParser(z) /\ Len(read) \in Nat
  BY RunsTo, SeqHas DEF Progress
<1>3. IsParser(y)
  <2> DEFINE m == Head(rest)
  <2>1. m.from \in {"orig", "resp"}
    BY DEF Message
  <2> HIDE DEF m
  <2>2. KeepsCount(f.kind, z, m, Zeek!Read(f.kind, z, m))
    BY <1>2, <2>1, ReadKeepsCount
  <2> QED BY <2>2 DEF KeepsCount, m
<1>4. Same(f.kind, y, Zeek!Read(f.kind, z, Head(rest)))
  BY <1>3 DEF Same
<1>5. Runs(f.kind, Zeek!Fresh, read \o <<Head(rest)>>, y)
  BY <1>4, RunsMore DEF Progress
<1>6. Bounded(f) => 100 * (t + g + d) <= 100 * f.rtt + (Len(read) + 1) * Slowest(f)
  <2> DEFINE n == Len(read)
             r == f.rtt
             c == Slowest(f)
  <2>1. SUFFICES ASSUME Bounded(f) PROVE 100 * (t + g + d) <= 100 * r + (n + 1) * c
    OBVIOUS
  <2>2. n \in Nat /\ r \in Nat /\ c \in Nat /\ 100 * t <= 100 * r + n * c
        /\ 100 * g + 100 * d <= c
    BY <1>2, <2>1, PacedIs DEF Progress
  <2> HIDE DEF n, r, c
  <2> DEFINE p == n * c
  <2>3. p \in Nat /\ (n + 1) * c = p + c
    BY <2>2
  <2>4. 100 * t <= 100 * r + p
    BY <2>2
  <2> HIDE DEF p
  <2>5. 100 * (t + g + d) <= 100 * r + (p + c)
    BY <2>2, <2>3, <2>4
  <2> QED BY <2>3, <2>5
<1> QED BY <1>1, <1>3, <1>5, <1>6 DEF Moved, Progress

LEMMA InitInv == Init => IInv
<1>1. Counted(<<>>)
  BY DEF Counted
<1>2. <<>> \in Seq(Nat) /\ 0 \in Nat
  OBVIOUS
<1> QED BY <1>1, <1>2, FreshIs DEF Init, IInv, PhaseInv, FlowInv, RenderInv, QuietInv, CountInv, DataInv,
                     VerdictInv, PortAnnounced, Begun

USE DEF Begun

LEMMA RefuseInv == ASSUME IInv, NEW f \in Documents, Refuse(f) \/ Raise(f) PROVE IInv'
<1>1. phase = "choose" /\ phase' \in {"refused", "raised"} /\ flow' = f
      /\ (phase' = "raised" => IsFlow(f)) /\ UNCHANGED <<todo, clock, data, parser>>
  BY DEF Refuse, Raise
<1> QED BY <1>1 DEF IInv, PhaseInv, FlowInv, RenderInv, QuietInv, CountInv, DataInv, VerdictInv,
                    PortAnnounced

LEMMA RenderStep == ASSUME IInv, NEW f \in Documents, Render(f) PROVE IInv'
<1>1. /\ phase = "choose" /\ IsFlow(f) /\ ~Raises(f) /\ flow' = f /\ phase' = "wire"
      /\ todo' = Told(f) /\ clock' = Handshake(f) /\ parser' = Zeek!Fresh
      /\ data' = IF f.kind = "ftp" THEN FtpData(Loaded(f)) ELSE <<>>
  BY DEF Render, Told, IInv, QuietInv
<1>2. Handshake(f) \in Nat
  BY PacedIs
<1>3. Progress(f, <<>>, Told(f), Zeek!Fresh, Handshake(f))
  BY <1>1, ProgressBegins
<1>4. RenderInv'
  BY <1>1, <1>3 DEF RenderInv
<1>5. parser'.files = <<>>
  BY <1>1, FreshIs
<1>6. data' \in Seq(Nat) /\ (data' # <<>> => f.kind = "ftp" /\ Loaded(f).retrieve_file # None)
  <2>1. CASE f.kind = "ftp" /\ Loaded(f).retrieve_file # None
    <3>1. Loaded(f).file_bytes \in Int
      BY <1>1, <2>1, FlowIsTypical DEF Typical
    <3>2. file_for(Loaded(f).retrieve_file, Loaded(f).file_bytes) \in Nat
      BY <3>1, FileSize
    <3> QED BY <1>1, <2>1, <3>2 DEF FtpData
  <2>2. CASE ~(f.kind = "ftp" /\ Loaded(f).retrieve_file # None)
    BY <1>1, <2>2 DEF FtpData
  <2> QED BY <2>1, <2>2
<1>7. CountInv' /\ DataInv'
  <2>1. Counted(<<>>)
    BY DEF Counted
  <2> QED BY <1>1, <1>2, <1>5, <1>6, <2>1 DEF CountInv, DataInv
<1>8. PhaseInv' /\ FlowInv' /\ QuietInv' /\ VerdictInv' /\ PortAnnounced'
  BY <1>1, <1>5 DEF PhaseInv, FlowInv, QuietInv, VerdictInv, PortAnnounced
<1> QED BY <1>4, <1>7, <1>8 DEF IInv

LEMMA DeliverStep == ASSUME IInv, NEW g \in Gaps, NEW d \in Delays, Deliver(g, d) PROVE IInv'
<1>1. /\ phase = "wire" /\ todo # <<>> /\ parser' = Zeek!Read(flow.kind, parser, Head(todo))
      /\ Paced(flow, g, d) /\ todo' = Tail(todo) /\ clock' = clock + g + d
      /\ flow' = flow /\ phase' = phase /\ data' = data
  BY DEF Deliver
<1>2. flow \in Documents /\ IsFlow(flow) /\ ~Raises(flow) /\ clock \in Nat /\ g \in Nat /\ d \in Nat
  BY <1>1, PacesAssumption DEF IInv, FlowInv, RenderInv, CountInv
<1>3. PICK read : Progress(flow, read, todo, parser, clock)
  BY <1>1 DEF IInv, RenderInv
<1>4. Message(flow.kind, Head(todo))
  <2>1. Said(flow.kind, todo)
    BY <1>2, <1>3, ToldIs, SaidRest DEF Progress
  <2>2. Head(todo) = todo[1] /\ 1 \in 1..Len(todo)
    BY <1>1, <1>3, MoveOne DEF Progress, Moved
  <2> QED BY <2>1, <2>2 DEF Said
<1>5. Progress(flow, read \o <<Head(todo)>>, todo', parser', clock')
  BY <1>1, <1>2, <1>3, <1>4, ProgressMore
<1>6. KeepsCount(flow.kind, parser, Head(todo), parser')
  <2>1. IsParser(parser)
    BY <1>3, RunsTo, SeqHas DEF Progress
  <2> DEFINE m == Head(todo)
  <2>2. m.from \in {"orig", "resp"}
    BY <1>4 DEF Message
  <2>3. parser' = Zeek!Read(flow.kind, parser, m)
    BY <1>1
  <2> HIDE DEF m
  <2>4. KeepsCount(flow.kind, parser, m, parser')
    BY <2>1, <2>2, <2>3, ReadKeepsCount
  <2> QED BY <2>4 DEF m
<1>7. clock' \in Nat
  BY <1>1, <1>2
<1>8. CountInv'
  BY <1>1, <1>4, <1>6, <1>7 DEF IInv, CountInv, KeepsCount
<1>9. flow.kind = "ftp" => parser'.files = parser.files
  BY <1>6 DEF KeepsCount, Plainly
<1>10. DataInv'
  BY <1>1, <1>9 DEF IInv, DataInv
<1>11. PortAnnounced'
  BY <1>1, <1>9 DEF IInv, PortAnnounced
<1>12. RenderInv'
  BY <1>1, <1>2, <1>5 DEF RenderInv
<1>13. PhaseInv' /\ FlowInv' /\ QuietInv' /\ VerdictInv'
  BY <1>1, <1>2 DEF PhaseInv, FlowInv, QuietInv, VerdictInv
<1> QED BY <1>8, <1>10, <1>11, <1>12, <1>13 DEF IInv

\* The data connection changes nothing but the files.
Aside(z, v, y) == IsParser(y) /\ y.files = v /\ Same("ftp", y, z)

LEMMA FilesPut ==
  ASSUME NEW z, IsParser(z), NEW v
  PROVE  Aside(z, v, [z EXCEPT !.files = v])
<1> DEFINE u == [z EXCEPT !.files = v]
<1>1. "files" \in Fields
  BY DEF Fields
<1>2. IsParser(u) /\ u["files"] = v /\ \A a \in Fields : a # "files" => u[a] = z[a]
  BY <1>1, Put
<1> HIDE DEF u
<1>3. Aside(z, v, u)
  BY <1>2 DEF Aside, Same
<1> QED BY <1>3 DEF u

LEMMA TransfersStep == ASSUME IInv, NEW g \in Gaps, NEW d \in Delays, Transfers(g, d) PROVE IInv'
<1> DEFINE n == IF parser.files = <<>> /\ parser.port THEN data[1] ELSE 0
           v == <<[announced |-> n, got |-> data[1]]>>
<1>1. /\ phase = "wire" /\ data # <<>>
      /\ todo = <<>> \/ (Paced(flow, g, d) /\ clock + g > DataStart)
      /\ parser' = [parser EXCEPT !.files = v] /\ data' = <<>>
      /\ flow' = flow /\ phase' = phase /\ todo' = todo /\ clock' = clock
  BY DEF Transfers
<1>2. flow \in Documents /\ IsFlow(flow) /\ ~Raises(flow) /\ clock \in Nat /\ g \in Nat /\ d \in Nat
  BY <1>1, PacesAssumption DEF IInv, FlowInv, RenderInv, CountInv
<1>3. flow.kind = "ftp" /\ Loaded(flow).retrieve_file # None /\ parser.files = <<>>
  BY <1>1 DEF IInv, DataInv
<1>4. PICK read : Progress(flow, read, todo, parser, clock)
  BY <1>1 DEF IInv, RenderInv
<1>5. IsParser(parser) /\ Len(read) \in Nat /\ IsSeq(read) /\ IsSeq(todo)
  BY <1>4, RunsTo, SeqHas DEF Progress
<1>6. data[1] \in Nat
  BY <1>1 DEF IInv, CountInv
<1> HIDE DEF v
<1>7. IsParser(parser') /\ parser'.files = v /\ Same("ftp", parser', parser)
  BY <1>1, <1>5, FilesPut DEF Aside
<1>8. Progress(flow, read, todo', parser', clock')
  <2>1. Runs(flow.kind, Zeek!Fresh, read, parser')
    BY <1>3, <1>4, <1>5, <1>7, RunsAside DEF Progress
  <2> QED BY <1>1, <1>4, <2>1 DEF Progress
<1>9. DOMAIN v = {1} /\ v[1].announced = n /\ v[1].got = data[1] /\ n \in Nat
  BY <1>6 DEF v
<1>10. CountInv'
  <2>1. Counted(v)
    BY <1>6, <1>9 DEF Counted
  <2>2. <<>> \in Seq(Nat)
    OBVIOUS
  <2> QED BY <1>1, <1>2, <1>7, <2>1, <2>2 DEF CountInv
<1>11. ASSUME Delivers(flow), ~flow.v6, InTime(flow)
       PROVE  parser.port
  <2>1. read \o todo = Script(flow)
    BY <1>4, <1>11 DEF Progress, Told
  <2> DEFINE k == UpToPort(Loaded(flow))
  <2>2. k \in Nat /\ Len(Script(flow)) > k
    <3>1. IsSeq(Loaded(flow).commands)
      BY <1>2, <1>3, FlowIsTypical DEF Typical
    <3>2. Len(Loaded(flow).commands) \in Nat
      BY <3>1, SeqHas
    <3>3. Script(flow) = render_ftp(Loaded(flow), flow.v6)
      BY <1>3 DEF Script
    <3> QED BY <1>3, <3>1, <3>2, <3>3, FtpSays DEF UpToPort
  <2>3. Len(read) >= k
    <3>1. CASE todo = <<>>
      <4>1. Len(read \o todo) = Len(read) + 0
        BY <1>5, <3>1, Joined, PairIsSeq
      <4> HIDE DEF k
      <4> QED BY <1>5, <2>1, <2>2, <4>1
    <3>2. CASE Paced(flow, g, d) /\ clock + g > DataStart
      <4> DEFINE r == flow.rtt
                 l == Len(read)
                 c == Slowest(flow)
      <4>1. Bounded(flow) /\ k * c <= 100 * 1500
        BY <1>11 DEF InTime, Bounded, DataStart
      <4>2. /\ r \in Nat /\ l \in Nat /\ c \in Nat /\ clock + g > 1500
            /\ 100 * clock <= 100 * r + l * c /\ 100 * r + 100 * g <= c
        BY <1>2, <1>4, <1>5, <3>2, <4>1, PacedIs DEF Progress, DataStart
      <4> HIDE DEF k, r, l, c
      <4>3. SUFFICES ASSUME ~(l >= k) PROVE FALSE
        BY DEF l
      <4>4. PICK e \in Nat : k = (l + 1) + e
        <5>1. k - (l + 1) \in Nat
          BY <2>2, <4>2, <4>3
        <5> QED BY <2>2, <4>2, <5>1
      <4> DEFINE p == l * c
                 q == e * c
      <4>5. p \in Nat /\ q \in Nat /\ k * c = p + c + q
        BY <4>2, <4>4
      <4>6. 100 * clock <= 100 * r + p
        BY <4>2
      <4> HIDE DEF p, q
      <4>7. p + c + q <= 150000
        BY <4>1, <4>2, <4>5
      <4> QED BY <1>2, <4>2, <4>5, <4>6, <4>7
    <3> QED BY <1>1, <3>1, <3>2
  <2>4. Runs("ftp", Zeek!Fresh, read, parser)
    BY <1>3, <1>4 DEF Progress
  <2> QED BY <1>2, <1>3, <1>5, <1>11, <2>1, <2>3, <2>4, PortHeard
<1>12. PortAnnounced'
  <2>1. SUFFICES ASSUME Delivers(flow), ~flow.v6, InTime(flow)
                 PROVE  v[1].announced = v[1].got
    BY <1>1, <1>7 DEF PortAnnounced
  <2> QED BY <1>3, <1>9, <1>11, <2>1
<1>13. DataInv' /\ PhaseInv' /\ FlowInv' /\ QuietInv' /\ VerdictInv'
  BY <1>1, <1>2 DEF DataInv, PhaseInv, FlowInv, QuietInv, VerdictInv
<1>14. RenderInv'
  BY <1>1, <1>2, <1>8 DEF RenderInv
<1> QED BY <1>10, <1>12, <1>13, <1>14 DEF IInv

LEMMA VerdictStep == ASSUME IInv, Verdict PROVE IInv'
<1>1. /\ phase = "wire" /\ todo = <<>> /\ data = <<>> /\ UNCHANGED <<flow, todo, clock, data, parser>>
      /\ phase' = IF Passes(flow, parser) THEN "passed" ELSE "failed"
  BY DEF Verdict
<1>2. phase' \in {"passed", "failed"} /\ (phase' = "passed" <=> Passes(flow, parser))
  BY <1>1
<1>3. flow' = flow /\ parser' = parser /\ todo' = todo /\ data' = data /\ clock' = clock
  BY <1>1
<1>4. VerdictInv'
  <2>1. Passes(flow', parser') <=> Passes(flow, parser)
    BY <1>3
  <2> QED BY <1>1, <1>2, <1>3 DEF VerdictInv
<1>5. RenderInv'
  BY <1>1, <1>2, <1>3 DEF IInv, RenderInv
<1>6. CountInv' /\ DataInv' /\ PhaseInv' /\ FlowInv' /\ QuietInv' /\ PortAnnounced'
  BY <1>1, <1>2, <1>3 DEF IInv, CountInv, DataInv, PhaseInv, FlowInv, QuietInv, PortAnnounced
<1> QED BY <1>4, <1>5, <1>6 DEF IInv

LEMMA NextInv == ASSUME IInv, [Next]_vars PROVE IInv'
<1>1. CASE UNCHANGED vars
  BY <1>1 DEF vars, IInv, PhaseInv, FlowInv, RenderInv, QuietInv, CountInv, DataInv, VerdictInv,
              PortAnnounced, Passes, ConnFound
<1>2. CASE Next
  BY <1>1, <1>2, RefuseInv, RenderStep, DeliverStep, TransfersStep, VerdictStep DEF Next, Concluded
<1> QED BY <1>1, <1>2

LEMMA SpecInv == Spec => []IInv
<1> QED BY InitInv, NextInv, PTL DEF Spec

LEMMA InvTypes == IInv => TypeOK
<1>1. SUFFICES ASSUME IInv PROVE TypeOK
  OBVIOUS
<1>2. phase \in {"raised"} \cup Begun =>
        /\ flow.transport \in Transports(flow.kind)
        /\ \A x \in DOMAIN L7Spec[flow.kind] :
             L7Spec[flow.kind][x] = Required => x \in DOMAIN flow.given
  BY <1>1 DEF IInv, FlowInv, IsFlow
<1>3. \A i \in DOMAIN todo : todo[i].from \in {"orig", "resp"}
  <2>1. CASE phase \in Begun
    <3>1. PICK read : Progress(flow, read, todo, parser, clock)
      BY <1>1, <2>1 DEF IInv, RenderInv
    <3>2. IsFlow(flow)
      BY <1>1, <2>1 DEF IInv, FlowInv
    <3>3. Said(flow.kind, todo)
      BY <3>1, <3>2, ToldIs, SaidRest DEF Progress
    <3> QED BY <3>3, SeqHas DEF Said, Message
  <2>2. CASE phase \notin Begun
    BY <1>1, <2>2 DEF IInv, PhaseInv, QuietInv
  <2> QED BY <2>1, <2>2
<1> QED BY <1>1, <1>2, <1>3 DEF TypeOK, IInv, PhaseInv, CountInv, Counted

\* What reaches a renderer is a complete flow over a transport of its kind, and times and sizes
\* are natural numbers, whatever the documents say.
THEOREM TypesHold == Spec => []TypeOK
<1> QED BY SpecInv, InvTypes, PTL

\* An FTP data connection opens after its port was announced, for any list of commands and any
\* pace, if the round trip is short for that list and the flow's texture (render_ftp).  Of a
\* conditioned flow whose round trip takes time it promises nothing.
THEOREM PortsAnnounced == Spec => []PortAnnounced
<1>1. IInv => PortAnnounced
  BY DEF IInv
<1> QED BY <1>1, SpecInv, PTL

\* A flow that has been read to its end.
LEMMA ReadWhole ==
  ASSUME IInv, phase \in {"passed", "failed"}
  PROVE  /\ IsFlow(flow) /\ ~Raises(flow) /\ Runs(flow.kind, Zeek!Fresh, Told(flow), parser)
         /\ phase = "passed" <=> Passes(flow, parser)
<1>1. /\ IsFlow(flow) /\ ~Raises(flow) /\ todo = <<>> /\ (phase = "passed" <=> Passes(flow, parser))
  BY DEF IInv, FlowInv, RenderInv, VerdictInv
<1>2. PICK read : Progress(flow, read, todo, parser, clock)
  BY DEF IInv, RenderInv
<1>3. read = Told(flow)
  <2>1. IsSeq(read) /\ read \o <<>> = Told(flow)
    BY <1>1, <1>2 DEF Progress
  <2>2. read \in Seq({read[i] : i \in DOMAIN read})
    BY <2>1 DEF IsSeq
  <2>3. read \o <<>> = read
    BY <2>2, ConcatEmptySeq
  <2> QED BY <2>1, <2>3
<1> QED BY <1>1, <1>2, <1>3 DEF Progress

\* A flow of any of the 23 kinds, whatever its fields and the pauses, passes the gate if its
\* capture can say what it asks for, and only then (renderers/__init__.py: the packets are
\* "correctly interpreted"; validation/roundtrip.py).
THEOREM ReadsBackHolds == Spec => []ReadsBack
<1>1. ASSUME IInv PROVE ReadsBack
  <2>1. ASSUME phase \in {"passed", "failed"} PROVE phase = "passed" <=> Sayable(flow)
    <3>1. Judged(flow, parser)
      BY <1>1, <2>1, ReadWhole, AllJudged
    <3> QED BY <1>1, <2>1, <3>1, ReadWhole DEF Judged
  <2> QED BY <2>1 DEF ReadsBack
<1> QED BY <1>1, SpecInv, PTL

\* The files of a passing conversation.
Arrive(f, files) ==
  /\ \A h \in DOMAIN files : files[h].got = files[h].announced
  /\ \A x \in FilesAsked(f) :
       \/ \E h \in DOMAIN files : files[h].got = x[2] \/ (x[2] < 312 /\ files[h].got < 313)
       \/ f.kind = "http" /\ Loaded(f).status \in {204, 304}

LEMMA PagesArrive ==
  ASSUME NEW f, f.kind = "http", NEW z, Heeded(f, z)
  PROVE  Arrive(f, z.files)
<1> DEFINE s == Loaded(f)
           sent == Response(s).sent
<1>1. /\ s.response_body_len \in Int /\ s.response_body_b64 \in Nat \cup {None}
      /\ Runs("http", Zeek!Fresh, render_http(s), z)
  BY FlowIsTypical DEF Heeded, Typical, Script
<1>2. z.files = <<[announced |-> sent, got |-> sent]>>
  BY <1>1, PageRead DEF PageLeft
<1>3. FilesAsked(f) = IF s.response_body_b64 = None THEN {<<s.uri, s.response_body_len>>} ELSE {}
  BY DEF FilesAsked
<1>4. s.status \notin {204, 304} /\ s.response_body_b64 = None
        => sent = file_for(s.uri, s.response_body_len)
  BY DEF Response
<1>5. LET n == file_for(s.uri, s.response_body_len)
      IN  n = s.response_body_len \/ (s.response_body_len < 312 /\ n < 313)
  BY <1>1, FileSize
<1> HIDE DEF sent
<1>6. DOMAIN z.files = {1} /\ z.files[1].got = sent /\ z.files[1].announced = sent
  BY <1>2
<1>7. ASSUME NEW x \in FilesAsked(f), s.status \notin {204, 304}
      PROVE  z.files[1].got = x[2] \/ (x[2] < 312 /\ z.files[1].got < 313)
  <2>1. s.response_body_b64 = None /\ x[2] = s.response_body_len
    BY <1>3, <1>7
  <2> QED BY <1>4, <1>5, <1>6, <1>7, <2>1
<1> QED BY <1>6, <1>7 DEF Arrive

LEMMA SharesArrive ==
  ASSUME NEW f, f.kind = "smb", NEW z, Heeded(f, z)
  PROVE  Arrive(f, z.files)
<1> DEFINE s == Loaded(f)
<1>1. s.file_bytes \in Int /\ Runs("smb", Zeek!Fresh, render_smb(s), z)
  BY FlowIsTypical DEF Heeded, Typical, Script
<1>2. SharesLeft(s, z)
  BY <1>1, SharesRead
<1>3. FilesAsked(f) = {<<x, s.file_bytes>> : x \in {s.read_file, s.write_file} \ {None}}
  BY DEF FilesAsked
<1>4. ASSUME NEW x \in FilesAsked(f)
      PROVE  \E h \in DOMAIN z.files : z.files[h].got = x[2] \/ (x[2] < 312 /\ z.files[h].got < 313)
  <2>1. PICK file \in {s.read_file, s.write_file} \ {None} : x = <<file, s.file_bytes>>
    BY <1>3
  <2>2. FileIn(z.files, file_for(file, s.file_bytes))
    BY <1>2, <2>1 DEF SharesLeft
  <2> DEFINE n == file_for(file, s.file_bytes)
             size == s.file_bytes
  <2>3. n = size \/ (size < 312 /\ n < 313)
    BY <1>1, FileSize
  <2>4. x[2] = size
    BY <2>1
  <2> HIDE DEF n, size
  <2>5. PICK h \in DOMAIN z.files : z.files[h].got = n
    BY <2>2 DEF FileIn, n
  <2> QED BY <2>3, <2>4, <2>5
<1> QED BY <1>2, <1>4 DEF Arrive, SharesLeft, Whole

\* A web page or a file on a share that is read back has all the bytes it announced, and all that
\* were asked for, for any sizes, negative ones too (file_bodies.py; render_http; render_smb).
THEOREM FilesArrive == Spec => []FilesArriveWhole
<1>1. ASSUME IInv, phase = "passed", flow.kind \in {"http", "smb"} PROVE Arrive(flow, parser.files)
  <2>1. /\ IsFlow(flow) /\ ~Raises(flow) /\ Runs(flow.kind, Zeek!Fresh, Told(flow), parser)
        /\ Passes(flow, parser)
    BY <1>1, ReadWhole
  <2>2. Sayable(flow)
    BY <2>1, AllJudged DEF Judged
  <2>3. Delivers(flow)
    BY <1>1, <2>2 DEF Sayable
  <2>4. Heeded(flow, parser)
    BY <2>1, <2>3 DEF Heeded, Told
  <2> QED BY <1>1, <2>4, PagesArrive, SharesArrive
<1>2. IInv => FilesArriveWhole
  BY <1>1 DEF FilesArriveWhole, Arrive
<1> QED BY <1>2, SpecInv, PTL
=============================================================================
