---------------------------- MODULE ViewsProofs ----------------------------
(***************************************************************************)
(* Proofs about Views for every capture, list of sensors and fragment      *)
(* size: a view is what its sensor should show, connections stay whole in  *)
(* it, and a fragmented capture is put together again.  The invariant says *)
(* what the list being built holds of the packets passed so far, and what  *)
(* a reassembling sensor holds of the datagram it is in.                   *)
(***************************************************************************)
EXTENDS Views, TLAPS, SequenceTheorems

\* The sensors' lists.
Shots == {Projection(capture[m], sensors[k]) : m \in DOMAIN capture, k \in DOMAIN sensors}

\* What a sensor s should show of the first n packets.
Seen(view, s, n) ==
  /\ \A j \in 1..Len(view) : /\ view[j].n \in 1..n /\ Shown(capture[view[j].n], s)
                             /\ view[j] = Projection(capture[view[j].n], s)
  /\ \A j, l \in 1..Len(view) : j < l => view[j].n < view[l].n
  /\ \A m \in 1..n : Shown(capture[m], s) => \E j \in 1..Len(view) : view[j].n = m

ProjectOK ==
  pc = "project" =>
    /\ sensors \in Sensors /\ v \in 1..(Len(sensors) + 1)
    /\ i \in 1..(Len(capture) + 1)
    /\ out \in Seq(Shots) /\ views \in Seq(Seq(Shots)) /\ Len(views) = v - 1
    /\ v <= Len(sensors) => Seen(out, sensors[v], i - 1)
    /\ v > Len(sensors) => out = <<>>
    /\ \A k \in 1..(v - 1) : Seen(views[k], sensors[k], Len(capture))

CaptureOK == capture \in Captures /\ packets = capture

-----------------------------------------------------------------------------
(* Projection.                                                             *)

LEMMA CaptureTypes ==
  ASSUME CaptureOK
  PROVE  /\ Len(capture) \in Nat /\ DOMAIN capture = 1..Len(capture)
         /\ \A k \in 1..Len(capture) :
              /\ DOMAIN capture[k] = Fields /\ capture[k].n = k
         /\ \A j, k \in 1..Len(capture) :
              Ends(capture[j]) = Ends(capture[k]) => capture[j].ver = capture[k].ver
<1>1. /\ Len(capture) \in Nat /\ DOMAIN capture = 1..Len(capture)
      /\ \A j, k \in 1..Len(capture) :
           Ends(capture[j]) = Ends(capture[k]) => capture[j].ver = capture[k].ver
  BY ViewsAssumption DEF CaptureOK
<1>2. \A k \in 1..Len(capture) :
        capture[k] = [x \in Fields |-> capture[k][x]] /\ capture[k].n = k
  BY <1>1, ViewsAssumption DEF CaptureOK
<1>3. \A k \in 1..Len(capture) : DOMAIN capture[k] = Fields
  BY <1>2
<1> QED
  BY <1>1, <1>2, <1>3

LEMMA Unfragmented ==
  ASSUME CaptureOK, NEW k \in 1..Len(capture)
  PROVE  /\ capture[k] = [x \in Fields |-> capture[k][x]]
         /\ capture[k].off = 0 /\ capture[k].more = FALSE /\ capture[k].len \in Nat \ {0}
BY CaptureTypes, ViewsAssumption DEF CaptureOK

LEMMA ProjectionKeeps ==
  ASSUME NEW q, NEW s, DOMAIN q = Fields
  PROVE  /\ Projection(q, s).n = q.n
         /\ Projection(q, s).sport = q.sport /\ Projection(q, s).dport = q.dport
         /\ Projection(q, s).src = IF q.ver = 4 THEN Natted(q.src, s) ELSE q.src
         /\ Projection(q, s).dst = IF q.ver = 4 THEN Natted(q.dst, s) ELSE q.dst
<1> DEFINE r == Projected(q, s)
           t == Tagged(r, s)
<1>1. /\ DOMAIN r = Fields /\ r.n = q.n /\ r.sport = q.sport /\ r.dport = q.dport
      /\ r.src = IF q.ver = 4 THEN Natted(q.src, s) ELSE q.src
      /\ r.dst = IF q.ver = 4 THEN Natted(q.dst, s) ELSE q.dst
  BY DEF Projected, Fields
<1> HIDE DEF r
<1>2. /\ DOMAIN t = Fields /\ t.n = r.n /\ t.sport = r.sport /\ t.dport = r.dport
      /\ t.src = r.src /\ t.dst = r.dst
  BY <1>1 DEF Tagged, Fields
<1> HIDE DEF t
<1>3. LET u == Linked(t, s)
      IN  /\ u.n = t.n /\ u.sport = t.sport /\ u.dport = t.dport /\ u.src = t.src /\ u.dst = t.dst
  BY <1>2 DEF Linked, Fields
<1> QED
  BY <1>1, <1>2, <1>3 DEF Projection, r, t

\* The packet at hand is shown.
LEMMA SeenShown ==
  ASSUME CaptureOK, NEW S, NEW view \in Seq(S), NEW s, NEW n \in 1..Len(capture),
         Projection(capture[n], s) \in S, Shown(capture[n], s), Seen(view, s, n - 1)
  PROVE  Seen(Append(view, Projection(capture[n], s)), s, n)
<1> DEFINE e == Projection(capture[n], s)
           w == Append(view, e)
           N == Len(view)
<1>1. N \in Nat /\ Len(w) = N + 1 /\ w[N + 1] = e /\ \A j \in 1..N : w[j] = view[j]
  BY AppendProperties
<1>2. e.n = n /\ n \in Nat
  BY CaptureTypes, ProjectionKeeps
<1>3. 1..Len(w) = 1..N \cup {N + 1} /\ 1..n = 1..(n - 1) \cup {n}
  BY <1>1, <1>2
<1> HIDE DEF e, w, N
<1>4. \A j \in 1..Len(w) : /\ w[j].n \in 1..n /\ Shown(capture[w[j].n], s)
                           /\ w[j] = Projection(capture[w[j].n], s)
  BY <1>1, <1>2, <1>3 DEF Seen, e, N
<1>5. \A j, l \in 1..Len(w) : j < l => w[j].n < w[l].n
  <2>1. \A j \in 1..N : view[j].n \in 1..(n - 1)
    BY DEF Seen, N
  <2> SUFFICES ASSUME NEW j \in 1..Len(w), NEW l \in 1..Len(w), j < l PROVE w[j].n < w[l].n
    OBVIOUS
  <2>2. j \in 1..N
    BY <1>1
  <2>3. CASE l \in 1..N
    BY <1>1, <2>2, <2>3 DEF Seen, N
  <2>4. CASE l = N + 1
    BY <1>1, <1>2, <2>1, <2>2, <2>4
  <2> QED
    BY <1>3, <2>3, <2>4
<1>6. \A m \in 1..n : Shown(capture[m], s) => \E j \in 1..Len(w) : w[j].n = m
  BY <1>1, <1>2, <1>3 DEF Seen, N
<1> QED
  BY <1>4, <1>5, <1>6 DEF Seen, w, e

\* Or passed over.
LEMMA SeenSkipped ==
  ASSUME NEW view, NEW s, NEW n \in Nat \ {0}, ~Shown(capture[n], s), Seen(view, s, n - 1)
  PROVE  Seen(view, s, n)
<1>1. 1..n = 1..(n - 1) \cup {n}
  OBVIOUS
<1> QED
  BY <1>1 DEF Seen

LEMMA ProjectStep ==
  ASSUME CaptureOK, ProjectOK, Skip \/ Show \/ NextVantage
  PROVE  CaptureOK' /\ ProjectOK'
<1>1. /\ pc = "project" /\ pc' = "project" /\ sensors \in Sensors /\ v \in 1..(Len(sensors) + 1)
      /\ v <= Len(sensors) /\ Len(sensors) \in Nat /\ DOMAIN sensors = 1..Len(sensors)
      /\ UNCHANGED <<capture, packets, sensors>>
      /\ i \in 1..(Len(capture) + 1) /\ i \in Nat \ {0}
  BY ViewsAssumption DEF ProjectOK, Skip, Show, NextVantage, Projecting
<1>2. CaptureOK'
  BY <1>1 DEF CaptureOK
<1>3. /\ Shots' = Shots
      /\ \A view, s, n : Seen(view, s, n)' <=> Seen(view, s, n)
  BY <1>1 DEF Shots, Seen
<1>4. /\ out \in Seq(Shots) /\ views \in Seq(Seq(Shots)) /\ Len(views) = v - 1
      /\ Seen(out, sensor, i - 1)
      /\ \A k \in 1..(v - 1) : Seen(views[k], sensors[k], Len(capture))
  BY <1>1 DEF ProjectOK, sensor
<1>5. Len(capture) \in Nat /\ DOMAIN capture = 1..Len(capture) /\ packets = capture
  BY CaptureTypes DEF CaptureOK
<1>6. CASE Skip
  <2>1. i \in 1..Len(capture) /\ ~Shown(capture[i], sensor) /\ i' = i + 1
        /\ UNCHANGED <<v, out, views>>
    BY <1>1, <1>5, <1>6 DEF Skip, Projecting, p
  <2>2. Seen(out, sensor, i)
    BY <1>1, <1>4, <2>1, SeenSkipped
  <2>3. (i + 1) - 1 = i
    BY <1>1
  <2> QED
    BY <1>1, <1>2, <1>3, <1>4, <1>5, <2>1, <2>2, <2>3 DEF ProjectOK, sensor
<1>7. CASE Show
  <2>1. /\ i \in 1..Len(capture) /\ Shown(capture[i], sensor) /\ i' = i + 1
        /\ out' = Append(out, Projection(capture[i], sensor)) /\ UNCHANGED <<v, views>>
    BY <1>1, <1>5, <1>7 DEF Show, Projecting, p
  <2>2. Projection(capture[i], sensor) \in Shots
    BY <1>1, <1>5, <2>1 DEF Shots, sensor
  <2>3. Seen(out', sensor, i)
    BY <1>4, <2>1, <2>2, SeenShown
  <2>4. out' \in Seq(Shots)
    BY <1>4, <2>1, <2>2, AppendProperties
  <2>5. (i + 1) - 1 = i
    BY <1>1
  <2> QED
    BY <1>1, <1>2, <1>3, <1>4, <1>5, <2>1, <2>3, <2>4, <2>5 DEF ProjectOK, sensor
<1>8. CASE NextVantage
  <2>1. /\ i = Len(capture) + 1 /\ views' = Append(views, out) /\ out' = <<>>
        /\ i' = 1 /\ v' = v + 1
    BY <1>1, <1>5, <1>8 DEF NextVantage
  <2>2. Seen(out, sensors[v], Len(capture))
    BY <1>4, <1>5, <2>1 DEF sensor
  <2>3. /\ views' \in Seq(Seq(Shots)) /\ Len(views') = v
        /\ views'[v] = out /\ \A k \in 1..(v - 1) : views'[k] = views[k]
    BY <1>1, <1>4, <2>1, AppendProperties
  <2>4. \A k \in 1..v : Seen(views'[k], sensors[k], Len(capture))
    <3>1. 1..v = 1..(v - 1) \cup {v}
      BY <1>1
    <3> QED
      BY <1>4, <2>2, <2>3, <3>1
  <2>5. \A s : Seen(<<>>, s, 0)
    BY DEF Seen
  <2>6. out' \in Seq(Shots) /\ i' - 1 = 0 /\ v' - 1 = v /\ v' \in 1..(Len(sensors) + 1)
        /\ i' \in 1..(Len(capture) + 1)
    BY <1>1, <1>5, <2>1
  <2> QED
    BY <1>1, <1>2, <1>3, <2>1, <2>3, <2>4, <2>5, <2>6 DEF ProjectOK
<1> QED
  BY <1>6, <1>7, <1>8
\* Two packets of one connection go the same way or opposite ways.
LEMMA SameOrOpposite ==
  ASSUME NEW q, NEW r, Ends(q) = Ends(r)
  PROVE  \/ q.src = r.src /\ q.sport = r.sport /\ q.dst = r.dst /\ q.dport = r.dport
         \/ q.src = r.dst /\ q.sport = r.dport /\ q.dst = r.src /\ q.dport = r.sport
<1>1. \A w, x, y, z : {w, x} = {y, z} => (w = y /\ x = z) \/ (w = z /\ x = y)
  OBVIOUS
<1>2. \/ <<q.src, q.sport>> = <<r.src, r.sport>> /\ <<q.dst, q.dport>> = <<r.dst, r.dport>>
      \/ <<q.src, q.sport>> = <<r.dst, r.dport>> /\ <<q.dst, q.dport>> = <<r.src, r.sport>>
  <2> DEFINE a == <<q.src, q.sport>>
             b == <<q.dst, q.dport>>
             c == <<r.src, r.sport>>
             d == <<r.dst, r.dport>>
  <2>1. {a, b} = {c, d}
    BY Zenon DEF Ends
  <2> HIDE DEF a, b, c, d
  <2>2. (a = c /\ b = d) \/ (a = d /\ b = c)
    BY <1>1, <2>1
  <2> QED
    BY <2>2 DEF a, b, c, d
<1> QED
  BY <1>2

\* A sensor shows both or neither, and leaves them with one connection.
LEMMA ConnectionShown ==
  ASSUME NEW q, NEW r, NEW s, DOMAIN q = Fields, DOMAIN r = Fields,
         Ends(q) = Ends(r), q.ver = r.ver
  PROVE  /\ Shown(q, s) => Shown(r, s)
         /\ Ends(Projection(q, s)) = Ends(Projection(r, s))
<1>1. {q.src, q.dst} = {r.src, r.dst}
  BY SameOrOpposite
<1>2. Shown(q, s) => Shown(r, s)
  BY <1>1 DEF Shown, Foreign, Unmirrored
<1>3. Ends(Projection(q, s)) = Ends(Projection(r, s))
  <2> DEFINE Q == Projection(q, s)
             R == Projection(r, s)
  <2>1. /\ Q.sport = q.sport /\ Q.dport = q.dport
        /\ Q.src = IF q.ver = 4 THEN Natted(q.src, s) ELSE q.src
        /\ Q.dst = IF q.ver = 4 THEN Natted(q.dst, s) ELSE q.dst
        /\ R.sport = r.sport /\ R.dport = r.dport
        /\ R.src = IF r.ver = 4 THEN Natted(r.src, s) ELSE r.src
        /\ R.dst = IF r.ver = 4 THEN Natted(r.dst, s) ELSE r.dst
    BY ProjectionKeeps
  <2> HIDE DEF Q, R
  <2>2. \/ Q.src = R.src /\ Q.sport = R.sport /\ Q.dst = R.dst /\ Q.dport = R.dport
        \/ Q.src = R.dst /\ Q.sport = R.dport /\ Q.dst = R.src /\ Q.dport = R.sport
    BY <2>1, SameOrOpposite
  <2>3. Ends(Q) = Ends(R)
    <3>1. \A x, y : {x, y} = {y, x}
      OBVIOUS
    <3> QED
      BY <2>2, <3>1 DEF Ends
  <2> QED
    BY <2>3 DEF Q, R
<1> QED
  BY <1>2, <1>3

LEMMA WholeView ==
  ASSUME CaptureOK, NEW view, NEW s, Len(view) \in Nat, DOMAIN view = 1..Len(view),
         Seen(view, s, Len(capture))
  PROVE  /\ View(view, s)
         /\ \A j \in DOMAIN view :
              /\ \A m \in DOMAIN capture : Together(view[j], capture[m])
                   => \E l \in DOMAIN view : view[l].n = m
              /\ \A l \in DOMAIN view : Together(view[j], view[l])
                   => Ends(view[j]) = Ends(view[l])
<1>1. DOMAIN capture = 1..Len(capture)
  BY CaptureTypes
<1>2. View(view, s)
  BY <1>1 DEF View, Seen
<1>3. ASSUME NEW j \in DOMAIN view, NEW m \in DOMAIN capture,
             Together(view[j], capture[m])
      PROVE  \E l \in DOMAIN view : view[l].n = m
  <2>1. /\ view[j].n \in DOMAIN capture /\ Shown(capture[view[j].n], s) /\ capture[m].n = m
    BY <1>1, CaptureTypes DEF Seen
  <2>2. Ends(capture[view[j].n]) = Ends(capture[m])
    BY <1>3, <2>1 DEF Together
  <2>3. Shown(capture[m], s)
    BY <1>1, <2>1, <2>2, CaptureTypes, ConnectionShown
  <2> QED
    BY <1>1, <2>3 DEF Seen
<1>4. ASSUME NEW j \in DOMAIN view, NEW l \in DOMAIN view, Together(view[j], view[l])
      PROVE  Ends(view[j]) = Ends(view[l])
  <2>1. /\ view[j].n \in DOMAIN capture /\ view[j] = Projection(capture[view[j].n], s)
        /\ view[l].n \in DOMAIN capture /\ view[l] = Projection(capture[view[l].n], s)
    BY <1>1 DEF Seen
  <2>2. Ends(capture[view[j].n]) = Ends(capture[view[l].n])
    BY <1>4 DEF Together
  <2> DEFINE a == view[j].n
             b == view[l].n
  <2>3. Ends(Projection(capture[a], s)) = Ends(Projection(capture[b], s))
    BY <1>1, <2>1, <2>2, CaptureTypes, ConnectionShown
  <2> QED
    BY <2>1, <2>3
<1> QED
  BY <1>2, <1>3, <1>4

-----------------------------------------------------------------------------
(* Fragments.                                                              *)

\* Into how many pieces a datagram goes, what the k-th is, and which a piece is.
Count(q) == IF Oversized(q, frag) THEN (q.len + frag - 1) \div frag ELSE 1
PieceOf(q, k) == IF Oversized(q, frag) THEN Piece(q, frag, k - 1) ELSE q
Nth(b) == b.off \div frag + 1

LEMMA Units == ASSUME fragsize \in Int PROVE \E g \in Nat \ {0} : frag = 8 * g
<1>1. CASE (fragsize \div 8) * 8 < 8
  <2>1. frag = 8 * 1
    BY <1>1 DEF frag, FragSize
  <2> QED
    BY <2>1
<1>2. CASE ~((fragsize \div 8) * 8 < 8)
  <2>1. fragsize \div 8 \in Int
    OBVIOUS
  <2>2. frag = 8 * (fragsize \div 8)
    BY <1>2, <2>1 DEF frag, FragSize
  <2>3. fragsize \div 8 \in Nat \ {0}
    BY <1>2, <2>1
  <2> QED
    BY <2>2, <2>3
<1> QED
  BY <1>1, <1>2

\* A piece starts before the end of its datagram; only the last one ends there.
LEMMA Pieced ==
  ASSUME NEW len \in Nat \ {0}, NEW f \in Nat \ {0}, NEW k \in Nat
  PROVE  LET c == (len + f - 1) \div f
         IN  /\ c \in Nat \ {0} /\ (k * f < len <=> k < c)
             /\ (k * f) \div f = k
<1> DEFINE c == (len + f - 1) \div f
<1>1. c \in Int /\ c * f <= len + f - 1 /\ len + f - 1 < (c + 1) * f
  <2>1. \A x \in Nat : x \div f \in Int /\ (x \div f) * f <= x /\ x < (x \div f + 1) * f
    OBVIOUS
  <2> QED
    BY <2>1
<1> HIDE DEF c
<1>2. \A a, b \in Int : a <= b => a * f <= b * f
  <2> SUFFICES ASSUME NEW a \in Int, NEW b \in Int, a <= b PROVE a * f <= b * f
    OBVIOUS
  <2>1. (b - a) * f \in Nat /\ b * f = a * f + (b - a) * f /\ a * f \in Int /\ b * f \in Int
    OBVIOUS
  <2> QED
    BY <2>1
<1>3. (c + 1) * f = c * f + f /\ (k + 1) * f = k * f + f /\ c * f \in Int /\ k * f \in Int
  BY <1>1
<1>4. c \in Nat \ {0}
  <2> SUFFICES ASSUME c + 1 <= 1 PROVE FALSE
    BY <1>1
  <2>1. (c + 1) * f <= 1 * f
    BY <1>1, <1>2
  <2> QED
    BY <1>1, <2>1
<1>5. k < c => k * f < len
  <2> SUFFICES ASSUME k + 1 <= c PROVE k * f < len
    BY <1>4
  <2>1. (k + 1) * f <= c * f
    BY <1>1, <1>2
  <2> QED
    BY <1>1, <1>3, <2>1
<1>6. c <= k => len <= k * f
  <2> SUFFICES ASSUME c + 1 <= k + 1 PROVE len <= k * f
    BY <1>4
  <2>1. (c + 1) * f <= (k + 1) * f
    BY <1>1, <1>2
  <2> QED
    BY <1>1, <1>3, <2>1
<1>7. k * f < len <=> k < c
  BY <1>3, <1>4, <1>5, <1>6
<1>8. (k * f) \div f = k
  OBVIOUS
<1> QED
  BY <1>4, <1>7, <1>8 DEF c

LEMMA CountType ==
  ASSUME fragsize \in Int, NEW q, q.len \in Nat \ {0}
  PROVE  Count(q) \in Nat \ {0} /\ frag \in Nat \ {0}
<1>1. frag \in Nat \ {0}
  BY Units
<1> QED
  BY <1>1, Pieced DEF Count

LEMMA PieceFacts ==
  ASSUME fragsize \in Int, NEW q, q = [x \in Fields |-> q[x]], q.len \in Nat \ {0}, q.off = 0,
         q.more = FALSE, NEW k \in 1..Count(q)
  PROVE  LET b == PieceOf(q, k)
         IN  /\ DOMAIN b = Fields
             /\ b.n = q.n /\ b.src = q.src /\ b.dst = q.dst /\ b.id = q.id
             /\ b.off = (k - 1) * frag /\ Nth(b) = k
             /\ b.more = (k < Count(q))
             /\ k < Count(q) => b.len = frag
             /\ k = Count(q) => b.off + b.len = q.len
             /\ [b EXCEPT !.off = 0, !.len = q.len, !.more = FALSE] = [q EXCEPT !.df = b.df]
<1> DEFINE b == PieceOf(q, k)
<1>1. frag \in Nat \ {0} /\ Count(q) \in Nat \ {0} /\ k - 1 \in Nat /\ k \in Nat
  BY CountType
<1>2. CASE Oversized(q, frag)
  <2> DEFINE start == (k - 1) * frag
             left == q.len - start
  <2>1. start \in Nat /\ (start \div 8) * 8 = start
    <3>1. PICK g \in Nat \ {0} : frag = 8 * g
      BY Units
    <3>2. (k - 1) * g \in Nat /\ start = 8 * ((k - 1) * g)
      BY <1>1, <3>1
    <3>3. \A x \in Nat : 8 * x \in Nat /\ ((8 * x) \div 8) * 8 = 8 * x
      OBVIOUS
    <3> QED
      BY <3>2, <3>3
  <2>2. b = [q EXCEPT !.off = start, !.len = IF left < frag THEN left ELSE frag,
                      !.more = left > frag, !.df = FALSE]
    BY <1>2, <2>1 DEF PieceOf, Piece
  <2>3. /\ start \div frag = k - 1 /\ start < q.len /\ k * frag = start + frag
        /\ k * frag < q.len <=> k < Count(q)
    <3>1. Count(q) = (q.len + frag - 1) \div frag
      BY <1>2 DEF Count
    <3>2. start < q.len <=> k - 1 < Count(q)
      BY <1>1, <3>1, Pieced
    <3>3. start \div frag = k - 1
      BY <1>1, Pieced
    <3>4. k * frag < q.len <=> k < Count(q)
      BY <1>1, <3>1, Pieced
    <3>5. k * frag = (k - 1) * frag + frag
      BY <1>1
    <3> QED
      BY <1>1, <3>2, <3>3, <3>4, <3>5
  <2> HIDE DEF start
  <2>4. left \in Nat \ {0} /\ (left > frag <=> k < Count(q))
    BY <1>1, <2>1, <2>3
  <2> HIDE DEF left, b
  <2>5. /\ DOMAIN b = Fields /\ b.n = q.n /\ b.src = q.src /\ b.dst = q.dst /\ b.id = q.id
        /\ b.off = start /\ b.more = (left > frag)
        /\ b.len = IF left < frag THEN left ELSE frag
    BY <2>2 DEF Fields
  <2>6. [b EXCEPT !.off = 0, !.len = q.len, !.more = FALSE] = [q EXCEPT !.df = b.df]
    <3>1. b.df = FALSE
      BY <2>2 DEF Fields
    <3> DEFINE L == [b EXCEPT !.off = 0, !.len = q.len, !.more = FALSE]
               R == [q EXCEPT !.df = b.df]
    <3>2. DOMAIN L = Fields /\ DOMAIN R = Fields
      BY <2>5
    <3>3. \A x \in Fields : L[x] = R[x]
      BY <2>2, <2>5, <3>1 DEF Fields
    <3>4. L = [x \in Fields |-> L[x]] /\ R = [x \in Fields |-> R[x]]
      BY <3>2
    <3> HIDE DEF L, R
    <3>5. L = R
      BY <3>3, <3>4
    <3> QED
      BY <3>5 DEF L, R
  <2>7. Nth(b) = k
    BY <1>1, <2>3, <2>5 DEF Nth
  <2>8. b.more = (k < Count(q))
    BY <2>4, <2>5
  <2>9. k < Count(q) => b.len = frag
    BY <1>1, <2>4, <2>5
  <2>10. k = Count(q) => b.off + b.len = q.len
    <3> SUFFICES ASSUME k = Count(q) PROVE b.off + b.len = q.len
      OBVIOUS
    <3>1. left <= frag
      BY <1>1, <2>4
    <3>2. b.len = left
      BY <1>1, <2>4, <2>5, <3>1
    <3> QED
      BY <2>1, <2>5, <3>2 DEF left
  <2> QED
    BY <2>5, <2>6, <2>7, <2>8, <2>9, <2>10 DEF b, start
<1>3. CASE ~Oversized(q, frag)
  <2>1. b = q /\ Count(q) = 1 /\ k = 1
    BY <1>3 DEF PieceOf, Count
  <2>2. Nth(q) = 1
    <3>1. 0 \div frag = 0
      BY <1>1
    <3> QED
      BY <3>1 DEF Nth
  <2>3. [q EXCEPT !.off = 0, !.len = q.len, !.more = FALSE] = [q EXCEPT !.df = q.df]
    <3> DEFINE L == [q EXCEPT !.off = 0, !.len = q.len, !.more = FALSE]
               R == [q EXCEPT !.df = q.df]
    <3>1. DOMAIN q = Fields
      OBVIOUS
    <3>2. L = [x \in Fields |-> L[x]] /\ R = [x \in Fields |-> R[x]]
      BY <3>1
    <3>3. \A x \in Fields : L[x] = R[x]
      BY <3>1 DEF Fields
    <3> HIDE DEF L, R
    <3>4. L = R
      BY <3>2, <3>3
    <3> QED
      BY <3>4 DEF L, R
  <2>4. DOMAIN q = Fields
    OBVIOUS
  <2>5. ~q.more
    BY Zenon
  <2>6. (k - 1) * frag = 0
    <3>1. k - 1 = 0 /\ 0 * frag = 0
      BY <1>1, <2>1
    <3> QED
      BY <3>1
  <2>7. q.off + q.len = q.len /\ ~(k < Count(q))
    BY <2>1
  <2> HIDE DEF b
  <2>8. b.off = (k - 1) * frag /\ Nth(b) = k /\ b.off + b.len = q.len
    BY <2>1, <2>2, <2>6, <2>7
  <2>9. b.more = (k < Count(q))
    <3>1. (k < Count(q)) = FALSE
      BY <2>7
    <3>2. b.more = q.more
      BY <2>1
    <3> QED
      BY <3>1, <3>2, Zenon
  <2>10. [b EXCEPT !.off = 0, !.len = q.len, !.more = FALSE] = [q EXCEPT !.df = b.df]
    BY <2>1, <2>3
  <2>11. DOMAIN b = Fields /\ b.n = q.n /\ b.src = q.src /\ b.dst = q.dst /\ b.id = q.id
    BY <2>1, <2>4
  <2> QED
    BY <2>7, <2>8, <2>9, <2>10, <2>11 DEF b
<1> QED
  BY <1>2, <1>3
\* A sensor that holds the pieces of a datagram before this one.
LEMMA Reading ==
  ASSUME fragsize \in Int, NEW q, q = [x \in Fields |-> q[x]], q.len \in Nat \ {0}, q.off = 0,
         q.more = FALSE, NEW k \in 1..Count(q),
         buffer = {PieceOf(q, l) : l \in 1..(k - 1)}
  PROVE  LET b == PieceOf(q, k)
             held == SameDatagram(b) \cup {b}
         IN  /\ held = {PieceOf(q, l) : l \in 1..k} /\ buffer \ held = {}
             /\ Complete(held) <=> k = Count(q)
             /\ k = Count(q) => Assembled(held, b) = [q EXCEPT !.df = b.df]
<1> DEFINE P(l) == PieceOf(q, l)
           b == P(k)
           held == SameDatagram(b) \cup {b}
           C == Count(q)
<1>1. frag \in Nat \ {0} /\ C \in Nat \ {0} /\ k \in 1..C
  BY CountType
<1>2. \A l \in 1..C :
        /\ DOMAIN P(l) = Fields /\ P(l).n = q.n
        /\ P(l).src = q.src /\ P(l).dst = q.dst /\ P(l).id = q.id
        /\ P(l).off = (l - 1) * frag
        /\ P(l).more <=> l < C
        /\ l < C => P(l).len = frag
        /\ l = C => P(l).off + P(l).len = q.len
        /\ [P(l) EXCEPT !.off = 0, !.len = q.len, !.more = FALSE] = [q EXCEPT !.df = P(l).df]
  <2>1. \A l \in 1..C :
          /\ DOMAIN P(l) = Fields /\ P(l).n = q.n
          /\ P(l).src = q.src /\ P(l).dst = q.dst /\ P(l).id = q.id
          /\ P(l).off = (l - 1) * frag
          /\ l < C => P(l).len = frag
          /\ l = C => P(l).off + P(l).len = q.len
          /\ [P(l) EXCEPT !.off = 0, !.len = q.len, !.more = FALSE] = [q EXCEPT !.df = P(l).df]
    BY PieceFacts
  <2>2. \A l \in 1..C : P(l).more <=> l < C
    <3>1. \A l \in 1..C : P(l).more = (l < C)
      BY PieceFacts
    <3> HIDE DEF P, C
    <3> QED
      BY <3>1, Zenon
  <2> HIDE DEF P, C
  <2> QED
    BY <2>1, <2>2, Zenon
<1> HIDE DEF P, C
<1>3. buffer = {P(l) : l \in 1..(k - 1)}
  BY DEF P
<1>4. SameDatagram(b) = buffer
  <2>1. \A l \in 1..(k - 1) : l \in 1..C
    BY <1>1
  <2>2. \A l \in 1..(k - 1) : P(l).src = b.src /\ P(l).dst = b.dst /\ P(l).id = b.id
    BY <1>1, <1>2, <2>1
  <2>3. \A x \in buffer : x.src = b.src /\ x.dst = b.dst /\ x.id = b.id
    BY <1>3, <2>2
  <2> HIDE DEF b
  <2> QED
    BY <2>3 DEF SameDatagram
<1>5. held = {P(l) : l \in 1..k} /\ buffer \ held = {}
  <2>1. 1..k = 1..(k - 1) \cup {k}
    BY <1>1
  <2>2. held = buffer \cup {P(k)}
    BY <1>4
  <2> HIDE DEF held, b
  <2>3. \A x : x \in held <=> x \in {P(l) : l \in 1..k}
    BY <1>3, <2>1, <2>2
  <2>4. held = {P(l) : l \in 1..k}
    BY <2>3, SetExtensionality, Zenon
  <2> QED
    BY <2>2, <2>4
<1> HIDE DEF held, b
<1>6. \A l \in 1..k : l \in 1..C
  BY <1>1
<1>7. Complete(held) <=> k = C
  <2>1. (\E x \in held : ~x.more) <=> k = C
    <3>1. \A l \in 1..k : ~P(l).more <=> l = C
      <4>1. \A l \in 1..C : l = C <=> ~(l < C)
        BY <1>1
      <4>2. \A l \in 1..C : P(l).more <=> l < C
        BY <1>2, Zenon
      <4> QED
        BY <1>6, <4>1, <4>2, Zenon
    <3> QED
      BY <1>1, <1>5, <3>1
  <2>2. \A x \in held : x.off = 0 \/ \E c \in held : c.off + c.len = x.off
    <3> SUFFICES ASSUME NEW l \in 1..k
                 PROVE  P(l).off = 0 \/ \E c \in held : c.off + c.len = P(l).off
      BY <1>5
    <3>1. CASE l = 1
      <4>1. P(1).off = (1 - 1) * frag
        BY <1>2, <1>6, <3>1
      <4>2. (1 - 1) * frag = 0
        BY <1>1
      <4> QED
        BY <3>1, <4>1, <4>2
    <3>2. CASE l # 1
      <4>1. l - 1 \in 1..k /\ l - 1 \in 1..C /\ l - 1 < C /\ l \in 1..C
        BY <1>1, <3>2
      <4>2. /\ P(l - 1).off = ((l - 1) - 1) * frag /\ P(l - 1).len = frag
            /\ P(l).off = (l - 1) * frag
        BY <1>2, <4>1
      <4>3. ((l - 1) - 1) * frag + frag = (l - 1) * frag
        BY <1>1
      <4>4. P(l - 1).off + P(l - 1).len = P(l).off
        BY <4>2, <4>3
      <4>5. P(l - 1) \in held
        BY <1>5, <4>1
      <4> QED
        BY <4>4, <4>5
    <3> QED
      BY <3>1, <3>2
  <2> QED
    BY <2>1, <2>2 DEF Complete
<1>8. k = C => Assembled(held, b) = [q EXCEPT !.df = b.df]
  <2> SUFFICES ASSUME k = C PROVE Assembled(held, b) = [q EXCEPT !.df = b.df]
    OBVIOUS
  <2>1. \A l \in 1..k : ~P(l).more <=> l = C
    <3>1. \A l \in 1..C : l = C <=> ~(l < C)
      BY <1>1
    <3>2. \A l \in 1..C : P(l).more <=> l < C
      BY <1>2, Zenon
    <3> QED
      BY <1>6, <3>1, <3>2, Zenon
  <2> DEFINE last == CHOOSE x \in held : ~x.more
  <2>2. last = P(C)
    <3>1. \A x \in held : ~x.more => x = P(C)
      BY <1>5, <2>1
    <3>2. P(C) \in held /\ ~P(C).more
      BY <1>1, <1>5, <2>1
    <3> QED
      BY <3>1, <3>2
  <2>3. Assembled(held, b) = [b EXCEPT !.off = 0, !.len = last.off + last.len, !.more = FALSE]
    BY DEF Assembled
  <2> HIDE DEF last
  <2>4. last.off + last.len = q.len
    BY <1>1, <1>2, <2>2
  <2>5. [P(k) EXCEPT !.off = 0, !.len = q.len, !.more = FALSE] = [q EXCEPT !.df = P(k).df]
    BY <1>1, <1>2
  <2> QED
    BY <2>3, <2>4, <2>5 DEF b
<1> QED
  BY <1>5, <1>7, <1>8 DEF P, b, held, C

-----------------------------------------------------------------------------
(* The fragmented capture.                                                 *)

Frags == {PieceOf(capture[m], k) : m \in DOMAIN capture, k \in Nat}

\* After a piece comes the next one, or the first of the next datagram.
Follows(b, c) == IF Nth(b) < Count(capture[b.n]) THEN c.n = b.n /\ Nth(c) = Nth(b) + 1
                                                 ELSE c.n = b.n + 1 /\ Nth(c) = 1

IsPiece(b, n) == \E m \in 1..n : \E k \in 1..Count(capture[m]) : b = PieceOf(capture[m], k)

\* The list holds the pieces of the first n datagrams, all of them and in order.
Laid(n) ==
  /\ out \in Seq(Frags)
  /\ \A j \in 1..Len(out) : IsPiece(out[j], n)
  /\ n = 0 <=> Len(out) = 0
  /\ Len(out) # 0 => /\ out[1].n = 1 /\ Nth(out[1]) = 1
                     /\ out[Len(out)].n = n /\ Nth(out[Len(out)]) = Count(capture[n])
  /\ \A j \in 1..(Len(out) - 1) : Follows(out[j], out[j + 1])

SplitOK ==
  pc = "fragment" =>
    /\ sensors = <<>> /\ v = 1 /\ views = <<>> /\ fragsize \in FragSizes
    /\ i \in 1..(Len(capture) + 1) /\ Laid(i - 1)
    /\ buffer = {} /\ whole = <<>>

LEMMA PieceOfCapture ==
  ASSUME CaptureOK, fragsize \in FragSizes, NEW m \in 1..Len(capture),
         NEW k \in 1..Count(capture[m])
  PROVE  PieceOf(capture[m], k).n = m /\ Nth(PieceOf(capture[m], k)) = k
<1> DEFINE q == capture[m]
<1>1. fragsize \in Int
  BY ViewsAssumption
<1>2. q = [x \in Fields |-> q[x]] /\ q.off = 0 /\ q.more = FALSE /\ q.len \in Nat \ {0}
  BY Unfragmented
<1>3. q.n = m
  BY CaptureTypes
<1> HIDE DEF q
<1>4. \A l \in 1..Count(q) : PieceOf(q, l).n = q.n /\ Nth(PieceOf(q, l)) = l
  BY <1>1, <1>2, PieceFacts
<1> QED
  BY <1>3, <1>4 DEF q

LEMMA Counted ==
  ASSUME CaptureOK, fragsize \in FragSizes, NEW m \in 1..Len(capture)
  PROVE  Count(capture[m]) \in Nat \ {0}
BY Unfragmented, CountType, ViewsAssumption

\* One more datagram.
LEMMA SplitStep ==
  ASSUME CaptureOK, SplitOK, Split
  PROVE  SplitOK'
<1> DEFINE q == capture[i]
           c == Count(q)
           N == Len(out)
           new == IF Oversized(p, frag) THEN Pieces(p, frag) ELSE <<p>>
<1>1. /\ pc = "fragment" /\ pc' = pc /\ i \in 1..Len(capture) /\ i' = i + 1 /\ p = q
      /\ out' = out \o new /\ Laid(i - 1) /\ fragsize \in FragSizes
      /\ UNCHANGED <<capture, packets, sensors, fragsize, v, views, buffer, whole>>
      /\ Len(capture) \in Nat /\ DOMAIN capture = 1..Len(capture)
  BY CaptureTypes DEF SplitOK, Split, p, CaptureOK
<1>2. c \in Nat \ {0}
  BY <1>1, Counted
<1>3. new \in Seq(Frags) /\ Len(new) = c /\ \A k \in 1..c : new[k] = PieceOf(q, k)
  <2>1. new = [k \in 1..c |-> PieceOf(q, k)]
    <3>1. CASE Oversized(q, frag)
      <4>1. new = [k \in 1..c |-> Piece(q, frag, k - 1)]
        BY <1>1, <3>1 DEF Pieces, Count
      <4> QED
        BY <3>1, <4>1 DEF PieceOf
    <3>2. CASE ~Oversized(q, frag)
      <4>1. new = <<q>> /\ c = 1 /\ \A k : PieceOf(q, k) = q
        BY <1>1, <3>2 DEF Count, PieceOf
      <4> QED
        BY <4>1
    <3> QED
      BY <3>1, <3>2
  <2> HIDE DEF new, c, q
  <2>2. \A k \in 1..c : PieceOf(q, k) \in Frags
    BY <1>1 DEF Frags, q
  <2> QED
    BY <1>2, <2>1, <2>2
<1> HIDE DEF new
<1>4. /\ out \in Seq(Frags) /\ N \in Nat /\ out' \in Seq(Frags) /\ Len(out') = N + c
      /\ \A j \in 1..N : out'[j] = out[j]
      /\ \A k \in 1..c : out'[N + k] = PieceOf(q, k)
  <2>1. out \in Seq(Frags) /\ N \in Nat
    BY <1>1, LenProperties DEF Laid
  <2>2. /\ out' \in Seq(Frags) /\ Len(out') = N + c
        /\ \A j \in 1..(N + c) : out'[j] = IF j <= N THEN out[j] ELSE new[j - N]
    BY <1>1, <1>3, <2>1, ConcatProperties
  <2>3. \A k \in 1..c : N + k \in 1..(N + c) /\ ~(N + k <= N) /\ (N + k) - N = k
    BY <1>2, <2>1
  <2>4. \A j \in 1..N : j \in 1..(N + c) /\ j <= N
    BY <1>2, <2>1
  <2> HIDE DEF N, c, q
  <2> QED
    BY <1>3, <2>1, <2>2, <2>3, <2>4
<1>5. \A k \in 1..c : out'[N + k].n = i /\ Nth(out'[N + k]) = k
  <2>1. \A k \in 1..c : PieceOf(q, k).n = i /\ Nth(PieceOf(q, k)) = k
    BY <1>1, PieceOfCapture
  <2> HIDE DEF N, c, q
  <2> SUFFICES ASSUME NEW k \in 1..c PROVE out'[N + k].n = i /\ Nth(out'[N + k]) = k
    OBVIOUS
  <2>2. out'[N + k] = PieceOf(q, k)
    BY <1>4
  <2>3. PieceOf(q, k).n = i /\ Nth(PieceOf(q, k)) = k
    BY <2>1
  <2> QED
    BY <2>2, <2>3
<1> HIDE DEF N, c
<1>6. /\ Frags' = Frags
      /\ \A b : Nth(b)' = Nth(b)
      /\ \A x : Count(x)' = Count(x)
      /\ \A b, n : IsPiece(b, n)' <=> IsPiece(b, n)
      /\ \A b, x : Follows(b, x)' <=> Follows(b, x)
  BY <1>1 DEF Frags, Nth, Count, IsPiece, Follows, PieceOf, Piece, Oversized, frag
<1>7. \A j \in 1..(N + c) : IsPiece(out'[j], i)
  <2>1. \A j \in 1..N : IsPiece(out'[j], i)
    <3>1. \A j \in 1..N : IsPiece(out'[j], i - 1)
      BY <1>1, <1>4 DEF Laid, N
    <3>2. 1..(i - 1) \subseteq 1..i
      BY <1>1
    <3> QED
      BY <3>1, <3>2 DEF IsPiece
  <2>2. \A k \in 1..c : IsPiece(out'[N + k], i)
    <3> SUFFICES ASSUME NEW k \in 1..c PROVE IsPiece(out'[N + k], i)
      OBVIOUS
    <3>1. i \in 1..i /\ k \in 1..Count(capture[i])
      BY <1>1 DEF c
    <3>2. out'[N + k] = PieceOf(capture[i], k)
      BY <1>4
    <3> QED
      BY <3>1, <3>2 DEF IsPiece
  <2>3. \A j \in 1..(N + c) : j \in 1..N \/ \E k \in 1..c : j = N + k
    <3> SUFFICES ASSUME NEW j \in 1..(N + c), j \notin 1..N PROVE \E k \in 1..c : j = N + k
      OBVIOUS
    <3>1. j - N \in 1..c /\ j = N + (j - N)
      BY <1>2, <1>4
    <3> QED
      BY <3>1
  <2> QED
    BY <2>1, <2>2, <2>3
<1>8. /\ out'[1].n = 1 /\ Nth(out'[1]) = 1 /\ out'[N + c].n = i /\ Nth(out'[N + c]) = c
  <2>1. out'[N + c].n = i /\ Nth(out'[N + c]) = c
    BY <1>2, <1>5
  <2>2. CASE N = 0
    <3>1. i - 1 = 0
      BY <1>1, <2>2 DEF Laid, N
    <3>2. 1 \in 1..c /\ N + 1 = 1 /\ i = 1
      BY <1>1, <1>2, <2>2, <3>1
    <3> QED
      BY <1>5, <2>1, <3>2
  <2>3. CASE N # 0
    <3>1. 1 \in 1..N
      BY <1>4, <2>3
    <3> QED
      BY <1>1, <1>4, <2>1, <2>3, <3>1 DEF Laid, N
  <2> QED
    BY <2>2, <2>3
<1>9. \A j \in 1..(N + c - 1) : Follows(out'[j], out'[j + 1])
  <2> SUFFICES ASSUME NEW j \in 1..(N + c - 1) PROVE Follows(out'[j], out'[j + 1])
    OBVIOUS
  <2>1. CASE j < N
    <3>1. j \in 1..(N - 1) /\ j \in 1..N /\ j + 1 \in 1..N
      BY <1>4, <2>1
    <3>2. Follows(out[j], out[j + 1])
      BY <1>1, <3>1 DEF Laid, N
    <3> QED
      BY <1>4, <3>1, <3>2
  <2>2. CASE j = N
    <3>1. N # 0 /\ N \in 1..N /\ 1 \in 1..c
      BY <1>2, <1>4, <2>2
    <3>2. out'[N].n = i - 1 /\ Nth(out'[N]) = Count(capture[i - 1])
      BY <1>1, <1>4, <3>1 DEF Laid, N
    <3>3. i - 1 # 0
      BY <1>1, <3>1 DEF Laid, N
    <3>4. i - 1 \in 1..Len(capture) /\ (i - 1) + 1 = i
      BY <1>1, <3>3
    <3>5. Count(capture[i - 1]) \in Nat
      BY <1>1, <3>4, Counted
    <3>6. out'[N + 1].n = i /\ Nth(out'[N + 1]) = 1
      BY <1>5, <3>1
    <3> QED
      BY <2>2, <3>2, <3>4, <3>5, <3>6 DEF Follows
  <2>3. CASE j > N
    <3>1. j - N \in 1..c /\ (j - N) + 1 \in 1..c /\ N + (j - N) = j
          /\ N + ((j - N) + 1) = j + 1 /\ j - N < c
      BY <1>2, <1>4, <2>3
    <3>2. /\ out'[j].n = i /\ Nth(out'[j]) = j - N
          /\ out'[j + 1].n = i /\ Nth(out'[j + 1]) = (j - N) + 1
      BY <1>5, <3>1
    <3>3. Count(capture[i]) = c
      BY DEF c
    <3> QED
      BY <3>1, <3>2, <3>3 DEF Follows
  <2> QED
    BY <1>2, <1>4, <2>1, <2>2, <2>3
<1>10. SplitOK'
  <2>1. N + c # 0 /\ i # 0 /\ i' - 1 = i /\ i' \in 1..(Len(capture) + 1)
    BY <1>1, <1>2, <1>4
  <2>2. c = Count(capture[i])
    BY DEF c
  <2>3. Laid(i - 1)'
    <3>1. \A j \in 1..Len(out') : IsPiece(out[j], i - 1)'
      BY <1>4, <1>6, <1>7, <2>1
    <3>2. \A j \in 1..(Len(out') - 1) : Follows(out[j], out[j + 1])'
      <4>1. Len(out') - 1 = N + c - 1
        BY <1>2, <1>4
      <4> SUFFICES ASSUME NEW j \in 1..(N + c - 1) PROVE Follows(out[j], out[j + 1])'
        BY <4>1
      <4>2. Follows(out[j], out[j + 1])' <=> Follows(out'[j], out'[j + 1])
        BY <1>1 DEF Follows, Nth, Count, Oversized, frag
      <4> QED
        BY <1>9, <4>2
    <3>3. Nth(out[1])' = 1 /\ Nth(out[Len(out)])' = c
      <4>1. Nth(out[1])' = Nth(out'[1])
        BY <1>1 DEF Nth, Piece, frag
      <4>2. Nth(out[Len(out)])' = Nth(out'[N + c])
        BY <1>1, <1>4 DEF Nth, Piece, frag
      <4> QED
        BY <1>8, <4>1, <4>2
    <3>4. Count(capture[i - 1])' = c
      <4>1. Count(capture[i - 1])' = Count(capture'[i' - 1])
        BY <1>6
      <4>2. capture'[i' - 1] = capture[i]
        BY <1>1, <2>1
      <4> QED
        BY <2>2, <4>1, <4>2
    <3> QED
      BY <1>4, <1>6, <1>8, <2>1, <3>1, <3>2, <3>3, <3>4 DEF Laid
  <2> QED
    BY <1>1, <2>1, <2>3 DEF SplitOK
<1> QED
  BY <1>10

-----------------------------------------------------------------------------
(* Reading the fragments.                                                  *)

Whole(m, b) == [capture[m] EXCEPT !.df = b.df]
Wholes == {Whole(m, b) : m \in DOMAIN capture, b \in Frags}

\* What the sensor holds once it has read the first j fragments.
HeldOK(j) ==
  /\ whole \in Seq(Wholes)
  /\ \A k \in 1..Len(whole) : \E d : whole[k] = [capture[k] EXCEPT !.df = d]
  /\ j = 0 => buffer = {} /\ Len(whole) = 0
  /\ j # 0 =>
       LET b == out[j]
       IN  IF Nth(b) = Count(capture[b.n])
           THEN buffer = {} /\ Len(whole) = b.n
           ELSE /\ buffer = {PieceOf(capture[b.n], l) : l \in 1..Nth(b)}
                /\ Len(whole) = b.n - 1

ReadOK ==
  pc = "read" =>
    /\ sensors = <<>> /\ v = 1 /\ views = <<>> /\ fragsize \in FragSizes
    /\ Laid(Len(capture)) /\ i \in 1..(Len(out) + 1) /\ HeldOK(i - 1)

\* What the sensor holds when piece k of datagram m comes.
LEMMA BeforePiece ==
  ASSUME CaptureOK, fragsize \in FragSizes, Laid(Len(capture)), i \in 1..Len(out),
         HeldOK(i - 1)
  PROVE  \E m \in 1..Len(capture) : \E k \in 1..Count(capture[m]) :
           /\ out[i] = PieceOf(capture[m], k) /\ out[i].n = m /\ Nth(out[i]) = k
           /\ buffer = {PieceOf(capture[m], l) : l \in 1..(k - 1)}
           /\ Len(whole) = m - 1
<1>1. \A j \in 1..Len(out) : \E m \in 1..Len(capture) : \E k \in 1..Count(capture[m]) :
        out[j] = PieceOf(capture[m], k) /\ out[j].n = m /\ Nth(out[j]) = k
  BY PieceOfCapture DEF Laid, IsPiece
<1>2. PICK m \in 1..Len(capture) : \E k \in 1..Count(capture[m]) :
        out[i] = PieceOf(capture[m], k) /\ out[i].n = m /\ Nth(out[i]) = k
  BY <1>1
<1>3. PICK k \in 1..Count(capture[m]) :
        out[i] = PieceOf(capture[m], k) /\ out[i].n = m /\ Nth(out[i]) = k
  BY <1>2
<1>4. Len(capture) \in Nat /\ Len(out) \in Nat
  BY CaptureTypes, LenProperties DEF Laid
<1>5. /\ buffer = {PieceOf(capture[m], l) : l \in 1..(k - 1)}
      /\ Len(whole) = m - 1
  <2>1. CASE i = 1
    <3>1. m = 1 /\ k = 1
      BY <1>3, <1>4, <2>1 DEF Laid
    <3>2. buffer = {} /\ Len(whole) = 0
      BY <2>1 DEF HeldOK
    <3> QED
      BY <3>1, <3>2
  <2>2. CASE i # 1
    <3>1. i - 1 \in 1..Len(out) /\ i - 1 \in 1..(Len(out) - 1) /\ (i - 1) + 1 = i /\ i - 1 # 0
      BY <1>4, <2>2
    <3> DEFINE b == out[i - 1]
    <3>2. PICK m2 \in 1..Len(capture) : \E k2 \in 1..Count(capture[m2]) :
            b.n = m2 /\ Nth(b) = k2
      BY <1>1, <3>1
    <3>3. PICK k2 \in 1..Count(capture[m2]) : b.n = m2 /\ Nth(b) = k2
      BY <3>2
    <3>4. Follows(b, out[i])
      BY <3>1 DEF Laid
    <3>5. IF Nth(b) = Count(capture[b.n])
          THEN buffer = {} /\ Len(whole) = b.n
          ELSE /\ buffer = {PieceOf(capture[b.n], l) : l \in 1..Nth(b)}
               /\ Len(whole) = b.n - 1
      BY <3>1 DEF HeldOK
    <3> HIDE DEF b
    <3>6. Count(capture[m2]) \in Nat \ {0}
      BY Counted
    <3>7. CASE k2 = Count(capture[m2])
      <4>1. m = m2 + 1 /\ k = 1
        BY <1>3, <3>3, <3>4, <3>6, <3>7 DEF Follows
      <4>2. buffer = {} /\ Len(whole) = m2
        BY <3>3, <3>5, <3>7
      <4> QED
        BY <4>1, <4>2
    <3>8. CASE k2 # Count(capture[m2])
      <4>1. m = m2 /\ k = k2 + 1
        BY <1>3, <3>3, <3>4, <3>6, <3>8 DEF Follows
      <4>2. buffer = {PieceOf(capture[m2], l) : l \in 1..k2} /\ Len(whole) = m2 - 1
        BY <3>3, <3>5, <3>8
      <4>3. k - 1 = k2
        BY <3>6, <4>1
      <4> QED
        BY <4>1, <4>2, <4>3
    <3> QED
      BY <3>7, <3>8
  <2> QED
    BY <2>1, <2>2
<1> QED
  BY <1>3, <1>5

\* One more fragment.
LEMMA ReadStep ==
  ASSUME CaptureOK, ReadOK, Reassemble
  PROVE  ReadOK'
<1>1. /\ pc = "read" /\ pc' = pc /\ i' = i + 1 /\ i \in 1..Len(out)
      /\ sensors = <<>> /\ v = 1 /\ views = <<>> /\ fragsize \in FragSizes /\ fragsize \in Int
      /\ Laid(Len(capture)) /\ HeldOK(i - 1)
      /\ UNCHANGED <<capture, packets, sensors, fragsize, v, out, views>>
      /\ Len(capture) \in Nat /\ DOMAIN capture = 1..Len(capture)
  <2>1. pc = "read" /\ i <= Len(out)
    BY DEF Reassemble
  <2>2. Len(out) \in Nat
    BY <2>1, LenProperties DEF ReadOK, Laid
  <2>3. /\ i \in 1..(Len(out) + 1) /\ sensors = <<>> /\ v = 1 /\ views = <<>>
        /\ fragsize \in FragSizes /\ Laid(Len(capture)) /\ HeldOK(i - 1)
    BY <2>1 DEF ReadOK
  <2>4. /\ pc' = pc /\ i' = i + 1
        /\ UNCHANGED <<capture, packets, sensors, fragsize, v, out, views>>
    BY DEF Reassemble
  <2>5. i \in 1..Len(out)
    BY <2>1, <2>2, <2>3
  <2>6. fragsize \in Int
    BY <2>3, ViewsAssumption
  <2>7. Len(capture) \in Nat /\ DOMAIN capture = 1..Len(capture)
    BY CaptureTypes
  <2> QED
    BY <2>1, <2>3, <2>4, <2>5, <2>6, <2>7
<1>2. PICK m \in 1..Len(capture) : \E k \in 1..Count(capture[m]) :
        /\ out[i] = PieceOf(capture[m], k) /\ out[i].n = m /\ Nth(out[i]) = k
        /\ buffer = {PieceOf(capture[m], l) : l \in 1..(k - 1)}
        /\ Len(whole) = m - 1
  BY <1>1, BeforePiece
<1>3. PICK k \in 1..Count(capture[m]) :
        /\ out[i] = PieceOf(capture[m], k) /\ out[i].n = m /\ Nth(out[i]) = k
        /\ buffer = {PieceOf(capture[m], l) : l \in 1..(k - 1)}
        /\ Len(whole) = m - 1
  BY <1>2
<1> DEFINE q == out[i]
           held == SameDatagram(q) \cup {q}
           C == Count(capture[m])
<1>4. /\ held = {PieceOf(capture[m], l) : l \in 1..k} /\ buffer \ held = {}
      /\ Complete(held) <=> k = C
      /\ k = C => Assembled(held, q) = [capture[m] EXCEPT !.df = q.df]
  <2> DEFINE d == capture[m]
  <2>1. d = [x \in Fields |-> d[x]] /\ d.off = 0 /\ d.more = FALSE /\ d.len \in Nat \ {0}
    BY Unfragmented
  <2>2. k \in 1..Count(d) /\ q = PieceOf(d, k) /\ buffer = {PieceOf(d, l) : l \in 1..(k - 1)}
    BY <1>3
  <2> HIDE DEF d, q
  <2>3. LET b == PieceOf(d, k)
            h == SameDatagram(b) \cup {b}
        IN  /\ h = {PieceOf(d, l) : l \in 1..k} /\ buffer \ h = {}
            /\ Complete(h) <=> k = Count(d)
            /\ k = Count(d) => Assembled(h, b) = [d EXCEPT !.df = b.df]
    BY <1>1, <2>1, <2>2, Reading
  <2> QED
    BY <2>2, <2>3, Zenon DEF d
<1>5. IF Complete(held)
      THEN whole' = Append(whole, Assembled(held, q)) /\ buffer' = buffer \ held
      ELSE buffer' = buffer \cup {q} /\ whole' = whole
  BY DEF Reassemble
<1>6. buffer \cup {q} = held
  BY <1>4 DEF SameDatagram
<1>7. C \in Nat \ {0}
  BY <1>1, Counted
<1>8. q \in Frags /\ whole \in Seq(Wholes)
      /\ \A l \in 1..Len(whole) : \E d : whole[l] = [capture[l] EXCEPT !.df = d]
  <2>1. k \in Nat /\ m \in DOMAIN capture
    BY <1>1, <1>7
  <2>2. q \in Frags
    BY <1>3, <2>1 DEF Frags
  <2> QED
    BY <1>1, <2>2 DEF HeldOK
<1> HIDE DEF held, C
<1>9. /\ whole' \in Seq(Wholes)
      /\ \A l \in 1..Len(whole') : \E d : whole'[l] = [capture[l] EXCEPT !.df = d]
      /\ IF k = C THEN buffer' = {} /\ Len(whole') = m
                  ELSE /\ buffer' = {PieceOf(capture[m], l) : l \in 1..k}
                       /\ Len(whole') = m - 1
  <2>1. CASE k = C
    <3> DEFINE e == [capture[m] EXCEPT !.df = q.df]
    <3>1. whole' = Append(whole, e) /\ buffer' = {}
      BY <1>4, <1>5, <2>1
    <3>2. e \in Wholes
      <4>1. m \in DOMAIN capture /\ e = Whole(m, q)
        BY <1>1 DEF Whole
      <4> HIDE DEF q, e
      <4> QED
        BY <1>8, <4>1 DEF Wholes
    <3>3. \E d : e = [capture[m] EXCEPT !.df = d]
      OBVIOUS
    <3> HIDE DEF e
    <3>4. /\ whole' \in Seq(Wholes) /\ Len(whole') = Len(whole) + 1
          /\ \A l \in 1..Len(whole) : whole'[l] = whole[l]
          /\ whole'[Len(whole) + 1] = e
      BY <1>8, <3>1, <3>2, AppendProperties
    <3>5. Len(whole') = m
      BY <1>3, <3>4
    <3>6. ASSUME NEW l \in 1..m PROVE \E d : whole'[l] = [capture[l] EXCEPT !.df = d]
      <4>1. CASE l = m
        <5>1. whole'[l] = e
          BY <1>3, <3>4, <4>1
        <5> QED
          BY <3>3, <4>1, <5>1
      <4>2. CASE l # m
        <5>1. l \in 1..Len(whole)
          BY <1>3, <4>2
        <5> QED
          BY <1>8, <3>4, <5>1
      <4> QED
        BY <4>1, <4>2
    <3> QED
      BY <2>1, <3>1, <3>4, <3>5, <3>6
  <2>2. CASE k # C
    <3>1. buffer' = held /\ whole' = whole
      BY <1>4, <1>5, <1>6, <2>2
    <3> QED
      BY <1>3, <1>4, <1>8, <2>2, <3>1
  <2> QED
    BY <2>1, <2>2
<1>10. Laid(Len(capture))'
  <2>1. /\ Frags' = Frags
        /\ \A j, n : IsPiece(out[j], n)' <=> IsPiece(out[j], n)
        /\ \A j : Follows(out[j], out[j + 1])' <=> Follows(out[j], out[j + 1])
        /\ \A j : Nth(out[j])' = Nth(out[j])
        /\ Count(capture[Len(capture)])' = Count(capture[Len(capture)])
    BY <1>1 DEF Frags, IsPiece, Follows, PieceOf, Piece, Nth, Count, Oversized, frag
  <2> QED
    BY <1>1, <2>1 DEF Laid
<1>11. HeldOK(i - 1)'
  <2>1. Wholes' = Wholes
    BY <1>1 DEF Wholes, Whole, Frags, PieceOf, Piece, Oversized, frag
  <2>2. (i - 1)' = i /\ i # 0
    BY <1>1
  <2> QED
    <3>1. whole' \in Seq(Wholes')
      BY <1>9, <2>1
    <3>2. \A l \in 1..Len(whole') : \E d : whole'[l] = [capture'[l] EXCEPT !.df = d]
      BY <1>1, <1>9
    <3>3. (LET b == out[i - 1]
           IN  IF Nth(b) = Count(capture[b.n])
               THEN buffer = {} /\ Len(whole) = b.n
               ELSE /\ buffer = {PieceOf(capture[b.n], l) : l \in 1..Nth(b)}
                    /\ Len(whole) = b.n - 1)'
      <4>1. (i - 1)' = i
        BY <2>2
      <4>2. out'[i' - 1] = q
        BY <1>1, <4>1
      <4>3. Nth(out[i - 1])' = k
        BY <1>1, <1>3, <4>2 DEF Nth, frag
      <4>4. Count(capture[out[i - 1].n])' = C
        BY <1>1, <1>3, <4>2 DEF Count, Oversized, frag, C
      <4>5. {PieceOf(capture[out[i - 1].n], l) : l \in 1..Nth(out[i - 1])}'
            = {PieceOf(capture[m], l) : l \in 1..k}
        <5>1. out'[i' - 1].n = m
          BY <1>3, <4>2
        <5>2. \A l : PieceOf(capture[out[i - 1].n], l)' = PieceOf(capture[m], l)
          BY <1>1, <5>1 DEF PieceOf, Piece, Oversized, frag
        <5> HIDE DEF q
        <5> QED
          BY <4>3, <5>2, Zenon
      <4>6. out'[i' - 1].n = m
        BY <1>3, <4>2
      <4> QED
        BY <1>9, <4>3, <4>4, <4>5, <4>6
    <3> QED
      BY <2>2, <3>1, <3>2, <3>3 DEF HeldOK
<1>12. i' \in 1..(Len(out') + 1)
  <2>1. Len(out) \in Nat
    BY <1>1, LenProperties DEF Laid
  <2> QED
    BY <1>1, <2>1
<1> QED
  BY <1>1, <1>10, <1>11, <1>12 DEF ReadOK

-----------------------------------------------------------------------------
(* The invariant.                                                          *)

IInv == /\ pc \in {"project", "fragment", "read"}
        /\ CaptureOK /\ ProjectOK /\ SplitOK /\ ReadOK

LEMMA Initially == Init => IInv
<1> SUFFICES ASSUME Init PROVE IInv
  OBVIOUS
<1>1. CaptureOK
  BY DEF Init, CaptureOK
<1>2. Len(capture) \in Nat
  BY <1>1, CaptureTypes
<1>3. i = 1 /\ v = 1 /\ out = <<>> /\ views = <<>> /\ buffer = {} /\ whole = <<>>
  BY DEF Init
<1>4. CASE pc = "project" /\ sensors \in Sensors
  <2>1. Len(sensors) \in Nat
    BY <1>4, ViewsAssumption
  <2>2. Len(out) = 0 /\ i - 1 = 0 /\ v - 1 = 0 /\ Len(views) = 0
    BY <1>3
  <2>3. Seen(out, sensors[v], i - 1)
    BY <2>2 DEF Seen
  <2>4. ProjectOK
    BY <1>2, <1>3, <1>4, <2>1, <2>2, <2>3 DEF ProjectOK
  <2> QED
    BY <1>1, <1>4, <2>4 DEF IInv, SplitOK, ReadOK
<1>5. CASE pc = "fragment" /\ sensors = <<>> /\ fragsize \in FragSizes
  <2>1. Len(out) = 0 /\ i - 1 = 0 /\ out \in Seq(Frags)
    BY <1>3
  <2>2. Laid(i - 1)
    BY <2>1 DEF Laid
  <2>3. SplitOK
    BY <1>2, <1>3, <1>5, <2>2 DEF SplitOK
  <2> QED
    BY <1>1, <1>5, <2>3 DEF IInv, ProjectOK, ReadOK
<1> QED
  BY <1>4, <1>5 DEF Init

\* Every packet is split: the sensor starts on the first fragment.
LEMMA WrittenStep ==
  ASSUME CaptureOK, SplitOK, Written
  PROVE  ReadOK'
<1>1. /\ pc = "fragment" /\ i' = 1
      /\ UNCHANGED <<capture, packets, sensors, fragsize, v, out, views, buffer, whole>>
      /\ i > Len(packets)
  BY DEF Written
<1>2. Len(capture) \in Nat /\ packets = capture
  BY CaptureTypes DEF CaptureOK
<1>3. /\ sensors = <<>> /\ v = 1 /\ views = <<>> /\ fragsize \in FragSizes
      /\ i \in 1..(Len(capture) + 1) /\ Laid(i - 1) /\ buffer = {} /\ whole = <<>>
  BY <1>1 DEF SplitOK
<1>4. i - 1 = Len(capture)
  BY <1>1, <1>2, <1>3
<1>5. Laid(Len(capture))'
  <2>1. /\ Frags' = Frags
        /\ \A j, n : IsPiece(out[j], n)' <=> IsPiece(out[j], n)
        /\ \A j : Follows(out[j], out[j + 1])' <=> Follows(out[j], out[j + 1])
        /\ \A j : Nth(out[j])' = Nth(out[j])
        /\ Count(capture[Len(capture)])' = Count(capture[Len(capture)])
    BY <1>1 DEF Frags, IsPiece, Follows, PieceOf, Piece, Nth, Count, Oversized, frag
  <2> QED
    BY <1>1, <1>3, <1>4, <2>1 DEF Laid
<1>6. HeldOK(i - 1)'
  <2>1. (i - 1)' = 0 /\ buffer' = {} /\ whole' = <<>>
    BY <1>1, <1>3
  <2> QED
    BY <2>1 DEF HeldOK
<1>7. i' \in 1..(Len(out') + 1)
  <2>1. Len(out') \in Nat
    BY <1>1, <1>3, LenProperties DEF Laid
  <2> QED
    BY <1>1, <2>1
<1> QED
  BY <1>1, <1>3, <1>5, <1>6, <1>7 DEF ReadOK

LEMMA Steps == IInv /\ [Next]_vars => IInv'
<1> SUFFICES ASSUME IInv, [Next]_vars PROVE IInv'
  OBVIOUS
<1> USE DEF IInv
<1>1. CASE Skip \/ Show \/ NextVantage
  <2>1. CaptureOK' /\ ProjectOK'
    BY <1>1, ProjectStep
  <2>2. pc' = "project"
    BY <1>1 DEF Skip, Show, NextVantage, Projecting
  <2> QED
    BY <2>1, <2>2 DEF SplitOK, ReadOK
<1>2. CASE Split
  <2>1. SplitOK'
    BY <1>2, SplitStep
  <2>2. pc' = "fragment" /\ CaptureOK'
    BY <1>2 DEF Split, CaptureOK
  <2> QED
    BY <2>1, <2>2 DEF ProjectOK, ReadOK
<1>3. CASE Written
  <2>1. ReadOK'
    BY <1>3, WrittenStep
  <2>2. pc' = "read" /\ CaptureOK'
    BY <1>3 DEF Written, CaptureOK
  <2> QED
    BY <2>1, <2>2 DEF ProjectOK, SplitOK
<1>4. CASE Reassemble
  <2>1. ReadOK'
    BY <1>4, ReadStep
  <2>2. pc' = "read" /\ CaptureOK'
    BY <1>4 DEF Reassemble, CaptureOK
  <2> QED
    BY <2>1, <2>2 DEF ProjectOK, SplitOK
<1>5. CASE UNCHANGED vars
  <2>0. UNCHANGED <<capture, packets, sensors, fragsize, pc, v, i, out, views, buffer, whole>>
    BY <1>5 DEF vars
  <2>1. CaptureOK'
    BY <2>0 DEF CaptureOK
  <2>2. ProjectOK'
    <3>1. Shots' = Shots /\ \A view, s, n : Seen(view, s, n)' <=> Seen(view, s, n)
      BY <2>0 DEF Shots, Seen
    <3> QED
      BY <2>0, <3>1 DEF ProjectOK
  <2>5. /\ Frags' = Frags
        /\ \A j, n : IsPiece(out[j], n)' <=> IsPiece(out[j], n)
        /\ \A j : Follows(out[j], out[j + 1])' <=> Follows(out[j], out[j + 1])
        /\ \A j : Nth(out[j])' = Nth(out[j])
        /\ \A m : Count(capture[m])' = Count(capture[m])
        /\ \A m, l : PieceOf(capture[m], l)' = PieceOf(capture[m], l)
    BY <2>0 DEF Frags, IsPiece, Follows, PieceOf, Piece, Nth, Count, Oversized, frag
  <2>3. SplitOK'
    <3>1. Laid(i - 1)' <=> Laid(i - 1)
      BY <2>0, <2>5 DEF Laid
    <3> QED
      BY <2>0, <3>1 DEF SplitOK
  <2>4. ReadOK'
    <3>1. Laid(Len(capture))' <=> Laid(Len(capture))
      BY <2>0, <2>5 DEF Laid
    <3>2. Wholes' = Wholes
      BY <2>0, <2>5 DEF Wholes, Whole
    <3>3. HeldOK(i - 1)' <=> HeldOK(i - 1)
      <4> DEFINE n == out[i - 1].n
                 k == Nth(out[i - 1])
                 H(c, S) == IF k = c THEN buffer = {} /\ Len(whole) = n
                                     ELSE buffer = S /\ Len(whole) = n - 1
                 S == {PieceOf(capture[n], l) : l \in 1..k}
      <4>1. HeldOK(i - 1) <=>
              /\ whole \in Seq(Wholes)
              /\ \A j \in 1..Len(whole) : \E d : whole[j] = [capture[j] EXCEPT !.df = d]
              /\ i - 1 = 0 => buffer = {} /\ Len(whole) = 0
              /\ i - 1 # 0 => H(Count(capture[n]), S)
        BY DEF HeldOK
      <4>2. HeldOK(i - 1)' <=>
              /\ whole' \in Seq(Wholes')
              /\ \A j \in 1..Len(whole') : \E d : whole'[j] = [capture'[j] EXCEPT !.df = d]
              /\ i' - 1 = 0 => buffer' = {} /\ Len(whole') = 0
              /\ i' - 1 # 0 => H(Count(capture[n]), S)'
        BY DEF HeldOK
      <4>3. n' = n /\ k' = k
        BY <2>0, <2>5
      <4>4. S' = S
        <5>1. \A l : PieceOf(capture[n], l)' = PieceOf(capture[n], l)
          BY <2>0, <4>3 DEF PieceOf, Piece, Oversized, frag
        <5> HIDE DEF n, k
        <5> QED
          BY <4>3, <5>1, Zenon
      <4>5. Count(capture[n])' = Count(capture[n])
        BY <2>5, <4>3
      <4>6. H(Count(capture[n]), S)' <=> H(Count(capture[n]), S)
        BY <2>0, <4>3, <4>4, <4>5
      <4> HIDE DEF H
      <4> QED
        BY <2>0, <3>2, <4>1, <4>2, <4>6
    <3> QED
      BY <2>0, <3>1, <3>3 DEF ReadOK
  <2> QED
    BY <2>0, <2>1, <2>2, <2>3, <2>4
<1> QED
  BY <1>1, <1>2, <1>3, <1>4, <1>5 DEF Next

LEMMA Invariance == Spec => []IInv
BY Initially, Steps, PTL DEF Spec

\* A finished view, or none.
LEMMA Finished ==
  ASSUME IInv, NEW k \in DOMAIN views
  PROVE  /\ Len(views[k]) \in Nat /\ DOMAIN views[k] = 1..Len(views[k])
         /\ Seen(views[k], sensors[k], Len(capture))
<1>1. pc = "project"
  BY DEF IInv, SplitOK, ReadOK
<1>2. v \in 1..(Len(sensors) + 1) /\ views \in Seq(Seq(Shots)) /\ Len(views) = v - 1
      /\ \A j \in 1..(v - 1) : Seen(views[j], sensors[j], Len(capture))
  BY <1>1 DEF IInv, ProjectOK
<1>3. k \in 1..(v - 1) /\ views[k] \in Seq(Shots)
  BY <1>2
<1> QED
  BY <1>2, <1>3, LenProperties

-----------------------------------------------------------------------------
(* The theorems.                                                           *)

\* What a sensor shows depends on the capture and on that sensor alone: the copy
\* each projection works on (vantage.py) keeps the next sensor's packets clean.
THEOREM Pure == Spec => []ViewsArePure
<1>1. ASSUME IInv PROVE ViewsArePure
  <2> SUFFICES ASSUME NEW k \in DOMAIN views PROVE View(views[k], sensors[k])
    BY DEF ViewsArePure
  <2>1. /\ Len(views[k]) \in Nat /\ DOMAIN views[k] = 1..Len(views[k])
        /\ Seen(views[k], sensors[k], Len(capture))
    BY <1>1, Finished
  <2> QED
    BY <1>1, <2>1, WholeView DEF IInv
<1> QED
  BY <1>1, Invariance, PTL

\* A sensor shows both directions of a connection or neither, under one pair of
\* endpoints, whatever it sees, translates, tags or strips (vantage.py).
THEOREM WholeConnections == Spec => []ConnectionsStayWhole
<1>1. ASSUME IInv PROVE ConnectionsStayWhole
  <2> SUFFICES ASSUME NEW k \in DOMAIN views, NEW j \in DOMAIN views[k]
               PROVE  LET q == views[k][j]
                      IN  /\ \A m \in DOMAIN capture : Together(q, capture[m])
                               => \E l \in DOMAIN views[k] : views[k][l].n = m
                          /\ \A l \in DOMAIN views[k] : Together(q, views[k][l])
                               => Ends(q) = Ends(views[k][l])
    BY DEF ConnectionsStayWhole
  <2>1. /\ Len(views[k]) \in Nat /\ DOMAIN views[k] = 1..Len(views[k])
        /\ Seen(views[k], sensors[k], Len(capture))
    BY <1>1, Finished
  <2>2. CaptureOK
    BY <1>1 DEF IInv
  <2> QED
    BY <2>1, <2>2, WholeView
<1> QED
  BY <1>1, Invariance, PTL

\* A capture fragmented at any size (fragment.py) is put together again by a sensor
\* that reads it in order, each datagram once, whatever ids the datagrams share.
THEOREM Reassembly == Spec => []Reassembles
<1>1. ASSUME IInv PROVE Reassembles
  <2> SUFFICES ASSUME pc = "read", i > Len(out)
               PROVE  /\ buffer = {} /\ Len(whole) = Len(capture)
                      /\ \A k \in DOMAIN whole :
                           whole[k] = [capture[k] EXCEPT !.df = whole[k].df]
    BY DEF Reassembles
  <2>1. /\ Laid(Len(capture)) /\ i \in 1..(Len(out) + 1) /\ HeldOK(i - 1)
        /\ fragsize \in FragSizes /\ CaptureOK
    BY <1>1 DEF IInv, ReadOK
  <2>2. Len(out) \in Nat /\ Len(capture) \in Nat
    BY <2>1, CaptureTypes, LenProperties DEF Laid
  <2>3. i - 1 = Len(out)
    BY <2>1, <2>2
  <2>4. buffer = {} /\ Len(whole) = Len(capture)
    <3>1. CASE Len(out) = 0
      BY <2>1, <2>3, <3>1 DEF Laid, HeldOK
    <3>2. CASE Len(out) # 0
      BY <2>1, <2>3, <3>2 DEF Laid, HeldOK
    <3> QED
      BY <3>1, <3>2
  <2>5. whole \in Seq(Wholes) /\ \A k \in 1..Len(whole) : \E d : whole[k] = [capture[k] EXCEPT !.df = d]
    BY <2>1 DEF HeldOK
  <2>6. ASSUME NEW k \in DOMAIN whole
        PROVE  whole[k] = [capture[k] EXCEPT !.df = whole[k].df]
    <3>1. k \in 1..Len(whole) /\ k \in 1..Len(capture)
      BY <2>4, <2>5
    <3>2. DOMAIN capture[k] = Fields
      BY <2>1, <3>1, CaptureTypes
    <3>3. PICK d : whole[k] = [capture[k] EXCEPT !.df = d]
      BY <2>5, <3>1
    <3>4. whole[k].df = d
      BY <3>2, <3>3 DEF Fields
    <3> QED
      BY <3>3, <3>4
  <2> QED
    BY <2>4, <2>6
<1> QED
  BY <1>1, Invariance, PTL

\* The loops of render_vantages and fragment_packets stay inside their lists, and
\* the list being built holds packets the loop has passed, no others.
THEOREM TypeCorrect == Spec => []TypeOK
<1>1. ASSUME IInv PROVE TypeOK
  <2>1. CaptureOK /\ Len(capture) \in Nat /\ packets = capture
        /\ \A k \in DOMAIN capture : capture[k].n = k
    BY <1>1, CaptureTypes DEF IInv, CaptureOK
  <2>2. CASE pc = "project"
    <3>1. /\ sensors \in Sensors /\ v \in 1..(Len(sensors) + 1) /\ Len(views) = v - 1
          /\ i \in 1..(Len(capture) + 1) /\ out \in Seq(Shots)
          /\ v <= Len(sensors) => Seen(out, sensors[v], i - 1)
          /\ v > Len(sensors) => out = <<>>
      BY <1>1, <2>2 DEF IInv, ProjectOK
    <3>2. Len(sensors) \in Nat
      BY <3>1, ViewsAssumption
    <3>3. \A k \in DOMAIN out : out[k].n < i
      <4>1. CASE v <= Len(sensors)
        BY <2>1, <3>1, <4>1 DEF Seen
      <4>2. CASE v > Len(sensors)
        BY <3>1, <4>2
      <4> QED
        BY <3>1, <3>2, <4>1, <4>2
    <3> QED
      BY <2>1, <2>2, <3>1, <3>2, <3>3 DEF TypeOK
  <2>3. CASE pc = "fragment"
    <3>1. /\ sensors = <<>> /\ v = 1 /\ views = <<>> /\ i \in 1..(Len(capture) + 1)
          /\ Laid(i - 1) /\ fragsize \in FragSizes
      BY <1>1, <2>3 DEF IInv, SplitOK
    <3>2. \A k \in DOMAIN out : out[k].n < i
      <4> SUFFICES ASSUME NEW k \in 1..Len(out) PROVE out[k].n < i
        BY <3>1 DEF Laid
      <4>1. PICK m \in 1..(i - 1) : \E l \in 1..Count(capture[m]) : out[k] = PieceOf(capture[m], l)
        BY <3>1 DEF Laid, IsPiece
      <4>2. m \in 1..Len(capture)
        BY <2>1, <3>1
      <4>3. out[k].n = m
        BY <2>1, <3>1, <4>1, <4>2, PieceOfCapture
      <4> QED
        BY <3>1, <4>3
    <3>3. Len(sensors) = 0 /\ Len(views) = 0
      BY <3>1
    <3> QED
      BY <2>1, <2>3, <3>1, <3>2, <3>3 DEF TypeOK
  <2>4. CASE pc = "read"
    <3>1. sensors = <<>> /\ v = 1 /\ views = <<>> /\ i \in 1..(Len(out) + 1)
      BY <1>1, <2>4 DEF IInv, ReadOK
    <3>2. Len(sensors) = 0 /\ Len(views) = 0 /\ i >= 1
      BY <3>1
    <3> QED
      BY <2>1, <2>4, <3>1, <3>2 DEF TypeOK
  <2> QED
    BY <1>1, <2>2, <2>3, <2>4 DEF IInv
<1> QED
  BY <1>1, Invariance, PTL
=============================================================================
